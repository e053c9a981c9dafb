------------------------- MODULE ObjectStoreProofs -------------------------
(***************************************************************************)
(* Proofs about ObjectStore, for every set of nodes, requests and keys,    *)
(* every table of peers, every naming of files and every bound on faults   *)
(* and crashes.                                                            *)
(***************************************************************************)
EXTENDS ObjectStore, TLAPS

-----------------------------------------------------------------------------
(* Types *)

\* A handler and the place it is at: requests under way have a node and a key,
\* and the shard that is next exists.
GoodOp(s) ==
    /\ s \in OpState
    /\ s.pc # "idle" => s.node \in Node /\ s.key \in Key
    /\ s.pc \in {"open", "fill"} => s.i < DataShards(s.policy)
    /\ s.pc = "lookup" => s.i = 0
    /\ s.pc \in {"collect", "send", "await", "read"} => s.i < DataShards(s.expect.policy)
    /\ s.pc = "await" => s.peer \in Node

OpsGood == /\ op \in [Op -> OpState]
           /\ \A o \in Op : GoodOp(op[o])

\* The request that a transfer belongs to has a key.
XfersKeyed == \A x \in xfers : op[x.op].key \in Key

TypeInv == TypeOK /\ OpsGood /\ XfersKeyed

\* A policy has data shards, and no more than WarmShards.
LEMMA ShardCount ==
  ASSUME NEW p \in Policy
  PROVE  DataShards(p) \in 1..WarmShards
BY ConstantsAssumption DEF DataShards, Policy, ConstantsAssumption

\* The next shard of a handler that writes, reads or sends one.
LEMMA NextShard ==
  ASSUME NEW p \in Policy, NEW i \in 0..WarmShards, i < DataShards(p)
  PROVE  i \in Shard /\ i + 1 \in 0..WarmShards /\ (i + 1 # DataShards(p) => i + 1 < DataShards(p))
BY ShardCount, ConstantsAssumption DEF Shard, ConstantsAssumption

\* The empty contents and entries are contents and entries.
LEMMA Empties ==
  /\ Missing \in Content /\ Torn \in Content /\ NoMeta \in Meta
  /\ NothingRead \in [Shard -> Content]
BY DEF Missing, Torn, Content, Value, Policy, NoMeta, Meta, NothingRead

\* An idle handler is a handler.
LEMMA IdleGood == GoodOp(Idle)
<1>1. 0 \in 0..WarmShards
  BY ConstantsAssumption DEF ConstantsAssumption
<1> QED BY <1>1, Empties DEF GoodOp, Idle, OpState, Policy, Value

\* One handler moves on, the others stay.
LEMMA OpMoves ==
  ASSUME OpsGood, NEW o \in Op, NEW s, GoodOp(s), op' = [op EXCEPT ![o] = s],
         XfersKeyed, \A x \in xfers' : x.op \in Op /\ (x \in xfers \/ op'[x.op].key \in Key),
         s.key \in Key
  PROVE  OpsGood' /\ XfersKeyed' /\ op'[o] = s /\ \A q \in Op \ {o} : op'[q] = op[q]
<1>1. \A q \in Op : op'[q] = IF q = o THEN s ELSE op[q]
  BY DEF OpsGood
<1>2. OpsGood'
  BY <1>1 DEF OpsGood, GoodOp
<1> QED BY <1>1, <1>2 DEF XfersKeyed

\* A request that comes to a handler, whatever it is.
LEMMA BeginGood ==
  ASSUME NEW n \in Node, NEW k \in Key, NEW p \in Policy,
         NEW kind \in {"put", "get", "delete"}, NEW m \in Meta
  PROVE  /\ GoodOp([Idle EXCEPT !.kind = kind, !.node = n, !.key = k,
                                !.policy = p, !.pc = "get_db"])
         /\ GoodOp([Idle EXCEPT !.pc = "open", !.kind = "put", !.node = n,
                                !.key = k, !.policy = p])
         /\ \A c \in {"done", "read"} :
              GoodOp([Idle EXCEPT !.kind = "get", !.node = n, !.key = k, !.expect = m, !.pc = c])
         /\ GoodOp([Idle EXCEPT !.kind = "delete", !.node = n, !.key = k,
                                !.ok = TRUE, !.pc = "done"])
<1>1. 0 \in 0..WarmShards /\ 0 < DataShards(p) /\ m.policy \in Policy /\ 0 < DataShards(m.policy)
  BY ShardCount, ConstantsAssumption DEF ConstantsAssumption, Meta
<1> QED BY <1>1, Empties DEF GoodOp, Idle, OpState, Policy, Value

\* Every access to the index leaves a handle that is closed, open or being opened.
LEMMA HandleType ==
  ASSUME handle \in [Node -> {Closed, Open} \cup Accessor], raced \in BOOLEAN,
         NEW n \in Node, NEW who \in Accessor,
         \/ BeginOpen(n, who) \/ Access(n, who) \/ AccessFails(n, who)
         \/ UNCHANGED <<handle, raced>>
  PROVE  handle' \in [Node -> {Closed, Open} \cup Accessor] /\ raced' \in BOOLEAN
BY DEF BeginOpen, Access, AccessFails

\* The callers and receivers are accessors.
LEMMA Accessors ==
  /\ \A o \in Op : Caller(o) \in Accessor
  /\ \A x \in Transfer : Receiver(x) \in Accessor
<1>1. WarmShards \in 0..WarmShards /\ Shard \subseteq 0..WarmShards
  BY ConstantsAssumption DEF ConstantsAssumption, Shard
<1> QED BY <1>1 DEF Caller, Receiver, Accessor, Transfer

\* A request comes.
LEMMA TypeRequest ==
  ASSUME TypeInv, NEW o \in Op, Request(o)
  PROVE  TypeInv'
<1>0. TypeOK /\ OpsGood /\ XfersKeyed /\ \A x \in xfers : x.op \in Op
  BY DEF TypeInv, TypeOK, Transfer
<1>1. PICK n \in Frontends, k \in Key :
        \/ \E policy \in Policies : BeginPut(o, n, k, policy)
        \/ BeginGet(o, n, k)
        \/ Delete(o, n, k)
        \/ \E kind \in {"get", "delete"} : OpensIndex(o, n, k, kind, "hot")
        \/ \E policy \in Policies : OpensIndex(o, n, k, "put", policy)
  BY DEF Request
<1>2. n \in Node /\ Policies \subseteq Policy /\ "hot" \in Policy /\ Caller(o) \in Accessor
  BY Accessors, ConstantsAssumption DEF ConstantsAssumption, Policy
<1>3. index[n][k] \in Meta
  BY <1>0, <1>2 DEF TypeOK
<1>4. PICK s : op' = [op EXCEPT ![o] = s] /\ GoodOp(s) /\ s.key = k
  <2>1. ASSUME NEW policy \in Policies, BeginPut(o, n, k, policy)
        PROVE  \E s : op' = [op EXCEPT ![o] = s] /\ GoodOp(s) /\ s.key = k
    <3> DEFINE t == [Idle EXCEPT !.pc = "open", !.kind = "put", !.node = n,
                                 !.key = k, !.policy = policy]
    <3>1. GoodOp(t) /\ t.key = k
      <4>1. GoodOp(t)
        BY <1>2, <1>3, BeginGood
      <4> QED BY <4>1 DEF Idle
    <3> QED BY <2>1, <3>1 DEF BeginPut
  <2>2. CASE BeginGet(o, n, k)
    <3> DEFINE c == IF index[n][k].etag = Nil THEN "done" ELSE "read"
               t == [Idle EXCEPT !.kind = "get", !.node = n, !.key = k,
                                 !.expect = index[n][k], !.pc = c]
    <3>0. op' = [op EXCEPT ![o] = t] /\ c \in {"done", "read"}
      BY <2>2 DEF BeginGet
    <3> HIDE DEF c
    <3>1. GoodOp(t) /\ t.key = k
      <4>1. GoodOp(t)
        BY <1>2, <1>3, <3>0, BeginGood
      <4> QED BY <4>1 DEF Idle
    <3> QED BY <3>0, <3>1
  <2>3. CASE Delete(o, n, k)
    <3> DEFINE t == [Idle EXCEPT !.kind = "delete", !.node = n, !.key = k,
                                 !.ok = TRUE, !.pc = "done"]
    <3>1. GoodOp(t) /\ t.key = k
      <4>1. GoodOp(t)
        BY <1>2, <1>3, BeginGood
      <4> QED BY <4>1 DEF Idle
    <3> QED BY <2>3, <3>1 DEF Delete
  <2>4. ASSUME NEW kind \in {"put", "get", "delete"}, NEW policy \in Policy,
               OpensIndex(o, n, k, kind, policy)
        PROVE  \E s : op' = [op EXCEPT ![o] = s] /\ GoodOp(s) /\ s.key = k
    <3> DEFINE t == [Idle EXCEPT !.kind = kind, !.node = n, !.key = k,
                                 !.policy = policy, !.pc = "get_db"]
    <3>1. GoodOp(t) /\ t.key = k
      <4>1. GoodOp(t)
        BY <1>2, <1>3, BeginGood
      <4> QED BY <4>1 DEF Idle
    <3> QED BY <2>4, <3>1 DEF OpensIndex
  <2> QED BY <1>1, <1>2, <2>1, <2>2, <2>3, <2>4
<1>5. /\ UNCHANGED <<durable, files, xfers, faults, crashes, spoiled>>
      /\ \/ BeginOpen(n, Caller(o)) \/ Access(n, Caller(o)) \/ AccessFails(n, Caller(o))
      /\ index' = index \/ index' = [index EXCEPT ![n][k] = NoMeta]
  BY <1>1 DEF BeginPut, BeginGet, Delete, OpensIndex, Served, BeginOpen
<1>6. OpsGood' /\ XfersKeyed'
  BY <1>0, <1>4, <1>5, OpMoves
<1>7. handle' \in [Node -> {Closed, Open} \cup Accessor] /\ raced' \in BOOLEAN
  BY <1>0, <1>2, <1>5, HandleType DEF TypeOK
<1>8. index' \in [Node -> [Key -> Meta]]
  <2>1. index \in [Node -> [Key -> Meta]] /\ NoMeta \in Meta
    BY <1>0, Empties DEF TypeOK
  <2>2. CASE index' = [index EXCEPT ![n][k] = NoMeta]
    BY <1>2, <2>1, <2>2
  <2> QED BY <1>5, <2>1, <2>2
<1> QED BY <1>0, <1>5, <1>6, <1>7, <1>8 DEF TypeInv, TypeOK, OpsGood

\* What follows a transfer.
LEMMA AfterGood ==
  ASSUME NEW s, GoodOp(s), s.pc \in {"send", "await"}, NEW p \in Node
  PROVE  GoodOp(After(s, p)) /\ After(s, p).key = s.key
<1>1. s \in OpState /\ s.node \in Node /\ s.key \in Key /\ s.i < DataShards(s.expect.policy)
  BY DEF GoodOp
<1>2. s.i \in 0..WarmShards /\ s.expect.policy \in Policy /\ s.peers \subseteq Node
  BY <1>1 DEF OpState, Meta
<1>3. /\ s.i + 1 \in 0..WarmShards /\ 0 \in 0..WarmShards /\ 0 < DataShards(s.expect.policy)
      /\ s.i + 1 # DataShards(s.expect.policy) => s.i + 1 < DataShards(s.expect.policy)
  BY <1>1, <1>2, NextShard, ShardCount, ConstantsAssumption DEF ConstantsAssumption
<1>4. s.peers \ {p} \in SUBSET Node
  BY <1>2
<1> QED BY <1>1, <1>2, <1>3, <1>4 DEF After, GoodOp, OpState

\* A handler or its fan-out goes on.
LEMMA TypeHandler ==
  ASSUME TypeInv, NEW o \in Op, Handler(o) \/ TransferFault(o) \/ StorageError(o)
  PROVE  TypeInv'
<1> DEFINE s == op[o]
<1>0. /\ TypeOK /\ OpsGood /\ XfersKeyed /\ \A x \in xfers : x.op \in Op
      /\ GoodOp(s) /\ s \in OpState
  BY DEF TypeInv, TypeOK, Transfer, OpsGood
<1>1. s.pc # "idle"
  BY DEF Handler, TransferFault, StorageError, OpenShard, FillShard, PutIndex, PutIndexFails,
         CollectIndex, CollectShard, SendShard, TransferDone, ReadShard, GetHeader
<1>2. s.node \in Node /\ s.key \in Key /\ File(o) \in FileName /\ Caller(o) \in Accessor
  BY <1>0, <1>1, Accessors DEF GoodOp, File, FileName
<1>3. /\ s.i \in 0..WarmShards /\ s.policy \in Policy /\ s.expect.policy \in Policy
      /\ s.expect \in Meta /\ s.peers \subseteq Node /\ s.got \in [Shard -> Content]
      /\ index[s.node][s.key] \in Meta /\ 0 \in 0..WarmShards /\ Peers[s.node] \in SUBSET Node
  BY <1>0, <1>2, ConstantsAssumption DEF OpState, Meta, TypeOK, ConstantsAssumption
<1> HIDE DEF s
<1>4. CASE OpenShard(o)
  <2>1. s.i \in Shard
    BY <1>0, <1>3, <1>4, NextShard DEF OpenShard, GoodOp, s
  <2>2. files' \in [Node -> [FileName -> [Shard -> Content]]]
    BY <1>0, <1>2, <1>4, <2>1, Empties DEF OpenShard, TypeOK, s
  <2>3. GoodOp([s EXCEPT !.pc = "fill"]) /\ [s EXCEPT !.pc = "fill"].key = s.key
    BY <1>0, <1>2, <1>4 DEF OpenShard, GoodOp, OpState, s
  <2>4. OpsGood' /\ XfersKeyed'
    BY <1>0, <1>2, <1>4, <2>3, OpMoves DEF OpenShard, s
  <2> QED BY <1>0, <1>4, <2>2, <2>4 DEF OpenShard, TypeInv, TypeOK, OpsGood
<1>5. CASE FillShard(o)
  <2>1. /\ s.i \in Shard /\ s.i + 1 \in 0..WarmShards /\ s.pc = "fill"
        /\ s.i < DataShards(s.policy)
    BY <1>0, <1>3, <1>5, NextShard DEF FillShard, GoodOp, s
  <2>2. [val |-> o, policy |-> s.policy] \in Content
    BY <1>3 DEF Content, Value
  <2>3. files' \in [Node -> [FileName -> [Shard -> Content]]]
    BY <1>0, <1>2, <1>5, <2>1, <2>2 DEF FillShard, TypeOK, s
  <2> DEFINE t == [s EXCEPT !.i = @ + 1,
                            !.pc = IF s.i + 1 < DataShards(s.policy) THEN "open" ELSE "index"]
  <2>4. GoodOp(t) /\ t.key = s.key
    BY <1>0, <1>2, <2>1 DEF GoodOp, OpState
  <2>5. op' = [op EXCEPT ![o] = t]
    BY <1>0, <1>5 DEF FillShard, s, TypeOK
  <2> HIDE DEF t
  <2>6. OpsGood' /\ XfersKeyed'
    BY <1>0, <1>2, <1>5, <2>4, <2>5, OpMoves DEF FillShard
  <2> QED BY <1>0, <1>5, <2>3, <2>6 DEF FillShard, TypeInv, TypeOK, OpsGood
<1>6. CASE PutIndex(o)
  <2> DEFINE t == [s EXCEPT !.ok = TRUE, !.i = 0, !.peers = Peers[s.node],
                            !.pc = IF Peers[s.node] = {} THEN "done" ELSE "lookup"]
  <2>1. GoodOp(t) /\ t.key = s.key
    BY <1>0, <1>2, <1>3 DEF GoodOp, OpState
  <2>2. op' = [op EXCEPT ![o] = t]
    BY <1>6 DEF PutIndex, s
  <2> HIDE DEF t
  <2>3. OpsGood' /\ XfersKeyed'
    BY <1>0, <1>2, <1>6, <2>1, <2>2, OpMoves DEF PutIndex
  <2>4. [etag |-> o, policy |-> s.policy] \in Meta
    BY <1>3 DEF Meta, Value
  <2>5. index' \in [Node -> [Key -> Meta]]
    BY <1>0, <1>2, <1>6, <2>4 DEF PutIndex, TypeOK, s
  <2>6. handle' \in [Node -> {Closed, Open} \cup Accessor] /\ raced' \in BOOLEAN
    BY <1>0, <1>2, <1>6, HandleType DEF TypeOK, PutIndex, s
  <2> QED BY <1>0, <1>6, <2>3, <2>5, <2>6 DEF PutIndex, TypeInv, TypeOK, OpsGood
<1>7. CASE PutIndexFails(o)
  <2>1. GoodOp([s EXCEPT !.pc = "done"]) /\ [s EXCEPT !.pc = "done"].key = s.key
    BY <1>0, <1>2 DEF GoodOp, OpState
  <2>2. OpsGood' /\ XfersKeyed'
    BY <1>0, <1>2, <1>7, <2>1, OpMoves DEF PutIndexFails, s
  <2>3. handle' \in [Node -> {Closed, Open} \cup Accessor] /\ raced' \in BOOLEAN
    BY <1>0, <1>2, <1>7, HandleType DEF TypeOK, PutIndexFails, s
  <2>4. spoiled' \subseteq Node \X FileName
    BY <1>0, <1>2, <1>7 DEF TypeOK, PutIndexFails, Name, s
  <2> QED BY <1>0, <1>7, <2>2, <2>3, <2>4 DEF PutIndexFails, TypeInv, TypeOK, OpsGood
<1>a. CASE StorageError(o)
  <2>1. GoodOp([s EXCEPT !.pc = "done"]) /\ [s EXCEPT !.pc = "done"].key = s.key
    BY <1>0, <1>2 DEF GoodOp, OpState
  <2>2. OpsGood' /\ XfersKeyed'
    BY <1>0, <1>2, <1>a, <2>1, OpMoves DEF StorageError, s
  <2>3. spoiled' \subseteq Node \X FileName /\ faults' \in Nat
    BY <1>0, <1>2, <1>a DEF TypeOK, StorageError, Name, s
  <2> QED BY <1>0, <1>a, <2>2, <2>3 DEF StorageError, TypeInv, TypeOK, OpsGood
<1>8. CASE CollectIndex(o)
  <2> DEFINE m == index[s.node][s.key]
             t == [s EXCEPT !.expect = m, !.pc = IF m.etag = Nil THEN "done" ELSE "collect"]
  <2>0. s.pc = "lookup" /\ s.i = 0 /\ 0 < DataShards(m.policy)
    BY <1>0, <1>3, <1>8, ShardCount DEF CollectIndex, GoodOp, s, Meta
  <2>1. GoodOp(t) /\ t.key = s.key
    BY <1>0, <1>2, <1>3, <2>0 DEF GoodOp, OpState
  <2>2. op' = [op EXCEPT ![o] = t]
    BY <1>8 DEF CollectIndex, s
  <2> HIDE DEF t
  <2>3. OpsGood' /\ XfersKeyed'
    BY <1>0, <1>2, <1>8, <2>1, <2>2, OpMoves DEF CollectIndex
  <2> QED BY <1>0, <1>8, <2>3 DEF CollectIndex, TypeInv, TypeOK, OpsGood
<1>9. CASE CollectShard(o)
  <2> DEFINE last == s.i + 1 = DataShards(s.expect.policy)
             t == [s EXCEPT !.got[s.i] = files[s.node][File(o)][s.i],
                            !.i  = IF last THEN 0 ELSE @ + 1,
                            !.pc = IF last THEN "send" ELSE "collect"]
  <2>0. s.pc = "collect" /\ s.i \in Shard /\ s.i + 1 \in 0..WarmShards
        /\ (~last => s.i + 1 < DataShards(s.expect.policy)) /\ 0 < DataShards(s.expect.policy)
    BY <1>0, <1>3, <1>9, NextShard, ShardCount DEF CollectShard, GoodOp, s
  <2>a. files[s.node][File(o)][s.i] \in Content
    BY <1>0, <1>2, <2>0 DEF TypeOK
  <2>b. [s.got EXCEPT ![s.i] = files[s.node][File(o)][s.i]] \in [Shard -> Content]
    BY <1>3, <2>a
  <2>1. GoodOp(t) /\ t.key = s.key
    BY <1>0, <1>2, <1>3, <2>0, <2>b DEF GoodOp, OpState
  <2>2. op' = [op EXCEPT ![o] = t]
    BY <1>9 DEF CollectShard, s
  <2> HIDE DEF t
  <2>3. OpsGood' /\ XfersKeyed'
    BY <1>0, <1>2, <1>9, <2>1, <2>2, OpMoves DEF CollectShard
  <2> QED BY <1>0, <1>9, <2>3 DEF CollectShard, TypeInv, TypeOK, OpsGood
<1>10. CASE SendShard(o)
  <2>0. s.pc = "send" /\ s.i \in Shard /\ s.i < DataShards(s.expect.policy)
    BY <1>0, <1>3, <1>10, NextShard DEF SendShard, GoodOp, s
  <2>1. PICK p \in s.peers :
          IF s.got[s.i] = Missing
            THEN /\ op' = [op EXCEPT ![o] = After(s, p)]
                 /\ UNCHANGED xfers
            ELSE /\ op' = [op EXCEPT ![o].pc = "await", ![o].peer = p]
                 /\ xfers' = xfers \cup {[op |-> o, peer |-> p, i |-> s.i,
                                          content |-> s.got[s.i], stage |-> "sent"]}
    BY <1>10 DEF SendShard, s
  <2>2. CASE s.got[s.i] = Missing
    <3>1. OpsGood' /\ XfersKeyed'
      BY <1>0, <1>2, <1>3, <2>0, <2>1, <2>2, AfterGood, OpMoves
    <3> QED BY <1>0, <1>10, <2>1, <2>2, <3>1 DEF SendShard, TypeInv, TypeOK, OpsGood
  <2>3. CASE s.got[s.i] # Missing
    <3> DEFINE t == [s EXCEPT !.pc = "await", !.peer = p]
               x == [op |-> o, peer |-> p, i |-> s.i, content |-> s.got[s.i], stage |-> "sent"]
    <3>1. GoodOp(t) /\ t.key = s.key
      BY <1>0, <1>2, <1>3, <2>0 DEF GoodOp, OpState
    <3>2. op' = [op EXCEPT ![o] = t] /\ xfers' = xfers \cup {x}
      BY <1>0, <2>1, <2>3 DEF s, TypeOK
    <3>3. x \in Transfer
      BY <1>3, <2>0 DEF Transfer
    <3>a. x.op = o
      OBVIOUS
    <3> HIDE DEF t, x
    <3>b. op'[o] = t
      BY <1>0, <3>2 DEF TypeOK
    <3>4. OpsGood' /\ XfersKeyed'
      BY <1>0, <1>2, <3>1, <3>2, <3>a, <3>b, OpMoves
    <3> QED BY <1>0, <1>10, <3>2, <3>3, <3>4 DEF SendShard, TypeInv, TypeOK, OpsGood
  <2> QED BY <2>2, <2>3
<1>11. CASE TransferDone(o) \/ TransferFault(o)
  <2>1. op' = [op EXCEPT ![o] = After(s, s.peer)] /\ s.pc = "await" /\ s.peer \in Node
    BY <1>0, <1>11 DEF TransferDone, TransferFault, s, GoodOp
  <2>2. xfers' \subseteq xfers /\ faults' \in Nat
    BY <1>0, <1>11 DEF TransferDone, TransferFault, TypeOK
  <2>3. OpsGood' /\ XfersKeyed'
    BY <1>0, <1>2, <2>1, <2>2, AfterGood, OpMoves
  <2> QED BY <1>0, <1>11, <2>2, <2>3 DEF TransferDone, TransferFault, TypeInv, TypeOK, OpsGood
<1>12. CASE ReadShard(o)
  <2> DEFINE c    == files[s.node][File(o)][s.i]
             got  == [s.got EXCEPT ![s.i] = c]
             last == s.i + 1 = DataShards(s.expect.policy)
             body == Verified(got, s.expect)
             pc   == CASE c = Missing -> "done"
                       [] c # Missing /\ ~last -> "read"
                       [] OTHER -> IF body = Nil THEN "done" ELSE "header"
             b    == IF last /\ c # Missing THEN body ELSE Nil
             t    == [s EXCEPT !.got = got, !.i = @ + 1, !.body = b, !.pc = pc]
  <2>0. s.pc = "read" /\ s.i \in Shard /\ s.i + 1 \in 0..WarmShards
        /\ (~last => s.i + 1 < DataShards(s.expect.policy))
    BY <1>0, <1>3, <1>12, NextShard DEF ReadShard, GoodOp, s
  <2>a. got \in [Shard -> Content]
    BY <1>0, <1>2, <1>3, <2>0 DEF TypeOK
  <2>b. b \in Value
    BY <1>3 DEF Verified, Value, Meta
  <2>c. pc \in {"done", "read", "header"} /\ (pc = "read" => ~last)
    OBVIOUS
  <2>2. op' = [op EXCEPT ![o] = t]
    BY <1>12 DEF ReadShard, s
  <2> HIDE DEF got, b, pc
  <2>1. GoodOp(t) /\ t.key = s.key
    BY <1>0, <1>2, <1>3, <2>0, <2>a, <2>b, <2>c DEF GoodOp, OpState
  <2> HIDE DEF t
  <2>3. OpsGood' /\ XfersKeyed'
    BY <1>0, <1>2, <1>12, <2>1, <2>2, OpMoves DEF ReadShard
  <2> QED BY <1>0, <1>12, <2>3 DEF ReadShard, TypeInv, TypeOK, OpsGood
<1>13. CASE GetHeader(o)
  <2> DEFINE t == [s EXCEPT !.etag = index[s.node][s.key].etag, !.ok = TRUE, !.pc = "done"]
  <2>1. GoodOp(t) /\ t.key = s.key
    BY <1>0, <1>2, <1>3 DEF GoodOp, OpState, Meta
  <2>2. op' = [op EXCEPT ![o] = t]
    BY <1>0, <1>13 DEF GetHeader, s, TypeOK
  <2> HIDE DEF t
  <2>3. OpsGood' /\ XfersKeyed'
    BY <1>0, <1>2, <1>13, <2>1, <2>2, OpMoves DEF GetHeader
  <2> QED BY <1>0, <1>13, <2>3 DEF GetHeader, TypeInv, TypeOK, OpsGood
<1> QED BY <1>4, <1>5, <1>6, <1>7, <1>a, <1>8, <1>9, <1>10, <1>11, <1>12, <1>13 DEF Handler

\* A peer serves a transfer.
LEMMA TypeTransfer ==
  ASSUME TypeInv, NEW x \in xfers,
         \/ ReceiveOpen(x) \/ ReceiveFill(x) \/ ReceiveIndex(x)
         \/ ReceiverOpensIndex(x) \/ ReceiveIndexFails(x) \/ ReceiveError(x)
  PROVE  TypeInv'
<1>0. /\ TypeOK /\ OpsGood /\ XfersKeyed /\ x \in Transfer /\ x.op \in Op
      /\ x.peer \in Node /\ x.i \in Shard /\ x.content \in Content
      /\ op[x.op].key \in Key /\ op[x.op].policy \in Policy /\ Receiver(x) \in Accessor
  BY Accessors DEF TypeInv, TypeOK, Transfer, OpsGood, XfersKeyed, OpState
<1>1. UNCHANGED <<durable, op, crashes, spoiled>> /\ faults' \in {faults, faults + 1}
  BY DEF ReceiveOpen, ReceiveFill, ReceiveIndex, ReceiverOpensIndex, ReceiveIndexFails,
         ReceiveError, BeginOpen
<1>2. OpsGood'
  BY <1>0, <1>1 DEF OpsGood
<1>3. \A y \in xfers' : y \in xfers \/ (y \in Transfer /\ y.op = x.op)
  BY <1>0 DEF ReceiveOpen, ReceiveFill, ReceiveIndex, ReceiverOpensIndex, ReceiveIndexFails,
              ReceiveError, BeginOpen, Transfer
<1>4. xfers' \subseteq Transfer /\ XfersKeyed'
  BY <1>0, <1>1, <1>3 DEF TypeOK, XfersKeyed
<1>5. handle' \in [Node -> {Closed, Open} \cup Accessor] /\ raced' \in BOOLEAN
  <2>1. \/ BeginOpen(x.peer, Receiver(x)) \/ Access(x.peer, Receiver(x))
        \/ AccessFails(x.peer, Receiver(x)) \/ UNCHANGED <<handle, raced>>
    BY DEF ReceiveOpen, ReceiveFill, ReceiveIndex, ReceiverOpensIndex, ReceiveIndexFails,
           ReceiveError
  <2> QED BY <1>0, <2>1, HandleType DEF TypeOK
<1>6. files' \in [Node -> [FileName -> [Shard -> Content]]]
  <2>1. files \in [Node -> [FileName -> [Shard -> Content]]] /\ File(x.op) \in FileName
    BY <1>0 DEF TypeOK, File, FileName
  <2>2. CASE ReceiveOpen(x)
    BY <1>0, <2>1, <2>2, Empties DEF ReceiveOpen
  <2>3. CASE ReceiveFill(x)
    BY <1>0, <2>1, <2>3 DEF ReceiveFill
  <2> QED BY <2>1, <2>2, <2>3 DEF ReceiveIndex, ReceiverOpensIndex, ReceiveIndexFails,
                                  ReceiveError, BeginOpen
<1>7. index' \in [Node -> [Key -> Meta]]
  <2>1. index \in [Node -> [Key -> Meta]]
    BY <1>0 DEF TypeOK
  <2>2. ReceivedMeta(x) \in Meta
    BY <1>0 DEF ReceivedMeta, Meta, Value
  <2>3. CASE ReceiveIndex(x)
    BY <1>0, <2>1, <2>2, <2>3 DEF ReceiveIndex
  <2> QED BY <2>1, <2>3 DEF ReceiveOpen, ReceiveFill, ReceiverOpensIndex, ReceiveIndexFails,
                            ReceiveError, BeginOpen
<1> QED BY <1>0, <1>1, <1>2, <1>4, <1>5, <1>6, <1>7 DEF TypeInv, TypeOK, OpsGood

\* A flush and a crash.
LEMMA TypeMachine ==
  ASSUME TypeInv, NEW n \in Node, Flush(n) \/ Crash(n)
  PROVE  TypeInv'
<1>0. TypeOK /\ OpsGood /\ XfersKeyed /\ \A x \in xfers : x.op \in Op
  BY DEF TypeInv, TypeOK, Transfer
<1>1. CASE Flush(n)
  <2>1. durable' \in [Node -> [Key -> Meta]]
    BY <1>0, <1>1 DEF Flush, TypeOK
  <2> QED BY <1>0, <1>1, <2>1 DEF Flush, TypeInv, TypeOK, OpsGood, XfersKeyed
<1>2. CASE Crash(n)
  <2>1. index' \in [Node -> [Key -> Meta]] /\ crashes' \in Nat
    BY <1>0, <1>2 DEF Crash, TypeOK
  <2>2. /\ handle' \in [Node -> {Closed, Open} \cup Accessor]
        /\ UNCHANGED <<durable, files, faults, raced, spoiled>>
    BY <1>0, <1>2 DEF Crash, TypeOK
  <2>3. \A o \in Op : op'[o] = op[o] \/ (op'[o] = [op[o] EXCEPT !.pc = "dead"] /\ op[o].pc # "idle")
    BY <1>2 DEF Crash
  <2>4. \A o \in Op : GoodOp(op'[o]) /\ op'[o].key = op[o].key /\ op'[o] \in OpState
    <3>1. \A o \in Op : GoodOp(op[o]) /\ op[o] \in OpState
      BY <1>0 DEF OpsGood
    <3>2. ASSUME NEW r \in OpState, GoodOp(r), r.pc # "idle"
          PROVE  LET d == [r EXCEPT !.pc = "dead"]
                 IN  GoodOp(d) /\ d.key = r.key /\ d \in OpState
      BY <3>2 DEF GoodOp, OpState
    <3> QED BY <2>3, <3>1, <3>2
  <2>5. op' \in [Op -> OpState]
    <3>1. op' = [o \in Op |-> op'[o]]
      BY <1>2 DEF Crash
    <3> QED BY <2>4, <3>1
  <2>6. xfers' \subseteq xfers
    BY <1>2 DEF Crash
  <2> QED BY <1>0, <2>1, <2>2, <2>4, <2>5, <2>6 DEF TypeInv, TypeOK, OpsGood, XfersKeyed
<1> QED BY <1>1, <1>2

\* The types are inductive.
LEMMA TypeNext == TypeInv /\ [Next]_vars => TypeInv'
<1> SUFFICES ASSUME TypeInv, [Next]_vars  PROVE TypeInv'
  OBVIOUS
<1>1. CASE UNCHANGED vars
  BY <1>1 DEF vars, TypeInv, TypeOK, OpsGood, XfersKeyed
<1> QED BY <1>1, TypeRequest, TypeHandler, TypeTransfer, TypeMachine DEF Next

\* They hold on an empty store.
LEMMA TypeInit == Init => TypeInv
<1> SUFFICES ASSUME Init  PROVE TypeInv
  OBVIOUS
<1>1. /\ index \in [Node -> [Key -> Meta]] /\ durable \in [Node -> [Key -> Meta]]
      /\ files \in [Node -> [FileName -> [Shard -> Content]]]
  BY Empties DEF Init
<1>2. op \in [Op -> OpState] /\ OpsGood
  BY IdleGood DEF Init, OpsGood, GoodOp
<1>3. handle \in [Node -> {Closed, Open} \cup Accessor]
  BY DEF Init
<1> QED BY <1>1, <1>2, <1>3 DEF Init, TypeInv, TypeOK, XfersKeyed

\* Type correctness: every index, file, request and transfer keeps its shape, and
\* no handler reads or writes a shard that its policy does not have.
THEOREM TypeCorrect == Spec => []TypeOK
<1>1. TypeInv => TypeOK
  BY DEF TypeInv
<1> QED BY <1>1, TypeInit, TypeNext, PTL DEF Spec

-----------------------------------------------------------------------------
(* Integrity of what a GET answers *)

\* Request v is a PUT of key k under policy p.
PutOf(v, k, p) == v \in Op /\ op[v].kind = "put" /\ op[v].key = k /\ op[v].policy = p

\* What a handler does tells what it serves, and a GET answers at its end.
KindOk(s) ==
    /\ s.pc = "idle" => s.kind = "none" /\ ~s.ok
    /\ s.pc \in {"open", "fill", "index", "lookup", "collect", "send", "await"} => s.kind = "put"
    /\ s.pc \in {"read", "header"} => s.kind = "get"
    /\ s.kind = "get" /\ s.ok => s.pc = "done"

\* The body of a GET that passed the check of the hash is that of the entry, all
\* of its shards.
BodyOk(s) ==
    s.kind = "get" /\ (s.pc = "header" \/ s.ok) =>
        /\ s.body = s.expect.etag /\ s.body # Nil
        /\ \A i \in 0..(DataShards(s.expect.policy) - 1) :
              s.got[i] = [val |-> s.body, policy |-> s.expect.policy]

\* The entry that a GET goes by names a PUT of its key.
ExpectOk(s) ==
    s.kind = "get" /\ s.expect.etag # Nil => PutOf(s.expect.etag, s.key, s.expect.policy)

\* The entries of the index, flushed or not, name PUTs of their key.
EntriesNamed ==
    \A n \in Node, k \in Key :
        /\ index[n][k].etag # Nil => PutOf(index[n][k].etag, k, index[n][k].policy)
        /\ durable[n][k].etag # Nil => PutOf(durable[n][k].etag, k, durable[n][k].policy)

HandlersOk == \A o \in Op : KindOk(op[o]) /\ BodyOk(op[o]) /\ ExpectOk(op[o])

\* Only PUTs fan out.
FanoutOfPuts == \A x \in xfers : op[x.op].kind = "put"

IntegrityInv == EntriesNamed /\ HandlersOk /\ FanoutOfPuts

\* A PUT remains the PUT it is.
PutsStay ==
    \A v \in Op : op[v].kind = "put" =>
        op'[v].kind = "put" /\ op'[v].key = op[v].key /\ op'[v].policy = op[v].policy

\* A step of one handler keeps the integrity if the handler itself does.
LEMMA IntegrityStep ==
  ASSUME TypeInv, IntegrityInv, NEW o \in Op, NEW t, op' = [op EXCEPT ![o] = t],
         KindOk(t), BodyOk(t), ExpectOk(t),
         op[o].kind = "put" => t.kind = "put" /\ t.key = op[o].key /\ t.policy = op[o].policy,
         durable' = durable,
         \A n \in Node, k \in Key :
            \/ index'[n][k] = index[n][k]
            \/ index'[n][k] = NoMeta
            \/ PutOf(index'[n][k].etag, k, index'[n][k].policy),
         \A x \in xfers' : x \in xfers \/ (x.op = o /\ t.kind = "put")
  PROVE  IntegrityInv' /\ PutsStay
<1>1. \A q \in Op : op'[q] = IF q = o THEN t ELSE op[q]
  BY DEF TypeInv, TypeOK
<1>2. PutsStay
  BY <1>1 DEF PutsStay
<1>3. \A x \in xfers : x.op \in Op
  BY DEF TypeInv, TypeOK, Transfer
<1>4. FanoutOfPuts'
  BY <1>1, <1>2, <1>3 DEF IntegrityInv, FanoutOfPuts, PutsStay
<1>5. EntriesNamed'
  <2> SUFFICES ASSUME NEW n \in Node, NEW k \in Key
               PROVE  /\ index'[n][k].etag # Nil => PutOf(index[n][k].etag, k, index[n][k].policy)'
                      /\ durable'[n][k].etag # Nil => PutOf(durable[n][k].etag, k, durable[n][k].policy)'
    BY DEF EntriesNamed
  <2>1. index'[n][k].etag # Nil => PutOf(index'[n][k].etag, k, index'[n][k].policy)
    BY DEF IntegrityInv, EntriesNamed, NoMeta
  <2>2. durable[n][k].etag # Nil => PutOf(durable[n][k].etag, k, durable[n][k].policy)
    BY DEF IntegrityInv, EntriesNamed
  <2> QED BY <1>2, <2>1, <2>2 DEF PutsStay, PutOf
<1>6. HandlersOk'
  <2> SUFFICES ASSUME NEW q \in Op
               PROVE  KindOk(op'[q]) /\ BodyOk(op'[q]) /\ ExpectOk(op[q])'
    BY DEF HandlersOk, KindOk, BodyOk
  <2>1. KindOk(op'[q]) /\ BodyOk(op'[q]) /\ ExpectOk(op'[q])
    BY <1>1 DEF IntegrityInv, HandlersOk
  <2>2. ExpectOk(op[q])'
    BY <1>2, <2>1 DEF ExpectOk, PutsStay, PutOf
  <2> QED BY <2>1, <2>2
<1> QED BY <1>2, <1>4, <1>5, <1>6 DEF IntegrityInv

\* A request comes: a PUT that had to open the index first is still that PUT.
LEMMA IntegrityRequest ==
  ASSUME TypeInv, IntegrityInv, NEW o \in Op, Request(o)
  PROVE  IntegrityInv' /\ PutsStay
<1>0. TypeOK /\ KindOk(op[o])
  BY DEF TypeInv, IntegrityInv, HandlersOk
<1>1. PICK n \in Frontends, k \in Key :
        \/ \E policy \in Policies : BeginPut(o, n, k, policy)
        \/ BeginGet(o, n, k)
        \/ Delete(o, n, k)
        \/ \E kind \in {"get", "delete"} : OpensIndex(o, n, k, kind, "hot")
        \/ \E policy \in Policies : OpensIndex(o, n, k, "put", policy)
  BY DEF Request
<1>2. n \in Node
  BY ConstantsAssumption DEF ConstantsAssumption
<1>3. ASSUME NEW policy \in Policies, BeginPut(o, n, k, policy)
      PROVE  IntegrityInv' /\ PutsStay
  <2> DEFINE t == [Idle EXCEPT !.pc = "open", !.kind = "put", !.node = n,
                               !.key = k, !.policy = policy]
  <2>1. /\ op' = [op EXCEPT ![o] = t] /\ UNCHANGED <<index, durable, xfers>>
        /\ op[o].kind = "put" => op[o].key = k /\ op[o].policy = policy
    BY <1>0, <1>3 DEF BeginPut, Served, KindOk
  <2>2. t.kind = "put" /\ t.pc = "open" /\ t.key = k /\ t.policy = policy
    BY DEF Idle
  <2> HIDE DEF t
  <2>3. KindOk(t) /\ BodyOk(t) /\ ExpectOk(t)
    BY <2>2 DEF KindOk, BodyOk, ExpectOk
  <2> QED BY <2>1, <2>2, <2>3, IntegrityStep
<1>4. CASE BeginGet(o, n, k)
  <2> DEFINE m == index[n][k]
             t == [Idle EXCEPT !.kind = "get", !.node = n, !.key = k, !.expect = m,
                               !.pc = IF m.etag = Nil THEN "done" ELSE "read"]
  <2>1. /\ op' = [op EXCEPT ![o] = t] /\ UNCHANGED <<index, durable, xfers>>
        /\ op[o].kind # "put"
    BY <1>0, <1>4 DEF BeginGet, Served, KindOk
  <2>2. /\ t.kind = "get" /\ t.pc \in {"done", "read"} /\ t.key = k /\ t.expect = m
        /\ t.ok = FALSE
    BY DEF Idle
  <2>3. m.etag # Nil => PutOf(m.etag, k, m.policy)
    BY <1>2 DEF IntegrityInv, EntriesNamed
  <2> HIDE DEF t
  <2>4. KindOk(t) /\ BodyOk(t) /\ ExpectOk(t)
    BY <2>2, <2>3 DEF KindOk, BodyOk, ExpectOk
  <2> QED BY <2>1, <2>2, <2>4, IntegrityStep
<1>5. CASE Delete(o, n, k)
  <2> DEFINE t == [Idle EXCEPT !.kind = "delete", !.node = n, !.key = k,
                               !.ok = TRUE, !.pc = "done"]
  <2>1. /\ op' = [op EXCEPT ![o] = t] /\ UNCHANGED <<durable, xfers>>
        /\ op[o].kind # "put" /\ index' = [index EXCEPT ![n][k] = NoMeta]
    BY <1>0, <1>5 DEF Delete, Served, KindOk
  <2>2. t.kind = "delete" /\ t.pc = "done"
    BY DEF Idle
  <2> HIDE DEF t
  <2>3. KindOk(t) /\ BodyOk(t) /\ ExpectOk(t)
    BY <2>2 DEF KindOk, BodyOk, ExpectOk
  <2>4. \A a \in Node, b \in Key : index'[a][b] = index[a][b] \/ index'[a][b] = NoMeta
    BY <1>0, <1>2, <2>1 DEF TypeOK
  <2> QED BY <2>1, <2>2, <2>3, <2>4, IntegrityStep
<1>6. ASSUME NEW kind \in {"put", "get", "delete"}, NEW policy, OpensIndex(o, n, k, kind, policy)
      PROVE  IntegrityInv' /\ PutsStay
  <2> DEFINE t == [Idle EXCEPT !.kind = kind, !.node = n, !.key = k,
                               !.policy = policy, !.pc = "get_db"]
  <2>1. /\ op' = [op EXCEPT ![o] = t] /\ UNCHANGED <<index, durable, xfers>>
        /\ op[o].kind # "put"
    BY <1>0, <1>6 DEF OpensIndex, BeginOpen, KindOk
  <2>2. t.pc = "get_db" /\ t.expect = NoMeta /\ t.ok = FALSE
    BY DEF Idle
  <2> HIDE DEF t
  <2>3. KindOk(t) /\ BodyOk(t) /\ ExpectOk(t)
    BY <2>2 DEF KindOk, BodyOk, ExpectOk, NoMeta
  <2> QED BY <2>1, <2>3, IntegrityStep
<1> QED BY <1>1, <1>3, <1>4, <1>5, <1>6

\* The value of verified shards: they are all shards of what the entry names.
LEMMA VerifiedShards ==
  ASSUME NEW got, NEW expect \in Meta, Verified(got, expect) # Nil
  PROVE  /\ Verified(got, expect) = expect.etag
         /\ \A i \in 0..(DataShards(expect.policy) - 1) :
              got[i] = [val |-> expect.etag, policy |-> expect.policy]
<1>1. Verified(got, expect) = expect.etag /\ Decode(got, expect.policy) = expect.etag
      /\ expect.etag # Nil
  BY DEF Verified
<1>2. PICK v \in Op : \A i \in 0..(DataShards(expect.policy) - 1) :
                        got[i] = [val |-> v, policy |-> expect.policy]
  BY <1>1 DEF Decode
<1>3. expect.policy \in Policy
  BY DEF Meta
<1>4. 0 \in 0..(DataShards(expect.policy) - 1)
  BY <1>3, ShardCount, ConstantsAssumption DEF ConstantsAssumption
<1>5. got[0].val = v
  BY <1>2, <1>4
<1>6. expect.etag = v
  BY <1>1, <1>2, <1>5 DEF Decode
<1> QED BY <1>1, <1>2, <1>6

\* The handlers: a GET answers only what it verified.
LEMMA IntegrityHandler ==
  ASSUME TypeInv, IntegrityInv, NEW o \in Op, Handler(o) \/ TransferFault(o) \/ StorageError(o)
  PROVE  IntegrityInv' /\ PutsStay
<1> DEFINE s == op[o]
<1>0. /\ TypeOK /\ s \in OpState /\ GoodOp(s) /\ KindOk(s) /\ BodyOk(s) /\ ExpectOk(s)
  BY DEF TypeInv, TypeOK, OpsGood, IntegrityInv, HandlersOk
<1>1. CASE \/ OpenShard(o) \/ FillShard(o) \/ PutIndexFails(o) \/ CollectIndex(o)
           \/ CollectShard(o) \/ SendShard(o) \/ TransferDone(o) \/ TransferFault(o)
  <2>1. /\ UNCHANGED <<index, durable>>
        /\ s.pc \in {"open", "fill", "index", "lookup", "collect", "send", "await"}
    BY <1>1 DEF OpenShard, FillShard, PutIndexFails, CollectIndex, CollectShard, SendShard,
                TransferDone, TransferFault
  <2>2. s.kind = "put"
    BY <1>0, <2>1 DEF KindOk
  <2>3. PICK t : /\ op' = [op EXCEPT ![o] = t] /\ t.pc # "idle" /\ t.kind = s.kind /\ t.key = s.key
                 /\ t.policy = s.policy /\ t.pc \notin {"read", "header"}
    <3>1. CASE OpenShard(o)
      <4> DEFINE t == [s EXCEPT !.pc = "fill"]
      <4>1. op' = [op EXCEPT ![o] = t]
        BY <3>1 DEF OpenShard
      <4>2. /\ t.pc # "idle" /\ t.kind = s.kind /\ t.key = s.key /\ t.policy = s.policy
            /\ t.pc \notin {"read", "header"}
        BY <1>0 DEF OpState
      <4> QED BY <4>1, <4>2
    <3>2. CASE FillShard(o)
      <4> DEFINE t == [s EXCEPT !.i = @ + 1,
                          !.pc = IF s.i + 1 < DataShards(s.policy) THEN "open" ELSE "index"]
      <4>1. op' = [op EXCEPT ![o] = t]
        BY <1>0, <3>2 DEF FillShard, TypeOK
      <4>2. /\ t.pc # "idle" /\ t.kind = s.kind /\ t.key = s.key /\ t.policy = s.policy
            /\ t.pc \notin {"read", "header"}
        BY <1>0 DEF OpState
      <4> QED BY <4>1, <4>2
    <3>3. CASE PutIndexFails(o)
      <4> DEFINE t == [s EXCEPT !.pc = "done"]
      <4>1. op' = [op EXCEPT ![o] = t]
        BY <3>3 DEF PutIndexFails
      <4>2. /\ t.pc # "idle" /\ t.kind = s.kind /\ t.key = s.key /\ t.policy = s.policy
            /\ t.pc \notin {"read", "header"}
        BY <1>0 DEF OpState
      <4> QED BY <4>1, <4>2
    <3>4. CASE CollectIndex(o)
      <4> DEFINE m == index[s.node][s.key]
                 t == [s EXCEPT !.expect = m, !.pc = IF m.etag = Nil THEN "done" ELSE "collect"]
      <4>1. op' = [op EXCEPT ![o] = t]
        BY <3>4 DEF CollectIndex
      <4>2. /\ t.pc # "idle" /\ t.kind = s.kind /\ t.key = s.key /\ t.policy = s.policy
            /\ t.pc \notin {"read", "header"}
        BY <1>0 DEF OpState
      <4> QED BY <4>1, <4>2
    <3>5. CASE CollectShard(o)
      <4> DEFINE last == s.i + 1 = DataShards(s.expect.policy)
                 t == [s EXCEPT !.got[s.i] = files[s.node][File(o)][s.i],
                                !.i  = IF last THEN 0 ELSE @ + 1,
                                !.pc = IF last THEN "send" ELSE "collect"]
      <4>1. op' = [op EXCEPT ![o] = t]
        BY <3>5 DEF CollectShard
      <4>2. /\ t.pc # "idle" /\ t.kind = s.kind /\ t.key = s.key /\ t.policy = s.policy
            /\ t.pc \notin {"read", "header"}
        BY <1>0 DEF OpState
      <4> QED BY <4>1, <4>2
    <3>6. CASE SendShard(o) \/ TransferDone(o) \/ TransferFault(o)
      <4>1. \/ \E p : op' = [op EXCEPT ![o] = After(s, p)]
            \/ \E p : op' = [op EXCEPT ![o].pc = "await", ![o].peer = p]
        BY <3>6 DEF SendShard, TransferDone, TransferFault
      <4>2. ASSUME NEW p, op' = [op EXCEPT ![o] = After(s, p)]
            PROVE  \E t : /\ op' = [op EXCEPT ![o] = t] /\ t.pc # "idle" /\ t.kind = s.kind
                          /\ t.key = s.key /\ t.policy = s.policy
                          /\ t.pc \notin {"read", "header"}
        <5>1. /\ After(s, p).pc \in {"done", "send"} /\ After(s, p).kind = s.kind
              /\ After(s, p).key = s.key /\ After(s, p).policy = s.policy
          BY <1>0 DEF After, OpState
        <5> QED BY <4>2, <5>1
      <4>3. ASSUME NEW p, op' = [op EXCEPT ![o].pc = "await", ![o].peer = p]
            PROVE  \E t : /\ op' = [op EXCEPT ![o] = t] /\ t.pc # "idle" /\ t.kind = s.kind
                          /\ t.key = s.key /\ t.policy = s.policy
                          /\ t.pc \notin {"read", "header"}
        <5> DEFINE t == [s EXCEPT !.pc = "await", !.peer = p]
        <5>1. op' = [op EXCEPT ![o] = t]
          BY <1>0, <4>3 DEF TypeOK
        <5>2. /\ t.pc # "idle" /\ t.kind = s.kind /\ t.key = s.key /\ t.policy = s.policy
              /\ t.pc \notin {"read", "header"}
          BY <1>0 DEF OpState
        <5> QED BY <5>1, <5>2
      <4> QED BY <4>1, <4>2, <4>3
    <3> QED BY <1>1, <3>1, <3>2, <3>3, <3>4, <3>5, <3>6
  <2>4. KindOk(t) /\ BodyOk(t) /\ ExpectOk(t)
    BY <2>2, <2>3 DEF KindOk, BodyOk, ExpectOk
  <2>5. \A x \in xfers' : x \in xfers \/ x.op = o
    BY <1>1 DEF OpenShard, FillShard, PutIndexFails, CollectIndex, CollectShard, SendShard,
                TransferDone, TransferFault
  <2> QED BY <2>1, <2>2, <2>3, <2>4, <2>5, IntegrityStep
<1>2. CASE PutIndex(o)
  <2> DEFINE t == [s EXCEPT !.ok = TRUE, !.i = 0, !.peers = Peers[s.node],
                            !.pc = IF Peers[s.node] = {} THEN "done" ELSE "lookup"]
  <2>1. /\ op' = [op EXCEPT ![o] = t] /\ s.pc = "index" /\ UNCHANGED <<durable, xfers>>
        /\ index' = [index EXCEPT ![s.node][s.key] = [etag |-> o, policy |-> s.policy]]
    BY <1>2 DEF PutIndex
  <2>2. s.kind = "put" /\ s.node \in Node /\ s.key \in Key
    BY <1>0, <2>1 DEF KindOk, GoodOp
  <2>3. t.kind = "put" /\ t.key = s.key /\ t.policy = s.policy /\ t.pc \in {"done", "lookup"}
    BY <1>0, <2>2 DEF OpState
  <2> HIDE DEF t
  <2>4. KindOk(t) /\ BodyOk(t) /\ ExpectOk(t)
    BY <2>3 DEF KindOk, BodyOk, ExpectOk
  <2>5. \A n \in Node, k \in Key : \/ index'[n][k] = index[n][k]
                                   \/ PutOf(index'[n][k].etag, k, index'[n][k].policy)
    BY <1>0, <2>1, <2>2 DEF TypeOK, PutOf
  <2> QED BY <2>1, <2>3, <2>4, <2>5, IntegrityStep
<1>3. CASE ReadShard(o)
  <2> DEFINE c    == files[s.node][File(o)][s.i]
             got  == [s.got EXCEPT ![s.i] = c]
             last == s.i + 1 = DataShards(s.expect.policy)
             body == Verified(got, s.expect)
             pc   == CASE c = Missing -> "done"
                       [] c # Missing /\ ~last -> "read"
                       [] OTHER -> IF body = Nil THEN "done" ELSE "header"
             b    == IF last /\ c # Missing THEN body ELSE Nil
             t    == [s EXCEPT !.got = got, !.i = @ + 1, !.body = b, !.pc = pc]
  <2>1. op' = [op EXCEPT ![o] = t] /\ s.pc = "read" /\ UNCHANGED <<index, durable, xfers>>
    BY <1>3 DEF ReadShard
  <2>2. s.kind = "get" /\ ~s.ok /\ s.expect \in Meta
    BY <1>0, <2>1 DEF KindOk, OpState
  <2>3. /\ t.kind = "get" /\ t.ok = s.ok /\ t.pc = pc /\ t.body = b /\ t.got = got
        /\ t.expect = s.expect /\ t.key = s.key
    BY <1>0, <2>2 DEF OpState
  <2>4. pc \in {"done", "read", "header"} /\ (pc = "header" => b = body /\ body # Nil)
    OBVIOUS
  <2> HIDE DEF t, b, pc, got
  <2>5. KindOk(t) /\ ExpectOk(t)
    BY <1>0, <2>2, <2>3, <2>4 DEF KindOk, ExpectOk
  <2>6. BodyOk(t)
    <3>1. pc = "header" =>
            /\ body = s.expect.etag
            /\ \A i \in 0..(DataShards(s.expect.policy) - 1) :
                  got[i] = [val |-> s.expect.etag, policy |-> s.expect.policy]
      BY <2>2, <2>4, VerifiedShards
    <3> QED BY <2>2, <2>3, <2>4, <3>1 DEF BodyOk
  <2> QED BY <2>1, <2>2, <2>5, <2>6, IntegrityStep
<1>4. CASE GetHeader(o)
  <2> DEFINE t == [s EXCEPT !.etag = index[s.node][s.key].etag, !.ok = TRUE, !.pc = "done"]
  <2>1. op' = [op EXCEPT ![o] = t] /\ s.pc = "header" /\ UNCHANGED <<index, durable, xfers>>
    BY <1>0, <1>4 DEF GetHeader, TypeOK
  <2>2. s.kind = "get"
    BY <1>0, <2>1 DEF KindOk
  <2>3. /\ t.kind = "get" /\ t.pc = "done" /\ t.body = s.body /\ t.got = s.got
        /\ t.expect = s.expect /\ t.key = s.key
    BY <1>0, <2>2 DEF OpState
  <2> HIDE DEF t
  <2>4. KindOk(t) /\ BodyOk(t) /\ ExpectOk(t)
    BY <1>0, <2>1, <2>2, <2>3 DEF KindOk, BodyOk, ExpectOk
  <2> QED BY <2>1, <2>2, <2>4, IntegrityStep
<1>5. CASE StorageError(o)
  <2> DEFINE t == [s EXCEPT !.pc = "done"]
  <2>1. /\ op' = [op EXCEPT ![o] = t] /\ UNCHANGED <<index, durable, xfers>>
        /\ s.pc \in {"open", "fill", "index", "lookup", "collect", "read"}
    BY <1>5 DEF StorageError
  <2>2. /\ t.kind = s.kind /\ t.pc = "done" /\ t.body = s.body /\ t.got = s.got /\ t.ok = s.ok
        /\ t.expect = s.expect /\ t.key = s.key /\ t.policy = s.policy
    BY <1>0 DEF OpState
  <2> HIDE DEF t
  <2>3. KindOk(t) /\ BodyOk(t) /\ ExpectOk(t)
    BY <1>0, <2>1, <2>2 DEF KindOk, BodyOk, ExpectOk
  <2> QED BY <2>1, <2>2, <2>3, IntegrityStep
<1> QED BY <1>1, <1>2, <1>3, <1>4, <1>5 DEF Handler

\* The peers, the disk and the crashes.
LEMMA IntegrityOthers ==
  ASSUME TypeInv, IntegrityInv,
         \/ \E x \in xfers : \/ ReceiveOpen(x) \/ ReceiveFill(x) \/ ReceiveIndex(x)
                             \/ ReceiverOpensIndex(x) \/ ReceiveIndexFails(x) \/ ReceiveError(x)
         \/ \E n \in Node : Flush(n) \/ Crash(n)
         \/ UNCHANGED vars
  PROVE  IntegrityInv' /\ PutsStay
<1>0. TypeOK /\ \A x \in xfers : x \in Transfer /\ x.op \in Op /\ x.peer \in Node
  BY DEF TypeInv, TypeOK, Transfer
<1>1. ASSUME NEW x \in xfers,
             \/ ReceiveOpen(x) \/ ReceiveFill(x) \/ ReceiveIndex(x)
             \/ ReceiverOpensIndex(x) \/ ReceiveIndexFails(x) \/ ReceiveError(x)
      PROVE  IntegrityInv' /\ PutsStay
  <2>1. UNCHANGED <<durable, op>>
    BY <1>1 DEF ReceiveOpen, ReceiveFill, ReceiveIndex, ReceiverOpensIndex,
                ReceiveIndexFails, ReceiveError, BeginOpen
  <2>2. \A y \in xfers' : y \in xfers \/ y.op = x.op
    BY <1>0, <1>1 DEF ReceiveOpen, ReceiveFill, ReceiveIndex, ReceiverOpensIndex,
                ReceiveIndexFails, ReceiveError, BeginOpen, Transfer
  <2>3. FanoutOfPuts' /\ PutsStay
    BY <2>1, <2>2 DEF IntegrityInv, FanoutOfPuts, PutsStay
  <2>4. HandlersOk'
    BY <2>1 DEF IntegrityInv, HandlersOk, KindOk, BodyOk, ExpectOk, PutOf
  <2>5. \A n \in Node, k \in Key : \/ index'[n][k] = index[n][k]
                                   \/ PutOf(index'[n][k].etag, k, index'[n][k].policy)
    <3>1. CASE ReceiveIndex(x)
      <4>1. index' = [index EXCEPT ![x.peer][op[x.op].key] = ReceivedMeta(x)]
        BY <3>1 DEF ReceiveIndex
      <4>2. PutOf(ReceivedMeta(x).etag, op[x.op].key, ReceivedMeta(x).policy)
        BY <1>0 DEF ReceivedMeta, PutOf, IntegrityInv, FanoutOfPuts
      <4> QED BY <1>0, <4>1, <4>2 DEF TypeOK
    <3> QED BY <1>1, <3>1 DEF ReceiveOpen, ReceiveFill, ReceiverOpensIndex,
                ReceiveIndexFails, ReceiveError, BeginOpen
  <2>6. EntriesNamed'
    <3> SUFFICES ASSUME NEW n \in Node, NEW k \in Key
                 PROVE  /\ index'[n][k].etag # Nil => PutOf(index'[n][k].etag, k, index'[n][k].policy)
                        /\ durable[n][k].etag # Nil => PutOf(durable[n][k].etag, k, durable[n][k].policy)
      BY <2>1 DEF EntriesNamed, PutOf
    <3> QED BY <2>5 DEF IntegrityInv, EntriesNamed
  <2> QED BY <2>3, <2>4, <2>6 DEF IntegrityInv
<1>2. ASSUME NEW n \in Node, Flush(n)  PROVE IntegrityInv' /\ PutsStay
  <2>1. UNCHANGED <<index, op, xfers>> /\ durable' = [durable EXCEPT ![n] = index[n]]
    BY <1>2 DEF Flush
  <2>2. \A a \in Node, k \in Key : durable'[a][k] \in {durable[a][k], index[a][k]}
    BY <1>0, <2>1 DEF TypeOK
  <2>3. EntriesNamed'
    <3> SUFFICES ASSUME NEW a \in Node, NEW k \in Key
                 PROVE  /\ index[a][k].etag # Nil => PutOf(index[a][k].etag, k, index[a][k].policy)
                        /\ durable'[a][k].etag # Nil => PutOf(durable'[a][k].etag, k, durable'[a][k].policy)
      BY <2>1 DEF EntriesNamed, PutOf
    <3> QED BY <2>2 DEF IntegrityInv, EntriesNamed
  <2>4. HandlersOk' /\ FanoutOfPuts' /\ PutsStay
    BY <2>1 DEF IntegrityInv, HandlersOk, KindOk, BodyOk, ExpectOk, PutOf, FanoutOfPuts, PutsStay
  <2> QED BY <2>3, <2>4 DEF IntegrityInv
<1>3. ASSUME NEW n \in Node, Crash(n)  PROVE IntegrityInv' /\ PutsStay
  <2>1. /\ durable' = durable /\ xfers' \subseteq xfers
        /\ index' = [index EXCEPT ![n] = durable[n]]
    BY <1>3 DEF Crash
  <2>2. \A o \in Op : \/ op'[o] = op[o]
                      \/ /\ op'[o] = [op[o] EXCEPT !.pc = "dead"]
                         /\ op[o].pc \notin {"idle", "done"}
    BY <1>3 DEF Crash
  <2>3. \A o \in Op : /\ op'[o].kind = op[o].kind /\ op'[o].key = op[o].key
                      /\ op'[o].policy = op[o].policy /\ op'[o].expect = op[o].expect
                      /\ op'[o].ok = op[o].ok /\ op'[o].body = op[o].body
                      /\ op'[o].got = op[o].got
                      /\ \/ op'[o].pc = op[o].pc
                         \/ op'[o].pc = "dead" /\ op[o].pc # "done"
    <3>1. ASSUME NEW r \in OpState
          PROVE  LET d == [r EXCEPT !.pc = "dead"]
                 IN  /\ d.kind = r.kind /\ d.key = r.key /\ d.policy = r.policy
                     /\ d.expect = r.expect /\ d.ok = r.ok /\ d.body = r.body
                     /\ d.got = r.got /\ d.pc = "dead"
      BY DEF OpState
    <3>2. \A o \in Op : op[o] \in OpState
      BY <1>0 DEF TypeOK
    <3> TAKE o \in Op
    <3>3. CASE op'[o] = op[o]
      BY <3>3
    <3>4. CASE /\ op'[o] = [op[o] EXCEPT !.pc = "dead"]
               /\ op[o].pc \notin {"idle", "done"}
      BY <3>1, <3>2, <3>4
    <3> QED BY <2>2, <3>3, <3>4
  <2>4. PutsStay /\ FanoutOfPuts'
    BY <1>0, <2>1, <2>3 DEF PutsStay, IntegrityInv, FanoutOfPuts
  <2>6. HandlersOk'
    <3> SUFFICES ASSUME NEW o \in Op  PROVE KindOk(op'[o]) /\ BodyOk(op'[o]) /\ ExpectOk(op[o])'
      BY DEF HandlersOk, KindOk, BodyOk
    <3>1. KindOk(op[o]) /\ BodyOk(op[o]) /\ ExpectOk(op[o])
      BY DEF IntegrityInv, HandlersOk
    <3>2. KindOk(op'[o])
      BY <2>3, <3>1 DEF KindOk
    <3>3. BodyOk(op'[o])
      BY <2>3, <3>1 DEF BodyOk
    <3>4. ExpectOk(op[o])'
      BY <2>3, <2>4, <3>1 DEF ExpectOk, PutOf, PutsStay
    <3> QED BY <3>2, <3>3, <3>4
  <2>7. \A a \in Node, k \in Key : index'[a][k] \in {durable[a][k], index[a][k]}
    BY <1>0, <2>1 DEF TypeOK
  <2>8. EntriesNamed'
    <3> SUFFICES ASSUME NEW a \in Node, NEW k \in Key
                 PROVE  /\ index'[a][k].etag # Nil => PutOf(index[a][k].etag, k, index[a][k].policy)'
                        /\ durable'[a][k].etag # Nil => PutOf(durable[a][k].etag, k, durable[a][k].policy)'
      BY DEF EntriesNamed
    <3>1. /\ index'[a][k].etag # Nil => PutOf(index'[a][k].etag, k, index'[a][k].policy)
          /\ durable[a][k].etag # Nil => PutOf(durable[a][k].etag, k, durable[a][k].policy)
      BY <2>7 DEF IntegrityInv, EntriesNamed
    <3> QED BY <2>1, <2>4, <3>1 DEF PutOf, PutsStay
  <2> QED BY <2>4, <2>6, <2>8 DEF IntegrityInv
<1>4. CASE UNCHANGED vars
  BY <1>4 DEF vars, IntegrityInv, EntriesNamed, HandlersOk, KindOk, BodyOk, ExpectOk, PutOf,
              FanoutOfPuts, PutsStay
<1> QED BY <1>1, <1>2, <1>3, <1>4

\* Together with the types the integrity is inductive, and PUTs stay what they are.
LEMMA IntegrityNext == TypeInv /\ IntegrityInv /\ [Next]_vars => IntegrityInv' /\ PutsStay
BY IntegrityRequest, IntegrityHandler, IntegrityOthers DEF Next

\* An empty store.
LEMMA IntegrityInit == Init => IntegrityInv
<1> SUFFICES ASSUME Init  PROVE IntegrityInv
  OBVIOUS
<1>1. EntriesNamed /\ FanoutOfPuts
  BY DEF Init, EntriesNamed, FanoutOfPuts, NoMeta
<1>2. HandlersOk
  BY DEF Init, HandlersOk, KindOk, BodyOk, ExpectOk, Idle
<1> QED BY <1>1, <1>2 DEF IntegrityInv

\* A GET that answers 200 answers with exactly what one PUT of that key uploaded,
\* whatever overlapping PUTs, half-made transfers, crashes and colliding file
\* names left in the shard files.
THEOREM GetsWhole == Spec => []GetIntegrity
<1>1. TypeInv /\ IntegrityInv => GetIntegrity
  <2> SUFFICES ASSUME TypeInv, IntegrityInv, NEW o \in Op, op[o].kind = "get", op[o].ok
               PROVE  /\ op[o].body \in Op
                      /\ op[op[o].body].kind = "put"
                      /\ op[op[o].body].key = op[o].key
                      /\ \A i \in 0..(DataShards(op[o].expect.policy) - 1) :
                            op[o].got[i] = [val |-> op[o].body, policy |-> op[op[o].body].policy]
    BY DEF GetIntegrity
  <2>1. BodyOk(op[o]) /\ ExpectOk(op[o])
    BY DEF IntegrityInv, HandlersOk
  <2>2. PutOf(op[o].body, op[o].key, op[o].expect.policy)
    BY <2>1 DEF BodyOk, ExpectOk
  <2> QED BY <2>1, <2>2 DEF BodyOk, PutOf
<1>2. Init => TypeInv /\ IntegrityInv
  BY TypeInit, IntegrityInit
<1>3. TypeInv /\ IntegrityInv /\ [Next]_vars => (TypeInv /\ IntegrityInv)'
  BY TypeNext, IntegrityNext
<1> QED BY <1>1, <1>2, <1>3, PTL DEF Spec

-----------------------------------------------------------------------------
(* Damage: what the shard files hold against what the index says *)

\* The steps of put_chunks, and those after it.
Writes == {"open", "fill", "index"}
Past   == {"lookup", "collect", "send", "await", "done", "dead"}

\* Node n is nobody's peer: only its own clients write to it.
Apart(n) == \A m \in Node : n \notin Peers[m]

\* One step of the handler of v, as far as put_chunks is concerned.
PutMoves(v) ==
    /\ op'[v].pc \in Writes =>
         \/ op'[v] = op[v]
         \/ /\ op'[v].pc = "open" /\ op'[v].i = 0 /\ op[v].pc \notin Writes
            /\ \A q \in Op \ {v} : op'[q] = op[q]
            /\ \/ Overlap
               \/ \A q \in Op : ~(/\ Writing(q) /\ op[q].node = op'[v].node
                                  /\ File(q) = ObjectId[op'[v].key])
         \/ /\ OpenShard(v) /\ op'[v].pc = "fill" /\ op'[v].i = op[v].i
            /\ op'[v].node = op[v].node /\ op'[v].key = op[v].key
         \/ /\ FillShard(v) /\ op'[v].i = op[v].i + 1
            /\ op'[v].pc = IF op[v].i + 1 < DataShards(op[v].policy) THEN "open" ELSE "index"
            /\ op'[v].node = op[v].node /\ op'[v].key = op[v].key
    /\ op[v].kind = "put" /\ op[v].pc \in Past =>
         op'[v].pc \in Past /\ op'[v].node = op[v].node
    /\ op[v].pc \in Writes /\ op'[v].pc \notin Writes =>
         PutIndex(v) \/ PutIndexFails(v) \/ StorageError(v) \/ \E n \in Node : Crash(n)
    /\ \A p \in op'[v].peers : p \in op[v].peers \/ ~Apart(p)

\* A handler that ends with its put_chunks over.
LEMMA PutMovesOn ==
  ASSUME NEW o \in Op, NEW t, op' = [op EXCEPT ![o] = t], TypeOK,
         t.pc \in Past \cup {"get_db", "read", "header"},
         op[o].kind = "put" /\ op[o].pc \in Past => t.pc \in Past /\ t.node = op[o].node,
         op[o].pc \in Writes => PutIndex(o) \/ PutIndexFails(o) \/ StorageError(o),
         \A p \in t.peers : p \in op[o].peers \/ ~Apart(p)
  PROVE  \A v \in Op : PutMoves(v)
<1>1. \A v \in Op : op'[v] = IF v = o THEN t ELSE op[v]
  BY DEF TypeOK
<1> QED BY <1>1 DEF PutMoves, Writes, Past

\* Every step is such a step.
LEMMA PutSteps ==
  ASSUME TypeInv, IntegrityInv, [Next]_vars
  PROVE  \A v \in Op : PutMoves(v)
<1>0. TypeOK /\ \A o \in Op : op[o] \in OpState /\ GoodOp(op[o]) /\ KindOk(op[o])
  BY DEF TypeInv, TypeOK, OpsGood, IntegrityInv, HandlersOk
<1>1. ASSUME op' = op  PROVE \A v \in Op : PutMoves(v)
  BY <1>1 DEF PutMoves
<1>2. ASSUME NEW o \in Op, NEW n, NEW k, NEW policy, BeginPut(o, n, k, policy)
      PROVE  \A v \in Op : PutMoves(v)
  <2> DEFINE t == [Idle EXCEPT !.pc = "open", !.kind = "put", !.node = n,
                               !.key = k, !.policy = policy]
  <2>1. op' = [op EXCEPT ![o] = t] /\ op[o].pc \in {"idle", "get_db"}
    BY <1>2 DEF BeginPut, Served
  <2>2. t.pc = "open" /\ t.i = 0 /\ t.peers = {} /\ t.node = n /\ t.key = k
    BY DEF Idle
  <2> HIDE DEF t
  <2>3. \A v \in Op : op'[v] = IF v = o THEN t ELSE op[v]
    BY <1>0, <2>1 DEF TypeOK
  <2>4. Overlap \/ \A q \in Op : ~(Writing(q) /\ op[q].node = n /\ File(q) = ObjectId[k])
    BY <1>2 DEF BeginPut
  <2> QED BY <2>1, <2>2, <2>3, <2>4 DEF PutMoves, Past, Writes
<1>3. ASSUME NEW o \in Op, NEW n, NEW k,
             \/ BeginGet(o, n, k) \/ Delete(o, n, k)
             \/ \E kind, policy : OpensIndex(o, n, k, kind, policy)
      PROVE  \A v \in Op : PutMoves(v)
  <2>1. op[o].pc \in {"idle", "get_db"}
    BY <1>3 DEF BeginGet, Delete, OpensIndex, Served
  <2>2. PICK t : /\ op' = [op EXCEPT ![o] = t] /\ t.pc \in {"done", "read", "get_db"}
                 /\ t.peers = {}
    <3>1. CASE BeginGet(o, n, k)
      <4> DEFINE c == IF index[n][k].etag = Nil THEN "done" ELSE "read"
                 t == [Idle EXCEPT !.kind = "get", !.node = n, !.key = k,
                                   !.expect = index[n][k], !.pc = c]
      <4>1. op' = [op EXCEPT ![o] = t]
        BY <3>1 DEF BeginGet
      <4>2. t.pc \in {"done", "read", "get_db"} /\ t.peers = {}
        BY DEF Idle
      <4> QED BY <4>1, <4>2
    <3>2. CASE Delete(o, n, k)
      <4> DEFINE t == [Idle EXCEPT !.kind = "delete", !.node = n, !.key = k,
                                   !.ok = TRUE, !.pc = "done"]
      <4>1. op' = [op EXCEPT ![o] = t]
        BY <3>2 DEF Delete
      <4>2. t.pc \in {"done", "read", "get_db"} /\ t.peers = {}
        BY DEF Idle
      <4> QED BY <4>1, <4>2
    <3>3. ASSUME NEW kind, NEW policy, OpensIndex(o, n, k, kind, policy)
          PROVE  \E t : /\ op' = [op EXCEPT ![o] = t] /\ t.pc \in {"done", "read", "get_db"}
                        /\ t.peers = {}
      <4> DEFINE t == [Idle EXCEPT !.kind = kind, !.node = n, !.key = k,
                                   !.policy = policy, !.pc = "get_db"]
      <4>1. op' = [op EXCEPT ![o] = t]
        BY <3>3 DEF OpensIndex
      <4>2. t.pc \in {"done", "read", "get_db"} /\ t.peers = {}
        BY DEF Idle
      <4> QED BY <4>1, <4>2
    <3> QED BY <1>3, <3>1, <3>2, <3>3
  <2> QED BY <1>0, <2>1, <2>2, PutMovesOn DEF Past, Writes
<1>4. ASSUME NEW o \in Op, OpenShard(o)  PROVE \A v \in Op : PutMoves(v)
  <2> DEFINE t == [op[o] EXCEPT !.pc = "fill"]
  <2>1. op' = [op EXCEPT ![o] = t] /\ op[o].pc = "open"
    BY <1>4 DEF OpenShard
  <2>2. /\ t.pc = "fill" /\ t.i = op[o].i /\ t.node = op[o].node /\ t.key = op[o].key
        /\ t.peers = op[o].peers
    BY <1>0 DEF OpState
  <2> HIDE DEF t
  <2>3. \A v \in Op : op'[v] = IF v = o THEN t ELSE op[v]
    BY <1>0, <2>1 DEF TypeOK
  <2> QED BY <1>4, <2>1, <2>2, <2>3 DEF PutMoves, Past, Writes
<1>5. ASSUME NEW o \in Op, FillShard(o)  PROVE \A v \in Op : PutMoves(v)
  <2> DEFINE c == IF op[o].i + 1 < DataShards(op[o].policy) THEN "open" ELSE "index"
             t == [op[o] EXCEPT !.i = @ + 1, !.pc = c]
  <2>1. op' = [op EXCEPT ![o] = t] /\ op[o].pc = "fill"
    BY <1>0, <1>5 DEF FillShard, TypeOK
  <2>2. /\ t.pc = c /\ t.i = op[o].i + 1 /\ t.node = op[o].node /\ t.key = op[o].key
        /\ t.peers = op[o].peers
    BY <1>0 DEF OpState
  <2> HIDE DEF t
  <2>3. \A v \in Op : op'[v] = IF v = o THEN t ELSE op[v]
    BY <1>0, <2>1 DEF TypeOK
  <2> QED BY <1>5, <2>1, <2>2, <2>3 DEF PutMoves, Past, Writes
<1>6. ASSUME NEW o \in Op, PutIndex(o)  PROVE \A v \in Op : PutMoves(v)
  <2> DEFINE s == op[o]
             t == [s EXCEPT !.ok = TRUE, !.i = 0, !.peers = Peers[s.node],
                            !.pc = IF Peers[s.node] = {} THEN "done" ELSE "lookup"]
  <2>1. op' = [op EXCEPT ![o] = t] /\ s.pc = "index" /\ s.node \in Node
    BY <1>0, <1>6 DEF PutIndex, GoodOp
  <2>2. t.pc \in {"done", "lookup"} /\ t.peers = Peers[s.node]
    BY <1>0 DEF OpState
  <2> HIDE DEF t
  <2>3. \A p \in t.peers : ~Apart(p)
    BY <2>1, <2>2 DEF Apart
  <2> QED BY <1>0, <1>6, <2>1, <2>2, <2>3, PutMovesOn DEF Past
<1>7. ASSUME NEW o \in Op,
             \/ PutIndexFails(o) \/ StorageError(o) \/ CollectIndex(o) \/ CollectShard(o)
             \/ SendShard(o) \/ TransferDone(o) \/ TransferFault(o) \/ ReadShard(o)
             \/ GetHeader(o)
      PROVE  \A v \in Op : PutMoves(v)
  <2> DEFINE s == op[o]
             Fits(t) == /\ op' = [op EXCEPT ![o] = t]
                        /\ t.pc \in Past \cup {"read", "header"}
                        /\ s.kind = "put" => t.pc \in Past /\ t.node = s.node
                        /\ t.peers \subseteq s.peers
  <2>0. s \in OpState /\ KindOk(s)
    BY <1>0
  <2>1. PICK t : Fits(t)
    <3>1. CASE PutIndexFails(o) \/ StorageError(o)
      <4> DEFINE t == [s EXCEPT !.pc = "done"]
      <4>1. op' = [op EXCEPT ![o] = t]
        BY <3>1 DEF PutIndexFails, StorageError
      <4>2. t.pc = "done" /\ t.node = s.node /\ t.peers = s.peers
        BY <2>0 DEF OpState
      <4> HIDE DEF t
      <4>3. Fits(t)
        BY <4>1, <4>2 DEF Past
      <4> QED BY <4>3
    <3>2. CASE CollectIndex(o)
      <4> DEFINE m == index[s.node][s.key]
                 t == [s EXCEPT !.expect = m, !.pc = IF m.etag = Nil THEN "done" ELSE "collect"]
      <4>1. op' = [op EXCEPT ![o] = t]
        BY <3>2 DEF CollectIndex
      <4>2. t.pc \in {"done", "collect"} /\ t.node = s.node /\ t.peers = s.peers
        BY <2>0 DEF OpState
      <4> HIDE DEF t
      <4>3. Fits(t)
        BY <4>1, <4>2 DEF Past
      <4> QED BY <4>3
    <3>3. CASE CollectShard(o)
      <4> DEFINE last == s.i + 1 = DataShards(s.expect.policy)
                 t == [s EXCEPT !.got[s.i] = files[s.node][File(o)][s.i],
                                !.i  = IF last THEN 0 ELSE @ + 1,
                                !.pc = IF last THEN "send" ELSE "collect"]
      <4>1. op' = [op EXCEPT ![o] = t]
        BY <3>3 DEF CollectShard
      <4>2. t.pc \in {"send", "collect"} /\ t.node = s.node /\ t.peers = s.peers
        BY <2>0 DEF OpState
      <4> HIDE DEF t
      <4>3. Fits(t)
        BY <4>1, <4>2 DEF Past
      <4> QED BY <4>3
    <3>4. ASSUME NEW p, op' = [op EXCEPT ![o] = After(s, p)]  PROVE \E t : Fits(t)
      <4>1. /\ After(s, p).pc \in {"done", "send"} /\ After(s, p).node = s.node
            /\ After(s, p).peers \subseteq s.peers
        BY <2>0 DEF After, OpState
      <4>2. Fits(After(s, p))
        BY <3>4, <4>1 DEF Past
      <4> QED BY <4>2
    <3>5. ASSUME NEW p, op' = [op EXCEPT ![o].pc = "await", ![o].peer = p]  PROVE \E t : Fits(t)
      <4> DEFINE t == [s EXCEPT !.pc = "await", !.peer = p]
      <4>1. op' = [op EXCEPT ![o] = t]
        BY <1>0, <3>5 DEF TypeOK
      <4>2. t.pc = "await" /\ t.node = s.node /\ t.peers = s.peers
        BY <2>0 DEF OpState
      <4> HIDE DEF t
      <4>3. Fits(t)
        BY <4>1, <4>2 DEF Past
      <4> QED BY <4>3
    <3>6. CASE SendShard(o) \/ TransferDone(o) \/ TransferFault(o)
      <4>1. \/ \E p : op' = [op EXCEPT ![o] = After(s, p)]
            \/ \E p : op' = [op EXCEPT ![o].pc = "await", ![o].peer = p]
        BY <3>6 DEF SendShard, TransferDone, TransferFault
      <4> QED BY <3>4, <3>5, <4>1
    <3>7. CASE ReadShard(o)
      <4> DEFINE c    == files[s.node][File(o)][s.i]
                 got  == [s.got EXCEPT ![s.i] = c]
                 last == s.i + 1 = DataShards(s.expect.policy)
                 body == Verified(got, s.expect)
                 pc   == CASE c = Missing -> "done"
                           [] c # Missing /\ ~last -> "read"
                           [] OTHER -> IF body = Nil THEN "done" ELSE "header"
                 t    == [s EXCEPT !.got = got, !.i = @ + 1,
                                   !.body = IF last /\ c # Missing THEN body ELSE Nil, !.pc = pc]
      <4>1. op' = [op EXCEPT ![o] = t] /\ s.kind # "put"
        BY <2>0, <3>7 DEF ReadShard, KindOk
      <4>2. pc \in {"done", "read", "header"}
        OBVIOUS
      <4> HIDE DEF got, body, pc
      <4>3. t.pc = pc /\ t.peers = s.peers
        BY <2>0 DEF OpState
      <4> HIDE DEF t
      <4>4. Fits(t)
        BY <4>1, <4>2, <4>3 DEF Past
      <4> QED BY <4>4
    <3>8. CASE GetHeader(o)
      <4> DEFINE t == [s EXCEPT !.etag = index[s.node][s.key].etag, !.ok = TRUE, !.pc = "done"]
      <4>1. op' = [op EXCEPT ![o] = t]
        BY <1>0, <3>8 DEF GetHeader, TypeOK
      <4>2. t.pc = "done" /\ t.node = s.node /\ t.peers = s.peers
        BY <2>0 DEF OpState
      <4> HIDE DEF t
      <4>3. Fits(t)
        BY <4>1, <4>2 DEF Past
      <4> QED BY <4>3
    <3> QED BY <1>7, <3>1, <3>2, <3>3, <3>6, <3>7, <3>8
  <2>2. s.pc \in Writes => PutIndexFails(o) \/ StorageError(o)
    BY <1>7 DEF CollectIndex, CollectShard, SendShard, TransferDone, TransferFault, ReadShard,
                GetHeader, Writes
  <2> QED BY <1>0, <2>1, <2>2, PutMovesOn
<1>8. ASSUME NEW n \in Node, Crash(n)  PROVE \A v \in Op : PutMoves(v)
  <2>1. ASSUME NEW r \in OpState
        PROVE  LET d == [r EXCEPT !.pc = "dead"]
               IN  d.pc = "dead" /\ d.node = r.node /\ d.peers = r.peers
    BY DEF OpState
  <2>2. SUFFICES ASSUME NEW v \in Op  PROVE PutMoves(v)
    OBVIOUS
  <2>3. op'[v] = op[v] \/ op'[v] = [op[v] EXCEPT !.pc = "dead"]
    BY <1>8 DEF Crash
  <2>4. CASE op'[v] = op[v]
    BY <2>4 DEF PutMoves
  <2>5. CASE op'[v] = [op[v] EXCEPT !.pc = "dead"]
    BY <1>0, <1>8, <2>1, <2>5 DEF PutMoves, Writes, Past
  <2> QED BY <2>3, <2>4, <2>5
<1>9. ASSUME NEW o \in Op, Request(o)  PROVE \A v \in Op : PutMoves(v)
  BY <1>2, <1>3, <1>9 DEF Request
<1>10. ASSUME NEW o \in Op, Handler(o) \/ TransferFault(o) \/ StorageError(o)
       PROVE  \A v \in Op : PutMoves(v)
  BY <1>4, <1>5, <1>6, <1>7, <1>10 DEF Handler
<1>11. ASSUME NEW x \in xfers,
              \/ ReceiveOpen(x) \/ ReceiveFill(x) \/ ReceiveIndex(x)
              \/ ReceiverOpensIndex(x) \/ ReceiveIndexFails(x) \/ ReceiveError(x)
       PROVE  \A v \in Op : PutMoves(v)
  <2>1. op' = op
    BY <1>11 DEF ReceiveOpen, ReceiveFill, ReceiveIndex, ReceiverOpensIndex, ReceiveIndexFails,
                 ReceiveError
  <2> QED BY <1>1, <2>1
<1>12. CASE UNCHANGED vars \/ \E n \in Node : Flush(n)
  BY <1>1, <1>12 DEF vars, Flush
<1> QED BY <1>8, <1>9, <1>10, <1>11, <1>12 DEF Next

\* Transfers go to peers.
PeersOnly == /\ \A o \in Op : \A p \in op[o].peers : ~Apart(p)
             /\ \A x \in xfers : ~Apart(x.peer)

\* Another PUT writes to the file name of v.
Rival(v) == \E q \in Op : q # v /\ op[q].kind = "put" /\ File(q) = File(v)

\* The first c shard files on n are those of v.
Filled(v, n, c) ==
    \A i \in 0..(c - 1) : files[n][File(v)][i] = [val |-> v, policy |-> op[v].policy]

\* put_object comes after the last shard.
IndexAtEnd == \A v \in Op : op[v].pc = "index" => op[v].i = DataShards(op[v].policy)

\* A PUT without a rival finds its shards as it left them ...
WritingFilled ==
    \A v \in Op : op[v].pc \in Writes /\ Apart(op[v].node) /\ ~Rival(v) =>
        Filled(v, op[v].node, op[v].i)

\* The index of n, flushed or not, has an entry for v.
Named(v, n) == \E k \in Key : index[n][k].etag = v \/ durable[n][k].etag = v

\* ... and the index has it, flushed or not, only after all of them.
EntriesFilled ==
    \A n \in Node, v \in Op : Named(v, n) /\ Apart(n) /\ ~Rival(v) =>
        /\ op[v].node = n /\ op[v].pc \in Past
        /\ Filled(v, n, DataShards(op[v].policy))

DamageInv == PeersOnly /\ IndexAtEnd /\ WritingFilled /\ EntriesFilled

\* Only the handlers of PUTs write to the files of a node that is nobody's peer,
\* each to its own file name and to one shard.
LEMMA FilesTouched ==
  ASSUME TypeInv, IntegrityInv, PeersOnly, [Next]_vars, NEW n \in Node, Apart(n),
         NEW f \in FileName, files'[n][f] # files[n][f]
  PROVE  \E o \in Op : /\ op[o].kind = "put" /\ op[o].node = n /\ File(o) = f
                       /\ OpenShard(o) \/ FillShard(o)
<1>0. TypeOK /\ \A o \in Op : GoodOp(op[o]) /\ KindOk(op[o])
  BY DEF TypeInv, OpsGood, IntegrityInv, HandlersOk
<1>1. files \in [Node -> [FileName -> [Shard -> Content]]]
  BY <1>0 DEF TypeOK
<1>2. ASSUME NEW o \in Op, OpenShard(o) \/ FillShard(o)
      PROVE  op[o].kind = "put" /\ op[o].node = n /\ File(o) = f
  <2>1. op[o].kind = "put"
    BY <1>0, <1>2 DEF OpenShard, FillShard, KindOk
  <2>2. PICK c : files' = [files EXCEPT ![op[o].node][File(o)][op[o].i] = c]
    BY <1>2 DEF OpenShard, FillShard
  <2> QED BY <1>1, <2>1, <2>2
<1>3. ASSUME NEW x \in xfers, ReceiveOpen(x) \/ ReceiveFill(x)  PROVE FALSE
  <2>1. x.peer # n
    BY DEF PeersOnly
  <2>2. PICK c : files' = [files EXCEPT ![x.peer][File(x.op)][x.i] = c]
    BY <1>3 DEF ReceiveOpen, ReceiveFill
  <2> QED BY <1>1, <2>1, <2>2
<1>4. ASSUME NEW o \in Op, Request(o)  PROVE files' = files
  BY <1>4 DEF Request, BeginPut, BeginGet, Delete, OpensIndex, BeginOpen
<1>5. ASSUME NEW o \in Op, Handler(o) \/ TransferFault(o) \/ StorageError(o),
             ~OpenShard(o), ~FillShard(o)
      PROVE  files' = files
  BY <1>5 DEF Handler, TransferFault, StorageError, PutIndex, PutIndexFails, CollectIndex,
              CollectShard, SendShard, TransferDone, ReadShard, GetHeader
<1>6. ASSUME NEW x \in xfers, \/ ReceiveIndex(x) \/ ReceiverOpensIndex(x)
                              \/ ReceiveIndexFails(x) \/ ReceiveError(x)
      PROVE  files' = files
  BY <1>6 DEF ReceiveIndex, ReceiverOpensIndex, ReceiveIndexFails, ReceiveError, BeginOpen
<1>7. CASE UNCHANGED vars \/ \E m \in Node : Flush(m) \/ Crash(m)
  BY <1>7 DEF vars, Flush, Crash
<1> QED BY <1>2, <1>3, <1>4, <1>5, <1>6, <1>7 DEF Next

\* Transfers are only ever made to peers.
LEMMA PeersNext ==
  ASSUME TypeInv, IntegrityInv, PeersOnly, [Next]_vars
  PROVE  PeersOnly'
<1>1. \A o \in Op : \A p \in op'[o].peers : ~Apart(p)
  BY PutSteps DEF PutMoves, PeersOnly
<1>2. \A x \in xfers' : ~Apart(x.peer)
  <2>1. ASSUME NEW o \in Op, SendShard(o)  PROVE \A x \in xfers' : ~Apart(x.peer)
    BY <2>1 DEF SendShard, PeersOnly
  <2>2. ASSUME NEW o \in Op, Request(o)  PROVE xfers' = xfers
    BY <2>2 DEF Request, BeginPut, BeginGet, Delete, OpensIndex, BeginOpen
  <2>3. ASSUME NEW o \in Op, Handler(o) \/ TransferFault(o) \/ StorageError(o), ~SendShard(o)
        PROVE  xfers' \subseteq xfers
    BY <2>3 DEF Handler, TransferFault, StorageError, OpenShard, FillShard, PutIndex,
                PutIndexFails, CollectIndex, CollectShard, TransferDone, ReadShard, GetHeader
  <2>4. ASSUME NEW x \in xfers, \/ ReceiveOpen(x) \/ ReceiveFill(x) \/ ReceiveIndex(x)
                                \/ ReceiverOpensIndex(x) \/ ReceiveIndexFails(x) \/ ReceiveError(x)
        PROVE  \A y \in xfers' : y \in xfers \/ y.peer = x.peer
    <3>1. x \in Transfer
      BY DEF TypeInv, TypeOK
    <3> QED BY <2>4, <3>1 DEF ReceiveOpen, ReceiveFill, ReceiveIndex, ReceiverOpensIndex,
                       ReceiveIndexFails, ReceiveError, BeginOpen, Transfer
  <2>5. CASE UNCHANGED vars \/ \E m \in Node : Flush(m) \/ Crash(m)
    BY <2>5 DEF vars, Flush, Crash, PeersOnly
  <2> QED BY <2>1, <2>2, <2>3, <2>4, <2>5 DEF Next, PeersOnly
<1> QED BY <1>1, <1>2 DEF PeersOnly, Apart

\* put_object still comes after the last shard.
LEMMA IndexAtEndNext ==
  ASSUME TypeInv, IntegrityInv, PutsStay, IndexAtEnd, [Next]_vars
  PROVE  IndexAtEnd'
<1> SUFFICES ASSUME NEW v \in Op, op'[v].pc = "index"  PROVE op'[v].i = DataShards(op'[v].policy)
  BY DEF IndexAtEnd
<1>1. PutMoves(v)
  BY PutSteps
<1>2. CASE op'[v] = op[v]
  BY <1>2 DEF IndexAtEnd
<1>3. CASE op'[v] # op[v]
  <2>1. FillShard(v) /\ op'[v].i = op[v].i + 1 /\ ~(op[v].i + 1 < DataShards(op[v].policy))
    BY <1>1, <1>3 DEF PutMoves, Writes
  <2>2. op[v].kind = "put" /\ op[v].policy \in Policy /\ op[v].i \in 0..WarmShards
        /\ op[v].i < DataShards(op[v].policy)
    BY <2>1 DEF FillShard, TypeInv, TypeOK, OpsGood, GoodOp, OpState, IntegrityInv, HandlersOk,
                KindOk
  <2>3. op'[v].policy = op[v].policy
    BY <2>2 DEF PutsStay
  <2>4. op[v].i + 1 = DataShards(op[v].policy)
    BY <2>1, <2>2, ShardCount, ConstantsAssumption DEF ConstantsAssumption
  <2> QED BY <2>1, <2>3, <2>4
<1> QED BY <1>2, <1>3

\* A rival remains a rival.
LEMMA RivalStays ==
  ASSUME PutsStay, NEW v \in Op, op[v].kind = "put", Rival(v)
  PROVE  Rival(v)'
BY DEF PutsStay, Rival, File

\* The files of a PUT without a rival change only by its own writes.
LEMMA OwnFiles ==
  ASSUME TypeInv, IntegrityInv, PeersOnly, PutsStay, [Next]_vars, NEW n \in Node, Apart(n),
         NEW v \in Op, op[v].kind = "put", op[v].key \in Key, ~Rival(v)',
         files'[n][File(v)] # files[n][File(v)]
  PROVE  op[v].node = n /\ (OpenShard(v) \/ FillShard(v))
<1>1. File(v) \in FileName
  BY DEF File, FileName
<1>2. PICK o \in Op : /\ op[o].kind = "put" /\ op[o].node = n /\ File(o) = File(v)
                      /\ OpenShard(o) \/ FillShard(o)
  BY <1>1, FilesTouched
<1>3. o = v
  BY <1>2, RivalStays DEF Rival
<1> QED BY <1>2, <1>3

\* A handler that opens or fills a shard moves on, on the same node.
LEMMA ShardMoves ==
  ASSUME TypeInv, NEW v \in Op, OpenShard(v) \/ FillShard(v)
  PROVE  /\ op'[v].pc # op[v].pc /\ op'[v].node = op[v].node
         /\ \/ OpenShard(v) /\ op'[v].i = op[v].i
            \/ FillShard(v) /\ op'[v].i = op[v].i + 1
<1>1. op \in [Op -> OpState] /\ op[v] \in OpState
  BY DEF TypeInv, TypeOK
<1>2. CASE OpenShard(v)
  BY <1>1, <1>2 DEF OpenShard, OpState
<1>3. CASE FillShard(v)
  <2>1. op[v].pc = "fill" /\ op'[v].pc \in {"open", "index"}
    BY <1>1, <1>3 DEF FillShard, OpState
  <2>2. op'[v].node = op[v].node /\ op'[v].i = op[v].i + 1
    BY <1>1, <1>3 DEF FillShard, OpState
  <2> QED BY <1>3, <2>1, <2>2
<1> QED BY <1>2, <1>3

\* It adds its shard to those it has filled.
LEMMA ShardAdded ==
  ASSUME TypeInv, IntegrityInv, PutsStay, NEW v \in Op, OpenShard(v) \/ FillShard(v),
         Filled(v, op[v].node, op[v].i)
  PROVE  Filled(v, op[v].node, op[v].i)'
<1>0. files \in [Node -> [FileName -> [Shard -> Content]]] /\ GoodOp(op[v]) /\ KindOk(op[v])
  BY DEF TypeInv, TypeOK, OpsGood, IntegrityInv, HandlersOk
<1>1. /\ op[v].kind = "put" /\ op[v].node \in Node /\ op[v].key \in Key
      /\ op[v].i \in 0..WarmShards /\ op[v].i < DataShards(op[v].policy) /\ op[v].policy \in Policy
  BY <1>0 DEF OpenShard, FillShard, KindOk, GoodOp, OpState
<1>2. op[v].i \in Shard /\ File(v) \in FileName /\ op[v].i \in Nat
  BY <1>1, NextShard, ConstantsAssumption DEF File, FileName, ConstantsAssumption
<1>3. op'[v].policy = op[v].policy /\ op'[v].key = op[v].key /\ op'[v].node = op[v].node
  BY <1>1, ShardMoves DEF PutsStay
<1>4. CASE OpenShard(v) /\ op'[v].i = op[v].i
  <2>1. files' = [files EXCEPT ![op[v].node][File(v)][op[v].i] = Torn]
    BY <1>4 DEF OpenShard
  <2>2. \A i \in Shard : i # op[v].i =>
          files'[op[v].node][File(v)][i] = files[op[v].node][File(v)][i]
    BY <1>0, <1>1, <1>2, <2>1
  <2>3. \A i \in 0..(op[v].i - 1) : i \in Shard /\ i # op[v].i
    BY <1>1, <1>2, ConstantsAssumption DEF Shard, ConstantsAssumption
  <2> QED BY <1>3, <1>4, <2>2, <2>3 DEF Filled, File
<1>5. CASE FillShard(v) /\ op'[v].i = op[v].i + 1
  <2>1. files' = [files EXCEPT ![op[v].node][File(v)][op[v].i] =
                    [val |-> v, policy |-> op[v].policy]]
    BY <1>5 DEF FillShard
  <2>2. \A i \in Shard : files'[op[v].node][File(v)][i] =
          IF i = op[v].i THEN [val |-> v, policy |-> op[v].policy]
                         ELSE files[op[v].node][File(v)][i]
    BY <1>0, <1>1, <1>2, <2>1
  <2>3. \A i \in 0..(op[v].i + 1 - 1) : i \in Shard /\ (i # op[v].i => i \in 0..(op[v].i - 1))
    BY <1>1, <1>2, ConstantsAssumption DEF Shard, ConstantsAssumption
  <2>4. \A i \in 0..(op[v].i + 1 - 1) :
          files'[op[v].node][File(v)][i] = [val |-> v, policy |-> op[v].policy]
    BY <2>2, <2>3 DEF Filled
  <2> QED BY <1>2, <1>3, <1>5, <2>4 DEF Filled, File
<1> QED BY <1>4, <1>5, ShardMoves

\* A PUT without a rival fills shard after shard.
LEMMA WritingFilledNext ==
  ASSUME TypeInv, IntegrityInv, PeersOnly, PutsStay, WritingFilled, [Next]_vars
  PROVE  WritingFilled'
<1> SUFFICES ASSUME NEW v \in Op, op'[v].pc \in Writes, Apart(op'[v].node), ~Rival(v)'
             PROVE  Filled(v, op[v].node, op[v].i)'
  BY DEF WritingFilled, Apart
<1>0. GoodOp(op[v]) /\ KindOk(op[v]) /\ PutMoves(v)
  BY PutSteps DEF TypeInv, OpsGood, IntegrityInv, HandlersOk
<1>1. CASE op'[v] = op[v]
  <2>1. op[v].kind = "put" /\ op[v].node \in Node /\ op[v].key \in Key
    BY <1>0, <1>1 DEF KindOk, GoodOp, Writes
  <2>2. Filled(v, op[v].node, op[v].i)
    BY <1>1, <2>1, RivalStays DEF WritingFilled
  <2>3. files'[op[v].node][File(v)] = files[op[v].node][File(v)]
    BY <1>1, <2>1, OwnFiles, ShardMoves
  <2> QED BY <1>1, <2>2, <2>3 DEF Filled, File
<1>2. CASE op'[v].i = 0
  BY <1>2 DEF Filled
<1>3. CASE OpenShard(v) \/ FillShard(v)
  <2>1. op[v].kind = "put" /\ op[v].pc \in Writes /\ op'[v].node = op[v].node
    BY <1>0, <1>3, ShardMoves DEF OpenShard, FillShard, KindOk, Writes
  <2>2. Filled(v, op[v].node, op[v].i)
    BY <2>1, RivalStays DEF WritingFilled
  <2> QED BY <1>3, <2>2, ShardAdded
<1> QED BY <1>0, <1>1, <1>2, <1>3 DEF PutMoves

\* Only put_object of its own handler puts v into the index of a node that is
\* nobody's peer.
LEMMA NamedByIndex ==
  ASSUME TypeInv, IntegrityInv, PeersOnly, [Next]_vars, NEW n \in Node, Apart(n), NEW v \in Op,
         Named(v, n)', ~Named(v, n)
  PROVE  PutIndex(v) /\ op[v].node = n
<1>0. /\ index \in [Node -> [Key -> Meta]] /\ durable \in [Node -> [Key -> Meta]]
      /\ NoMeta.etag # v
  BY ConstantsAssumption DEF TypeInv, TypeOK, NoMeta, ConstantsAssumption
<1>1. ASSUME UNCHANGED <<index, durable>>  PROVE FALSE
  BY <1>1 DEF Named
<1>2. ASSUME NEW o \in Op, Request(o)  PROVE FALSE
  <2>1. UNCHANGED durable /\ (index' = index \/ \E m, k : index' = [index EXCEPT ![m][k] = NoMeta])
    BY <1>2 DEF Request, BeginPut, BeginGet, Delete, OpensIndex, BeginOpen
  <2>2. ASSUME NEW m, NEW k, index' = [index EXCEPT ![m][k] = NoMeta]  PROVE FALSE
    <3>1. \A j \in Key : index'[n][j] = index[n][j] \/ index'[n][j] = NoMeta
      BY <1>0, <2>2
    <3> QED BY <1>0, <2>1, <3>1 DEF Named
  <2> QED BY <1>1, <2>1, <2>2
<1>3. ASSUME NEW o \in Op, PutIndex(o)  PROVE o = v /\ op[o].node = n
  <2>1. /\ index' = [index EXCEPT ![op[o].node][op[o].key] = [etag |-> o, policy |-> op[o].policy]]
        /\ UNCHANGED durable
    BY <1>3 DEF PutIndex
  <2>2. \A j \in Key : \/ index'[n][j] = index[n][j]
                       \/ op[o].node = n /\ index'[n][j] = [etag |-> o, policy |-> op[o].policy]
    BY <1>0, <2>1
  <2> QED BY <2>1, <2>2 DEF Named
<1>4. ASSUME NEW o \in Op, Handler(o) \/ TransferFault(o) \/ StorageError(o), ~PutIndex(o)
      PROVE  FALSE
  BY <1>1, <1>4 DEF Handler, TransferFault, StorageError, OpenShard, FillShard, PutIndexFails,
                    CollectIndex, CollectShard, SendShard, TransferDone, ReadShard, GetHeader
<1>5. ASSUME NEW x \in xfers, ReceiveIndex(x)  PROVE FALSE
  <2>1. x.peer # n
    BY DEF PeersOnly
  <2>2. UNCHANGED durable /\ index'[n] = index[n]
    BY <1>0, <1>5, <2>1 DEF ReceiveIndex
  <2> QED BY <2>2 DEF Named
<1>6. ASSUME NEW x \in xfers, \/ ReceiveOpen(x) \/ ReceiveFill(x)
                              \/ ReceiverOpensIndex(x) \/ ReceiveIndexFails(x) \/ ReceiveError(x)
      PROVE  FALSE
  BY <1>1, <1>6 DEF ReceiveOpen, ReceiveFill, ReceiverOpensIndex, ReceiveIndexFails,
                    ReceiveError, BeginOpen
<1>7. ASSUME NEW m \in Node, Flush(m) \/ Crash(m)  PROVE FALSE
  <2>1. \A j \in Key : /\ index'[n][j] \in {index[n][j], durable[n][j]}
                       /\ durable'[n][j] \in {index[n][j], durable[n][j]}
    BY <1>0, <1>7 DEF Flush, Crash
  <2> QED BY <2>1 DEF Named
<1>8. CASE UNCHANGED vars
  BY <1>1, <1>8 DEF vars
<1> QED BY <1>2, <1>3, <1>4, <1>5, <1>6, <1>7, <1>8 DEF Next

\* What the index names stays whole as long as it has no rival.
LEMMA EntriesFilledNext ==
  ASSUME TypeInv, IntegrityInv, IntegrityInv', DamageInv, PutsStay, [Next]_vars
  PROVE  EntriesFilled'
<1> SUFFICES ASSUME NEW n \in Node, NEW v \in Op, Named(v, n)', Apart(n), ~Rival(v)'
             PROVE  /\ op'[v].node = n /\ op'[v].pc \in Past
                    /\ Filled(v, n, DataShards(op[v].policy))'
  BY DEF EntriesFilled, Apart
<1>0. PutMoves(v) /\ GoodOp(op[v]) /\ KindOk(op[v])
  BY PutSteps DEF TypeInv, OpsGood, IntegrityInv, HandlersOk
<1>1. CASE Named(v, n)
  <2>1. op[v].kind = "put" /\ op[v].key \in Key
    <3>1. v # Nil
      BY ConstantsAssumption DEF ConstantsAssumption
    <3> QED BY <1>1, <3>1 DEF Named, IntegrityInv, EntriesNamed, PutOf
  <2>2. op[v].node = n /\ op[v].pc \in Past /\ Filled(v, n, DataShards(op[v].policy))
    BY <1>1, <2>1, RivalStays DEF DamageInv, EntriesFilled
  <2>3. ~OpenShard(v) /\ ~FillShard(v)
    BY <2>2 DEF OpenShard, FillShard, Past
  <2>4. files'[n][File(v)] = files[n][File(v)]
    BY <2>1, <2>3, OwnFiles DEF DamageInv
  <2>5. op'[v].policy = op[v].policy /\ op'[v].key = op[v].key
    BY <2>1 DEF PutsStay
  <2>6. op'[v].pc \in Past /\ op'[v].node = n
    BY <1>0, <2>1, <2>2 DEF PutMoves
  <2> QED BY <2>2, <2>4, <2>5, <2>6 DEF Filled, File
<1>2. CASE ~Named(v, n)
  <2>1. PutIndex(v) /\ op[v].node = n
    BY <1>2, NamedByIndex DEF DamageInv
  <2>2. op[v].pc = "index" /\ op[v].kind = "put" /\ files' = files
    BY <1>0, <2>1 DEF PutIndex, KindOk
  <2>3. op'[v].policy = op[v].policy /\ op'[v].key = op[v].key
    BY <2>2 DEF PutsStay
  <2>4. op[v].i = DataShards(op[v].policy) /\ Filled(v, n, op[v].i)
    BY <2>1, <2>2, RivalStays DEF DamageInv, IndexAtEnd, WritingFilled, Writes
  <2>5. op'[v].pc \in Past /\ op'[v].node = n
    <3>1. op[v] \in OpState
      BY <1>0 DEF GoodOp
    <3> QED BY <2>1, <3>1 DEF PutIndex, TypeInv, TypeOK, OpState, Past
  <2> QED BY <2>2, <2>3, <2>4, <2>5 DEF Filled, File
<1> QED BY <1>1, <1>2

\* Damage takes a rival: put_chunks writes the shard files before put_object writes
\* the index, so wherever a crash strikes, an entry that cannot be read has a file
\* name that two PUTs wrote to.
THEOREM DamageExplained == Spec => []DamageNeedsRival
<1> DEFINE Inv == TypeInv /\ IntegrityInv /\ DamageInv
<1>1. Init => Inv
  <2>1. Init => DamageInv
    <3> SUFFICES ASSUME Init  PROVE DamageInv
      OBVIOUS
    <3>1. PeersOnly /\ IndexAtEnd /\ WritingFilled
      BY DEF Init, PeersOnly, IndexAtEnd, WritingFilled, Idle, Writes
    <3>2. EntriesFilled
      BY ConstantsAssumption DEF Init, EntriesFilled, Named, NoMeta, ConstantsAssumption
    <3> QED BY <3>1, <3>2 DEF DamageInv
  <2> QED BY <2>1, TypeInit, IntegrityInit
<1>2. Inv /\ [Next]_vars => Inv'
  <2> SUFFICES ASSUME Inv, [Next]_vars  PROVE Inv'
    OBVIOUS
  <2>1. TypeInv' /\ IntegrityInv' /\ PutsStay
    BY TypeNext, IntegrityNext
  <2>2. PeersOnly' /\ IndexAtEnd'
    BY <2>1, PeersNext, IndexAtEndNext DEF DamageInv
  <2>3. WritingFilled'
    BY <2>1, WritingFilledNext DEF DamageInv
  <2>4. EntriesFilled'
    BY <2>1, EntriesFilledNext
  <2> QED BY <2>1, <2>2, <2>3, <2>4 DEF DamageInv
<1>3. Inv => DamageNeedsRival
  <2> SUFFICES ASSUME Inv, NEW n \in Node, NEW k \in Key, index[n][k].etag # Nil, Apart(n),
                      ~Readable(n, k)
               PROVE  \E o, q \in Op : /\ o # q
                                       /\ op[o].kind = "put" /\ op[q].kind = "put"
                                       /\ File(o) = ObjectId[k] /\ File(q) = ObjectId[k]
    BY DEF DamageNeedsRival, Apart
  <2> DEFINE v == index[n][k].etag
  <2>1. v \in Op /\ op[v].kind = "put" /\ op[v].key = k /\ op[v].policy = index[n][k].policy
    BY DEF IntegrityInv, EntriesNamed, PutOf
  <2>2. CASE Rival(v)
    BY <2>1, <2>2 DEF Rival, File
  <2>3. CASE ~Rival(v)
    <3>1. Filled(v, n, DataShards(op[v].policy))
      BY <2>1, <2>3 DEF DamageInv, EntriesFilled, Named
    <3>2. op[v].policy \in Policy
      BY <2>1 DEF TypeInv, TypeOK, OpState
    <3>3. 0 \in 0..(DataShards(op[v].policy) - 1)
      BY <3>2, ShardCount, ConstantsAssumption DEF ConstantsAssumption
    <3> HIDE DEF v
    <3>4. \A i \in 0..(DataShards(op[v].policy) - 1) :
            files[n][ObjectId[k]][i] = [val |-> v, policy |-> op[v].policy]
      BY <2>1, <3>1 DEF Filled, File
    <3>5. Decode(files[n][ObjectId[k]], op[v].policy) = v
      BY <2>1, <3>3, <3>4 DEF Decode
    <3> QED BY <2>1, <3>5 DEF Readable, v
  <2> QED BY <2>2, <2>3
<1> QED BY <1>1, <1>2, <1>3, PTL DEF Spec

-----------------------------------------------------------------------------
(* Serial writers: what one PUT of a key at a time leaves readable *)

\* What the theorem is about: PUTs of a file name do not overlap, and keys have
\* file names of their own.
DistinctFiles == \A k, l \in Key : ObjectId[k] = ObjectId[l] => k = l

\* One handler at a time writes the files of a name on a node ...
OneWriter ==
    \A o, q \in Op :
        Writing(o) /\ Writing(q) /\ op[o].node = op[q].node /\ File(o) = File(q) => o = q

\* ... and finds the shards it has written as it left them.
WritingSerial ==
    \A v \in Op : op[v].pc \in Writes /\ Apart(op[v].node) => Filled(v, op[v].node, op[v].i)

\* A PUT of k on n is under way that has truncated a file.
Overwritten(n, k) ==
    \E o \in Op : Writing(o) /\ Truncated(o) /\ op[o].node = n /\ op[o].key = k

\* An entry that nobody is overwriting, and that no failed PUT has overwritten, has
\* all its shards.
EntriesSerial ==
    crashes = 0 =>
        \A n \in Node, k \in Key :
            /\ Apart(n) /\ index[n][k].etag # Nil
            /\ <<n, ObjectId[k]>> \notin spoiled /\ ~Overwritten(n, k)
            => Filled(index[n][k].etag, n, DataShards(index[n][k].policy))

SerialInv == OneWriter /\ WritingSerial /\ EntriesSerial

\* Crashes are counted.
LEMMA CrashesCounted ==
  ASSUME TypeInv, [Next]_vars, crashes' = 0
  PROVE  crashes = 0 /\ \A n \in Node : ~Crash(n)
<1>0. crashes \in Nat
  BY DEF TypeInv, TypeOK
<1>1. \A n \in Node : ~Crash(n)
  BY <1>0 DEF Crash
<1>2. ASSUME NEW o \in Op, Request(o) \/ Handler(o) \/ TransferFault(o) \/ StorageError(o)
      PROVE  crashes' = crashes
  BY <1>2 DEF Request, BeginPut, BeginGet, Delete, OpensIndex, BeginOpen, Handler,
              TransferFault, StorageError, OpenShard, FillShard, PutIndex, PutIndexFails,
              CollectIndex, CollectShard, SendShard, TransferDone, ReadShard, GetHeader
<1>3. ASSUME NEW x \in xfers, \/ ReceiveOpen(x) \/ ReceiveFill(x) \/ ReceiveIndex(x)
                              \/ ReceiverOpensIndex(x) \/ ReceiveIndexFails(x) \/ ReceiveError(x)
      PROVE  crashes' = crashes
  BY <1>3 DEF ReceiveOpen, ReceiveFill, ReceiveIndex, ReceiverOpensIndex, ReceiveIndexFails,
              ReceiveError, BeginOpen
<1>4. CASE UNCHANGED vars \/ \E n \in Node : Flush(n)
  BY <1>1, <1>4 DEF vars, Flush
<1> QED BY <1>1, <1>2, <1>3, <1>4 DEF Next

\* A transfer to n ends with the entry of k.
Indexes(x, n, k) == /\ ReceiveIndex(x) /\ x.peer = n /\ op[x.op].key = k
                    /\ index'[n][k] = ReceivedMeta(x)

\* Who writes an entry of the index: a PUT, a DELETE or a transfer of that key.
LEMMA IndexSteps ==
  ASSUME TypeInv, [Next]_vars, crashes' = 0, NEW n \in Node, NEW k \in Key,
         index'[n][k] # index[n][k]
  PROVE  \/ \E o \in Op : /\ PutIndex(o) /\ op[o].node = n /\ op[o].key = k
                          /\ index'[n][k] = [etag |-> o, policy |-> op[o].policy]
         \/ \E o \in Op : /\ op'[o].kind = "delete" /\ op'[o].key = k
                          /\ index'[n][k] = NoMeta
         \/ \E x \in xfers : Indexes(x, n, k)
<1>0. index \in [Node -> [Key -> Meta]] /\ op \in [Op -> OpState]
  BY DEF TypeInv, TypeOK
<1>1. index' # index /\ \A m \in Node : ~Crash(m)
  BY CrashesCounted
<1>2. ASSUME NEW o \in Op, PutIndex(o)
      PROVE  /\ op[o].node = n /\ op[o].key = k
             /\ index'[n][k] = [etag |-> o, policy |-> op[o].policy]
  <2>1. index' = [index EXCEPT ![op[o].node][op[o].key] = [etag |-> o, policy |-> op[o].policy]]
    BY <1>2 DEF PutIndex
  <2> QED BY <1>0, <2>1
<1>3. ASSUME NEW o \in Op, NEW m \in Frontends, NEW l \in Key, Delete(o, m, l)
      PROVE  /\ op'[o].kind = "delete" /\ op'[o].key = k
             /\ index'[n][k] = NoMeta
  <2>1. /\ index' = [index EXCEPT ![m][l] = NoMeta]
        /\ op'[o] = [Idle EXCEPT !.kind = "delete", !.node = m, !.key = l,
                                 !.ok = TRUE, !.pc = "done"]
    BY <1>0, <1>3 DEF Delete
  <2>2. m = n /\ l = k /\ index'[n][k] = NoMeta
    BY <1>0, <2>1
  <2>3. op'[o].kind = "delete" /\ op'[o].key = l
    BY <2>1 DEF Idle
  <2> QED BY <2>2, <2>3
<1>4. ASSUME NEW o \in Op, Request(o), \A m \in Frontends, l \in Key : ~Delete(o, m, l)
      PROVE  FALSE
  <2>1. index' = index
    BY <1>4 DEF Request, BeginPut, BeginGet, OpensIndex, BeginOpen
  <2> QED BY <1>1, <2>1
<1>5. ASSUME NEW o \in Op, Handler(o) \/ TransferFault(o) \/ StorageError(o), ~PutIndex(o)
      PROVE  FALSE
  BY <1>1, <1>5 DEF Handler, TransferFault, StorageError, OpenShard, FillShard, PutIndexFails,
                    CollectIndex, CollectShard, SendShard, TransferDone, ReadShard, GetHeader
<1>6. ASSUME NEW x \in xfers, ReceiveIndex(x)
      PROVE  /\ x.peer = n /\ op[x.op].key = k
             /\ index'[n][k] = ReceivedMeta(x)
  <2>1. index' = [index EXCEPT ![x.peer][op[x.op].key] = ReceivedMeta(x)]
    BY <1>6 DEF ReceiveIndex
  <2> QED BY <1>0, <2>1
<1>a. ASSUME NEW x \in xfers, ReceiveIndex(x)
      PROVE  Indexes(x, n, k)
  BY <1>6, <1>a DEF Indexes
<1>7. ASSUME NEW x \in xfers, \/ ReceiveOpen(x) \/ ReceiveFill(x)
                              \/ ReceiverOpensIndex(x) \/ ReceiveIndexFails(x) \/ ReceiveError(x)
      PROVE  FALSE
  BY <1>1, <1>7 DEF ReceiveOpen, ReceiveFill, ReceiverOpensIndex, ReceiveIndexFails,
                    ReceiveError, BeginOpen
<1>8. ASSUME UNCHANGED vars \/ \E m \in Node : Flush(m)  PROVE FALSE
  BY <1>1, <1>8 DEF vars, Flush
<1>9. ASSUME NEW o \in Op, Request(o)
      PROVE  /\ op'[o].kind = "delete" /\ op'[o].key = k
             /\ index'[n][k] = NoMeta
  BY <1>3, <1>4, <1>9
<1> QED BY <1>1, <1>2, <1>5, <1>a, <1>7, <1>8, <1>9 DEF Next

\* Only a PUT that succeeds heals the files of a name.
LEMMA HealedByPut ==
  ASSUME [Next]_vars, NEW e, e \in spoiled, e \notin spoiled'
  PROVE  \E o \in Op : PutIndex(o) /\ Name(o) = e
<1>1. ASSUME NEW o \in Op, PutIndex(o)  PROVE Name(o) = e
  BY <1>1 DEF PutIndex
<1>2. ASSUME NEW o \in Op, Request(o)  PROVE spoiled' = spoiled
  BY <1>2 DEF Request, BeginPut, BeginGet, Delete, OpensIndex, BeginOpen
<1>3. ASSUME NEW o \in Op, Handler(o) \/ TransferFault(o) \/ StorageError(o), ~PutIndex(o)
      PROVE  spoiled \subseteq spoiled'
  BY <1>3 DEF Handler, TransferFault, StorageError, OpenShard, FillShard, PutIndexFails,
              CollectIndex, CollectShard, SendShard, TransferDone, ReadShard, GetHeader
<1>4. ASSUME NEW x \in xfers,
             \/ ReceiveOpen(x) \/ ReceiveFill(x) \/ ReceiveIndex(x)
             \/ ReceiverOpensIndex(x) \/ ReceiveIndexFails(x) \/ ReceiveError(x)
      PROVE  spoiled' = spoiled
  BY <1>4 DEF ReceiveOpen, ReceiveFill, ReceiveIndex, ReceiverOpensIndex, ReceiveIndexFails,
              ReceiveError, BeginOpen
<1>5. ASSUME UNCHANGED vars \/ \E n \in Node : Flush(n) \/ Crash(n)  PROVE spoiled' = spoiled
  BY <1>5 DEF vars, Flush, Crash
<1> QED BY <1>1, <1>2, <1>3, <1>4, <1>5 DEF Next

\* BeginPut waits for the writer of its file name.
LEMMA OneWriterNext ==
  ASSUME TypeInv, IntegrityInv, ~Overlap, OneWriter, [Next]_vars
  PROVE  OneWriter'
<1> SUFFICES ASSUME NEW o \in Op, NEW q \in Op, Writing(o)', Writing(q)',
                    op'[o].node = op'[q].node, File(o)' = File(q)'
             PROVE  o = q
  BY DEF OneWriter
<1>0. PutMoves(o) /\ PutMoves(q) /\ op'[o].pc \in Writes /\ op'[q].pc \in Writes
  BY PutSteps DEF Writing, Writes
<1>1. ASSUME NEW v \in Op, op'[v].pc \in Writes, PutMoves(v), op[v].pc \in Writes
      PROVE  Writing(v) /\ op[v].node = op'[v].node /\ File(v) = File(v)'
  <2>1. op[v].kind = "put"
    BY <1>1 DEF IntegrityInv, HandlersOk, KindOk, Writes
  <2> QED BY <1>1, <2>1 DEF PutMoves, Writing, File, Writes
<1>2. ASSUME NEW v \in Op, NEW w \in Op, v # w, op'[v].pc \in Writes, PutMoves(v),
             op[v].pc \notin Writes, Writing(w)', op'[v].node = op'[w].node, File(v)' = File(w)'
      PROVE  FALSE
  <2>1. /\ op'[w] = op[w]
        /\ ~(Writing(w) /\ op[w].node = op'[v].node /\ File(w) = ObjectId[op'[v].key])
    BY <1>2 DEF PutMoves, OpenShard, FillShard, Writes
  <2> QED BY <1>2, <2>1 DEF Writing, File
<1>3. CASE op[o].pc \in Writes /\ op[q].pc \in Writes
  BY <1>0, <1>1, <1>3 DEF OneWriter
<1> QED BY <1>0, <1>2, <1>3

\* The files of the one writer change only by its own writes.
LEMMA SerialFiles ==
  ASSUME TypeInv, IntegrityInv, PeersOnly, OneWriter, [Next]_vars, NEW v \in Op,
         Writing(v), Apart(op[v].node), files'[op[v].node][File(v)] # files[op[v].node][File(v)]
  PROVE  OpenShard(v) \/ FillShard(v)
<1>0. op[v].node \in Node /\ File(v) \in FileName
  BY DEF Writing, TypeInv, OpsGood, GoodOp, File, FileName
<1>1. PICK o \in Op : /\ op[o].kind = "put" /\ op[o].node = op[v].node /\ File(o) = File(v)
                      /\ OpenShard(o) \/ FillShard(o)
  BY <1>0, FilesTouched
<1>2. Writing(o)
  BY <1>1 DEF OpenShard, FillShard, Writing
<1> QED BY <1>1, <1>2 DEF OneWriter

\* The one writer fills shard after shard.
LEMMA WritingSerialNext ==
  ASSUME TypeInv, IntegrityInv, PeersOnly, PutsStay, OneWriter, WritingSerial, [Next]_vars
  PROVE  WritingSerial'
<1> SUFFICES ASSUME NEW v \in Op, op'[v].pc \in Writes, Apart(op'[v].node)
             PROVE  Filled(v, op[v].node, op[v].i)'
  BY DEF WritingSerial, Apart
<1>0. GoodOp(op[v]) /\ KindOk(op[v]) /\ PutMoves(v)
  BY PutSteps DEF TypeInv, OpsGood, IntegrityInv, HandlersOk
<1>1. CASE op'[v] = op[v]
  <2>1. Writing(v) /\ Filled(v, op[v].node, op[v].i)
    BY <1>0, <1>1 DEF KindOk, Writes, Writing, WritingSerial
  <2>2. files'[op[v].node][File(v)] = files[op[v].node][File(v)]
    BY <1>1, <2>1, SerialFiles, ShardMoves
  <2> QED BY <1>1, <2>1, <2>2 DEF Filled, File
<1>2. CASE op'[v].i = 0
  BY <1>2 DEF Filled
<1>3. CASE OpenShard(v) \/ FillShard(v)
  <2>1. op[v].pc \in Writes /\ op'[v].node = op[v].node
    BY <1>3, ShardMoves DEF OpenShard, FillShard, Writes
  <2>2. Filled(v, op[v].node, op[v].i)
    BY <2>1 DEF WritingSerial
  <2> QED BY <1>3, <2>2, ShardAdded
<1> QED BY <1>0, <1>1, <1>2, <1>3 DEF PutMoves

\* The PUT that has truncated a file is there until put_object, or until it fails.
LEMMA WriterStays ==
  ASSUME TypeInv, IntegrityInv, PutsStay, [Next]_vars, crashes' = 0,
         NEW o \in Op, Writing(o), Truncated(o)
  PROVE  \/ /\ Writing(o)' /\ Truncated(o)'
            /\ op'[o].node = op[o].node /\ op'[o].key = op[o].key
         \/ PutIndex(o) \/ PutIndexFails(o) \/ StorageError(o)
<1>0. PutMoves(o) /\ op[o].pc \in Writes /\ op[o].kind = "put" /\ \A n \in Node : ~Crash(n)
  BY PutSteps, CrashesCounted DEF Writing, Writes
<1>1. op'[o].kind = "put" /\ op'[o].key = op[o].key /\ op[o].i \in Nat
  BY <1>0 DEF PutsStay, TypeInv, TypeOK, OpState
<1>2. CASE op'[o].pc \in Writes
  <2>1. Writing(o)' /\ op'[o].node = op[o].node
    BY <1>0, <1>1, <1>2 DEF PutMoves, Writing, Writes
  <2>2. Truncated(o)'
    BY <1>0, <1>1, <1>2 DEF PutMoves, Truncated
  <2> QED BY <1>1, <2>1, <2>2
<1> QED BY <1>0, <1>2 DEF PutMoves

\* What the index names can be read once its writer is done.
LEMMA EntriesSerialNext ==
  ASSUME TypeInv, IntegrityInv, IntegrityInv', PeersOnly, IndexAtEnd, PutsStay, DistinctFiles,
         SerialInv, [Next]_vars
  PROVE  EntriesSerial'
<1> SUFFICES ASSUME crashes' = 0, NEW n \in Node, NEW k \in Key, Apart(n),
                    index'[n][k].etag # Nil, <<n, ObjectId[k]>> \notin spoiled',
                    ~Overwritten(n, k)'
             PROVE  Filled(index[n][k].etag, n, DataShards(index[n][k].policy))'
  BY DEF EntriesSerial, Apart
<1>0. crashes = 0 /\ index \in [Node -> [Key -> Meta]] /\ op \in [Op -> OpState]
  BY CrashesCounted DEF TypeInv, TypeOK
<1>1. CASE Overwritten(n, k)
  <2>1. PICK o \in Op : Writing(o) /\ Truncated(o) /\ op[o].node = n /\ op[o].key = k
    BY <1>1 DEF Overwritten
  <2>2. PutIndex(o) \/ PutIndexFails(o) \/ StorageError(o)
    BY <2>1, WriterStays DEF Overwritten
  <2>3. CASE PutIndex(o)
    <3>1. /\ index'[n][k] = [etag |-> o, policy |-> op[o].policy] /\ files' = files
          /\ op[o].pc = "index"
      BY <1>0, <2>1, <2>3 DEF PutIndex
    <3>2. Filled(o, n, DataShards(op[o].policy))
      BY <2>1, <3>1 DEF SerialInv, WritingSerial, IndexAtEnd, Writes
    <3>3. op'[o].policy = op[o].policy /\ op'[o].key = op[o].key
      BY <2>1 DEF PutsStay, Writing
    <3> QED BY <3>1, <3>2, <3>3 DEF Filled, File
  <2>4. CASE PutIndexFails(o) \/ StorageError(o)
    BY <2>1, <2>4 DEF PutIndexFails, StorageError, Name, File
  <2> QED BY <2>2, <2>3, <2>4
<1>2. CASE ~Overwritten(n, k)
  <2>1. files'[n][ObjectId[k]] = files[n][ObjectId[k]]
    <3> SUFFICES ASSUME files'[n][ObjectId[k]] # files[n][ObjectId[k]]  PROVE FALSE
      OBVIOUS
    <3>1. ObjectId[k] \in FileName
      BY DEF FileName
    <3>2. PICK o \in Op : /\ op[o].kind = "put" /\ op[o].node = n /\ File(o) = ObjectId[k]
                          /\ OpenShard(o) \/ FillShard(o)
      BY <3>1, FilesTouched
    <3>3. Writing(o) /\ op[o].key \in Key
      BY <3>2 DEF OpenShard, FillShard, Writing, TypeInv, OpsGood, GoodOp
    <3>4. op[o].key = k
      BY <3>2, <3>3 DEF DistinctFiles, File
    <3>5. CASE OpenShard(o)
      <4>1. op'[o].pc = "fill" /\ op'[o].node = n /\ op'[o].key = k /\ op'[o].kind = "put"
        BY <1>0, <3>2, <3>4, <3>5 DEF OpenShard, OpState
      <4> QED BY <4>1 DEF Overwritten, Writing, Truncated
    <3>6. CASE FillShard(o)
      BY <1>2, <3>2, <3>3, <3>4, <3>6 DEF FillShard, Overwritten, Truncated
    <3> QED BY <3>2, <3>5, <3>6
  <2>2. index'[n][k] = index[n][k]
    <3>1. ASSUME NEW o \in Op, PutIndex(o), op[o].node = n, op[o].key = k  PROVE FALSE
      BY <1>2, <3>1 DEF Overwritten, PutIndex, Writing, Truncated, IntegrityInv, HandlersOk,
                        KindOk
    <3>2. ASSUME NEW x \in xfers, Indexes(x, n, k)  PROVE FALSE
      BY <3>2 DEF PeersOnly, Indexes
    <3>3. NoMeta.etag = Nil
      BY DEF NoMeta
    <3> QED BY <3>1, <3>2, <3>3, IndexSteps
  <2>a. <<n, ObjectId[k]>> \notin spoiled
    <3> SUFFICES ASSUME <<n, ObjectId[k]>> \in spoiled  PROVE FALSE
      OBVIOUS
    <3>1. PICK o \in Op : PutIndex(o) /\ Name(o) = <<n, ObjectId[k]>>
      BY HealedByPut
    <3>2. /\ op[o].node = n /\ op[o].pc = "index" /\ op[o].kind = "put" /\ op[o].key \in Key
          /\ ObjectId[op[o].key] = ObjectId[k]
      BY <3>1 DEF Name, File, PutIndex, IntegrityInv, HandlersOk, KindOk, TypeInv, OpsGood, GoodOp
    <3> QED BY <1>2, <3>2 DEF DistinctFiles, Overwritten, Writing, Truncated
  <2> DEFINE v == index[n][k].etag
  <2>3. v \in Op /\ op[v].kind = "put" /\ op[v].key = k
    BY <2>2 DEF IntegrityInv, EntriesNamed, PutOf
  <2>4. op'[v].policy = op[v].policy /\ op'[v].key = op[v].key
    BY <2>3 DEF PutsStay
  <2>5. Filled(v, n, DataShards(index[n][k].policy))
    BY <1>0, <1>2, <2>2, <2>a DEF SerialInv, EntriesSerial
  <2> QED BY <2>1, <2>2, <2>3, <2>4, <2>5 DEF Filled, File
<1> QED BY <1>1, <1>2

\* An entry whose data shards are all there can be read.
LEMMA FilledReadable ==
  ASSUME TypeInv, IntegrityInv, NEW n \in Node, NEW k \in Key, index[n][k].etag # Nil,
         Filled(index[n][k].etag, n, DataShards(index[n][k].policy))
  PROVE  Readable(n, k)
<1> DEFINE v == index[n][k].etag
<1>1. v \in Op /\ op[v].kind = "put" /\ op[v].key = k /\ op[v].policy = index[n][k].policy
  BY DEF IntegrityInv, EntriesNamed, PutOf
<1>2. op[v].policy \in Policy
  BY <1>1 DEF TypeInv, TypeOK, OpState
<1>3. 0 \in 0..(DataShards(op[v].policy) - 1)
  BY <1>2, ShardCount, ConstantsAssumption DEF ConstantsAssumption
<1> HIDE DEF v
<1>4. \A i \in 0..(DataShards(op[v].policy) - 1) :
        files[n][ObjectId[k]][i] = [val |-> v, policy |-> op[v].policy]
  BY <1>1 DEF Filled, File, v
<1>5. Decode(files[n][ObjectId[k]], op[v].policy) = v
  BY <1>1, <1>3, <1>4 DEF Decode
<1> QED BY <1>1, <1>5 DEF Readable, v

\* Overwriting in place is safe for one writer at a time: where PUTs to a file name
\* do not overlap and keys have file names of their own, put_chunks leaves every
\* entry of a node that only its clients write to readable whenever no PUT of it is
\* under way, until the first crash; except that a PUT that fails after it has
\* truncated a file leaves the old entry over what it wrote, until a PUT succeeds.
THEOREM SerialReadable ==
  ASSUME ~Overlap, DistinctFiles
  PROVE  Spec => []SerialPutsReadable
<1> DEFINE Inv == TypeInv /\ IntegrityInv /\ PeersOnly /\ IndexAtEnd /\ SerialInv
<1>1. Init => Inv
  <2> SUFFICES ASSUME Init  PROVE Inv
    OBVIOUS
  <2>1. PeersOnly /\ IndexAtEnd /\ WritingSerial /\ OneWriter
    BY DEF Init, PeersOnly, IndexAtEnd, WritingSerial, OneWriter, Writing, Idle, Writes
  <2>2. EntriesSerial
    BY DEF Init, EntriesSerial, NoMeta
  <2> QED BY <2>1, <2>2, TypeInit, IntegrityInit DEF SerialInv
<1>2. Inv /\ [Next]_vars => Inv'
  <2> SUFFICES ASSUME Inv, [Next]_vars  PROVE Inv'
    OBVIOUS
  <2>1. TypeInv' /\ IntegrityInv' /\ PutsStay
    BY TypeNext, IntegrityNext
  <2>2. PeersOnly' /\ IndexAtEnd'
    BY <2>1, PeersNext, IndexAtEndNext
  <2>3. OneWriter' /\ WritingSerial'
    BY <2>1, OneWriterNext, WritingSerialNext DEF SerialInv
  <2>4. EntriesSerial'
    BY <2>1, EntriesSerialNext
  <2> QED BY <2>1, <2>2, <2>3, <2>4 DEF SerialInv
<1>3. Inv => SerialPutsReadable
  <2> SUFFICES ASSUME Inv, NEW n \in Node, NEW k \in Key, crashes = 0, index[n][k].etag # Nil,
                      Apart(n), <<n, ObjectId[k]>> \notin spoiled, ~Overwritten(n, k)
               PROVE  Readable(n, k)
    BY DEF SerialPutsReadable, Apart, Overwritten
  <2>1. Filled(index[n][k].etag, n, DataShards(index[n][k].policy))
    BY DEF SerialInv, EntriesSerial
  <2> QED BY <2>1, FilledReadable
<1> QED BY <1>1, <1>2, <1>3, PTL DEF Spec

-----------------------------------------------------------------------------
(* Replication: how far the fan-out of the only PUT of a key has got *)

\* No transfer failed, nothing crashed, no access to an index raced another.
Calm == faults = 0 /\ crashes = 0 /\ ~raced

\* o is a PUT, and the only request that changes its key.
Sole(o) ==
    /\ op[o].kind = "put"
    /\ \A q \in Op : op[q].key = op[o].key /\ op[q].kind # "get" => q = o

\* A shard, the entry and the number of shards of o, and its calls under way.
Copy(o)  == [val |-> o, policy |-> op[o].policy]
Entry(o) == [etag |-> o, policy |-> op[o].policy]
Count(o) == DataShards(op[o].policy)
Under(o) == {x \in xfers : x.op = o}

\* The first c shards of o are on p, which indexes it from the first one on.
Delivered(o, p, c) == Filled(o, p, c) /\ (c > 0 => index[p][op[o].key] = Entry(o))

\* The fan-out awaits each of its calls ...
Sequential(o) ==
    op[o].pc # "await" => Under(o) = {}

\* ... after the handler has filled the shards up to the next ...
Placed(o) ==
    op[o].pc \in Writes => Filled(o, op[o].node, op[o].i)

\* ... and indexed them; the peers are those of the table ...
Stored(o) ==
    op[o].pc \in {"lookup", "collect"} =>
        Delivered(o, op[o].node, Count(o)) /\ op[o].peers = Peers[op[o].node]

\* ... what read_shards finds is what the handler stored ...
Gathered(o) ==
    /\ op[o].pc \in {"collect", "send", "await"} => op[o].expect = Entry(o)
    /\ op[o].pc = "collect" => \A j \in 0..(op[o].i - 1) : op[o].got[j] = Copy(o)
    /\ op[o].pc \in {"send", "await"} => \A j \in 0..(Count(o) - 1) : op[o].got[j] = Copy(o)

\* ... the peers that are not to be served any more have all shards, and the
\* present one those before the next ...
Serving(o) ==
    op[o].pc \in {"send", "await"} =>
        /\ \A p \in Peers[op[o].node] \ op[o].peers : Delivered(o, p, Count(o))
        /\ op[o].i > 0 => op[o].peer \in op[o].peers /\ Delivered(o, op[o].peer, op[o].i)

\* ... the call it awaits carries the next shard, and has written it at its end ...
Awaiting(o) ==
    op[o].pc = "await" =>
        /\ op[o].peer \in op[o].peers
        /\ \A x \in Under(o) : /\ x.peer = op[o].peer /\ x.i = op[o].i /\ x.content = Copy(o)
                               /\ x.stage = "written" => Filled(o, op[o].peer, op[o].i + 1)
        /\ \A x, y \in Under(o) : x = y
        /\ Under(o) = {} => Delivered(o, op[o].peer, op[o].i + 1)

\* ... and at its end every peer has everything.
Replicated(o) ==
    op[o].pc = "done" => \A p \in Peers[op[o].node] : Delivered(o, p, Count(o))

Fanout(o) == /\ Sequential(o) /\ Placed(o) /\ Stored(o) /\ Gathered(o) /\ Serving(o)
             /\ Awaiting(o) /\ Replicated(o) /\ op[o].pc # "dead"

\* Requests that have not come have no key.
Keyless == \A q \in Op : op[q].kind = "none" => op[q].key = Nil

FanoutInv == Keyless /\ (Calm => \A o \in Op : Sole(o) => Fanout(o))

\* A handler goes on with the request it has.
LEMMA HandlerKeeps ==
  ASSUME TypeInv, NEW o \in Op, Handler(o) \/ TransferFault(o) \/ StorageError(o)
  PROVE  /\ op'[o].kind = op[o].kind /\ op'[o].key = op[o].key
         /\ op'[o].node = op[o].node /\ op'[o].policy = op[o].policy
         /\ \A q \in Op \ {o} : op'[q] = op[q]
<1>0. op \in [Op -> OpState] /\ op[o] \in OpState
  BY DEF TypeInv, TypeOK
<1> DEFINE Goal == /\ op'[o].kind = op[o].kind /\ op'[o].key = op[o].key
                   /\ op'[o].node = op[o].node /\ op'[o].policy = op[o].policy
                   /\ \A q \in Op \ {o} : op'[q] = op[q]
<1>1. CASE OpenShard(o) \/ FillShard(o) \/ PutIndexFails(o) \/ StorageError(o) \/ GetHeader(o)
  BY <1>0, <1>1 DEF OpenShard, FillShard, PutIndexFails, StorageError, GetHeader, OpState
<1>2. CASE PutIndex(o)
  BY <1>0, <1>2 DEF PutIndex, OpState
<1>3. CASE CollectIndex(o)
  BY <1>0, <1>3 DEF CollectIndex, OpState
<1>4. CASE CollectShard(o)
  BY <1>0, <1>4 DEF CollectShard, OpState
<1>5. ASSUME NEW p, op' = [op EXCEPT ![o] = After(op[o], p)]  PROVE Goal
  <2>1. /\ After(op[o], p).kind = op[o].kind /\ After(op[o], p).key = op[o].key
        /\ After(op[o], p).node = op[o].node /\ After(op[o], p).policy = op[o].policy
    BY <1>0 DEF After, OpState
  <2> QED BY <1>0, <1>5, <2>1
<1>6. CASE SendShard(o)
  <2>1. \/ \E p : op' = [op EXCEPT ![o] = After(op[o], p)]
        \/ \E p : op' = [op EXCEPT ![o].pc = "await", ![o].peer = p]
    BY <1>6 DEF SendShard
  <2>2. ASSUME NEW p, op' = [op EXCEPT ![o].pc = "await", ![o].peer = p]  PROVE Goal
    BY <1>0, <2>2 DEF OpState
  <2> QED BY <1>5, <2>1, <2>2
<1>7. CASE TransferDone(o) \/ TransferFault(o)
  BY <1>5, <1>7 DEF TransferDone, TransferFault
<1>8. CASE ReadShard(o)
  <2>1. PICK got, i, body, pc :
          op' = [op EXCEPT ![o] = [op[o] EXCEPT !.got = got, !.i = i, !.body = body, !.pc = pc]]
    BY <1>8 DEF ReadShard
  <2> QED BY <1>0, <2>1 DEF OpState
<1> QED BY <1>1, <1>2, <1>3, <1>4, <1>6, <1>7, <1>8 DEF Handler

\* A request that comes is one, and remains the one whose handle it opened.
LEMMA RequestKeeps ==
  ASSUME TypeInv, NEW o \in Op, Request(o)
  PROVE  /\ op'[o].kind # "none" /\ op[o].pc \in {"idle", "get_db"}
         /\ op[o].pc = "get_db" => op'[o].kind = op[o].kind /\ op'[o].key = op[o].key
         /\ op'[o].kind = "put" => op'[o].pc \in {"open", "get_db"} /\ op'[o].i = 0
         /\ xfers' = xfers
         /\ \A q \in Op \ {o} : op'[q] = op[q]
<1>0. op \in [Op -> OpState]
  BY DEF TypeInv, TypeOK
<1>1. PICK n \in Frontends, k \in Key :
        \/ \E policy \in Policies : BeginPut(o, n, k, policy)
        \/ BeginGet(o, n, k)
        \/ Delete(o, n, k)
        \/ \E kind \in {"get", "delete"} : OpensIndex(o, n, k, kind, "hot")
        \/ \E policy \in Policies : OpensIndex(o, n, k, "put", policy)
  BY DEF Request
<1> DEFINE Goal == /\ op'[o].kind # "none" /\ op[o].pc \in {"idle", "get_db"}
                   /\ op[o].pc = "get_db" => op'[o].kind = op[o].kind /\ op'[o].key = op[o].key
                   /\ op'[o].kind = "put" => op'[o].pc \in {"open", "get_db"} /\ op'[o].i = 0
                   /\ xfers' = xfers
                   /\ \A q \in Op \ {o} : op'[q] = op[q]
<1>2. ASSUME NEW policy \in Policies, BeginPut(o, n, k, policy)  PROVE Goal
  <2>1. /\ op'[o] = [Idle EXCEPT !.pc = "open", !.kind = "put", !.node = n, !.key = k,
                                 !.policy = policy]
        /\ \A q \in Op \ {o} : op'[q] = op[q]
        /\ op[o].pc = "idle" \/ (op[o].pc = "get_db" /\ op[o].kind = "put" /\ op[o].key = k)
        /\ xfers' = xfers
    BY <1>0, <1>2 DEF BeginPut, Served
  <2> QED BY <2>1 DEF Idle
<1>3. CASE BeginGet(o, n, k)
  <2>1. PICK c : op'[o] = [Idle EXCEPT !.kind = "get", !.node = n, !.key = k,
                                       !.expect = index[n][k], !.pc = c]
    BY <1>0, <1>3 DEF BeginGet
  <2>2. /\ \A q \in Op \ {o} : op'[q] = op[q]
        /\ op[o].pc = "idle" \/ (op[o].pc = "get_db" /\ op[o].kind = "get" /\ op[o].key = k)
        /\ xfers' = xfers
    BY <1>0, <1>3 DEF BeginGet, Served
  <2> QED BY <2>1, <2>2 DEF Idle
<1>4. CASE Delete(o, n, k)
  <2>1. /\ op'[o] = [Idle EXCEPT !.kind = "delete", !.node = n, !.key = k,
                                 !.ok = TRUE, !.pc = "done"]
        /\ \A q \in Op \ {o} : op'[q] = op[q]
        /\ op[o].pc = "idle" \/ (op[o].pc = "get_db" /\ op[o].kind = "delete" /\ op[o].key = k)
        /\ xfers' = xfers
    BY <1>0, <1>4 DEF Delete, Served
  <2> QED BY <2>1 DEF Idle
<1>5. ASSUME NEW kind \in {"put", "get", "delete"}, NEW policy, OpensIndex(o, n, k, kind, policy)
      PROVE  Goal
  <2>1. /\ op'[o] = [Idle EXCEPT !.kind = kind, !.node = n, !.key = k,
                                 !.policy = policy, !.pc = "get_db"]
        /\ \A q \in Op \ {o} : op'[q] = op[q]
        /\ op[o].pc = "idle" /\ xfers' = xfers
    BY <1>0, <1>5 DEF OpensIndex, BeginOpen
  <2> QED BY <2>1 DEF Idle
<1> QED BY <1>1, <1>2, <1>3, <1>4, <1>5

\* What a crash leaves of a request.
LEMMA CrashKeeps ==
  ASSUME TypeInv, NEW n \in Node, Crash(n), NEW q \in Op
  PROVE  op'[q].kind = op[q].kind /\ op'[q].key = op[q].key
<1>1. op[q] \in OpState /\ (op'[q] = op[q] \/ op'[q] = [op[q] EXCEPT !.pc = "dead"])
  BY DEF Crash, TypeInv, TypeOK
<1>2. CASE op'[q] = [op[q] EXCEPT !.pc = "dead"]
  BY <1>1, <1>2 DEF OpState
<1> QED BY <1>1, <1>2

\* A step is one of a request, or leaves the requests alone.
LEMMA RequestsStay ==
  ASSUME TypeInv, [Next]_vars
  PROVE  \A q \in Op : \/ op'[q] = op[q]
                       \/ Request(q)
                       \/ op'[q].kind = op[q].kind /\ op'[q].key = op[q].key
<1>1. ASSUME NEW o \in Op, Request(o) \/ Handler(o) \/ TransferFault(o) \/ StorageError(o),
             NEW q \in Op
      PROVE  \/ op'[q] = op[q] \/ Request(q)
             \/ op'[q].kind = op[q].kind /\ op'[q].key = op[q].key
  BY <1>1, HandlerKeeps, RequestKeeps
<1>2. ASSUME NEW x \in xfers, \/ ReceiveOpen(x) \/ ReceiveFill(x) \/ ReceiveIndex(x)
                              \/ ReceiverOpensIndex(x) \/ ReceiveIndexFails(x) \/ ReceiveError(x)
      PROVE  op' = op
  BY <1>2 DEF ReceiveOpen, ReceiveFill, ReceiveIndex, ReceiverOpensIndex, ReceiveIndexFails,
              ReceiveError
<1>3. CASE UNCHANGED vars \/ \E n \in Node : Flush(n)
  BY <1>3 DEF vars, Flush
<1> QED BY <1>1, <1>2, <1>3, CrashKeeps DEF Next

\* Only requests that have not come have no key.
LEMMA KeylessNext ==
  ASSUME TypeInv, Keyless, [Next]_vars
  PROVE  Keyless'
BY RequestsStay, RequestKeeps DEF Keyless

\* Who is alone was alone before.
LEMMA SoleBefore ==
  ASSUME TypeInv, IntegrityInv, PutsStay, Keyless, [Next]_vars,
         NEW o \in Op, op[o].kind = "put", Sole(o)'
  PROVE  Sole(o)
<1>0. op'[o].key = op[o].key /\ op[o].key \in Key
  BY DEF PutsStay, IntegrityInv, HandlersOk, KindOk, TypeInv, OpsGood, GoodOp
<1> SUFFICES ASSUME NEW q \in Op, op[q].key = op[o].key, op[q].kind # "get"  PROVE q = o
  BY DEF Sole
<1>1. op[q].kind # "none"
  BY <1>0, ConstantsAssumption DEF Keyless, ConstantsAssumption
<1>2. op[q].pc # "idle"
  BY <1>1 DEF IntegrityInv, HandlersOk, KindOk
<1>3. op'[q].kind = op[q].kind /\ op'[q].key = op[q].key
  BY <1>2, RequestsStay, RequestKeeps
<1> QED BY <1>0, <1>3 DEF Sole

\* It was calm before, and the step is none that fails.
LEMMA CalmBefore ==
  ASSUME TypeInv, [Next]_vars, Calm'
  PROVE  /\ Calm /\ \A n \in Node : ~Crash(n)
         /\ \A o \in Op : ~TransferFault(o) /\ ~StorageError(o) /\ ~PutIndexFails(o)
         /\ \A x \in xfers : ~ReceiveIndexFails(x) /\ ~ReceiveError(x)
<1>0. faults \in Nat /\ raced \in BOOLEAN
  BY DEF TypeInv, TypeOK
<1>1. crashes = 0 /\ \A n \in Node : ~Crash(n)
  BY CrashesCounted DEF Calm
<1>2. /\ \A o \in Op : ~TransferFault(o) /\ ~StorageError(o) /\ ~PutIndexFails(o)
      /\ \A x \in xfers : ~ReceiveIndexFails(x) /\ ~ReceiveError(x)
  BY <1>0 DEF Calm, TransferFault, StorageError, PutIndexFails, ReceiveIndexFails, ReceiveError,
              AccessFails
<1>3. ASSUME NEW o \in Op, Request(o) \/ Handler(o)
      PROVE  faults' = faults /\ raced' \in {raced, TRUE}
  BY <1>0, <1>3 DEF Request, BeginPut, BeginGet, Delete, OpensIndex, BeginOpen, Served, Access,
              AccessFails, Handler, OpenShard, FillShard, PutIndex, PutIndexFails, CollectIndex,
              CollectShard, SendShard, TransferDone, ReadShard, GetHeader
<1>4. ASSUME NEW x \in xfers, \/ ReceiveOpen(x) \/ ReceiveFill(x) \/ ReceiveIndex(x)
                              \/ ReceiverOpensIndex(x)
      PROVE  faults' = faults /\ raced' = raced
  BY <1>4 DEF ReceiveOpen, ReceiveFill, ReceiveIndex, ReceiverOpensIndex, BeginOpen, Access
<1>5. ASSUME UNCHANGED vars \/ \E n \in Node : Flush(n)  PROVE faults' = faults /\ raced' = raced
  BY <1>5 DEF vars, Flush
<1>6. faults' = faults /\ raced' \in {raced, TRUE}
  BY <1>1, <1>2, <1>3, <1>4, <1>5 DEF Next
<1> QED BY <1>0, <1>1, <1>2, <1>6 DEF Calm

\* Who writes to the files of a name: a PUT to it, or a transfer of one.
LEMMA FileSteps ==
  ASSUME TypeInv, [Next]_vars, NEW n \in Node, NEW f \in FileName,
         files'[n][f] # files[n][f]
  PROVE  \/ \E o \in Op : File(o) = f /\ (OpenShard(o) \/ FillShard(o))
         \/ \E x \in xfers : File(x.op) = f /\ (ReceiveOpen(x) \/ ReceiveFill(x))
<1>1. files \in [Node -> [FileName -> [Shard -> Content]]] /\ files' # files
  BY DEF TypeInv, TypeOK
<1>2. ASSUME NEW o \in Op, OpenShard(o) \/ FillShard(o)  PROVE File(o) = f
  <2>1. PICK c : files' = [files EXCEPT ![op[o].node][File(o)][op[o].i] = c]
    BY <1>2 DEF OpenShard, FillShard
  <2> QED BY <1>1, <2>1
<1>3. ASSUME NEW x \in xfers, ReceiveOpen(x) \/ ReceiveFill(x)  PROVE File(x.op) = f
  <2>1. PICK c : files' = [files EXCEPT ![x.peer][File(x.op)][x.i] = c]
    BY <1>3 DEF ReceiveOpen, ReceiveFill
  <2> QED BY <1>1, <2>1
<1>4. ASSUME NEW o \in Op, Request(o)  PROVE FALSE
  BY <1>1, <1>4 DEF Request, BeginPut, BeginGet, Delete, OpensIndex, BeginOpen
<1>5. ASSUME NEW o \in Op, Handler(o) \/ TransferFault(o) \/ StorageError(o),
             ~OpenShard(o), ~FillShard(o)
      PROVE  FALSE
  BY <1>1, <1>5 DEF Handler, TransferFault, StorageError, PutIndex, PutIndexFails, CollectIndex,
                    CollectShard, SendShard, TransferDone, ReadShard, GetHeader
<1>6. ASSUME NEW x \in xfers, \/ ReceiveIndex(x) \/ ReceiverOpensIndex(x)
                              \/ ReceiveIndexFails(x) \/ ReceiveError(x)
      PROVE  FALSE
  BY <1>1, <1>6 DEF ReceiveIndex, ReceiverOpensIndex, ReceiveIndexFails, ReceiveError, BeginOpen
<1>7. ASSUME UNCHANGED vars \/ \E m \in Node : Flush(m) \/ Crash(m)  PROVE FALSE
  BY <1>1, <1>7 DEF vars, Flush, Crash
<1> QED BY <1>2, <1>3, <1>4, <1>5, <1>6, <1>7 DEF Next

\* A peer that moves a transfer on, or ends it, takes the one that was there.
LEMMA ReceiverTakes ==
  ASSUME TypeInv, NEW x \in xfers, ReceiveOpen(x) \/ ReceiveFill(x) \/ ReceiveIndex(x)
  PROVE  x \notin xfers'
<1>1. x \in Transfer
  BY DEF TypeInv, TypeOK
<1>2. CASE ReceiveOpen(x)
  <2>1. [x EXCEPT !.stage = "open"].stage = "open" /\ x.stage = "sent"
    BY <1>1, <1>2 DEF ReceiveOpen, Transfer
  <2> QED BY <1>2, <2>1 DEF ReceiveOpen
<1>3. CASE ReceiveFill(x)
  <2>1. [x EXCEPT !.stage = "written"].stage = "written" /\ x.stage = "open"
    BY <1>1, <1>3 DEF ReceiveFill, Transfer
  <2> QED BY <1>3, <2>1 DEF ReceiveFill
<1> QED BY <1>2, <1>3 DEF ReceiveIndex

\* The files and entries of a key of only one PUT change by its own steps.
LEMMA SoleOwns ==
  ASSUME TypeInv, IntegrityInv, DistinctFiles, [Next]_vars, crashes' = 0, NEW o \in Op,
         Sole(o), Sole(o)', op'[o] = op[o], Under(o)' = Under(o), NEW n \in Node
  PROVE  files'[n][File(o)] = files[n][File(o)] /\ index'[n][op[o].key] = index[n][op[o].key]
<1>0. op[o].key \in Key /\ File(o) \in FileName
  BY DEF Sole, IntegrityInv, HandlersOk, KindOk, TypeInv, OpsGood, GoodOp, File, FileName
<1>1. \A x \in xfers : x.op \in Op /\ op[x.op].kind = "put" /\ op[x.op].key \in Key
  BY DEF TypeInv, TypeOK, Transfer, XfersKeyed, IntegrityInv, FanoutOfPuts
<1>2. ASSUME NEW x \in xfers, op[x.op].key = op[o].key,
             ReceiveOpen(x) \/ ReceiveFill(x) \/ ReceiveIndex(x)
      PROVE  FALSE
  <2>1. x \in Under(o)
    BY <1>1, <1>2 DEF Sole, Under
  <2>2. x \notin Under(o)'
    BY <1>2, ReceiverTakes DEF Under
  <2> QED BY <2>1, <2>2
<1>3. ~OpenShard(o) /\ ~FillShard(o)
  BY ShardMoves
<1>4. ~PutIndex(o)
  <2>1. op[o] \in OpState /\ op \in [Op -> OpState]
    BY DEF TypeInv, TypeOK
  <2>2. ASSUME PutIndex(o)  PROVE op[o].pc = "index" /\ op'[o].pc \in {"done", "lookup"}
    BY <2>1, <2>2 DEF PutIndex, OpState
  <2> QED BY <2>2
<1>5. files'[n][File(o)] = files[n][File(o)]
  <2>1. ASSUME NEW q \in Op, File(q) = File(o), OpenShard(q) \/ FillShard(q)  PROVE FALSE
    <3>1. op[q].kind = "put" /\ op[q].key \in Key
      BY <2>1 DEF OpenShard, FillShard, IntegrityInv, HandlersOk, KindOk, TypeInv, OpsGood, GoodOp
    <3>2. q = o
      BY <1>0, <2>1, <3>1 DEF Sole, DistinctFiles, File
    <3> QED BY <1>3, <2>1, <3>2
  <2>2. ASSUME NEW x \in xfers, File(x.op) = File(o), ReceiveOpen(x) \/ ReceiveFill(x)
        PROVE  FALSE
    BY <1>0, <1>1, <1>2, <2>2 DEF DistinctFiles, File
  <2> QED BY <1>0, <2>1, <2>2, FileSteps
<1>6. index'[n][op[o].key] = index[n][op[o].key]
  <2>1. ASSUME NEW q \in Op, PutIndex(q), op[q].key = op[o].key  PROVE FALSE
    <3>1. op[q].kind = "put"
      BY <2>1 DEF PutIndex, IntegrityInv, HandlersOk, KindOk
    <3> QED BY <1>4, <2>1, <3>1 DEF Sole
  <2>2. ASSUME NEW q \in Op, op'[q].kind = "delete", op'[q].key = op[o].key  PROVE FALSE
    BY <2>2 DEF Sole
  <2> SUFFICES ASSUME index'[n][op[o].key] # index[n][op[o].key]  PROVE FALSE
    OBVIOUS
  <2>3. PICK k \in Key : k = op[o].key
    BY <1>0
  <2>4. \/ \E q \in Op : PutIndex(q) /\ op[q].key = k
        \/ \E q \in Op : op'[q].kind = "delete" /\ op'[q].key = k
        \/ \E x \in xfers : Indexes(x, n, k)
    BY <2>3, IndexSteps
  <2>5. ASSUME NEW x \in xfers, Indexes(x, n, k)  PROVE FALSE
    BY <1>2, <2>3, <2>5 DEF Indexes
  <2> QED BY <2>1, <2>2, <2>3, <2>4, <2>5
<1> QED BY <1>5, <1>6

\* Files and entries that stay as they are stay delivered.
LEMMA DeliveredStays ==
  ASSUME NEW o \in Op, NEW p, NEW c, Delivered(o, p, c),
         op'[o].key = op[o].key, op'[o].policy = op[o].policy,
         \A i \in 0..(c - 1) : files'[p][File(o)][i] = files[p][File(o)][i],
         index'[p][op[o].key] \in {index[p][op[o].key], Entry(o)}
  PROVE  Delivered(o, p, c)'
BY DEF Delivered, Filled, File, Entry

\* What others do leaves the fan-out of the only PUT of a key where it is.
LEMMA FanoutOthers ==
  ASSUME TypeInv, IntegrityInv, DistinctFiles, [Next]_vars, crashes' = 0, NEW o \in Op,
         Sole(o), Sole(o)', op'[o] = op[o], Under(o)' = Under(o), Fanout(o)
  PROVE  Fanout(o)'
<1>0. /\ op[o].node \in Node /\ op[o].peers \subseteq Node /\ Peers[op[o].node] \subseteq Node
      /\ Count(o)' = Count(o) /\ Copy(o)' = Copy(o) /\ Entry(o)' = Entry(o)
  <2>1. op[o] \in OpState /\ op[o].node \in Node
    BY DEF TypeInv, OpsGood, GoodOp, Sole, IntegrityInv, HandlersOk, KindOk
  <2> QED BY <2>1, ConstantsAssumption DEF OpState, ConstantsAssumption, Count, Copy, Entry
<1>1. \A p \in Node : /\ files'[p][File(o)] = files[p][File(o)]
                      /\ index'[p][op[o].key] = index[p][op[o].key]
  BY SoleOwns
<1>2. ASSUME NEW p \in Node, NEW c  PROVE (Filled(o, p, c) => Filled(o, p, c)')
  BY <1>1 DEF Filled, File
<1>3. ASSUME NEW p \in Node, NEW c  PROVE (Delivered(o, p, c) => Delivered(o, p, c)')
  BY <1>1, DeliveredStays
<1>4. Sequential(o)' /\ Placed(o)'
  BY <1>0, <1>2 DEF Fanout, Sequential, Placed
<1>5. Stored(o)' /\ Gathered(o)'
  BY <1>0, <1>3 DEF Fanout, Stored, Gathered
<1>6. Serving(o)'
  <2>1. op[o].pc \in {"send", "await"} => \A p \in Peers[op[o].node] \ op[o].peers : Delivered(o, p, Count(o))'
    BY <1>0, <1>3 DEF Fanout, Serving
  <2>2. op[o].pc \in {"send", "await"} /\ op[o].i > 0 =>
          op[o].peer \in op[o].peers /\ Delivered(o, op[o].peer, op[o].i)'
    BY <1>0, <1>3 DEF Fanout, Serving
  <2> QED BY <1>0, <2>1, <2>2 DEF Serving, Delivered, Filled, File, Count, Entry
<1>7. Awaiting(o)'
  <2>1. op[o].pc = "await" => op[o].peer \in Node /\ op[o].peer \in op[o].peers
    BY <1>0 DEF Fanout, Awaiting
  <2>2. op[o].pc = "await" /\ Under(o) = {} => Delivered(o, op[o].peer, op[o].i + 1)'
    BY <1>3, <2>1 DEF Fanout, Awaiting
  <2>3. op[o].pc = "await" => \A x \in Under(o) :
          /\ x.peer = op[o].peer /\ x.i = op[o].i /\ x.content = Copy(o)
          /\ x.stage = "written" => Filled(o, op[o].peer, op[o].i + 1)'
    BY <1>2, <2>1 DEF Fanout, Awaiting
  <2>4. op[o].pc = "await" => \A x, y \in Under(o) : x = y
    BY DEF Fanout, Awaiting
  <2> QED BY <1>0, <2>1, <2>2, <2>3, <2>4 DEF Awaiting, Delivered, Filled, File, Entry
<1>8. Replicated(o)' /\ op'[o].pc # "dead"
  <2>1. op[o].pc = "done" => \A p \in Peers[op[o].node] : Delivered(o, p, Count(o))'
    BY <1>0, <1>3 DEF Fanout, Replicated
  <2> QED BY <1>0, <2>1 DEF Fanout, Replicated, Delivered, Filled, File, Count, Entry
<1> QED BY <1>4, <1>5, <1>6, <1>7, <1>8 DEF Fanout

\* A step that is not the handler's, the fan-out's or a receiver's of o.
LEMMA OwnSteps ==
  ASSUME TypeInv, [Next]_vars, Calm', NEW o \in Op
  PROVE  \/ op'[o] = op[o] /\ Under(o)' = Under(o)
         \/ Request(o) \/ Handler(o)
         \/ \E x \in Under(o) : ReceiveOpen(x) \/ ReceiveFill(x) \/ ReceiveIndex(x)
<1>0. \A x \in xfers : x \in Transfer /\ x.op \in Op
  BY DEF TypeInv, TypeOK, Transfer
<1>1. ASSUME NEW q \in Op, Request(q), q # o  PROVE op'[o] = op[o] /\ Under(o)' = Under(o)
  BY <1>1, RequestKeeps DEF Under
<1>2. ASSUME NEW q \in Op, Handler(q), q # o  PROVE op'[o] = op[o] /\ Under(o)' = Under(o)
  <2>1. op'[o] = op[o]
    BY <1>2, HandlerKeeps
  <2>2. xfers' = xfers \/ \E p, i, c : xfers' = xfers \cup
          {[op |-> q, peer |-> p, i |-> i, content |-> c, stage |-> "sent"]}
    BY <1>2 DEF Handler, OpenShard, FillShard, PutIndex, PutIndexFails, CollectIndex,
                CollectShard, SendShard, TransferDone, ReadShard, GetHeader
  <2> QED BY <1>2, <2>1, <2>2 DEF Under
<1>3. ASSUME NEW x \in xfers, x.op # o, ReceiveOpen(x) \/ ReceiveFill(x) \/ ReceiveIndex(x)
      PROVE  op'[o] = op[o] /\ Under(o)' = Under(o)
  <2>1. /\ op' = op
        /\ \/ xfers' = xfers \ {x}
           \/ \E st : xfers' = (xfers \ {x}) \cup {[x EXCEPT !.stage = st]}
    BY <1>3 DEF ReceiveOpen, ReceiveFill, ReceiveIndex
  <2>2. \A st : [x EXCEPT !.stage = st].op = x.op
    BY <1>0 DEF Transfer
  <2>3. CASE xfers' = xfers \ {x}
    BY <1>3, <2>1, <2>3 DEF Under
  <2>4. ASSUME NEW y, y.op = x.op, xfers' = (xfers \ {x}) \cup {y}  PROVE Under(o)' = Under(o)
    BY <1>3, <2>4 DEF Under
  <2> QED BY <2>1, <2>2, <2>3, <2>4
<1>4. ASSUME NEW x \in xfers, ReceiverOpensIndex(x)
      PROVE  op'[o] = op[o] /\ Under(o)' = Under(o)
  BY <1>4 DEF ReceiverOpensIndex, BeginOpen, Under
<1>5. ASSUME UNCHANGED vars \/ \E n \in Node : Flush(n)
      PROVE  op'[o] = op[o] /\ Under(o)' = Under(o)
  BY <1>5 DEF vars, Flush, Under
<1>6. /\ \A n \in Node : ~Crash(n)
      /\ \A q \in Op : ~TransferFault(q) /\ ~StorageError(q)
      /\ \A x \in xfers : ~ReceiveIndexFails(x) /\ ~ReceiveError(x)
  BY CalmBefore
<1>7. \A x \in xfers : x.op = o => x \in Under(o)
  BY DEF Under
<1> QED BY <1>1, <1>2, <1>3, <1>4, <1>5, <1>6, <1>7 DEF Next

\* A PUT has a node, a key, a policy and shards.
LEMMA PutFacts ==
  ASSUME TypeInv, IntegrityInv, NEW o \in Op, op[o].kind = "put"
  PROVE  /\ op[o] \in OpState /\ op[o].pc # "idle" /\ op[o].node \in Node /\ op[o].key \in Key
         /\ File(o) \in FileName /\ op[o].policy \in Policy /\ op[o].i \in Nat
         /\ Count(o) \in Nat /\ Count(o) > 0 /\ Count(o) <= WarmShards
         /\ 0..(Count(o) - 1) \subseteq Shard
         /\ op[o].peers \subseteq Node /\ Peers[op[o].node] \subseteq Node /\ o # Nil
         /\ op[o].i <= WarmShards /\ op[o].got \in [Shard -> Content]
<1>1. GoodOp(op[o]) /\ KindOk(op[o]) /\ op[o] \in OpState
  BY DEF TypeInv, OpsGood, IntegrityInv, HandlersOk, GoodOp
<1>2. /\ op[o].pc # "idle" /\ op[o].node \in Node /\ op[o].key \in Key /\ op[o].policy \in Policy
      /\ op[o].i \in 0..WarmShards /\ op[o].peers \subseteq Node /\ op[o].got \in [Shard -> Content]
  BY <1>1 DEF GoodOp, KindOk, OpState
<1>3. Count(o) \in 1..WarmShards /\ WarmShards \in Nat
  BY <1>2, ShardCount, ConstantsAssumption DEF Count, ConstantsAssumption
<1>4. 0..(Count(o) - 1) \subseteq Shard
  BY <1>3 DEF Shard
<1>5. Peers[op[o].node] \subseteq Node /\ o # Nil /\ File(o) \in FileName
  BY <1>2, ConstantsAssumption DEF ConstantsAssumption, File, FileName
<1> QED BY <1>1, <1>2, <1>3, <1>4, <1>5

\* The PUT comes.
LEMMA FanoutBegins ==
  ASSUME TypeInv, IntegrityInv, NEW o \in Op, Request(o), op'[o].kind = "put",
         op[o].kind = "put" => Fanout(o)
  PROVE  Fanout(o)'
<1>1. op[o].pc \in {"idle", "get_db"} /\ op'[o].pc \in {"open", "get_db"} /\ op'[o].i = 0 /\ xfers' = xfers
  BY RequestKeeps
<1>2. Under(o) = {}
  <2>1. CASE op[o].kind = "put"
    BY <1>1, <2>1 DEF Fanout, Sequential
  <2>2. CASE op[o].kind # "put"
    BY <2>2 DEF Under, IntegrityInv, FanoutOfPuts
  <2> QED BY <2>1, <2>2
<1>3. Under(o)' = {}
  BY <1>1, <1>2 DEF Under
<1>4. Filled(o, op[o].node, op[o].i)'
  BY <1>1 DEF Filled
<1> QED BY <1>1, <1>3, <1>4 DEF Fanout, Sequential, Placed, Stored, Gathered, Serving, Awaiting,
                                Replicated

\* put_chunks fills the next shard.
LEMMA FanoutWrites ==
  ASSUME TypeInv, IntegrityInv, PutsStay, NEW o \in Op, OpenShard(o) \/ FillShard(o), Fanout(o)
  PROVE  Fanout(o)'
<1>0. op \in [Op -> OpState] /\ op[o] \in OpState
  BY DEF TypeInv, TypeOK
<1>1. op[o].pc \in {"open", "fill"} /\ op'[o].pc \in Writes /\ xfers' = xfers
  BY <1>0 DEF OpenShard, FillShard, OpState, Writes
<1>2. Filled(o, op[o].node, op[o].i)
  BY <1>1 DEF Fanout, Placed, Writes
<1>3. Filled(o, op[o].node, op[o].i)'
  BY <1>2, ShardAdded
<1>4. Under(o)' = {}
  BY <1>1 DEF Under, Fanout, Sequential
<1> QED BY <1>1, <1>3, <1>4 DEF Fanout, Sequential, Placed, Stored, Gathered, Serving, Awaiting,
                                Replicated, Writes

\* put_object stores the entry.
LEMMA FanoutStores ==
  ASSUME TypeInv, IntegrityInv, IndexAtEnd, PutsStay, NEW o \in Op, op[o].kind = "put", PutIndex(o),
         Fanout(o)
  PROVE  Fanout(o)'
<1>0. /\ op \in [Op -> OpState] /\ op[o] \in OpState /\ op[o].node \in Node /\ op[o].key \in Key
      /\ index \in [Node -> [Key -> Meta]]
  BY PutFacts DEF TypeInv, TypeOK
<1>1. op[o].pc = "index" /\ UNCHANGED <<files, xfers>>
  BY DEF PutIndex
<1>2. /\ op'[o].pc = IF Peers[op[o].node] = {} THEN "done" ELSE "lookup"
      /\ op'[o].peers = Peers[op[o].node]
      /\ op'[o].node = op[o].node /\ op'[o].key = op[o].key /\ op'[o].policy = op[o].policy
  BY <1>0 DEF PutIndex, OpState
<1>3. index'[op[o].node][op[o].key] = Entry(o)
  BY <1>0 DEF PutIndex, Entry
<1>4. Filled(o, op[o].node, Count(o))
  BY <1>1 DEF Fanout, Placed, Writes, IndexAtEnd, Count
<1>5. Delivered(o, op[o].node, Count(o))'
  BY <1>1, <1>2, <1>3, <1>4 DEF Delivered, Filled, File, Count, Entry
<1>6. Under(o)' = {}
  BY <1>1 DEF Under, Fanout, Sequential
<1> QED BY <1>2, <1>5, <1>6 DEF Fanout, Sequential, Placed, Stored, Gathered, Serving, Awaiting,
                                Replicated, Writes

\* read_shards finds the entry.
LEMMA FanoutLooksUp ==
  ASSUME TypeInv, IntegrityInv, NEW o \in Op, op[o].kind = "put", CollectIndex(o), Fanout(o)
  PROVE  Fanout(o)'
<1>0. /\ op \in [Op -> OpState] /\ op[o] \in OpState /\ op[o].node \in Node /\ op[o].key \in Key
      /\ Count(o) \in Nat /\ Count(o) > 0 /\ o # Nil
  BY PutFacts DEF TypeInv, TypeOK
<1>1. op[o].pc = "lookup" /\ op[o].i = 0 /\ UNCHANGED <<index, files, xfers>>
  BY DEF CollectIndex, TypeInv, OpsGood, GoodOp
<1>2. Delivered(o, op[o].node, Count(o)) /\ op[o].peers = Peers[op[o].node]
  BY <1>1 DEF Fanout, Stored
<1>3. index[op[o].node][op[o].key] = Entry(o) /\ Entry(o).etag # Nil
  BY <1>0, <1>2 DEF Delivered, Entry
<1>4. /\ op'[o].pc = "collect" /\ op'[o].expect = Entry(o) /\ op'[o].i = 0
      /\ op'[o].peers = op[o].peers
      /\ op'[o].node = op[o].node /\ op'[o].key = op[o].key /\ op'[o].policy = op[o].policy
  BY <1>0, <1>1, <1>3 DEF CollectIndex, OpState
<1>5. Delivered(o, op[o].node, Count(o))'
  BY <1>1, <1>2, <1>4 DEF Delivered, Filled, File, Count, Entry
<1>6. Under(o)' = {}
  BY <1>1 DEF Under, Fanout, Sequential
<1>7. Entry(o)' = Entry(o)
  BY <1>4 DEF Entry
<1>8. Gathered(o)'
  BY <1>4, <1>7 DEF Gathered
<1> QED BY <1>2, <1>4, <1>5, <1>6, <1>8 DEF Fanout, Sequential, Placed, Stored, Serving, Awaiting,
                                Replicated, Writes

\* It reads the shards that the handler stored.
LEMMA FanoutReads ==
  ASSUME TypeInv, IntegrityInv, NEW o \in Op, op[o].kind = "put", CollectShard(o), Fanout(o)
  PROVE  Fanout(o)'
<1>0. /\ op \in [Op -> OpState] /\ op[o] \in OpState /\ op[o].node \in Node /\ op[o].key \in Key
      /\ Count(o) \in Nat /\ Count(o) > 0 /\ op[o].i \in Nat /\ 0..(Count(o) - 1) \subseteq Shard
      /\ op[o].got \in [Shard -> Content]
  BY PutFacts DEF TypeInv, TypeOK
<1>1. /\ op[o].pc = "collect" /\ UNCHANGED <<index, files, xfers>>
      /\ op[o].i < DataShards(op[o].expect.policy)
  BY DEF CollectShard, TypeInv, OpsGood, GoodOp
<1>2. /\ Delivered(o, op[o].node, Count(o)) /\ op[o].peers = Peers[op[o].node]
      /\ op[o].expect = Entry(o) /\ \A j \in 0..(op[o].i - 1) : op[o].got[j] = Copy(o)
  BY <1>1 DEF Fanout, Stored, Gathered
<1>3. DataShards(op[o].expect.policy) = Count(o) /\ op[o].i \in 0..(Count(o) - 1) /\ op[o].i \in Shard
  BY <1>0, <1>1, <1>2 DEF Entry, Count
<1>4. files[op[o].node][File(o)][op[o].i] = Copy(o)
  BY <1>2, <1>3 DEF Delivered, Filled, Copy
<1> DEFINE last == op[o].i + 1 = Count(o)
<1>5. /\ op'[o].pc = IF last THEN "send" ELSE "collect"
      /\ op'[o].i = IF last THEN 0 ELSE op[o].i + 1
      /\ op'[o].peers = op[o].peers /\ op'[o].expect = op[o].expect
      /\ op'[o].node = op[o].node /\ op'[o].key = op[o].key /\ op'[o].policy = op[o].policy
  BY <1>0, <1>3 DEF CollectShard, OpState
<1>6. op'[o].got = [op[o].got EXCEPT ![op[o].i] = Copy(o)]
  BY <1>0, <1>4 DEF CollectShard, OpState
<1>7. Delivered(o, op[o].node, Count(o))'
  BY <1>1, <1>2, <1>5 DEF Delivered, Filled, File, Count, Entry
<1>8. Under(o)' = {}
  BY <1>1 DEF Under, Fanout, Sequential
<1>9. Entry(o)' = Entry(o) /\ Copy(o)' = Copy(o) /\ Count(o)' = Count(o)
  BY <1>5 DEF Entry, Copy, Count
<1>10. \A j \in 0..op[o].i : op'[o].got[j] = Copy(o)
  <2> TAKE j \in 0..op[o].i
  <2>1. j \in Shard /\ (j = op[o].i \/ j \in 0..(op[o].i - 1))
    BY <1>0, <1>3
  <2> QED BY <1>0, <1>2, <1>6, <2>1
<1>11. Gathered(o)'
  <2>1. CASE last
    <3>1. 0..(Count(o) - 1) = 0..op[o].i
      BY <1>0, <2>1
    <3> QED BY <1>2, <1>5, <1>9, <1>10, <2>1, <3>1 DEF Gathered
  <2>2. CASE ~last
    <3>1. 0..(op'[o].i - 1) = 0..op[o].i
      BY <1>0, <1>5, <2>2
    <3> QED BY <1>2, <1>5, <1>9, <1>10, <2>2, <3>1 DEF Gathered
  <2> QED BY <2>1, <2>2
<1>12. Serving(o)'
  BY <1>2, <1>5 DEF Serving
<1> QED BY <1>2, <1>5, <1>7, <1>8, <1>11, <1>12 DEF Fanout, Sequential, Placed, Stored, Awaiting,
                                Replicated, Writes

\* The next shard is sent: none is missing.
LEMMA FanoutSends ==
  ASSUME TypeInv, IntegrityInv, NEW o \in Op, op[o].kind = "put", SendShard(o), Fanout(o)
  PROVE  Fanout(o)'
<1>0. /\ op \in [Op -> OpState] /\ op[o] \in OpState /\ op[o].node \in Node /\ op[o].key \in Key
      /\ Count(o) \in Nat /\ Count(o) > 0 /\ op[o].i \in Nat /\ op[o].policy \in Policy
      /\ op[o].peers \subseteq Node
  BY PutFacts DEF TypeInv, TypeOK
<1>1. /\ op[o].pc = "send" /\ UNCHANGED <<index, files>>
      /\ op[o].i < DataShards(op[o].expect.policy)
  BY DEF SendShard, TypeInv, OpsGood, GoodOp
<1>2. /\ op[o].expect = Entry(o) /\ \A j \in 0..(Count(o) - 1) : op[o].got[j] = Copy(o)
      /\ \A q \in Peers[op[o].node] \ op[o].peers : Delivered(o, q, Count(o))
      /\ op[o].i > 0 => op[o].peer \in op[o].peers /\ Delivered(o, op[o].peer, op[o].i)
      /\ Under(o) = {}
  BY <1>1 DEF Fanout, Sequential, Gathered, Serving
<1>3. op[o].i \in 0..(Count(o) - 1)
  BY <1>0, <1>1, <1>2 DEF Entry, Count
<1>4. op[o].got[op[o].i] = Copy(o) /\ Copy(o) # Missing
  <2>1. Copy(o) # Missing
    BY <1>0 DEF Copy, Missing, Policy
  <2> QED BY <1>2, <1>3, <2>1
<1> DEFINE X(p) == [op |-> o, peer |-> p, i |-> op[o].i, content |-> Copy(o), stage |-> "sent"]
<1>5. PICK p \in op[o].peers :
        /\ op[o].i > 0 => p = op[o].peer
        /\ op' = [op EXCEPT ![o].pc = "await", ![o].peer = p]
        /\ xfers' = xfers \cup {X(p)}
  BY <1>4 DEF SendShard
<1>6. /\ op'[o].pc = "await" /\ op'[o].peer = p /\ op'[o].i = op[o].i /\ op'[o].got = op[o].got
      /\ op'[o].peers = op[o].peers /\ op'[o].expect = op[o].expect
      /\ op'[o].node = op[o].node /\ op'[o].key = op[o].key /\ op'[o].policy = op[o].policy
  BY <1>0, <1>5 DEF OpState
<1>7. Under(o)' = {X(p)}
  <2>1. X(p).op = o
    OBVIOUS
  <2> HIDE DEF X
  <2> QED BY <1>2, <1>5, <2>1 DEF Under
<1>8. Entry(o)' = Entry(o) /\ Copy(o)' = Copy(o) /\ Count(o)' = Count(o) /\ File(o)' = File(o)
  BY <1>6 DEF Entry, Copy, Count, File
<1>9. \A q, c : Delivered(o, q, c) => Delivered(o, q, c)'
  BY <1>1, <1>6, <1>8 DEF Delivered, Filled
<1>10. Gathered(o)'
  BY <1>2, <1>6, <1>8 DEF Gathered
<1>11. Serving(o)'
  <2>1. \A q \in Peers[op[o].node] \ op[o].peers : Delivered(o, q, Count(o))'
    BY <1>2, <1>8, <1>9
  <2>2. op[o].i > 0 => p \in op[o].peers /\ Delivered(o, p, op[o].i)'
    BY <1>2, <1>5, <1>6, <1>9
  <2> QED BY <1>6, <1>8, <2>1, <2>2 DEF Serving, Delivered, Filled
<1>12. Awaiting(o)'
  <2>1. /\ X(p).peer = p /\ X(p).i = op[o].i /\ X(p).content = Copy(o) /\ X(p).stage # "written"
    OBVIOUS
  <2> HIDE DEF X
  <2> QED BY <1>5, <1>6, <1>7, <1>8, <2>1 DEF Awaiting
<1> QED BY <1>6, <1>10, <1>11, <1>12 DEF Fanout, Sequential, Placed, Stored, Replicated, Writes

\* The peer has served the call: on to the next shard, or to the next peer.
LEMMA FanoutGoesOn ==
  ASSUME TypeInv, IntegrityInv, NEW o \in Op, op[o].kind = "put", TransferDone(o), Fanout(o)
  PROVE  Fanout(o)'
<1>0. /\ op \in [Op -> OpState] /\ op[o] \in OpState /\ op[o].node \in Node /\ op[o].key \in Key
      /\ Count(o) \in Nat /\ Count(o) > 0 /\ op[o].i \in Nat /\ op[o].policy \in Policy
      /\ op[o].peers \subseteq Node
  BY PutFacts DEF TypeInv, TypeOK
<1>1. /\ op[o].pc = "await" /\ UNCHANGED <<index, files, xfers>> /\ Awaited(o) = {}
      /\ op[o].i < DataShards(op[o].expect.policy)
      /\ op'[o] = After(op[o], op[o].peer)
  BY <1>0 DEF TransferDone, TypeInv, OpsGood, GoodOp
<1>2. /\ op[o].expect = Entry(o) /\ \A j \in 0..(Count(o) - 1) : op[o].got[j] = Copy(o)
      /\ \A q \in Peers[op[o].node] \ op[o].peers : Delivered(o, q, Count(o))
      /\ op[o].peer \in op[o].peers
  BY <1>1 DEF Fanout, Gathered, Serving, Awaiting
<1>3. Under(o) = {}
  BY <1>1 DEF Fanout, Awaiting, Under, Awaited
<1>4. Delivered(o, op[o].peer, op[o].i + 1)
  BY <1>1, <1>3 DEF Fanout, Awaiting
<1> DEFINE last == op[o].i + 1 = Count(o)
<1>5. DataShards(op[o].expect.policy) = Count(o)
  BY <1>2 DEF Entry, Count
<1>6. /\ op'[o].pc = IF last /\ op[o].peers = {op[o].peer} THEN "done" ELSE "send"
      /\ op'[o].i = IF last THEN 0 ELSE op[o].i + 1
      /\ op'[o].peers = IF last THEN op[o].peers \ {op[o].peer} ELSE op[o].peers
      /\ op'[o].peer = op[o].peer /\ op'[o].got = op[o].got /\ op'[o].expect = op[o].expect
      /\ op'[o].node = op[o].node /\ op'[o].key = op[o].key /\ op'[o].policy = op[o].policy
  BY <1>0, <1>1, <1>5 DEF After, OpState
<1>7. Entry(o)' = Entry(o) /\ Copy(o)' = Copy(o) /\ Count(o)' = Count(o) /\ File(o)' = File(o)
  BY <1>6 DEF Entry, Copy, Count, File
<1>8. \A q, c : Delivered(o, q, c) => Delivered(o, q, c)'
  BY <1>1, <1>6, <1>7 DEF Delivered, Filled
<1>9. Gathered(o)'
  BY <1>2, <1>6, <1>7 DEF Gathered
<1>10. Under(o)' = {}
  BY <1>1, <1>3 DEF Under
<1>11. \A q \in Peers[op[o].node] \ op'[o].peers : Delivered(o, q, Count(o))'
  <2> TAKE q \in Peers[op[o].node] \ op'[o].peers
  <2>1. CASE q \notin op[o].peers
    BY <1>2, <1>7, <1>8, <2>1
  <2>2. CASE q \in op[o].peers
    <3>1. last /\ q = op[o].peer
      BY <1>6, <2>2
    <3>2. Delivered(o, q, Count(o))
      BY <1>4, <3>1
    <3> QED BY <1>7, <1>8, <3>2
  <2> QED BY <2>1, <2>2
<1>12. Serving(o)'
  <2>1. ASSUME op'[o].i > 0
        PROVE  op'[o].peer \in op'[o].peers /\ Delivered(o, op[o].peer, op[o].i)'
    <3>1. op'[o].i = op[o].i + 1 /\ op'[o].peers = op[o].peers
      BY <1>6, <2>1
    <3>2. PICK q, c : q = op[o].peer /\ c = op[o].i + 1
      OBVIOUS
    <3>3. Delivered(o, q, c)'
      BY <1>4, <1>8, <3>2
    <3> QED BY <1>2, <1>6, <3>1, <3>2, <3>3
  <2> QED BY <1>6, <1>7, <1>11, <2>1 DEF Serving
<1>13. Replicated(o)'
  <2>1. op'[o].pc = "done" => op'[o].peers = {}
    BY <1>6
  <2> QED BY <1>6, <1>7, <1>11, <2>1 DEF Replicated, Delivered, Filled
<1> QED BY <1>6, <1>9, <1>10, <1>12, <1>13 DEF Fanout, Sequential, Placed, Stored, Awaiting,
                                               Writes

\* The call under way is the one that is awaited.
LEMMA AwaitedCall ==
  ASSUME TypeInv, IntegrityInv, NEW o \in Op, op[o].kind = "put", Fanout(o), NEW x \in Under(o)
  PROVE  /\ op[o].pc = "await" /\ x.op = o /\ x \in xfers /\ x \in Transfer /\ Under(o) = {x}
         /\ op[o].peer \in Node /\ op[o].peer \in op[o].peers
         /\ x.peer = op[o].peer /\ x.i = op[o].i /\ x.content = Copy(o) /\ op[o].i \in Shard
         /\ x.stage = "written" => Filled(o, op[o].peer, op[o].i + 1)
         /\ op[o].i > 0 => Delivered(o, op[o].peer, op[o].i)
         /\ \A q \in Peers[op[o].node] \ op[o].peers : Delivered(o, q, Count(o))
<1>1. op[o].pc = "await" /\ x.op = o /\ x \in xfers /\ x \in Transfer
  BY DEF Fanout, Sequential, Under, TypeInv, TypeOK
<1>2. /\ op[o].peer \in op[o].peers /\ x.peer = op[o].peer /\ x.i = op[o].i /\ x.content = Copy(o)
      /\ x.stage = "written" => Filled(o, op[o].peer, op[o].i + 1)
      /\ \A y \in Under(o) : y = x
  BY <1>1 DEF Fanout, Awaiting
<1>3. /\ op[o].i > 0 => Delivered(o, op[o].peer, op[o].i)
      /\ \A q \in Peers[op[o].node] \ op[o].peers : Delivered(o, q, Count(o))
  BY <1>1 DEF Fanout, Serving
<1>4. op[o].peer \in Node /\ op[o].i \in Shard
  BY <1>1, <1>2, PutFacts DEF Transfer
<1> QED BY <1>1, <1>2, <1>3, <1>4

\* A fan-out that awaits: what the peers must have.
LEMMA FanoutAwaits ==
  ASSUME NEW o \in Op, Fanout(o), op[o].pc = "await", op' = op,
         op[o].peer \in op[o].peers,
         \A q \in Peers[op[o].node] \ op[o].peers : Delivered(o, q, Count(o))',
         op[o].i > 0 => Delivered(o, op[o].peer, op[o].i)',
         \A y \in Under(o)' : /\ y.peer = op[o].peer /\ y.i = op[o].i /\ y.content = Copy(o)
                              /\ y.stage = "written" => Filled(o, op[o].peer, op[o].i + 1)',
         \A y, z \in Under(o)' : y = z,
         Under(o)' = {} => Delivered(o, op[o].peer, op[o].i + 1)'
  PROVE  Fanout(o)'
<1>1. Entry(o)' = Entry(o) /\ Copy(o)' = Copy(o)
  BY DEF Entry, Copy
<1>2. Gathered(o)'
  BY <1>1 DEF Fanout, Gathered, Count
<1>3. Serving(o)'
  BY DEF Serving
<1>4. Awaiting(o)'
  BY <1>1 DEF Awaiting
<1> QED BY <1>2, <1>3, <1>4 DEF Fanout, Sequential, Placed, Stored, Replicated, Writes

\* The peer truncates the file of the shard, and fills it.
LEMMA FanoutReceives ==
  ASSUME TypeInv, IntegrityInv, NEW o \in Op, op[o].kind = "put", Fanout(o), NEW x \in Under(o),
         ReceiveOpen(x) \/ ReceiveFill(x)
  PROVE  Fanout(o)'
<1>0. /\ op[o].pc = "await" /\ x.op = o /\ x \in xfers /\ x \in Transfer /\ Under(o) = {x}
      /\ op[o].peer \in Node /\ op[o].peer \in op[o].peers
      /\ x.peer = op[o].peer /\ x.i = op[o].i /\ x.content = Copy(o) /\ op[o].i \in Shard
      /\ op[o].i > 0 => Delivered(o, op[o].peer, op[o].i)
      /\ \A q \in Peers[op[o].node] \ op[o].peers : Delivered(o, q, Count(o))
  BY AwaitedCall
<1>1. /\ File(o) \in FileName /\ Peers[op[o].node] \subseteq Node /\ op[o].i \in Nat
      /\ Count(o) \in Nat /\ 0..(Count(o) - 1) \subseteq Shard
      /\ files \in [Node -> [FileName -> [Shard -> Content]]] /\ op[o].node \in Node
      /\ WarmShards \in Nat
  BY PutFacts, ConstantsAssumption DEF TypeInv, TypeOK, ConstantsAssumption
<1>2. PICK c, st :
        /\ files' = [files EXCEPT ![x.peer][File(x.op)][x.i] = c]
        /\ xfers' = (xfers \ {x}) \cup {[x EXCEPT !.stage = st]}
        /\ st # "written" \/ c = x.content
        /\ UNCHANGED <<index, op>>
  <2>1. CASE ReceiveOpen(x)
    BY <2>1 DEF ReceiveOpen
  <2>2. CASE ReceiveFill(x)
    BY <2>2 DEF ReceiveFill
  <2> QED BY <2>1, <2>2
<1>b. /\ index' = index /\ op' = op /\ File(o)' = File(o) /\ Entry(o)' = Entry(o)
      /\ Count(o)' = Count(o) /\ Copy(o)' = Copy(o)
  BY <1>2 DEF File, Entry, Count, Copy
<1>3. PICK p, i : p = op[o].peer /\ i = op[o].i
  OBVIOUS
<1>4. /\ \A q \in Node \ {p} : files'[q] = files[q]
      /\ \A j \in Shard : files'[p][File(o)][j] = IF j = i THEN c ELSE files[p][File(o)][j]
  BY <1>0, <1>1, <1>2, <1>3
<1>5. \A q \in Peers[op[o].node] \ op[o].peers : Delivered(o, q, Count(o))'
  <2> TAKE q \in Peers[op[o].node] \ op[o].peers
  <2>1. q \in Node \ {p}
    BY <1>0, <1>1, <1>3
  <2>2. files'[q] = files[q] /\ Delivered(o, q, Count(o))
    BY <1>0, <1>4, <2>1
  <2> QED BY <1>b, <2>2 DEF Delivered, Filled
<1>6. \A j \in 0..(i - 1) : j \in Shard /\ j # i
  BY <1>0, <1>1, <1>3 DEF Shard
<1>7. ASSUME i > 0  PROVE Delivered(o, p, i)'
  <2>1. Delivered(o, p, i)
    BY <1>0, <1>3, <1>7
  <2> QED BY <1>2, <1>4, <1>6, <2>1 DEF Delivered, Filled, File, Entry
<1>8. ASSUME st = "written"  PROVE Filled(o, p, i + 1)'
  <2>1. c = Copy(o)
    BY <1>0, <1>2, <1>8
  <2>2. i > 0 => Filled(o, p, i)
    BY <1>0, <1>3 DEF Delivered
  <2>3. \A j \in 0..(i + 1 - 1) : j \in Shard /\ (j = i \/ (j \in 0..(i - 1) /\ j # i /\ i > 0))
    BY <1>0, <1>1, <1>3 DEF Shard
  <2>4. \A j \in 0..(i + 1 - 1) : files'[p][File(o)][j] = Copy(o)
    <3> TAKE j \in 0..(i + 1 - 1)
    <3>1. CASE j = i
      BY <1>4, <2>1, <2>3, <3>1
    <3>2. CASE j \in 0..(i - 1) /\ j # i /\ i > 0
      BY <1>4, <2>2, <2>3, <3>2 DEF Filled, Copy
    <3> QED BY <2>3, <3>1, <3>2
  <2>5. Copy(o) = [val |-> o, policy |-> op[o].policy] /\ op'[o].policy = op[o].policy
    BY <1>b DEF Copy
  <2>6. \A j \in 0..(i + 1 - 1) : files'[p][File(o)'][j] = [val |-> o, policy |-> op'[o].policy]
    BY <1>b, <2>4, <2>5
  <2>7. i \in Nat
    BY <1>1, <1>3
  <2> QED BY <2>6, <2>7 DEF Filled
<1> DEFINE y == [x EXCEPT !.stage = st]
<1>9. y.op = x.op /\ y.peer = x.peer /\ y.i = x.i /\ y.content = x.content /\ y.stage = st
  BY <1>0 DEF Transfer
<1>10. Under(o)' = {y}
  <2>1. xfers' = (xfers \ {x}) \cup {y}
    BY <1>2
  <2> HIDE DEF y
  <2> QED BY <1>0, <1>9, <2>1 DEF Under
<1> HIDE DEF y
<1>11. op[o].i > 0 => Delivered(o, op[o].peer, op[o].i)'
  BY <1>2, <1>3, <1>7
<1>12. y.stage = "written" => Filled(o, op[o].peer, op[o].i + 1)'
  BY <1>2, <1>3, <1>8, <1>9
<1> QED BY <1>0, <1>2, <1>5, <1>9, <1>10, <1>11, <1>12, FanoutAwaits

\* The peer indexes the object, whose first shards it has.
LEMMA FanoutIndexes ==
  ASSUME TypeInv, IntegrityInv, NEW o \in Op, op[o].kind = "put", Fanout(o), NEW x \in Under(o),
         ReceiveIndex(x)
  PROVE  Fanout(o)'
<1>0. /\ op[o].pc = "await" /\ x.op = o /\ x \in xfers /\ x \in Transfer /\ Under(o) = {x}
      /\ op[o].peer \in Node /\ op[o].peer \in op[o].peers
      /\ x.peer = op[o].peer /\ x.i = op[o].i /\ x.content = Copy(o) /\ op[o].i \in Shard
      /\ x.stage = "written" => Filled(o, op[o].peer, op[o].i + 1)
      /\ op[o].i > 0 => Delivered(o, op[o].peer, op[o].i)
      /\ \A q \in Peers[op[o].node] \ op[o].peers : Delivered(o, q, Count(o))
  BY AwaitedCall
<1>1. /\ Peers[op[o].node] \subseteq Node /\ op[o].i \in Nat /\ op[o].key \in Key
      /\ index \in [Node -> [Key -> Meta]] /\ op[o].node \in Node
  BY PutFacts DEF TypeInv, TypeOK
<1>2. /\ x.stage = "written" /\ UNCHANGED <<files, op>> /\ xfers' = xfers \ {x}
      /\ index' = [index EXCEPT ![x.peer][op[x.op].key] = ReceivedMeta(x)]
  BY DEF ReceiveIndex
<1>3. PICK p, i : p = op[o].peer /\ i = op[o].i
  OBVIOUS
<1>4. /\ \A q \in Node \ {p} : index'[q] = index[q]
      /\ index'[p][op[o].key] = Entry(o)
  BY <1>0, <1>1, <1>2, <1>3 DEF ReceivedMeta, Entry
<1>5. \A q \in Peers[op[o].node] \ op[o].peers : Delivered(o, q, Count(o))'
  <2> TAKE q \in Peers[op[o].node] \ op[o].peers
  <2>1. q \in Node \ {p}
    BY <1>0, <1>1, <1>3
  <2> QED BY <1>0, <1>2, <1>4, <2>1 DEF Delivered, Filled, File, Entry, Count
<1>6. ASSUME i > 0  PROVE Delivered(o, p, i)'
  <2>1. Delivered(o, p, i)
    BY <1>0, <1>3, <1>6
  <2> QED BY <1>2, <1>4, <2>1 DEF Delivered, Filled, File, Entry
<1>7. Delivered(o, p, i + 1)'
  <2>1. Filled(o, p, i + 1)
    BY <1>0, <1>2, <1>3
  <2> QED BY <1>2, <1>4, <2>1 DEF Delivered, Filled, File, Entry
<1>8. Under(o)' = {}
  BY <1>0, <1>2 DEF Under
<1>9. op[o].i > 0 => Delivered(o, op[o].peer, op[o].i)'
  BY <1>2, <1>3, <1>6
<1>10. Delivered(o, op[o].peer, op[o].i + 1)'
  BY <1>2, <1>3, <1>7
<1> QED BY <1>0, <1>2, <1>5, <1>8, <1>9, <1>10, FanoutAwaits

\* The fan-out of the only PUT of a key gets on in every calm step.
LEMMA FanoutNext ==
  ASSUME TypeInv, IntegrityInv, IntegrityInv', IndexAtEnd, PutsStay, DistinctFiles, FanoutInv,
         [Next]_vars
  PROVE  FanoutInv'
<1>1. Keyless'
  BY KeylessNext DEF FanoutInv
<1> SUFFICES ASSUME Calm', NEW o \in Op, Sole(o)'  PROVE Fanout(o)'
  BY <1>1 DEF FanoutInv
<1>2. Calm /\ ~PutIndexFails(o) /\ crashes' = 0
  BY CalmBefore DEF Calm
<1>3. op[o].kind = "put" => Sole(o) /\ Fanout(o)
  BY <1>2, SoleBefore DEF FanoutInv
<1>4. CASE Request(o)
  BY <1>3, <1>4, FanoutBegins DEF Sole
<1>5. CASE op'[o] = op[o] /\ Under(o)' = Under(o)
  BY <1>2, <1>3, <1>5, FanoutOthers DEF Sole
<1>6. CASE Handler(o)
  <2>1. op[o].kind = "put"
    BY <1>6, HandlerKeeps DEF Sole
  <2>2. ~ReadShard(o) /\ ~GetHeader(o)
    BY <2>1 DEF ReadShard, GetHeader, IntegrityInv, HandlersOk, KindOk
  <2> QED BY <1>2, <1>3, <1>6, <2>1, <2>2, FanoutWrites, FanoutStores, FanoutLooksUp, FanoutReads,
             FanoutSends, FanoutGoesOn DEF Handler
<1>7. ASSUME NEW x \in Under(o), ReceiveOpen(x) \/ ReceiveFill(x) \/ ReceiveIndex(x)
      PROVE  Fanout(o)'
  <2>1. op[o].kind = "put"
    BY DEF Under, IntegrityInv, FanoutOfPuts
  <2> QED BY <1>3, <1>7, <2>1, FanoutReceives, FanoutIndexes
<1> QED BY <1>4, <1>5, <1>6, <1>7, OwnSteps

\* Fan-out replicates: where keys have file names of their own, and as long as no
\* transfer fails, no node crashes and no access to an index races its opening, the
\* end of the only PUT of a key leaves every peer with its entry and all its data
\* shards, whatever other keys the nodes write and whoever is whose peer.
THEOREM PutReplicates ==
  ASSUME DistinctFiles
  PROVE  Spec => []SinglePutReplicated
<1> DEFINE Inv == TypeInv /\ IntegrityInv /\ IndexAtEnd /\ FanoutInv
<1>1. Init => Inv
  <2> SUFFICES ASSUME Init  PROVE Inv
    OBVIOUS
  <2>1. IndexAtEnd
    BY DEF Init, IndexAtEnd, Idle
  <2>2. Keyless /\ \A o \in Op : ~Sole(o)
    BY DEF Init, Keyless, Sole, Idle
  <2> QED BY <2>1, <2>2, TypeInit, IntegrityInit DEF FanoutInv
<1>2. Inv /\ [Next]_vars => Inv'
  <2> SUFFICES ASSUME Inv, [Next]_vars  PROVE Inv'
    OBVIOUS
  <2>1. TypeInv' /\ IntegrityInv' /\ PutsStay
    BY TypeNext, IntegrityNext
  <2>2. IndexAtEnd'
    BY <2>1, IndexAtEndNext
  <2>3. FanoutInv'
    BY <2>1, FanoutNext
  <2> QED BY <2>1, <2>2, <2>3
<1>3. Inv => SinglePutReplicated
  <2> SUFFICES ASSUME Inv, NEW o \in Op, Quiet, Calm, Sole(o), NEW p \in Peers[op[o].node]
               PROVE  index[p][op[o].key].etag = o /\ Readable(p, op[o].key)
    BY DEF SinglePutReplicated, Calm, Sole
  <2>1. op[o].pc = "done" /\ p \in Node /\ op[o].key \in Key /\ Count(o) \in Nat /\ Count(o) > 0
        /\ o # Nil
    BY PutFacts DEF Sole, Quiet
  <2>2. Delivered(o, p, Count(o))
    BY <2>1 DEF FanoutInv, Fanout, Replicated
  <2>3. index[p][op[o].key] = Entry(o) /\ Filled(o, p, Count(o))
    BY <2>1, <2>2 DEF Delivered
  <2>4. index[p][op[o].key].etag = o /\ DataShards(index[p][op[o].key].policy) = Count(o)
    BY <2>3 DEF Entry, Count
  <2>5. PICK k \in Key : k = op[o].key
    BY <2>1
  <2>6. Readable(p, k)
    BY <2>1, <2>3, <2>4, <2>5, FilledReadable
  <2> QED BY <2>4, <2>5, <2>6
<1> QED BY <1>1, <1>2, <1>3, PTL DEF Spec
=============================================================================
