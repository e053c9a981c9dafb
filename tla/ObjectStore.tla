---------------------------- MODULE ObjectStore ----------------------------
(***************************************************************************)
(* The object store: PUT, GET and DELETE of a bucket's objects on one node *)
(* and the fan-out of the shards of a PUT to the other storage nodes.      *)
(*                                                                         *)
(* Sources: agent/src/storage/{mod,chunks,index}.rs, the storage handlers  *)
(* of agent/src/api_rest/mod.rs and TransferChunk of                       *)
(* agent/src/grpc_server/mod.rs.                                           *)
(*                                                                         *)
(* Handlers run on a multi-threaded runtime and take no lock: one file     *)
(* operation or one sled operation is a step.  The body of a PUT is its    *)
(* own operation id, so SHA-256 and zstd are injective.  Parity shards are *)
(* written as zeros and never used to decode: only data shards matter.     *)
(***************************************************************************)
EXTENDS Naturals

CONSTANTS
    Node,         \* storage nodes
    Op,           \* client requests; each is made at most once
    Key,          \* object keys of one bucket
    ObjectId,     \* ObjectId[k]: k with '/' replaced by '-', the file name
    Frontends,    \* nodes that clients talk to
    Peers,        \* Peers[n]: online storage peers in n's cluster table
    Kinds,        \* requests clients make: "put", "get", "delete"
    Policies,     \* policies clients ask for
    WarmShards,   \* data shards of policy "warm" (4; cold has 6, archive 8)
    Opened,       \* nodes whose index was used before, since the agent started
    Overlap,      \* clients may overlap PUTs to the same file name
    Nil,          \* no object, node or key
    MaxFaults,    \* bound on calls, and on file and sled operations, that fail
    MaxCrashes    \* bound on crashes

Policy == {"hot", "warm"}

ASSUME ConstantsAssumption ==
    /\ Nil \notin Op \cup Node \cup Key
    /\ DOMAIN ObjectId = Key
    /\ Frontends \subseteq Node
    /\ Peers \in [Node -> SUBSET Node]
    /\ Kinds \subseteq {"put", "get", "delete"}
    /\ Policies \subseteq Policy
    /\ WarmShards \in Nat \ {0}
    /\ Opened \subseteq Node
    /\ Overlap \in BOOLEAN
    /\ MaxFaults \in Nat
    /\ MaxCrashes \in Nat

VARIABLES
    index,    \* index[n][k]: the sled entry of k on n
    durable,  \* durable[n]: what sled has flushed of index[n]
    files,    \* files[n][f][i]: shard file i of object id f on n
    op,       \* op[o]: the handler of request o, and its fan-out task
    xfers,    \* TransferChunk calls under way
    faults,   \* calls and operations that failed so far
    crashes,  \* crashes so far
    handle,   \* handle[n]: DB_CACHE of n: the index is closed, open, or being
              \* opened by an accessor
    raced,    \* history: an access failed because another one was opening
    spoiled   \* history: the files of a node that a PUT changed last which then
              \* failed

vars == <<index, durable, files, op, xfers, faults, crashes, handle, raced,
          spoiled>>

-----------------------------------------------------------------------------
(* Data *)

Value    == Op \cup {Nil}
FileName == {ObjectId[k] : k \in Key}

DataShards(policy) == IF policy = "hot" THEN 1 ELSE WarmShards
Shard == 0..(WarmShards - 1)

\* Shard i of value val under a policy; a file may be missing, or be left
\* truncated by a write that has not filled it.
Content   == [val : Value, policy : Policy \cup {"missing", "torn"}]
Missing   == [val |-> Nil, policy |-> "missing"]
Torn      == [val |-> Nil, policy |-> "torn"]

Meta    == [etag : Value, policy : Policy]
NoMeta  == [etag |-> Nil, policy |-> "hot"]

OpState ==
    [pc     : {"idle", "open", "fill", "index", "collect", "send", "await",
               "lookup", "read", "header", "get_db", "done", "dead"},
     kind   : {"none", "put", "get", "delete"},
     node   : Node \cup {Nil}, key : Key \cup {Nil}, policy : Policy,
     i      : 0..WarmShards,          \* next shard
     got    : [Shard -> Content],     \* shards read so far
     expect : Meta,                   \* the index entry found at the start
     peers  : SUBSET Node,            \* peers still to be served
     peer   : Node \cup {Nil},        \* the peer being served
     ok     : BOOLEAN,                \* the client was answered 201 or 200
     body   : Value, etag : Value]    \* body and ETag header of a GET

NothingRead == [i \in Shard |-> Missing]

Idle == [pc |-> "idle", kind |-> "none", node |-> Nil, key |-> Nil,
         policy |-> "hot", i |-> 0, got |-> NothingRead, expect |-> NoMeta,
         peers |-> {}, peer |-> Nil, ok |-> FALSE, body |-> Nil, etag |-> Nil]

\* A TransferChunk call of op's fan-out: shard i for a peer.
Transfer == [op : Op, peer : Node, i : Shard, content : Content,
             stage : {"sent", "open", "written"}]

\* Those who use the index of a node: the handler of o, or the transfer of shard
\* i of its fan-out.
Accessor    == Op \X (0..WarmShards)
Caller(o)   == <<o, WarmShards>>
Receiver(x) == <<x.op, x.i>>
Closed      == <<Nil, 0>>
Open        == <<Nil, 1>>

Init ==
    /\ index = [n \in Node |-> [k \in Key |-> NoMeta]]
    /\ durable = [n \in Node |-> [k \in Key |-> NoMeta]]
    /\ files = [n \in Node |-> [f \in FileName |-> NothingRead]]
    /\ op = [o \in Op |-> Idle]
    /\ xfers = {}
    /\ faults = 0
    /\ crashes = 0
    /\ handle = [n \in Node |-> IF n \in Opened THEN Open ELSE Closed]
    /\ raced = FALSE
    /\ spoiled = {}

File(o)    == ObjectId[op[o].key]
Writing(o) == op[o].kind = "put" /\ op[o].pc \in {"open", "fill", "index"}

\* PUT o has truncated a file; the name under which a node keeps its files.
Truncated(o) == op[o].pc # "open" \/ op[o].i > 0
Name(o)      == <<op[o].node, File(o)>>

-----------------------------------------------------------------------------
(* The handle of the index *)

\* get_db: the first access since the agent started opens the database, outside
\* the lock of the cache, and puts the handle into the cache when it is done.
BeginOpen(n, who) ==
    /\ handle[n] = Closed
    /\ handle' = [handle EXCEPT ![n] = who]
    /\ UNCHANGED <<index, durable, files, xfers, faults, crashes, raced, spoiled>>

\* An access goes through when the handle is in the cache, or when it comes from
\* the one who opened it.
Access(n, who) ==
    /\ handle[n] \in {Open, who}
    /\ handle' = [handle EXCEPT ![n] = Open]
    /\ UNCHANGED raced

\* Another one is still opening: the cache is empty, and sled, which locks its
\* file, refuses to open it twice.
AccessFails(n, who) ==
    /\ handle[n] \notin {Closed, Open, who}
    /\ raced' = TRUE
    /\ UNCHANGED handle

\* A request is the first to use the index.  (A GET or a DELETE that comes while
\* another opens it fails at once, and changes nothing.)
OpensIndex(o, n, k, kind, policy) ==
    /\ kind \in Kinds
    /\ op[o].pc = "idle"
    /\ BeginOpen(n, Caller(o))
    /\ op' = [op EXCEPT ![o] = [Idle EXCEPT !.kind = kind, !.node = n, !.key = k,
                                            !.policy = policy, !.pc = "get_db"]]

\* A request o for key k that has the handle, now or after opening it.
Served(o, n, k, kind) ==
    /\ kind \in Kinds
    /\ \/ op[o].pc = "idle"
       \/ op[o].pc = "get_db" /\ op[o].kind = kind /\ op[o].node = n /\ op[o].key = k
    /\ Access(n, Caller(o))

-----------------------------------------------------------------------------
(* PUT *)

\* put_object_handler creates the bucket, the first access to the index, whose
\* error it ignores; then put_chunks up to the first file: the body is
\* compressed, encoded and split.
BeginPut(o, n, k, policy) ==
    /\ op[o].pc = "get_db" => op[o].policy = policy
    /\ \/ Served(o, n, k, "put")
       \/ "put" \in Kinds /\ op[o].pc = "idle" /\ AccessFails(n, Caller(o))
    /\ Overlap \/ \A q \in Op : ~(Writing(q) /\ op[q].node = n /\ File(q) = ObjectId[k])
    /\ op' = [op EXCEPT ![o] = [Idle EXCEPT !.pc = "open", !.kind = "put", !.node = n,
                                            !.key = k, !.policy = policy]]
    /\ UNCHANGED <<index, durable, files, xfers, faults, crashes, spoiled>>

\* fs::write truncates the file of shard i ...
OpenShard(o) ==
    /\ op[o].pc = "open"
    /\ files' = [files EXCEPT ![op[o].node][File(o)][op[o].i] = Torn]
    /\ op' = [op EXCEPT ![o].pc = "fill"]
    /\ UNCHANGED <<index, durable, xfers, faults, crashes, handle, raced, spoiled>>

\* ... and fills it; the index comes after the last shard.
FillShard_OneShort(o) ==
    LET s == op[o]
    IN  /\ s.pc = "fill"
        /\ files' = [files EXCEPT ![s.node][File(o)][s.i] =
                      [val |-> o, policy |-> s.policy]]
        /\ op' = [op EXCEPT ![o].i = @ + 1,
                            ![o].pc = IF s.i + 2 < DataShards(s.policy)
                                        THEN "open" ELSE "index"]
        /\ UNCHANGED <<index, durable, xfers, faults, crashes, handle, raced, spoiled>>
FillShard_OneMore(o) ==
    LET s == op[o]
    IN  /\ s.pc = "fill"
        /\ files' = [files EXCEPT ![s.node][File(o)][s.i] =
                      [val |-> o, policy |-> s.policy]]
        /\ op' = [op EXCEPT ![o].i = @ + 1,
                            ![o].pc = IF s.i < DataShards(s.policy)
                                        THEN "open" ELSE "index"]
        /\ UNCHANGED <<index, durable, xfers, faults, crashes, handle, raced, spoiled>>
FillShard(o) ==
    LET s == op[o]
    IN  /\ s.pc = "fill"
        /\ files' = [files EXCEPT ![s.node][File(o)][s.i] =
                      [val |-> o, policy |-> s.policy]]
        /\ op' = [op EXCEPT ![o].i = @ + 1,
                            ![o].pc = IF s.i + 1 < DataShards(s.policy)
                                        THEN "open" ELSE "index"]
        /\ UNCHANGED <<index, durable, xfers, faults, crashes, handle, raced, spoiled>>

\* The entry goes into the index; the client gets 201, and a fan-out task is
\* spawned if there are peers.
PutIndex(o) ==
    LET s == op[o]
    IN  /\ s.pc = "index"
        /\ Access(s.node, Caller(o))
        /\ index' = [index EXCEPT ![s.node][s.key] = [etag |-> o, policy |-> s.policy]]
        /\ op' = [op EXCEPT ![o] = [s EXCEPT !.ok = TRUE, !.i = 0, !.peers = Peers[s.node],
                                             !.pc = IF Peers[s.node] = {} THEN "done"
                                                                          ELSE "lookup"]]
        /\ spoiled' = spoiled \ {Name(o)}
        /\ UNCHANGED <<durable, files, xfers, faults, crashes>>

\* The one who was opening when the bucket was created is still at it: put_chunks
\* returns the error, with the files of the new version written.
PutIndexFails(o) ==
    /\ op[o].pc = "index"
    /\ AccessFails(op[o].node, Caller(o))
    /\ op' = [op EXCEPT ![o].pc = "done"]
    /\ spoiled' = spoiled \cup {Name(o)}
    /\ UNCHANGED <<index, durable, files, xfers, faults, crashes>>

\* A file or sled operation fails (the disk is full, say), and put_chunks,
\* get_chunks or read_shards returns the error.  Nothing is undone: a PUT leaves
\* the shards it has overwritten, and the one it was filling as far as it got,
\* below the entry of the version before.  (The .meta of a shard is written before
\* the next shard, the parity shards and their .meta before the index.)
StorageError(o) ==
    /\ op[o].pc \in {"open", "fill", "index", "lookup", "collect", "read"}
    /\ faults < MaxFaults
    /\ faults' = faults + 1
    /\ op' = [op EXCEPT ![o].pc = "done"]
    /\ spoiled' = IF Writing(o) /\ Truncated(o) THEN spoiled \cup {Name(o)} ELSE spoiled
    /\ UNCHANGED <<index, durable, files, xfers, crashes, handle, raced>>

-----------------------------------------------------------------------------
(* The fan-out task *)

\* read_shards looks the key up again: it may have been overwritten or deleted.
CollectIndex(o) ==
    LET s == op[o]
        m == index[s.node][s.key]
    IN  /\ s.pc = "lookup" /\ s.kind = "put"
        /\ op' = [op EXCEPT ![o] = [s EXCEPT !.expect = m,
                                             !.pc = IF m.etag = Nil THEN "done"
                                                                    ELSE "collect"]]
        /\ UNCHANGED <<index, durable, files, xfers, faults, crashes, handle, raced, spoiled>>

\* It reads the files there are, one after the other.
CollectShard(o) ==
    LET s    == op[o]
        last == s.i + 1 = DataShards(s.expect.policy)
    IN  /\ s.pc = "collect"
        /\ op' = [op EXCEPT ![o] = [s EXCEPT !.got[s.i] = files[s.node][File(o)][s.i],
                                             !.i  = IF last THEN 0 ELSE @ + 1,
                                             !.pc = IF last THEN "send" ELSE "collect"]]
        /\ UNCHANGED <<index, durable, files, xfers, faults, crashes, handle, raced, spoiled>>

\* What follows the transfer of shard s.i to p: the next shard, then the next
\* peer, in whatever order the table listed them.
After(s, p) ==
    LET last == s.i + 1 = DataShards(s.expect.policy)
    IN  [s EXCEPT !.peer  = p,
                  !.i     = IF last THEN 0 ELSE @ + 1,
                  !.peers = IF last THEN @ \ {p} ELSE @,
                  !.pc    = IF last /\ s.peers = {p} THEN "done" ELSE "send"]

\* A shard that was read is sent; a missing one is skipped.
SendShard(o) ==
    LET s == op[o]
    IN  /\ s.pc = "send"
        /\ \E p \in s.peers :
            /\ s.i > 0 => p = s.peer
            /\ IF s.got[s.i] = Missing
                 THEN /\ op' = [op EXCEPT ![o] = After(s, p)]
                      /\ UNCHANGED xfers
                 ELSE /\ op' = [op EXCEPT ![o].pc = "await", ![o].peer = p]
                      /\ xfers' = xfers \cup {[op |-> o, peer |-> p, i |-> s.i,
                                               content |-> s.got[s.i], stage |-> "sent"]}
        /\ UNCHANGED <<index, durable, files, faults, crashes, handle, raced, spoiled>>

\* The transfer that o awaits.
Awaited(o) == {x \in xfers : x.op = o /\ x.peer = op[o].peer /\ x.i = op[o].i}

\* The call is over, the peer has served it or has crashed: errors are logged.
TransferDone(o) ==
    /\ op[o].pc = "await"
    /\ Awaited(o) = {}
    /\ op' = [op EXCEPT ![o] = After(@, @.peer)]
    /\ UNCHANGED <<index, durable, files, xfers, faults, crashes, handle, raced, spoiled>>

\* The connection breaks: the peer may never see the call, or serve it later.
TransferFault(o) ==
    /\ op[o].pc = "await"
    /\ faults < MaxFaults
    /\ faults' = faults + 1
    /\ xfers' \in {xfers, xfers \ Awaited(o)}
    /\ op' = [op EXCEPT ![o] = After(@, @.peer)]
    /\ UNCHANGED <<index, durable, files, crashes, handle, raced, spoiled>>

\* transfer_chunk on the peer: fs::write truncates the file ...
ReceiveOpen(x) ==
    /\ x.stage = "sent"
    /\ files' = [files EXCEPT ![x.peer][File(x.op)][x.i] = Torn]
    /\ xfers' = (xfers \ {x}) \cup {[x EXCEPT !.stage = "open"]}
    /\ UNCHANGED <<index, durable, op, faults, crashes, handle, raced, spoiled>>

\* ... and fills it with what was sent, whose hash it does not check ...
ReceiveFill(x) ==
    /\ x.stage = "open"
    /\ files' = [files EXCEPT ![x.peer][File(x.op)][x.i] = x.content]
    /\ xfers' = (xfers \ {x}) \cup {[x EXCEPT !.stage = "written"]}
    /\ UNCHANGED <<index, durable, op, faults, crashes, handle, raced, spoiled>>

\* ... then the index entry, with the etag and policy of the PUT.
ReceivedMeta_DefaultPolicy(x) == [etag |-> x.op, policy |-> "warm"]
ReceivedMeta(x) == [etag |-> x.op, policy |-> op[x.op].policy]

ReceiveIndex(x) ==
    /\ x.stage = "written"
    /\ Access(x.peer, Receiver(x))
    /\ index' = [index EXCEPT ![x.peer][op[x.op].key] = ReceivedMeta(x)]
    /\ xfers' = xfers \ {x}
    /\ UNCHANGED <<durable, files, op, faults, crashes, spoiled>>

ReceiverOpensIndex(x) ==
    /\ x.stage = "written"
    /\ BeginOpen(x.peer, Receiver(x))
    /\ UNCHANGED op

ReceiveIndexFails(x) ==
    /\ x.stage = "written"
    /\ AccessFails(x.peer, Receiver(x))
    /\ xfers' = xfers \ {x}
    /\ UNCHANGED <<index, durable, files, op, faults, crashes, spoiled>>

\* The write of the shard fails and the call is refused, or the insertion into the
\* open index fails, which is ignored; a failed write of the .meta is ignored too.
ReceiveError(x) ==
    /\ x.stage = "written" => handle[x.peer] = Open
    /\ faults < MaxFaults
    /\ faults' = faults + 1
    /\ xfers' = xfers \ {x}
    /\ UNCHANGED <<index, durable, files, op, crashes, handle, raced, spoiled>>

-----------------------------------------------------------------------------
(* GET and DELETE *)

\* get_chunks: the index says which policy and hash to expect; no entry is 404.
BeginGet(o, n, k) ==
    /\ Served(o, n, k, "get")
    /\ op' = [op EXCEPT ![o] =
               [Idle EXCEPT !.kind = "get", !.node = n, !.key = k,
                            !.expect = index[n][k],
                            !.pc = IF index[n][k].etag = Nil THEN "done" ELSE "read"]]
    /\ UNCHANGED <<index, durable, files, xfers, faults, crashes, spoiled>>

\* The object that shards decode to under a policy; Nil for anything that is
\* not the shards of one object (no value has its hash).
Decode(got, policy) ==
    IF \E v \in Op : \A i \in 0..(DataShards(policy) - 1) :
                        got[i] = [val |-> v, policy |-> policy]
      THEN got[0].val
      ELSE Nil

\* The data a GET serves: only what has the hash the index named.
Verified_NoCheck(got, expect) == got[0].val
Verified(got, expect) ==
    IF Decode(got, expect.policy) = expect.etag THEN expect.etag ELSE Nil

\* A missing data shard is an error, and so is a hash that does not match.
ReadShard(o) ==
    LET s    == op[o]
        c    == files[s.node][File(o)][s.i]
        got  == [s.got EXCEPT ![s.i] = c]
        last == s.i + 1 = DataShards(s.expect.policy)
        body == Verified(got, s.expect)
    IN  /\ s.pc = "read"
        /\ op' = [op EXCEPT ![o] =
                   [s EXCEPT !.got  = got,
                             !.i    = @ + 1,
                             !.body = IF last /\ c # Missing THEN body ELSE Nil,
                             !.pc   = CASE c = Missing -> "done"
                                        [] c # Missing /\ ~last -> "read"
                                        [] OTHER -> IF body = Nil THEN "done"
                                                                  ELSE "header"]]
        /\ UNCHANGED <<index, durable, files, xfers, faults, crashes, handle, raced, spoiled>>

\* get_object_handler asks the index again for the ETag header.
GetHeader(o) ==
    /\ op[o].pc = "header"
    /\ op' = [op EXCEPT ![o].etag = index[op[o].node][op[o].key].etag,
                        ![o].ok = TRUE, ![o].pc = "done"]
    /\ UNCHANGED <<index, durable, files, xfers, faults, crashes, handle, raced, spoiled>>

\* delete_object removes the index entry and nothing else.
Delete(o, n, k) ==
    /\ Served(o, n, k, "delete")
    /\ index' = [index EXCEPT ![n][k] = NoMeta]
    /\ op' = [op EXCEPT ![o] = [Idle EXCEPT !.kind = "delete", !.node = n, !.key = k,
                                            !.ok = TRUE, !.pc = "done"]]
    /\ UNCHANGED <<durable, files, xfers, faults, crashes, spoiled>>

-----------------------------------------------------------------------------
(* The disk and the machines *)

\* sled writes its log out in the background.
Flush(n) ==
    /\ MaxCrashes > 0
    /\ durable[n] # index[n]
    /\ durable' = [durable EXCEPT ![n] = index[n]]
    /\ UNCHANGED <<index, files, op, xfers, faults, crashes, handle, raced, spoiled>>

\* The agent on n dies: the index is what was flushed, the files are as they
\* were left, requests and calls on n are gone.
Crash(n) ==
    /\ crashes < MaxCrashes
    /\ crashes' = crashes + 1
    /\ index' = [index EXCEPT ![n] = durable[n]]
    /\ op' = [o \in Op |-> IF op[o].node = n /\ op[o].pc \notin {"idle", "done"}
                             THEN [op[o] EXCEPT !.pc = "dead"] ELSE op[o]]
    /\ xfers' = {x \in xfers : x.peer # n}
    /\ handle' = [handle EXCEPT ![n] = Closed]
    /\ UNCHANGED <<durable, files, faults, raced, spoiled>>

-----------------------------------------------------------------------------

Request(o) ==
    \E n \in Frontends, k \in Key :
        \/ \E policy \in Policies : BeginPut(o, n, k, policy)
        \/ BeginGet(o, n, k)
        \/ Delete(o, n, k)
        \/ \E kind \in {"get", "delete"} : OpensIndex(o, n, k, kind, "hot")
        \/ \E policy \in Policies : OpensIndex(o, n, k, "put", policy)

Handler(o) ==
    \/ OpenShard(o) \/ FillShard(o)
    \/ PutIndex(o) \/ PutIndexFails(o)
    \/ CollectIndex(o) \/ CollectShard(o) \/ SendShard(o) \/ TransferDone(o)
    \/ ReadShard(o) \/ GetHeader(o)

Next ==
    \/ \E o \in Op : Request(o) \/ Handler(o) \/ TransferFault(o) \/ StorageError(o)
    \/ \E x \in xfers : \/ ReceiveOpen(x) \/ ReceiveFill(x) \/ ReceiveIndex(x)
                       \/ ReceiverOpensIndex(x) \/ ReceiveIndexFails(x)
                       \/ ReceiveError(x)
    \/ \E n \in Node : Flush(n) \/ Crash(n)

Spec == Init /\ [][Next]_vars

-----------------------------------------------------------------------------
(* Properties *)

\* The types of the index, of the shard files, of the requests and of the calls.
TypeOK ==
    /\ index \in [Node -> [Key -> Meta]]
    /\ durable \in [Node -> [Key -> Meta]]
    /\ files \in [Node -> [FileName -> [Shard -> Content]]]
    /\ op \in [Op -> OpState]
    /\ xfers \subseteq Transfer
    /\ faults \in Nat
    /\ crashes \in Nat
    /\ handle \in [Node -> {Closed, Open} \cup Accessor]
    /\ raced \in BOOLEAN
    /\ spoiled \subseteq Node \X FileName

\* The check of the SHA-256 on reads rejects whatever concurrent PUTs, half-made
\* transfers, crashes and colliding file names leave in the shard files: a GET
\* that answers 200 answers with exactly what one PUT of that key uploaded, all of
\* its shards from that PUT.
GetIntegrity ==
    \A o \in Op :
        op[o].kind = "get" /\ op[o].ok =>
            /\ op[o].body \in Op
            /\ op[op[o].body].kind = "put"
            /\ op[op[o].body].key = op[o].key
            /\ \A i \in 0..(DataShards(op[o].expect.policy) - 1) :
                    op[o].got[i] = [val |-> op[o].body, policy |-> op[op[o].body].policy]

\* What a GET of k on n would find in the files.
Readable(n, k) ==
    LET m == index[n][k]
    IN  Decode(files[n][ObjectId[k]], m.policy) = m.etag

\* Overwriting in place is safe for one writer at a time: as long as keys have
\* file names of their own, PUTs of a key do not overlap and nothing crashes,
\* every object in the index of a node that only clients write to can be read
\* whenever no PUT of it is under way, whatever policies its versions had.  The
\* exception is what the `?` of put_chunks leaves behind: a PUT that was answered
\* 500 after it had truncated a file, until the next PUT of the key that succeeds,
\* which heals the object whatever the failed one left.
SerialPutsReadable ==
    \A n \in Node, k \in Key :
        /\ crashes = 0
        /\ index[n][k].etag # Nil
        /\ \A m \in Node : n \notin Peers[m]
        /\ <<n, ObjectId[k]>> \notin spoiled
        /\ \A o \in Op : ~(Writing(o) /\ op[o].node = n /\ op[o].key = k)
        => Readable(n, k)

\* Damage takes a rival: put_chunks writes the shard files before put_object
\* writes the index, so a crash, a full disk or a lost race for the index, at any
\* point, leaves the entry of an object that cannot be read only where two PUTs
\* wrote to the same file name.
DamageNeedsRival ==
    \A n \in Node, k \in Key :
        /\ index[n][k].etag # Nil /\ ~Readable(n, k)
        /\ \A m \in Node : n \notin Peers[m]
        => \E o, q \in Op : /\ o # q
                            /\ op[o].kind = "put" /\ op[q].kind = "put"
                            /\ File(o) = ObjectId[k] /\ File(q) = ObjectId[k]

\* Nothing of the store is in progress.
Quiet == xfers = {} /\ \A o \in Op : op[o].pc \in {"idle", "done"}

\* Fan-out replicates: after the only PUT of a key, and with no failed transfer,
\* write or read, its peers can serve the object though they index it from the
\* first shard on.
SinglePutReplicated ==
    \A o \in Op :
        /\ Quiet /\ faults = 0 /\ crashes = 0 /\ ~raced
        /\ op[o].kind = "put"
        /\ \A q \in Op : op[q].key = op[o].key /\ op[q].kind # "get" => q = o
        => \A p \in Peers[op[o].node] :
                index[p][op[o].key].etag = o /\ Readable(p, op[o].key)
=============================================================================
