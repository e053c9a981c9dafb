------------------------- MODULE CertificatesProofs -------------------------
(***************************************************************************)
(* Proofs about Certificates, for every set of nodes, every choice of      *)
(* issuers and seeds, and every number of crashes.                         *)
(***************************************************************************)
EXTENDS Certificates, TLAPS

-----------------------------------------------------------------------------
(* The revocation list *)

\* The list is a record, and a node that was revoked is in it unless it is torn.
CrlInv ==
    /\ crl \in [Node -> [file : {Absent, Torn, 1}, list : SUBSET Node]]
    /\ revoked \subseteq Node \X Node
    /\ \A r \in revoked : \/ crl[r[1]].file = Torn
                          \/ crl[r[1]].file = 1 /\ r[2] \in crl[r[1]].list

\* No list, and nobody revoked.
LEMMA CrlInit == Init => CrlInv
  BY DEF Init, CrlInv

\* Only add_to_crl and a crash in it change the list: one adds, the other tears.
LEMMA CrlStep == CrlInv /\ [Next]_vars => CrlInv'
<1> SUFFICES ASSUME CrlInv, [Next]_vars  PROVE CrlInv'
  OBVIOUS
<1>1. ASSUME NEW n \in Node, NEW m \in Node, AddToCrl(n, m)  PROVE CrlInv'
  <2>1. /\ crl' = [crl EXCEPT ![n] = [file |-> 1, list |-> crl[n].list \cup {m}]]
        /\ revoked' = revoked \cup {<<n, m>>}
        /\ crl[n].file # Torn
    BY <1>1 DEF AddToCrl
  <2>2. crl' \in [Node -> [file : {Absent, Torn, 1}, list : SUBSET Node]]
    BY <2>1 DEF CrlInv
  <2>3. revoked' \subseteq Node \X Node
    BY <2>1 DEF CrlInv
  <2>4. ASSUME NEW r \in revoked'
        PROVE  crl'[r[1]].file = Torn \/ (crl'[r[1]].file = 1 /\ r[2] \in crl'[r[1]].list)
    <3>1. CASE r = <<n, m>>
      BY <2>1, <3>1 DEF CrlInv
    <3>2. CASE r # <<n, m>>
      <4>1. r \in revoked /\ r[1] \in Node
        BY <2>1, <3>2, <2>4 DEF CrlInv
      <4> QED BY <2>1, <4>1 DEF CrlInv
    <3> QED BY <3>1, <3>2
  <2> QED BY <2>2, <2>3, <2>4 DEF CrlInv
<1>2. ASSUME NEW n \in Node, CrashInAddToCrl(n)  PROVE CrlInv'
  <2>1. /\ crl' = [crl EXCEPT ![n] = [file |-> Torn, list |-> {}]]
        /\ revoked' = revoked
    BY <1>2 DEF CrashInAddToCrl
  <2>2. crl' \in [Node -> [file : {Absent, Torn, 1}, list : SUBSET Node]]
    BY <2>1 DEF CrlInv
  <2>3. ASSUME NEW r \in revoked
        PROVE  crl'[r[1]].file = Torn \/ (crl'[r[1]].file = 1 /\ r[2] \in crl'[r[1]].list)
    <3>1. r[1] \in Node
      BY DEF CrlInv
    <3> QED BY <2>1, <3>1 DEF CrlInv
  <2> QED BY <2>1, <2>2, <2>3 DEF CrlInv
<1>3. ASSUME NEW n \in Node,
             \/ NodeIdOpen(n) \/ NodeIdFill(n) \/ StartIssuer(n) \/ StartMember(n)
             \/ WriteOpen(n) \/ WriteFill(n)
             \/ \E seed \in Node : Join(n, seed) \/ JoinAnswerLost(n, seed)
             \/ JoinFails(n) \/ EnrolGivesUp(n) \/ Crash(n) \/ Reconfigure(n)
      PROVE  crl' = crl /\ revoked' = revoked
  BY <1>3 DEF NodeIdOpen, NodeIdFill, StartIssuer, StartMember, WriteOpen, WriteFill,
     Join, JoinAnswerLost, JoinFails, EnrolGivesUp, Crash, Reconfigure, historyVars, restVars
<1>4. CASE UNCHANGED vars
  BY <1>4 DEF CrlInv, vars
<1>5. crl' = crl /\ revoked' = revoked => CrlInv'
  BY DEF CrlInv
<1> QED BY <1>1, <1>2, <1>3, <1>4, <1>5 DEF Next

\* add_to_crl and is_revoked: once add_to_crl has returned, no crash during a
\* later one makes is_revoked answer that the node is not revoked.
THEOREM RevocationsKept == Spec => []RevocationKept
<1>1. CrlInv => RevocationKept
  <2> SUFFICES ASSUME CrlInv, NEW r \in revoked  PROVE is_revoked(r[1], r[2]) # "no"
    BY DEF RevocationKept
  <2>1. crl[r[1]].file = Torn \/ (crl[r[1]].file = 1 /\ r[2] \in crl[r[1]].list)
    BY DEF CrlInv
  <2> QED BY <2>1 DEF is_revoked, Absent, Torn
<1> QED BY CrlInit, CrlStep, <1>1, PTL DEF Spec

-----------------------------------------------------------------------------
(* The node id *)

\* A node that got past node_id has a whole id file, and so has a node for which
\* a certificate was issued: that of the id it names.
IdInv ==
    /\ DOMAIN pc = Node /\ DOMAIN todo = Node
    /\ id \in [Node -> [file : Int, made : Nat]]
    /\ enrolledAs \in [Node -> SUBSET Int]
    /\ \A n \in Node : /\ pc[n] \in {"down", "node_id"} \/ id[n].file > 0
                       /\ todo[n] # <<>> => id[n].file > 0
                       /\ pc[n] = "node_id" => id[n].file = 0
                       /\ \A i \in enrolledAs[n] : i > 0 /\ id[n].file = i

\* Nobody has an id, and nobody is past node_id.
LEMMA IdInit == Init => IdInv
<1> SUFFICES ASSUME Init  PROVE IdInv
  OBVIOUS
<1>1. id = [n \in Node |-> [file |-> -1, made |-> 0]] /\ enrolledAs = [n \in Node |-> {}]
  BY DEF Init, Absent
<1>2. pc = [n \in Node |-> "down"] /\ todo = [n \in Node |-> <<>>]
  BY DEF Init
<1>3. id \in [Node -> [file : Int, made : Nat]] /\ enrolledAs \in [Node -> SUBSET Int]
  BY <1>1
<1> QED BY <1>1, <1>2, <1>3 DEF IdInv

\* node_id itself: a new id is made only where there is no file, hence nobody
\* enrolled; a torn file is filled only by the start that tore it.
LEMMA IdMade ==
  ASSUME IdInv, NEW n \in Node, NodeIdOpen(n) \/ NodeIdFill(n)
  PROVE  IdInv'
<1>1. todo' = todo /\ enrolledAs' = enrolledAs
  BY DEF NodeIdOpen, NodeIdFill, historyVars
<1>2. CASE NodeIdOpen(n)
  <2>1. /\ id[n].file = -1 /\ id' = [id EXCEPT ![n].file = 0]
        /\ pc' = [pc EXCEPT ![n] = "node_id"]
    BY <1>2 DEF NodeIdOpen, NodeIdMissing, Absent, Torn
  <2>2. enrolledAs[n] = {} /\ todo[n] = <<>>
    BY <2>1 DEF IdInv
  <2>3. id' \in [Node -> [file : Int, made : Nat]]
    BY <2>1 DEF IdInv
  <2> QED BY <1>1, <2>1, <2>2, <2>3 DEF IdInv
<1>3. CASE NodeIdFill(n)
  <2>1. /\ pc[n] = "node_id" /\ pc' = [pc EXCEPT ![n] = "named"]
        /\ id' = [id EXCEPT ![n] = [file |-> id[n].made + 1, made |-> id[n].made + 1]]
    BY <1>3 DEF NodeIdFill
  <2>2. id[n].file = 0 /\ enrolledAs[n] = {} /\ id[n].made \in Nat
    BY <2>1 DEF IdInv
  <2>3. id' \in [Node -> [file : Int, made : Nat]]
    BY <2>1, <2>2 DEF IdInv
  <2>4. id'[n].file > 0
    BY <2>1, <2>2 DEF IdInv
  <2> QED BY <1>1, <2>1, <2>2, <2>3, <2>4 DEF IdInv
<1> QED BY <1>2, <1>3

\* Starting with an id, and the writes and crashes after that, keep the id.
LEMMA IdLeft ==
  ASSUME IdInv, NEW n \in Node,
         \/ StartIssuer(n) \/ StartMember(n) \/ WriteOpen(n) \/ WriteFill(n)
         \/ JoinFails(n) \/ EnrolGivesUp(n) \/ CrashInAddToCrl(n)
         \/ Crash(n) \/ Reconfigure(n)
         \/ \E m \in Node : AddToCrl(n, m)
  PROVE  IdInv'
<1> DEFINE Keeps == /\ id' = id /\ enrolledAs' = enrolledAs
                    /\ DOMAIN pc' = Node /\ DOMAIN todo' = Node
                    /\ \A k \in Node \ {n} : pc'[k] = pc[k] /\ todo'[k] = todo[k]
                    /\ pc'[n] \in {pc[n], "down"} \/ (id[n].file > 0 /\ pc'[n] # "node_id")
                    /\ todo'[n] \in {todo[n], <<>>} \/ id[n].file > 0
<1>1. SUFFICES Keeps
  BY DEF IdInv
<1> USE DEF IdInv, historyVars
<1>2. CASE StartIssuer(n)
  BY <1>2 DEF StartIssuer, Named, Torn
<1>3. CASE StartMember(n)
  BY <1>3 DEF StartMember, Named, Torn
<1>4. CASE WriteOpen(n)
  BY <1>4 DEF WriteOpen
<1>5. CASE WriteFill(n)
  BY <1>5 DEF WriteFill
<1>6. CASE JoinFails(n)
  BY <1>6 DEF JoinFails
<1>7. CASE EnrolGivesUp(n)
  BY <1>7 DEF EnrolGivesUp
<1>8. CASE CrashInAddToCrl(n)
  BY <1>8 DEF CrashInAddToCrl
<1>9. CASE Crash(n)
  BY <1>9 DEF Crash
<1>10. CASE Reconfigure(n)
  BY <1>10 DEF Reconfigure
<1>11. ASSUME NEW m \in Node, AddToCrl(n, m)  PROVE Keeps
  BY <1>11 DEF AddToCrl
<1> QED BY <1>2, <1>3, <1>4, <1>5, <1>6, <1>7, <1>8, <1>9, <1>10, <1>11

\* join issues for the id that is in the file of the node that asks.
LEMMA IdIssued ==
  ASSUME IdInv, NEW n \in Node, NEW seed \in Node, Join(n, seed) \/ JoinAnswerLost(n, seed)
  PROVE  IdInv'
<1>1. /\ pc[n] = "enrol" /\ id' = id
      /\ enrolledAs' = [enrolledAs EXCEPT ![n] = enrolledAs[n] \cup {id[n].file}]
  BY DEF Join, JoinAnswerLost
<1>2. id[n].file > 0 /\ id[n].file \in Int
  BY <1>1 DEF IdInv
<1>3. /\ DOMAIN pc' = Node /\ DOMAIN todo' = Node
      /\ \A k \in Node \ {n} : pc'[k] = pc[k] /\ todo'[k] = todo[k]
      /\ pc'[n] # "node_id"
  BY <1>1 DEF Join, JoinAnswerLost, IdInv
<1>4. enrolledAs' \in [Node -> SUBSET Int]
  BY <1>1, <1>2 DEF IdInv
<1>5. \A k \in Node : \A i \in enrolledAs'[k] : i > 0 /\ id'[k].file = i
  BY <1>1, <1>2 DEF IdInv
<1> QED BY <1>1, <1>2, <1>3, <1>4, <1>5 DEF IdInv

\* Every step keeps the ids.
LEMMA IdStep == IdInv /\ [Next]_vars => IdInv'
<1> SUFFICES ASSUME IdInv, [Next]_vars  PROVE IdInv'
  OBVIOUS
<1>1. CASE UNCHANGED vars
  BY <1>1 DEF IdInv, vars
<1> QED BY <1>1, IdMade, IdLeft, IdIssued DEF Next

\* node_id and join: however starts are interrupted and answers lost, a
\* certificate is issued only for the one id that every later start will read.
THEOREM IdentitiesKept == Spec => []IdentityKept
<1>1. IdInv => IdentityKept
  BY DEF IdInv, IdentityKept
<1> QED BY IdInit, IdStep, <1>1, PTL DEF Spec

-----------------------------------------------------------------------------
(* The certificate authority *)

\* What is left of init_ca's writes after the first one.
KeyWrite(g) == <<[file |-> "ca.key", content |-> g]>>

\* The fs::write calls that run_agent still has to make.
Writes == Seq([file : File, content : Int])

\* The types this argument needs.
CaTypes ==
    /\ files \in [Node -> [File -> Int]]
    /\ DOMAIN pc = Node
    /\ todo \in [Node -> Writes]
    /\ issuer \in [Node -> BOOLEAN]
    /\ gen \in Nat
    /\ handed \subseteq Node \X Int

\* A node whose role was never changed and that is no issuer has no CA key and is
\* not about to write one.
MemberWrites == Seq([file : {"node.crt", "node.key", "ca.crt"}, content : Int])
MemberHasNoKey ==
    \A n \in Node \ changed : n \notin FirstIssuer =>
        /\ ~issuer[n]
        /\ files[n]["ca.key"] = -1
        /\ todo[n] \in MemberWrites

\* An issuer writes its certificate first and its key last: where there is a key,
\* torn or not, the certificate is whole and not about to be written again.
IssuerKeyLast ==
    \A n \in Node \ changed : n \in FirstIssuer =>
        /\ issuer[n] /\ pc[n] # "enrol"
        /\ \/ todo[n] = <<>>
           \/ \E g \in Nat \ {0} :
                \/ todo[n] = CaWrites(g) /\ files[n]["ca.key"] = -1
                \/ todo[n] = KeyWrite(g) /\ files[n]["ca.crt"] > 0
        /\ files[n]["ca.key"] # -1 => files[n]["ca.crt"] > 0

\* What was handed out is what the issuer, which has its key, still has.
HandedWhole ==
    \A h \in handed : h[1] \notin changed =>
        /\ h[2] > 0 /\ files[h[1]]["ca.crt"] = h[2]
        /\ files[h[1]]["ca.key"] # -1

\* The inductive invariant behind HandedCaKept.
CaInv == CaTypes /\ MemberHasNoKey /\ IssuerKeyLast /\ HandedWhole

\* The two writes of init_ca.
LEMMA CaWriteOrder ==
  ASSUME NEW g
  PROVE  /\ CaWrites(g) # <<>> /\ Head(CaWrites(g)) = [file |-> "ca.crt", content |-> g]
         /\ Tail(CaWrites(g)) = KeyWrite(g)
         /\ KeyWrite(g) # <<>> /\ Head(KeyWrite(g)) = [file |-> "ca.key", content |-> g]
         /\ Tail(KeyWrite(g)) = <<>>
  BY DEF CaWrites, KeyWrite

\* They are writes.
LEMMA CaWritesType == ASSUME NEW g \in Int  PROVE CaWrites(g) \in Writes
  BY DEF CaWrites, Writes, File

\* So are those of save_node_cert, none of which is of the key.
LEMMA BundleType ==
  ASSUME NEW g \in Int, NEW c \in Int
  PROVE  LET bundle == <<[file |-> "node.crt", content |-> g], [file |-> "node.key", content |-> g],
                         [file |-> "ca.crt", content |-> c]>>
         IN  bundle \in MemberWrites /\ bundle \in Writes
  BY DEF MemberWrites, Writes, File

\* No write is left.
LEMMA NoWrites == <<>> \in MemberWrites /\ <<>> \in Writes
  BY DEF MemberWrites, Writes

\* The next write of a member, and those after it.
LEMMA NextMemberWrite ==
  ASSUME NEW s \in MemberWrites, s # <<>>
  PROVE  /\ Head(s) \in [file : {"node.crt", "node.key", "ca.crt"}, content : Int]
         /\ Tail(s) \in MemberWrites
<1> DEFINE W == [file : {"node.crt", "node.key", "ca.crt"}, content : Int]
<1> HIDE DEF W
<1>1. s \in Seq(W) => Head(s) \in W /\ Tail(s) \in Seq(W)
  OBVIOUS
<1> QED BY <1>1 DEF MemberWrites, W

\* The next write of any node.
LEMMA NextWrite ==
  ASSUME NEW s \in Writes, s # <<>>
  PROVE  Head(s) \in [file : File, content : Int] /\ Tail(s) \in Writes
<1> DEFINE W == [file : File, content : Int]
<1> HIDE DEF W
<1>1. s \in Seq(W) => Head(s) \in W /\ Tail(s) \in Seq(W)
  OBVIOUS
<1> QED BY <1>1 DEF Writes, W

\* A change of one file keeps the type.
LEMMA FileChange ==
  ASSUME files \in [Node -> [File -> Int]], NEW n \in Node, NEW f, NEW v \in Int
  PROVE  LET after == [files EXCEPT ![n][f] = v]
         IN  /\ after \in [Node -> [File -> Int]]
             /\ \A k \in Node \ {n} : after[k] = files[k]
             /\ \A g \in File \ {f} : after[n][g] = files[n][g]
             /\ f \in File => after[n][f] = v
<1> DEFINE row == [files[n] EXCEPT ![f] = v]
<1>1. files[n] \in [File -> Int]
  OBVIOUS
<1>2. /\ row \in [File -> Int]
      /\ \A g \in File \ {f} : row[g] = files[n][g]
      /\ f \in File => row[f] = v
  BY <1>1
<1>3. [files EXCEPT ![n][f] = v] = [files EXCEPT ![n] = row]
  OBVIOUS
<1> HIDE DEF row
<1> QED BY <1>2, <1>3

\* No key, no planned write, nothing handed out.
LEMMA CaInit == Init => CaInv
<1> SUFFICES ASSUME Init  PROVE CaInv
  OBVIOUS
<1>1. files = [n \in Node |-> [f \in File |->
                  IF f = "ca.crt" /\ n \in copied THEN MaxGen + 1 ELSE -1]]
  BY DEF Init, Absent, Copied
<1>2. MaxGen \in Nat
  BY BoundAssumption
<1>3. files \in [Node -> [File -> Int]]
  BY <1>1, <1>2
<1>4. \A n \in Node : files[n]["ca.key"] = -1
  BY <1>1 DEF File
<1>5. CaTypes
  BY <1>3, NoWrites DEF Init, CaTypes
<1>6. MemberHasNoKey
  BY <1>4, NoWrites DEF Init, MemberHasNoKey
<1>7. IssuerKeyLast
  BY <1>4 DEF Init, IssuerKeyLast
<1>8. HandedWhole
  BY DEF Init, HandedWhole
<1> QED BY <1>5, <1>6, <1>7, <1>8 DEF CaInv

\* Steps that write no file and plan no write.
LEMMA CaLeft ==
  ASSUME CaInv, NEW n \in Node,
         \/ NodeIdOpen(n) \/ NodeIdFill(n) \/ StartMember(n) \/ JoinFails(n)
         \/ EnrolGivesUp(n) \/ CrashInAddToCrl(n) \/ Crash(n) \/ Reconfigure(n)
         \/ \E m \in Node : AddToCrl(n, m)
  PROVE  CaInv'
<1> DEFINE Keeps == /\ files' = files /\ gen' = gen /\ handed' = handed
                    /\ DOMAIN pc' = Node /\ todo' \in [Node -> Writes]
                    /\ issuer' \in [Node -> BOOLEAN]
                    /\ changed \subseteq changed'
                    /\ \A k \in Node \ changed' : issuer'[k] = issuer[k]
                    /\ \A k \in Node : todo'[k] \in {todo[k], <<>>}
                    /\ \A k \in Node : pc'[k] = pc[k] \/ pc'[k] # "enrol" \/ ~issuer[k]
<1>1. SUFFICES Keeps
  <2>1. CaTypes'
    BY DEF CaInv, CaTypes
  <2>2. MemberHasNoKey'
    BY NoWrites DEF CaInv, MemberHasNoKey
  <2>3. IssuerKeyLast'
    BY DEF CaInv, IssuerKeyLast
  <2>4. HandedWhole'
    BY DEF CaInv, HandedWhole
  <2> QED BY <2>1, <2>2, <2>3, <2>4 DEF CaInv
<1> USE DEF CaInv, CaTypes, historyVars
<1>2. CASE NodeIdOpen(n)
  BY <1>2 DEF NodeIdOpen
<1>3. CASE NodeIdFill(n)
  BY <1>3 DEF NodeIdFill
<1>4. CASE StartMember(n)
  BY <1>4 DEF StartMember
<1>5. CASE JoinFails(n)
  BY <1>5 DEF JoinFails
<1>6. CASE EnrolGivesUp(n)
  BY <1>6 DEF EnrolGivesUp
<1>7. CASE CrashInAddToCrl(n)
  BY <1>7 DEF CrashInAddToCrl
<1>8. CASE Crash(n)
  BY <1>8, NoWrites DEF Crash
<1>9. CASE Reconfigure(n)
  BY <1>9 DEF Reconfigure
<1>10. ASSUME NEW m \in Node, AddToCrl(n, m)  PROVE Keeps
  BY <1>10 DEF AddToCrl
<1> QED BY <1>2, <1>3, <1>4, <1>5, <1>6, <1>7, <1>8, <1>9, <1>10

\* init_ca plans its writes only where there is no key.
LEMMA CaPlanned ==
  ASSUME CaInv, NEW n \in Node, StartIssuer(n)
  PROVE  CaInv'
<1>1. /\ files' = files /\ issuer' = issuer /\ handed' = handed /\ changed' = changed
      /\ issuer[n] /\ DOMAIN pc' = Node /\ DOMAIN todo' = Node
      /\ pc'[n] # "enrol"
      /\ \A k \in Node \ {n} : pc'[k] = pc[k] /\ todo'[k] = todo[k]
  BY DEF StartIssuer, historyVars, CaInv, CaTypes
<1>0. gen' \in Nat
  <2>1. gen' = gen \/ gen' = gen + 1
    BY DEF StartIssuer
  <2>2. gen \in Nat
    BY DEF CaInv, CaTypes
  <2> QED BY <2>1, <2>2
<1>2. \/ todo'[n] = todo[n]
      \/ \E g \in Nat \ {0} :
           todo'[n] = CaWrites(g) /\ (files[n]["ca.key"] = -1 \/ files[n]["ca.crt"] = -1)
  BY DEF StartIssuer, CaInv, CaTypes, exists, Absent
<1>3. CaTypes'
  <2>1. todo' = todo \/ todo' = [todo EXCEPT ![n] = CaWrites(gen + 1)]
    BY DEF StartIssuer
  <2>2. CaWrites(gen + 1) \in Writes
    BY CaWritesType DEF CaInv, CaTypes
  <2>3. todo' \in [Node -> Writes]
    BY <2>1, <2>2 DEF CaInv, CaTypes
  <2> QED BY <1>0, <1>1, <2>3 DEF CaInv, CaTypes
<1>4. MemberHasNoKey'
  BY <1>1 DEF CaInv, MemberHasNoKey
<1>5. IssuerKeyLast'
  BY <1>1, <1>2 DEF CaInv, IssuerKeyLast
<1>6. HandedWhole'
  BY <1>1 DEF CaInv, HandedWhole
<1> QED BY <1>3, <1>4, <1>5, <1>6 DEF CaInv

\* join is served by a node with a key, hence with a whole certificate, and the
\* caller, who is no issuer, plans no key.
LEMMA CaHanded ==
  ASSUME CaInv, NEW n \in Node, NEW seed \in Node, Join(n, seed) \/ JoinAnswerLost(n, seed)
  PROVE  CaInv'
<1>1. /\ files' = files /\ issuer' = issuer /\ changed' = changed
      /\ handed' = handed \cup {<<seed, files[seed]["ca.crt"]>>}
      /\ pc[n] = "enrol" /\ files[seed]["ca.key"] # -1
  BY DEF Join, JoinAnswerLost, restVars, has_ca_key, exists, Absent
<1>0. gen' \in Nat
  <2>1. gen' = gen \/ gen' = gen + 1
    BY DEF Join, JoinAnswerLost
  <2>2. gen \in Nat
    BY DEF CaInv, CaTypes
  <2> QED BY <2>1, <2>2
<1>2. /\ DOMAIN pc' = Node /\ DOMAIN todo' = Node
      /\ \A k \in Node \ {n} : pc'[k] = pc[k] /\ todo'[k] = todo[k]
  BY DEF Join, JoinAnswerLost, CaInv, CaTypes
<1>3. files[seed]["ca.crt"] \in Int
  BY DEF CaInv, CaTypes, File
<1>4. /\ todo' \in [Node -> Writes]
      /\ todo'[n] = todo[n] \/ todo'[n] \in MemberWrites
  <2>1. CASE Join(n, seed)
    <3> DEFINE bundle == <<[file |-> "node.crt", content |-> gen + 1],
                           [file |-> "node.key", content |-> gen + 1],
                           [file |-> "ca.crt", content |-> files[seed]["ca.crt"]]>>
    <3>1. todo' = [todo EXCEPT ![n] = bundle]
      BY <2>1 DEF Join
    <3>2. gen + 1 \in Int
      BY DEF CaInv, CaTypes
    <3>3. bundle \in MemberWrites /\ bundle \in Writes
      BY <3>2, <1>3, BundleType
    <3> HIDE DEF bundle
    <3> QED BY <3>1, <3>3 DEF CaInv, CaTypes
  <2>2. CASE JoinAnswerLost(n, seed)
    BY <2>2 DEF JoinAnswerLost, CaInv, CaTypes
  <2> QED BY <2>1, <2>2
<1>5. n \notin changed => n \notin FirstIssuer
  BY <1>1 DEF CaInv, IssuerKeyLast
<1>6. CaTypes'
  BY <1>0, <1>1, <1>2, <1>3, <1>4 DEF CaInv, CaTypes
<1>7. MemberHasNoKey'
  BY <1>1, <1>2, <1>4 DEF CaInv, MemberHasNoKey
<1>8. IssuerKeyLast'
  BY <1>1, <1>2, <1>5 DEF CaInv, IssuerKeyLast
<1>9. seed \notin changed => files[seed]["ca.crt"] > 0
  BY <1>1 DEF CaInv, MemberHasNoKey, IssuerKeyLast
<1>10. HandedWhole'
  BY <1>1, <1>9 DEF CaInv, HandedWhole
<1> QED BY <1>6, <1>7, <1>8, <1>10 DEF CaInv

\* The first half of a write leaves the file torn.
LEMMA CaWriteOpen ==
  ASSUME CaInv, NEW n \in Node, WriteOpen(n)
  PROVE  CaInv'
<1> DEFINE f == Head(todo[n]).file
<1>1. /\ todo[n] # <<>> /\ files' = [files EXCEPT ![n][f] = 0]
      /\ pc' = pc /\ todo' = todo /\ issuer' = issuer /\ gen' = gen
      /\ handed' = handed /\ changed' = changed
  BY DEF WriteOpen, historyVars, Torn
<1> HIDE DEF f
<1>2. files' \in [Node -> [File -> Int]]
  BY <1>1, FileChange DEF CaInv, CaTypes
<1>3. /\ \A k \in Node \ {n} : files'[k] = files[k]
      /\ \A g \in File \ {f} : files'[n][g] = files[n][g]
      /\ f \in File => files'[n][f] = 0
  BY <1>1, FileChange DEF CaInv, CaTypes
<1>4. n \notin changed /\ n \notin FirstIssuer => f # "ca.key"
  <2>1. n \notin changed /\ n \notin FirstIssuer => todo[n] \in MemberWrites
    BY DEF CaInv, MemberHasNoKey
  <2> QED BY <1>1, <2>1, NextMemberWrite DEF f
<1>5. n \notin changed /\ n \in FirstIssuer =>
        \/ f = "ca.crt" /\ files[n]["ca.key"] = -1
             /\ \E g \in Nat \ {0} : todo[n] = CaWrites(g)
        \/ f = "ca.key" /\ files[n]["ca.crt"] > 0
             /\ \E g \in Nat \ {0} : todo[n] = KeyWrite(g)
  BY <1>1, CaWriteOrder DEF f, CaInv, IssuerKeyLast
<1>6. "ca.key" \in File /\ "ca.crt" \in File
  BY DEF File
<1>7. CaTypes'
  BY <1>1, <1>2 DEF CaInv, CaTypes
<1>8. MemberHasNoKey'
  BY <1>1, <1>3, <1>4, <1>6 DEF CaInv, MemberHasNoKey
<1>9. IssuerKeyLast'
  BY <1>1, <1>3, <1>5, <1>6 DEF CaInv, IssuerKeyLast
<1>10. HandedWhole'
  <2> SUFFICES ASSUME NEW h \in handed, h[1] \notin changed
               PROVE  /\ h[2] > 0 /\ files'[h[1]]["ca.crt"] = h[2]
                      /\ files'[h[1]]["ca.key"] # -1
    BY <1>1 DEF HandedWhole
  <2>1. /\ h[1] \in Node /\ h[2] > 0 /\ files[h[1]]["ca.crt"] = h[2]
        /\ files[h[1]]["ca.key"] # -1
    BY DEF CaInv, CaTypes, HandedWhole
  <2>2. h[1] \in FirstIssuer
    BY <2>1 DEF CaInv, MemberHasNoKey
  <2>3. CASE h[1] # n
    BY <2>1, <2>3, <1>3
  <2>4. CASE h[1] = n
    <3>1. f = "ca.key"
      BY <2>1, <2>2, <2>4, <1>5
    <3> QED BY <2>1, <2>4, <3>1, <1>3, <1>6
  <2> QED BY <2>3, <2>4
<1> QED BY <1>7, <1>8, <1>9, <1>10 DEF CaInv

\* The second half fills it, and the next write is due.
LEMMA CaWriteFill ==
  ASSUME CaInv, NEW n \in Node, WriteFill(n)
  PROVE  CaInv'
<1> DEFINE f == Head(todo[n]).file
           v == Head(todo[n]).content
<1>1. /\ todo[n] # <<>> /\ files' = [files EXCEPT ![n][f] = v]
      /\ todo' = [todo EXCEPT ![n] = Tail(todo[n])]
      /\ issuer' = issuer /\ gen' = gen /\ handed' = handed /\ changed' = changed
      /\ DOMAIN pc' = Node /\ \A k \in Node : pc'[k] = pc[k] \/ pc'[k] = "up"
  BY DEF WriteFill, historyVars, CaInv, CaTypes
<1>2. f \in File /\ v \in Int /\ Tail(todo[n]) \in Writes
  <2>1. todo[n] \in Writes
    BY DEF CaInv, CaTypes
  <2>2. Head(todo[n]) \in [file : File, content : Int] /\ Tail(todo[n]) \in Writes
    BY <1>1, <2>1, NextWrite
  <2> QED BY <2>2
<1> HIDE DEF f, v
<1>3. /\ todo' \in [Node -> Writes] /\ todo'[n] = Tail(todo[n])
      /\ \A k \in Node \ {n} : todo'[k] = todo[k]
  BY <1>1, <1>2 DEF CaInv, CaTypes
<1>4. files' \in [Node -> [File -> Int]]
  BY <1>1, <1>2, FileChange DEF CaInv, CaTypes
<1>5. /\ \A k \in Node \ {n} : files'[k] = files[k]
      /\ \A g \in File \ {f} : files'[n][g] = files[n][g]
      /\ files'[n][f] = v
  BY <1>1, <1>2, FileChange DEF CaInv, CaTypes
<1>6. n \notin changed /\ n \notin FirstIssuer =>
        f # "ca.key" /\ Tail(todo[n]) \in MemberWrites
  <2>1. n \notin changed /\ n \notin FirstIssuer => todo[n] \in MemberWrites
    BY DEF CaInv, MemberHasNoKey
  <2> QED BY <1>1, <2>1, NextMemberWrite DEF f
<1>7. n \notin changed /\ n \in FirstIssuer =>
        \/ f = "ca.crt" /\ files[n]["ca.key"] = -1 /\ v > 0
             /\ \E g \in Nat \ {0} : Tail(todo[n]) = KeyWrite(g)
        \/ f = "ca.key" /\ files[n]["ca.crt"] > 0 /\ v > 0
             /\ Tail(todo[n]) = <<>>
  BY <1>1, CaWriteOrder DEF f, v, CaInv, IssuerKeyLast
<1>8. "ca.key" \in File /\ "ca.crt" \in File
  BY DEF File
<1>9. CaTypes'
  BY <1>1, <1>3, <1>4 DEF CaInv, CaTypes
<1>10. MemberHasNoKey'
  BY <1>1, <1>3, <1>5, <1>6, <1>8 DEF CaInv, MemberHasNoKey
<1>11. IssuerKeyLast'
  <2> SUFFICES ASSUME NEW k \in Node \ changed, k \in FirstIssuer
               PROVE  /\ issuer[k] /\ pc'[k] # "enrol"
                      /\ \/ todo'[k] = <<>>
                         \/ \E g \in Nat \ {0} :
                              \/ todo'[k] = CaWrites(g) /\ files'[k]["ca.key"] = -1
                              \/ todo'[k] = KeyWrite(g) /\ files'[k]["ca.crt"] > 0
                      /\ files'[k]["ca.key"] # -1 => files'[k]["ca.crt"] > 0
    BY <1>1 DEF IssuerKeyLast
  <2>1. issuer[k] /\ pc'[k] # "enrol"
    BY <1>1 DEF CaInv, IssuerKeyLast
  <2>2. CASE k # n
    BY <2>1, <2>2, <1>3, <1>5 DEF CaInv, IssuerKeyLast
  <2>3. CASE k = n /\ f = "ca.crt"
    BY <2>1, <2>3, <1>3, <1>5, <1>7, <1>8
  <2>4. CASE k = n /\ f = "ca.key"
    BY <2>1, <2>4, <1>3, <1>5, <1>7, <1>8
  <2> QED BY <2>2, <2>3, <2>4, <1>7
<1>12. HandedWhole'
  <2> SUFFICES ASSUME NEW h \in handed, h[1] \notin changed
               PROVE  /\ h[2] > 0 /\ files'[h[1]]["ca.crt"] = h[2]
                      /\ files'[h[1]]["ca.key"] # -1
    BY <1>1 DEF HandedWhole
  <2>1. /\ h[1] \in Node /\ h[2] > 0 /\ files[h[1]]["ca.crt"] = h[2]
        /\ files[h[1]]["ca.key"] # -1
    BY DEF CaInv, CaTypes, HandedWhole
  <2>2. h[1] \in FirstIssuer
    BY <2>1 DEF CaInv, MemberHasNoKey
  <2>3. CASE h[1] # n
    BY <2>1, <2>3, <1>5
  <2>4. CASE h[1] = n
    <3>1. f = "ca.key" /\ v > 0
      BY <2>1, <2>2, <2>4, <1>7
    <3> QED BY <2>1, <2>4, <3>1, <1>2, <1>5, <1>8
  <2> QED BY <2>3, <2>4
<1> QED BY <1>9, <1>10, <1>11, <1>12 DEF CaInv

\* Every step keeps the authority.
LEMMA CaStep == CaInv /\ [Next]_vars => CaInv'
<1> SUFFICES ASSUME CaInv, [Next]_vars  PROVE CaInv'
  OBVIOUS
<1>1. CASE UNCHANGED vars
  <2>1. CaTypes' /\ MemberHasNoKey'
    BY <1>1 DEF CaInv, CaTypes, MemberHasNoKey, vars
  <2>2. IssuerKeyLast' /\ HandedWhole'
    BY <1>1 DEF CaInv, IssuerKeyLast, HandedWhole, vars
  <2> QED BY <2>1, <2>2 DEF CaInv
<1> QED BY <1>1, CaLeft, CaPlanned, CaHanded, CaWriteOpen, CaWriteFill DEF Next

\* init_ca and join: however init_ca is interrupted and repeated, the CA that a
\* join handed out is whole and stays the one its issuer has.
THEOREM HandedCasKept == Spec => []HandedCaKept
<1>1. CaInv => HandedCaKept
  BY DEF CaInv, HandedWhole, HandedCaKept, Torn
<1> QED BY CaInit, CaStep, <1>1, PTL DEF Spec

-----------------------------------------------------------------------------
(* Types *)

\* A planned write, and what run_agent may plan.
Write == [file : File, content : Content]

\* The types, with that of the planned writes.
TypeInv == TypeOK /\ todo \in [Node -> Seq(Write)]

\* The bounds are numbers, and a generation is a content.
LEMMA Contents ==
    /\ MaxGen \in Nat /\ MaxAttempts \in Nat /\ MaxCrashes \in Nat
    /\ Absent \in Content /\ Torn \in Content /\ Copied \in Content
    /\ \A g \in 0..MaxGen : g < MaxGen => g + 1 \in 0..MaxGen /\ g + 1 \in Content
  BY BoundAssumption DEF Content, Absent, Torn, Copied

\* Nothing is there but what operators copied.
LEMMA TypeInit == Init => TypeInv
<1> SUFFICES ASSUME Init  PROVE TypeInv
  OBVIOUS
<1>1. files \in [Node -> [File -> Content]]
  BY Contents DEF Init
<1>2. /\ crl \in [Node -> [file : {Absent, Torn, 1}, list : SUBSET Node]]
      /\ id \in [Node -> [file : {Absent, Torn} \cup Nat, made : Nat]]
      /\ enrolledAs \in [Node -> SUBSET Nat]
  BY DEF Init
<1>3. /\ pc \in [Node -> {"down", "node_id", "named", "init_ca", "enrol", "save_node_cert", "up"}]
      /\ attempt \in [Node -> 0..MaxAttempts] /\ issuer \in [Node -> BOOLEAN]
      /\ gen \in 0..MaxGen /\ crashes \in 0..MaxCrashes
  BY Contents DEF Init
<1>4. todo \in [Node -> Seq(Write)] /\ \A n \in Node : Len(todo[n]) <= 3
  BY DEF Init
<1>5. /\ handed \subseteq Node \X Content /\ revoked \subseteq Node \X Node
      /\ cutAt \in [Node -> File \cup {"none"}] /\ changed \subseteq Node /\ copied \subseteq MayCopy
  BY DEF Init
<1> QED BY <1>1, <1>2, <1>3, <1>4, <1>5 DEF TypeInv, TypeOK

\* The planned writes of init_ca and of save_node_cert.
LEMMA Plans ==
  ASSUME NEW g \in Content, NEW c \in Content
  PROVE  LET bundle == <<[file |-> "node.crt", content |-> g], [file |-> "node.key", content |-> g],
                         [file |-> "ca.crt", content |-> c]>>
         IN  /\ bundle \in Seq(Write) /\ Len(bundle) <= 3
             /\ CaWrites(g) \in Seq(Write) /\ Len(CaWrites(g)) <= 3
<1>1. \A f \in File : [file |-> f, content |-> g] \in Write /\ [file |-> f, content |-> c] \in Write
  BY DEF Write
<1>2. "ca.crt" \in File /\ "ca.key" \in File /\ "node.crt" \in File /\ "node.key" \in File
  BY DEF File
<1>3. ASSUME NEW a \in Write, NEW b \in Write, NEW d \in Write
      PROVE  /\ <<a, b, d>> \in Seq(Write) /\ Len(<<a, b, d>>) <= 3
             /\ <<a, b>> \in Seq(Write) /\ Len(<<a, b>>) <= 3
  OBVIOUS
<1>4. CaWrites(g) = <<[file |-> "ca.crt", content |-> g], [file |-> "ca.key", content |-> g]>>
  BY DEF CaWrites
<1> QED BY <1>1, <1>2, <1>3, <1>4

\* The files, the writes and the generations keep their types.
LEMMA TypeFiles ==
  ASSUME TypeInv, NEW n \in Node,
         \/ StartIssuer(n) \/ WriteOpen(n) \/ WriteFill(n)
         \/ \E seed \in Node : Join(n, seed)
  PROVE  /\ files' \in [Node -> [File -> Content]]
         /\ todo' \in [Node -> Seq(Write)] /\ (\A k \in Node : Len(todo'[k]) <= 3)
         /\ gen' \in 0..MaxGen
         /\ handed' \subseteq Node \X Content
<1>t. /\ files \in [Node -> [File -> Content]] /\ todo \in [Node -> Seq(Write)]
      /\ (\A k \in Node : Len(todo[k]) <= 3) /\ gen \in 0..MaxGen /\ handed \subseteq Node \X Content
  BY DEF TypeInv, TypeOK
<1>p. ASSUME NEW plan \in Seq(Write), Len(plan) <= 3, todo' = [todo EXCEPT ![n] = plan]
      PROVE  todo' \in [Node -> Seq(Write)] /\ (\A k \in Node : Len(todo'[k]) <= 3)
  BY <1>t, <1>p
<1>f. ASSUME NEW f \in File, NEW v \in Content, files' = [files EXCEPT ![n][f] = v]
      PROVE  files' \in [Node -> [File -> Content]]
  <2>1. files[n] \in [File -> Content]
    BY <1>t
  <2>2. [files[n] EXCEPT ![f] = v] \in [File -> Content]
    BY <2>1
  <2>3. files' = [files EXCEPT ![n] = [files[n] EXCEPT ![f] = v]]
    BY <1>f
  <2> QED BY <1>t, <2>2, <2>3
<1>h. ASSUME todo[n] # <<>>
      PROVE  /\ Head(todo[n]).file \in File /\ Head(todo[n]).content \in Content
             /\ Tail(todo[n]) \in Seq(Write) /\ Len(Tail(todo[n])) <= 3
  <2>1. todo[n] \in Seq(Write) /\ Len(todo[n]) <= 3
    BY <1>t
  <2>2. Head(todo[n]) \in Write /\ Tail(todo[n]) \in Seq(Write) /\ Len(Tail(todo[n])) = Len(todo[n]) - 1
    BY <2>1, <1>h
  <2>3. Len(todo[n]) \in Nat
    BY <2>1
  <2> QED BY <2>1, <2>2, <2>3 DEF Write
<1>1. CASE StartIssuer(n)
  <2>1. files' = files /\ handed' = handed
    BY <1>1 DEF StartIssuer, historyVars
  <2>2. CASE todo' = todo /\ gen' = gen
    BY <2>1, <2>2, <1>t
  <2>3. CASE gen < MaxGen /\ gen' = gen + 1 /\ todo' = [todo EXCEPT ![n] = CaWrites(gen + 1)]
    <3>1. gen + 1 \in 0..MaxGen /\ gen + 1 \in Content
      BY <2>3, <1>t, Contents
    <3>2. CaWrites(gen + 1) \in Seq(Write) /\ Len(CaWrites(gen + 1)) <= 3
      BY <3>1, Plans
    <3> QED BY <2>1, <2>3, <3>1, <3>2, <1>p, <1>t
  <2> QED BY <1>1, <2>2, <2>3 DEF StartIssuer
<1>2. CASE WriteOpen(n)
  <2>1. todo[n] # <<>> /\ files' = [files EXCEPT ![n][Head(todo[n]).file] = Torn]
    BY <1>2 DEF WriteOpen
  <2>2. todo' = todo /\ gen' = gen /\ handed' = handed
    BY <1>2 DEF WriteOpen, historyVars
  <2> QED BY <2>1, <2>2, <1>h, <1>f, <1>t, Contents
<1>3. CASE WriteFill(n)
  <2>1. /\ todo[n] # <<>> /\ files' = [files EXCEPT ![n][Head(todo[n]).file] = Head(todo[n]).content]
        /\ todo' = [todo EXCEPT ![n] = Tail(todo[n])]
    BY <1>3 DEF WriteFill
  <2>2. gen' = gen /\ handed' = handed
    BY <1>3 DEF WriteFill, historyVars
  <2> QED BY <2>1, <2>2, <1>h, <1>f, <1>p, <1>t
<1>4. ASSUME NEW seed \in Node, Join(n, seed)
      PROVE  /\ files' \in [Node -> [File -> Content]]
             /\ todo' \in [Node -> Seq(Write)] /\ (\A k \in Node : Len(todo'[k]) <= 3)
             /\ gen' \in 0..MaxGen
             /\ handed' \subseteq Node \X Content
  <2> DEFINE bundle == <<[file |-> "node.crt", content |-> gen + 1],
                         [file |-> "node.key", content |-> gen + 1],
                         [file |-> "ca.crt", content |-> files[seed]["ca.crt"]]>>
  <2>1. /\ gen < MaxGen /\ gen' = gen + 1 /\ todo' = [todo EXCEPT ![n] = bundle] /\ files' = files
        /\ handed' = handed \cup {<<seed, files[seed]["ca.crt"]>>}
    BY <1>4 DEF Join
  <2>2. gen + 1 \in 0..MaxGen /\ gen + 1 \in Content
    BY <2>1, <1>t, Contents
  <2>3. files[seed]["ca.crt"] \in Content
    BY <1>t DEF File
  <2>4. bundle \in Seq(Write) /\ Len(bundle) <= 3
    BY <2>2, <2>3, Plans
  <2> HIDE DEF bundle
  <2>5. handed' \subseteq Node \X Content
    BY <2>1, <2>3, <1>t
  <2> QED BY <2>1, <2>2, <2>4, <2>5, <1>p, <1>t
<1> QED BY <1>1, <1>2, <1>3, <1>4

\* Every step keeps the types; that an id which enrols is a number is IdInv's.
LEMMA TypeStep == TypeInv /\ IdInv /\ [Next]_vars => TypeInv'
<1> SUFFICES ASSUME TypeInv, IdInv, [Next]_vars  PROVE TypeInv'
  OBVIOUS
<1> DEFINE Filed == /\ files \in [Node -> [File -> Content]]
                    /\ todo \in [Node -> Seq(Write)] /\ (\A k \in Node : Len(todo[k]) <= 3)
                    /\ gen \in 0..MaxGen
                    /\ handed \subseteq Node \X Content
           Placed == /\ pc \in [Node -> {"down", "node_id", "named", "init_ca", "enrol",
                                        "save_node_cert", "up"}]
                     /\ attempt \in [Node -> 0..MaxAttempts]
                     /\ issuer \in [Node -> BOOLEAN]
           Listed == /\ crl \in [Node -> [file : {Absent, Torn, 1}, list : SUBSET Node]]
                     /\ revoked \subseteq Node \X Node
           Called == /\ id \in [Node -> [file : {Absent, Torn} \cup Nat, made : Nat]]
                     /\ enrolledAs \in [Node -> SUBSET Nat]
           Noted == /\ cutAt \in [Node -> File \cup {"none"}]
                    /\ crashes \in 0..MaxCrashes /\ changed \subseteq Node
                    /\ copied \subseteq MayCopy
<1>i. Filed /\ Placed /\ Listed /\ Called /\ Noted
  BY DEF TypeInv, TypeOK
<1>a. ASSUME NEW n \in Node, attempt[n] < MaxAttempts
      PROVE  [attempt EXCEPT ![n] = @ + 1] \in [Node -> 0..MaxAttempts]
  <2>1. attempt \in [Node -> 0..MaxAttempts] /\ attempt[n] + 1 \in 0..MaxAttempts
    BY <1>i, <1>a, Contents
  <2> QED BY <2>1
<1>j. SUFFICES Filed' /\ Placed' /\ Listed' /\ Called' /\ Noted'
  BY DEF TypeInv, TypeOK
<1>1. CASE UNCHANGED vars
  BY <1>1, <1>i DEF vars
<1>2. ASSUME NEW n \in Node, NodeIdOpen(n) \/ NodeIdFill(n)
      PROVE  Filed' /\ Placed' /\ Listed' /\ Called' /\ Noted'
  <2>1. UNCHANGED <<files, crl, todo, attempt, issuer, gen, historyVars>>
    BY <1>2 DEF NodeIdOpen, NodeIdFill
  <2>2. Filed' /\ Listed' /\ Noted' /\ enrolledAs' = enrolledAs
    BY <2>1, <1>i DEF historyVars
  <2>3. Placed'
    BY <1>2, <2>1, <1>i DEF NodeIdOpen, NodeIdFill
  <2>4. id' \in [Node -> [file : {Absent, Torn} \cup Nat, made : Nat]]
    <3>1. CASE NodeIdOpen(n)
      <4>1. id' = [id EXCEPT ![n] = [id[n] EXCEPT !.file = Torn]]
        BY <3>1, <1>i DEF NodeIdOpen
      <4>2. ASSUME NEW r \in [file : {Absent, Torn} \cup Nat, made : Nat]
            PROVE  [r EXCEPT !.file = Torn] \in [file : {Absent, Torn} \cup Nat, made : Nat]
        OBVIOUS
      <4>3. [id[n] EXCEPT !.file = Torn] \in [file : {Absent, Torn} \cup Nat, made : Nat]
        BY <4>2, <1>i
      <4> QED BY <4>1, <4>3, <1>i
    <3>2. CASE NodeIdFill(n)
      <4>1. id' = [id EXCEPT ![n] = [file |-> id[n].made + 1, made |-> id[n].made + 1]]
        BY <3>2 DEF NodeIdFill
      <4>2. id[n].made + 1 \in Nat
        BY <1>i
      <4> QED BY <4>1, <4>2, <1>i
    <3> QED BY <1>2, <3>1, <3>2
  <2> QED BY <2>2, <2>3, <2>4, <1>i
<1>3. ASSUME NEW n \in Node, StartIssuer(n) \/ WriteOpen(n) \/ WriteFill(n)
      PROVE  Filed' /\ Placed' /\ Listed' /\ Called' /\ Noted'
  <2>1. Filed'
    BY <1>3, TypeFiles
  <2>2. UNCHANGED <<id, crl, attempt, issuer, historyVars>>
    BY <1>3 DEF StartIssuer, WriteOpen, WriteFill
  <2>3. Listed' /\ Called' /\ Noted'
    BY <2>2, <1>i DEF historyVars
  <2>4. Placed'
    BY <1>3, <2>2, <1>i DEF StartIssuer, WriteOpen, WriteFill
  <2> QED BY <2>1, <2>3, <2>4
<1>4. ASSUME NEW n \in Node, StartMember(n) \/ JoinFails(n) \/ EnrolGivesUp(n)
      PROVE  Filed' /\ Placed' /\ Listed' /\ Called' /\ Noted'
  <2>1. UNCHANGED <<id, files, crl, todo, issuer, gen, historyVars>>
    BY <1>4 DEF StartMember, JoinFails, EnrolGivesUp
  <2>2. Filed' /\ Listed' /\ Called' /\ Noted'
    BY <2>1, <1>i DEF historyVars
  <2>3. Placed'
    <3>1. /\ pc' \in [Node -> {"down", "node_id", "named", "init_ca", "enrol", "save_node_cert", "up"}]
          /\ issuer' = issuer
      BY <1>4, <2>1, <1>i DEF StartMember, JoinFails, EnrolGivesUp
    <3>2. CASE StartMember(n)
      BY <3>1, <3>2, <1>i, Contents DEF StartMember
    <3>3. CASE JoinFails(n)
      BY <3>1, <3>3, <1>a, <1>i DEF JoinFails
    <3>4. CASE EnrolGivesUp(n)
      BY <3>1, <3>4, <1>i DEF EnrolGivesUp
    <3> QED BY <1>4, <3>2, <3>3, <3>4
  <2> QED BY <2>2, <2>3
<1>5. ASSUME NEW n \in Node, NEW seed \in Node, Join(n, seed) \/ JoinAnswerLost(n, seed)
      PROVE  Filed' /\ Placed' /\ Listed' /\ Called' /\ Noted'
  <2>1. UNCHANGED <<id, crl, issuer, restVars>> /\ pc[n] = "enrol"
        /\ enrolledAs' = [enrolledAs EXCEPT ![n] = @ \cup {id[n].file}]
    BY <1>5 DEF Join, JoinAnswerLost
  <2>2. Listed' /\ Noted' /\ id' = id
    BY <2>1, <1>i DEF restVars
  <2>3. id[n].file \in Nat
    <3>1. id[n].file > 0
      BY <2>1 DEF IdInv
    <3>2. id[n].file = -1 \/ id[n].file = 0 \/ id[n].file \in Nat
      BY <1>i DEF Absent, Torn
    <3> QED BY <3>1, <3>2
  <2>4. Called'
    BY <2>1, <2>2, <2>3, <1>i
  <2>5. Placed'
    <3>1. CASE Join(n, seed)
      BY <3>1, <2>1, <1>i DEF Join
    <3>2. CASE JoinAnswerLost(n, seed)
      BY <3>2, <2>1, <1>a, <1>i DEF JoinAnswerLost
    <3> QED BY <1>5, <3>1, <3>2
  <2>6. Filed'
    <3>1. CASE Join(n, seed)
      BY <3>1, TypeFiles
    <3>2. CASE JoinAnswerLost(n, seed)
      <4>1. /\ UNCHANGED <<files, todo, gen>> /\ handed' = handed \cup {<<seed, files[seed]["ca.crt"]>>}
        BY <3>2 DEF JoinAnswerLost
      <4>2. files[seed]["ca.crt"] \in Content
        BY <1>i DEF File
      <4> QED BY <4>1, <4>2, <1>i
    <3> QED BY <1>5, <3>1, <3>2
  <2> QED BY <2>2, <2>4, <2>5, <2>6
<1>6. ASSUME NEW n \in Node, NEW m \in Node, AddToCrl(n, m)
      PROVE  Filed' /\ Placed' /\ Listed' /\ Called' /\ Noted'
  <2>1. Filed' /\ Placed' /\ Called' /\ Noted'
    BY <1>6, <1>i DEF AddToCrl
  <2>2. Listed'
    BY <1>6, <1>i DEF AddToCrl
  <2> QED BY <2>1, <2>2
<1>7. ASSUME NEW n \in Node, CrashInAddToCrl(n)
      PROVE  Filed' /\ Placed' /\ Listed' /\ Called' /\ Noted'
  <2>1. Filed' /\ Placed' /\ Called'
    BY <1>7, <1>i DEF CrashInAddToCrl
  <2>2. Listed'
    BY <1>7, <1>i DEF CrashInAddToCrl
  <2>3. Noted'
    BY <1>7, <1>i, Contents DEF CrashInAddToCrl
  <2> QED BY <2>1, <2>2, <2>3
<1>8. ASSUME NEW n \in Node, Crash(n)
      PROVE  Filed' /\ Placed' /\ Listed' /\ Called' /\ Noted'
  <2>1. Listed' /\ Called' /\ Placed'
    BY <1>8, <1>i DEF Crash
  <2>2. todo' = [todo EXCEPT ![n] = <<>>] /\ UNCHANGED <<files, gen, handed>>
    BY <1>8 DEF Crash
  <2>3. Filed'
    BY <2>2, <1>i
  <2>4. todo[n] # <<>> => Head(todo[n]).file \in File
    <3>1. todo[n] \in Seq(Write)
      BY <1>i
    <3>2. todo[n] # <<>> => Head(todo[n]) \in Write
      BY <3>1
    <3> QED BY <3>2 DEF Write
  <2>5. cutAt' \in [Node -> File \cup {"none"}]
    BY <1>8, <2>4, <1>i DEF Crash
  <2>6. Noted'
    BY <1>8, <2>5, <1>i, Contents DEF Crash
  <2> QED BY <2>1, <2>3, <2>6
<1>9. ASSUME NEW n \in Node, Reconfigure(n)
      PROVE  Filed' /\ Placed' /\ Listed' /\ Called' /\ Noted'
  BY <1>9, <1>i DEF Reconfigure
<1> QED BY <1>1, <1>2, <1>3, <1>4, <1>5, <1>6, <1>7, <1>8, <1>9 DEF Next

\* Every variable keeps its type.
THEOREM TypeCorrect == Spec => []TypeOK
<1>1. TypeInv => TypeOK
  BY DEF TypeInv
<1> QED BY IdInit, IdStep, TypeInit, TypeStep, <1>1, PTL DEF Spec

-----------------------------------------------------------------------------
(* The bundle of a member *)

\* The fs::write calls of save_node_cert that are left, from the first on.
Bundle(g, c)   == <<[file |-> "node.crt", content |-> g], [file |-> "node.key", content |-> g],
                    [file |-> "ca.crt", content |-> c]>>
KeyAndCa(g, c) == <<[file |-> "node.key", content |-> g], [file |-> "ca.crt", content |-> c]>>
CaOnly(c)      == <<[file |-> "ca.crt", content |-> c]>>

\* A node that is no issuer, and neither its role nor that of its seeds changed.
Member(n) == n \notin FirstIssuer /\ changed \cap (Seeds[n] \cup {n}) = {}

\* The files appear in the order in which they are written; ca.crt may have been
\* there before.
InOrder(n) ==
    /\ files[n]["node.key"] # -1 => files[n]["node.crt"] # -1
    /\ IF n \in copied THEN files[n]["ca.crt"] # -1
         ELSE files[n]["ca.crt"] # -1 => files[n]["node.key"] # -1

\* The last file to appear is not there: has_node_credentials says no.
Missing(n) == IF n \in copied THEN files[n]["node.key"] = -1 ELSE files[n]["ca.crt"] = -1

\* A certificate and key of one enrolment and a whole CA certificate.
Whole(n) == /\ files[n]["node.crt"] > 0 /\ files[n]["node.crt"] = files[n]["node.key"]
            /\ files[n]["ca.crt"] > 0

\* A crash tore the file whose presence makes the bundle look complete.
Excused(n) == cutAt[n] = "ca.crt" \/ (cutAt[n] = "node.key" /\ n \in copied)

\* Where save_node_cert is, and what is on disk then.
Saving(n) ==
    \E g, c \in Nat \ {0} :
        \/ todo[n] = Bundle(g, c) /\ Missing(n)
        \/ /\ todo[n] = KeyAndCa(g, c) /\ files[n]["node.crt"] = g
           /\ n \notin copied => files[n]["ca.crt"] = -1
        \/ todo[n] = CaOnly(c) /\ files[n]["node.crt"] = g /\ files[n]["node.key"] = g

\* A member enrols only while its last file is missing, and starts to serve only
\* with a bundle that is whole or excused.
MemberOk(n) ==
    /\ InOrder(n)
    /\ todo[n] # <<>> => pc[n] = "save_node_cert" /\ Saving(n)
    /\ todo[n] = <<>> => Whole(n) \/ Excused(n) \/ Missing(n)
    /\ pc[n] = "enrol" => Missing(n)
    /\ pc[n] = "up" => Whole(n) \/ Excused(n)

\* The inductive invariant behind AcceptedBundleWhole.
MembersOk == \A n \in Node : Member(n) => MemberOk(n)

\* The three writes of save_node_cert.
LEMMA BundleOrder ==
  ASSUME NEW g, NEW c
  PROVE  /\ Bundle(g, c) # <<>> /\ Head(Bundle(g, c)) = [file |-> "node.crt", content |-> g]
         /\ Tail(Bundle(g, c)) = KeyAndCa(g, c) /\ Len(Bundle(g, c)) = 3
         /\ KeyAndCa(g, c) # <<>> /\ Head(KeyAndCa(g, c)) = [file |-> "node.key", content |-> g]
         /\ Tail(KeyAndCa(g, c)) = CaOnly(c) /\ Len(KeyAndCa(g, c)) = 2
         /\ CaOnly(c) # <<>>
  BY DEF Bundle, KeyAndCa, CaOnly

\* The last one of them.
LEMMA BundleLast ==
  ASSUME NEW c
  PROVE  /\ CaOnly(c) # <<>> /\ Head(CaOnly(c)) = [file |-> "ca.crt", content |-> c]
         /\ Tail(CaOnly(c)) = <<>> /\ Len(CaOnly(c)) = 1
  BY DEF CaOnly

\* The files a start looks for are all there unless the last one is missing.
LEMMA CredentialsThere ==
  ASSUME NEW n \in Node, InOrder(n)
  PROVE  has_node_credentials(n) <=> ~Missing(n)
  BY DEF InOrder, Missing, has_node_credentials, exists, Absent

\* No bundle, no enrolment.
LEMMA MembersInit == Init => MembersOk
<1> SUFFICES ASSUME Init, NEW n \in Node  PROVE MemberOk(n)
  BY DEF MembersOk
<1>1. MaxGen \in Nat
  BY BoundAssumption
<1>2. /\ files[n]["node.crt"] = -1 /\ files[n]["node.key"] = -1
      /\ files[n]["ca.crt"] = IF n \in copied THEN MaxGen + 1 ELSE -1
  BY DEF Init, File, Absent, Copied
<1>3. InOrder(n) /\ Missing(n)
  BY <1>1, <1>2 DEF InOrder, Missing
<1>4. pc[n] = "down" /\ todo[n] = <<>>
  BY DEF Init
<1> QED BY <1>3, <1>4 DEF MemberOk

\* A step that leaves what is kept of node n alone keeps its bundle.
LEMMA MemberLeft ==
  ASSUME NEW n \in Node, MemberOk(n), files'[n] = files[n], todo'[n] = todo[n],
         pc'[n] = pc[n], cutAt'[n] = cutAt[n], copied' = copied
  PROVE  MemberOk(n)'
<1>1. InOrder(n)' = InOrder(n) /\ Missing(n)' = Missing(n) /\ Whole(n)' = Whole(n)
      /\ Excused(n)' = Excused(n)
  BY DEF InOrder, Missing, Whole, Excused
<1>2. Saving(n) => Saving(n)'
  BY <1>1 DEF Saving, Missing
<1> QED BY <1>1, <1>2 DEF MemberOk

\* One half of a write of save_node_cert.
LEMMA MemberSaves ==
  ASSUME CaInv, TypeInv, NEW n \in Node, MemberOk(n), WriteOpen(n) \/ WriteFill(n)
  PROVE  MemberOk(n)'
<1>t. files \in [Node -> [File -> Int]] /\ DOMAIN todo = Node /\ DOMAIN pc = Node
  BY DEF CaInv, CaTypes
<1>f. {"ca.crt", "node.crt", "node.key"} \subseteq File
  BY DEF File
<1>0. todo[n] # <<>> /\ cutAt' = cutAt /\ copied' = copied
  BY DEF WriteOpen, WriteFill, historyVars
<1>1. InOrder(n) /\ pc[n] = "save_node_cert" /\ Saving(n)
  BY <1>0 DEF MemberOk
<1>2. PICK g \in Nat \ {0}, c \in Nat \ {0} :
        \/ todo[n] = Bundle(g, c) /\ Missing(n)
        \/ /\ todo[n] = KeyAndCa(g, c) /\ files[n]["node.crt"] = g
           /\ n \notin copied => files[n]["ca.crt"] = -1
        \/ todo[n] = CaOnly(c) /\ files[n]["node.crt"] = g /\ files[n]["node.key"] = g
  BY <1>1 DEF Saving
<1> DEFINE f == Head(todo[n]).file
<1>3. CASE WriteOpen(n)
  <2>1. files' = [files EXCEPT ![n][f] = 0] /\ todo' = todo /\ pc' = pc
    BY <1>3 DEF WriteOpen, Torn
  <2> HIDE DEF f
  <2>2. /\ \A h \in File \ {f} : files'[n][h] = files[n][h]
        /\ f \in File => files'[n][f] = 0
    BY <2>1, <1>t, FileChange
  <2>3. CASE todo[n] = Bundle(g, c) /\ Missing(n)
    <3>1. f = "node.crt"
      BY <2>3, BundleOrder DEF f
    <3>2. /\ files'[n]["node.key"] = files[n]["node.key"] /\ files'[n]["ca.crt"] = files[n]["ca.crt"]
          /\ files'[n]["node.crt"] = 0
      BY <3>1, <2>2, <1>f
    <3>3. InOrder(n)' /\ Missing(n)'
      BY <3>2, <1>0, <1>1, <2>3 DEF InOrder, Missing
    <3>4. Saving(n)'
      BY <3>3, <2>1, <2>3 DEF Saving
    <3> QED BY <3>3, <3>4, <2>1, <1>0, <1>1 DEF MemberOk
  <2>4. CASE /\ todo[n] = KeyAndCa(g, c) /\ files[n]["node.crt"] = g
             /\ n \notin copied => files[n]["ca.crt"] = -1
    <3>1. f = "node.key"
      BY <2>4, BundleOrder DEF f
    <3>2. /\ files'[n]["node.crt"] = files[n]["node.crt"] /\ files'[n]["ca.crt"] = files[n]["ca.crt"]
          /\ files'[n]["node.key"] = 0
      BY <3>1, <2>2, <1>f
    <3>3. InOrder(n)'
      BY <3>2, <1>0, <1>1, <2>4 DEF InOrder
    <3>4. Saving(n)'
      BY <3>2, <2>1, <2>4, <1>0 DEF Saving
    <3> QED BY <3>3, <3>4, <2>1, <1>0, <1>1 DEF MemberOk
  <2>5. CASE todo[n] = CaOnly(c) /\ files[n]["node.crt"] = g /\ files[n]["node.key"] = g
    <3>1. f = "ca.crt"
      BY <2>5, BundleLast DEF f
    <3>2. /\ files'[n]["node.crt"] = g /\ files'[n]["node.key"] = g /\ files'[n]["ca.crt"] = 0
      BY <3>1, <2>2, <2>5, <1>f
    <3>3. InOrder(n)'
      BY <3>2, <1>0 DEF InOrder
    <3>4. Saving(n)'
      BY <3>2, <2>1, <2>5 DEF Saving
    <3> QED BY <3>3, <3>4, <2>1, <1>0, <1>1 DEF MemberOk
  <2> QED BY <1>2, <2>3, <2>4, <2>5
<1>4. CASE WriteFill(n)
  <2> DEFINE v == Head(todo[n]).content
  <2>1. /\ files' = [files EXCEPT ![n][f] = v] /\ todo' = [todo EXCEPT ![n] = Tail(todo[n])]
        /\ pc' = IF Len(todo[n]) = 1 THEN [pc EXCEPT ![n] = "up"] ELSE pc
    BY <1>4 DEF WriteFill
  <2>a. todo'[n] = Tail(todo[n]) /\ pc'[n] = IF Len(todo[n]) = 1 THEN "up" ELSE pc[n]
    BY <2>1, <1>t
  <2> HIDE DEF f, v
  <2>2. v \in Int => /\ \A h \in File \ {f} : files'[n][h] = files[n][h]
                     /\ f \in File => files'[n][f] = v
    BY <2>1, <1>t, FileChange
  <2>3. CASE todo[n] = Bundle(g, c) /\ Missing(n)
    <3>1. f = "node.crt" /\ v = g /\ todo'[n] = KeyAndCa(g, c) /\ KeyAndCa(g, c) # <<>> /\ pc'[n] = pc[n]
      BY <2>3, <2>a, BundleOrder DEF f, v
    <3>2. /\ files'[n]["node.key"] = files[n]["node.key"] /\ files'[n]["ca.crt"] = files[n]["ca.crt"]
          /\ files'[n]["node.crt"] = g
      BY <3>1, <2>2, <1>f
    <3>3. InOrder(n)'
      BY <3>2, <1>0, <1>1 DEF InOrder
    <3>4. Saving(n)'
      BY <3>1, <3>2, <2>3, <1>0 DEF Saving, Missing
    <3> QED BY <3>1, <3>3, <3>4, <1>1 DEF MemberOk
  <2>4. CASE /\ todo[n] = KeyAndCa(g, c) /\ files[n]["node.crt"] = g
             /\ n \notin copied => files[n]["ca.crt"] = -1
    <3>1. f = "node.key" /\ v = g /\ todo'[n] = CaOnly(c) /\ CaOnly(c) # <<>> /\ pc'[n] = pc[n]
      BY <2>4, <2>a, BundleOrder DEF f, v
    <3>2. /\ files'[n]["node.crt"] = g /\ files'[n]["ca.crt"] = files[n]["ca.crt"]
          /\ files'[n]["node.key"] = g
      BY <3>1, <2>2, <2>4, <1>f
    <3>3. InOrder(n)'
      BY <3>2, <1>0, <1>1 DEF InOrder
    <3>4. Saving(n)'
      BY <3>1, <3>2 DEF Saving
    <3> QED BY <3>1, <3>3, <3>4, <1>1 DEF MemberOk
  <2>5. CASE todo[n] = CaOnly(c) /\ files[n]["node.crt"] = g /\ files[n]["node.key"] = g
    <3>1. f = "ca.crt" /\ v = c /\ todo'[n] = <<>> /\ pc'[n] = "up"
      BY <2>5, <2>a, BundleLast DEF f, v
    <3>2. /\ files'[n]["node.crt"] = g /\ files'[n]["node.key"] = g /\ files'[n]["ca.crt"] = c
      BY <3>1, <2>2, <2>5, <1>f
    <3>3. InOrder(n)' /\ Whole(n)'
      BY <3>2, <1>0 DEF InOrder, Whole
    <3> QED BY <3>1, <3>3 DEF MemberOk
  <2> QED BY <1>2, <2>3, <2>4, <2>5
<1> QED BY <1>3, <1>4

\* A crash of a member: where it cuts save_node_cert short, the last file is
\* still missing or the crash is the one that excuses the bundle.
LEMMA MemberCrash ==
  ASSUME CaInv, TypeInv, NEW n \in Node, MemberOk(n), Crash(n)
  PROVE  MemberOk(n)'
<1>t. DOMAIN todo = Node /\ DOMAIN pc = Node /\ DOMAIN cutAt = Node
  BY DEF TypeInv, TypeOK, CaInv, CaTypes
<1>1. /\ files' = files /\ copied' = copied /\ todo'[n] = <<>> /\ pc'[n] = "down"
      /\ cutAt'[n] = IF todo[n] # <<>> THEN Head(todo[n]).file ELSE cutAt[n]
  BY <1>t DEF Crash
<1>2. InOrder(n)' /\ (Missing(n) => Missing(n)') /\ (Whole(n) => Whole(n)')
  BY <1>1 DEF MemberOk, InOrder, Missing, Whole
<1>3. Whole(n)' \/ Excused(n)' \/ Missing(n)'
  <2>1. CASE todo[n] = <<>>
    BY <2>1, <1>1, <1>2 DEF MemberOk, Excused
  <2>2. CASE todo[n] # <<>>
    <3>1. PICK g \in Nat \ {0}, c \in Nat \ {0} :
            \/ todo[n] = Bundle(g, c) /\ Missing(n)
            \/ /\ todo[n] = KeyAndCa(g, c) /\ files[n]["node.crt"] = g
               /\ n \notin copied => files[n]["ca.crt"] = -1
            \/ todo[n] = CaOnly(c) /\ files[n]["node.crt"] = g /\ files[n]["node.key"] = g
      BY <2>2 DEF MemberOk, Saving
    <3>2. CASE todo[n] = Bundle(g, c) /\ Missing(n)
      BY <3>2, <1>2
    <3>3. CASE /\ todo[n] = KeyAndCa(g, c) /\ files[n]["node.crt"] = g
               /\ n \notin copied => files[n]["ca.crt"] = -1
      <4>1. cutAt'[n] = "node.key"
        BY <3>3, <1>1, BundleOrder
      <4> QED BY <3>3, <4>1, <1>1 DEF Excused, Missing
    <3>4. CASE todo[n] = CaOnly(c)
      <4>1. cutAt'[n] = "ca.crt"
        BY <3>4, <1>1, BundleLast
      <4> QED BY <4>1 DEF Excused
    <3> QED BY <3>1, <3>2, <3>3, <3>4
  <2> QED BY <2>1, <2>2
<1> QED BY <1>1, <1>2, <1>3 DEF MemberOk

\* The steps of a member that write nothing: it starts, enrols, gives up.
LEMMA MemberMoves ==
  ASSUME CaInv, TypeInv, NEW n \in Node, MemberOk(n), ~issuer[n],
         files' = files, cutAt' = cutAt, copied' = copied, todo' = todo,
         \/ NodeIdOpen(n) \/ NodeIdFill(n) \/ StartMember(n) \/ EnrolGivesUp(n)
         \/ CrashInAddToCrl(n)
  PROVE  MemberOk(n)'
<1>t. DOMAIN pc = Node
  BY DEF CaInv, CaTypes
<1>1. todo[n] = <<>>
  BY DEF MemberOk, NodeIdOpen, NodeIdFill, StartMember, Named, EnrolGivesUp, CrashInAddToCrl
<1>2. InOrder(n)' /\ (Missing(n) <=> Missing(n)') /\ (Whole(n) <=> Whole(n)')
      /\ (Excused(n) <=> Excused(n)')
  BY DEF MemberOk, InOrder, Missing, Whole, Excused
<1>3. Whole(n) \/ Excused(n) \/ Missing(n)
  BY <1>1 DEF MemberOk
<1>4. CASE pc'[n] \notin {"enrol", "up"}
  BY <1>1, <1>2, <1>3, <1>4 DEF MemberOk
<1>5. CASE StartMember(n)
  <2>1. pc'[n] = IF has_node_credentials(n) THEN "up" ELSE "enrol"
    BY <1>5, <1>t DEF StartMember
  <2>2. has_node_credentials(n) <=> ~Missing(n)
    BY CredentialsThere DEF MemberOk
  <2> QED BY <2>1, <2>2, <1>1, <1>2, <1>3 DEF MemberOk
<1>6. ~StartMember(n) => pc'[n] \notin {"enrol", "up"}
  BY <1>t DEF NodeIdOpen, NodeIdFill, EnrolGivesUp, CrashInAddToCrl
<1> QED BY <1>4, <1>5, <1>6

\* A join that a seed grants: the seed has its key, so its CA is whole.
LEMMA MemberJoins ==
  ASSUME CaInv, TypeInv, NEW n \in Node, NEW seed \in Node, Member(n), MemberOk(n), Join(n, seed)
  PROVE  MemberOk(n)'
<1>t. DOMAIN pc = Node /\ DOMAIN todo = Node /\ gen \in Nat
  BY DEF CaInv, CaTypes
<1> DEFINE c == files[seed]["ca.crt"]
<1>1. /\ files' = files /\ copied' = copied /\ cutAt' = cutAt /\ pc[n] = "enrol"
      /\ seed \in Seeds[n] /\ files[seed]["ca.key"] # -1
      /\ todo' = [todo EXCEPT ![n] = Bundle(gen + 1, c)]
      /\ pc' = [pc EXCEPT ![n] = "save_node_cert"]
  BY DEF Join, restVars, has_ca_key, exists, Absent, Bundle
<1>2. seed \notin changed
  BY <1>1 DEF Member
<1>3. c > 0 /\ c \in Int
  BY <1>1, <1>2 DEF CaInv, CaTypes, MemberHasNoKey, IssuerKeyLast, File
<1>4. c \in Nat \ {0} /\ gen + 1 \in Nat \ {0}
  BY <1>3, <1>t
<1> HIDE DEF c
<1>5. todo'[n] = Bundle(gen + 1, c) /\ pc'[n] = "save_node_cert"
  BY <1>1, <1>t
<1>6. InOrder(n)' /\ Missing(n)'
  BY <1>1 DEF MemberOk, InOrder, Missing
<1>7. Saving(n)'
  BY <1>4, <1>5, <1>6 DEF Saving
<1>8. todo'[n] # <<>>
  BY <1>5, BundleOrder
<1> QED BY <1>5, <1>6, <1>7, <1>8 DEF MemberOk

\* Every step keeps every member's bundle.
LEMMA MembersStep == CaInv /\ TypeInv /\ MembersOk /\ [Next]_vars => MembersOk'
<1> SUFFICES ASSUME CaInv, TypeInv, MembersOk, [Next]_vars, NEW n \in Node, Member(n)'
             PROVE  MemberOk(n)'
  BY DEF MembersOk
<1>t. /\ DOMAIN pc = Node /\ DOMAIN todo = Node /\ DOMAIN cutAt = Node
      /\ files \in [Node -> [File -> Int]]
  BY DEF TypeInv, TypeOK, CaInv, CaTypes
<1>c. changed \subseteq changed' /\ copied' = copied
  BY DEF Next, vars, NodeIdOpen, NodeIdFill, StartIssuer, StartMember, WriteOpen, WriteFill, Join,
     JoinAnswerLost, JoinFails, EnrolGivesUp, AddToCrl, CrashInAddToCrl, Crash, Reconfigure,
     historyVars, restVars
<1>m. Member(n) /\ MemberOk(n) /\ n \notin changed' /\ n \notin changed
  BY <1>c DEF Member, MembersOk
<1>i. ~issuer[n]
  BY <1>m DEF Member, CaInv, MemberHasNoKey
<1>1. CASE UNCHANGED vars
  BY <1>1, <1>m, MemberLeft DEF vars
<1>2. ASSUME NEW k \in Node, k # n,
             \/ NodeIdOpen(k) \/ NodeIdFill(k) \/ StartIssuer(k) \/ StartMember(k)
             \/ WriteOpen(k) \/ WriteFill(k)
             \/ \E seed \in Node : Join(k, seed) \/ JoinAnswerLost(k, seed)
             \/ JoinFails(k) \/ EnrolGivesUp(k)
             \/ \E m \in Node \ {k} : AddToCrl(k, m)
             \/ CrashInAddToCrl(k) \/ Crash(k) \/ Reconfigure(k)
      PROVE  MemberOk(n)'
  <2>1. files'[n] = files[n]
    BY <1>2, <1>t DEF NodeIdOpen, NodeIdFill, StartIssuer, StartMember, WriteOpen, WriteFill, Join,
       JoinAnswerLost, JoinFails, EnrolGivesUp, AddToCrl, CrashInAddToCrl, Crash, Reconfigure
  <2>2. todo'[n] = todo[n]
    BY <1>2, <1>t DEF NodeIdOpen, NodeIdFill, StartIssuer, StartMember, WriteOpen, WriteFill, Join,
       JoinAnswerLost, JoinFails, EnrolGivesUp, AddToCrl, CrashInAddToCrl, Crash, Reconfigure
  <2>3. pc'[n] = pc[n]
    BY <1>2, <1>t DEF NodeIdOpen, NodeIdFill, StartIssuer, StartMember, WriteOpen, WriteFill, Join,
       JoinAnswerLost, JoinFails, EnrolGivesUp, AddToCrl, CrashInAddToCrl, Crash, Reconfigure
  <2>4. cutAt'[n] = cutAt[n]
    BY <1>2, <1>t DEF NodeIdOpen, NodeIdFill, StartIssuer, StartMember, WriteOpen, WriteFill, Join,
       JoinAnswerLost, JoinFails, EnrolGivesUp, AddToCrl, CrashInAddToCrl, Crash, Reconfigure,
       historyVars, restVars
  <2> QED BY <2>1, <2>2, <2>3, <2>4, <1>c, <1>m, MemberLeft
<1>3. CASE NodeIdOpen(n) \/ NodeIdFill(n) \/ StartMember(n) \/ EnrolGivesUp(n) \/ CrashInAddToCrl(n)
  <2>1. files' = files /\ cutAt' = cutAt /\ copied' = copied /\ todo' = todo
    BY <1>3 DEF NodeIdOpen, NodeIdFill, StartMember, EnrolGivesUp, CrashInAddToCrl, historyVars
  <2> QED BY <1>3, <2>1, <1>i, <1>m, MemberMoves
<1>4. CASE \/ \E seed \in Node : JoinAnswerLost(n, seed)
           \/ JoinFails(n)
           \/ \E m \in Node \ {n} : AddToCrl(n, m)
  <2>1. files' = files /\ cutAt' = cutAt /\ copied' = copied /\ todo' = todo /\ pc' = pc
    BY <1>4 DEF JoinAnswerLost, JoinFails, AddToCrl, historyVars, restVars
  <2> QED BY <2>1, <1>m, MemberLeft
<1>5. ~StartIssuer(n)
  BY <1>i DEF StartIssuer
<1>6. ~Reconfigure(n)
  BY <1>m DEF Reconfigure
<1>7. PICK k \in Node :
        \/ UNCHANGED vars
        \/ NodeIdOpen(k) \/ NodeIdFill(k) \/ StartIssuer(k) \/ StartMember(k)
        \/ WriteOpen(k) \/ WriteFill(k)
        \/ \E seed \in Node : Join(k, seed) \/ JoinAnswerLost(k, seed)
        \/ JoinFails(k) \/ EnrolGivesUp(k)
        \/ \E m \in Node \ {k} : AddToCrl(k, m)
        \/ CrashInAddToCrl(k) \/ Crash(k) \/ Reconfigure(k)
  BY DEF Next
<1>8. CASE k = n
  BY <1>1, <1>3, <1>4, <1>5, <1>6, <1>7, <1>8, <1>m, MemberSaves, MemberCrash, MemberJoins
<1> QED BY <1>1, <1>2, <1>7, <1>8

\* has_node_credentials and save_node_cert: the bundle a member serves with is
\* whole, unless a crash tore the very file that made it look complete.
THEOREM BundlesWhole == Spec => []AcceptedBundleWhole
<1>1. CaInv /\ MembersOk => AcceptedBundleWhole
  <2> SUFFICES ASSUME CaInv, MembersOk, NEW n \in Node, pc[n] = "up", ~issuer[n],
                      changed \cap (Seeds[n] \cup {n}) = {}
               PROVE  \/ /\ files[n]["node.crt"] > Torn
                         /\ files[n]["node.crt"] = files[n]["node.key"]
                         /\ files[n]["ca.crt"] > Torn
                      \/ cutAt[n] = "ca.crt"
                      \/ cutAt[n] = "node.key" /\ n \in copied
    BY DEF AcceptedBundleWhole
  <2>1. n \notin FirstIssuer
    BY DEF CaInv, IssuerKeyLast
  <2>2. Whole(n) \/ Excused(n)
    BY <2>1 DEF Member, MembersOk, MemberOk
  <2> QED BY <2>2 DEF Whole, Excused, Torn
<1> QED
  BY IdInit, IdStep, TypeInit, TypeStep, CaInit, CaStep, MembersInit, MembersStep, <1>1, PTL DEF Spec
=============================================================================
