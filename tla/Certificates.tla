---------------------------- MODULE Certificates ----------------------------
(***************************************************************************)
(* The identity files of the agents: the node id (node_id), made at the    *)
(* first start, and the certificate files and the two ways they come about: *)
(* a bootstrap issuer makes a CA (init_ca), every other node enrols with a *)
(* seed and saves the bundle it gets (enroll_with_seed_ca, join,           *)
(* save_node_cert); and the revocation list (add_to_crl, is_revoked).      *)
(* certificates/mod.rs, node/mod.rs, main.rs, grpc_server/mod.rs.          *)
(*                                                                         *)
(* fs::write creates or empties the file and then fills it: a process that *)
(* dies in between leaves a torn file, which exists() still reports.  Only *)
(* process crashes are modelled: what was written stays written.           *)
(*                                                                         *)
(* A certificate, a key and a CA are known by the number of the generation *)
(* that made them; a pair matches when the numbers are equal.              *)
(***************************************************************************)
EXTENDS Integers, Sequences, FiniteSets

CONSTANTS
    Node,         \* the agents
    Seeds,        \* discovery.seeds of every node
    MayCopy,      \* nodes whose operator may copy the issuer's ca.crt beforehand
    FirstIssuer,  \* nodes configured as bootstrap issuers at the start
    MaxGen,       \* bound on generated CAs and bundles
    MaxAttempts,  \* passes over the seeds in enroll_with_seed_ca (20)
    MaxCrashes,   \* bound on crashes
    MaxChanges    \* bound on the nodes whose configuration changes

ASSUME SeedsAssumption  == Seeds \in [Node -> SUBSET Node]
ASSUME IssuerAssumption == FirstIssuer \subseteq Node /\ MayCopy \subseteq Node
ASSUME BoundAssumption  == {MaxGen, MaxAttempts, MaxCrashes, MaxChanges} \subseteq Nat

VARIABLES
    copied,     \* nodes whose operator did so, before the first start
    id,         \* the file node-id of every node, and how often it was made
    files,      \* what is in certs_dir of every node
    crl,        \* crl.json of every node, and the nodes it lists
    pc,         \* where run_agent is
    todo,       \* the fs::write calls that are still to be made, in order
    attempt,    \* passes over the seeds made so far
    issuer,     \* is_bootstrap_issuer, from the configuration file
    gen,        \* the generations made so far
    enrolledAs, \* history: the node ids for which a certificate was issued
    handed,     \* history: <<server, CA>> of the joins that were granted
    revoked,    \* history: <<node, node revoked>>: add_to_crl returned Ok
    cutAt,      \* history: the file a crash of the node left torn, last
    crashes,    \* history: number of crashes
    changed     \* history: the nodes whose role was changed

vars == <<copied, id, files, crl, pc, todo, attempt, issuer, gen, enrolledAs, handed,
          revoked, cutAt, crashes, changed>>

File    == {"ca.crt", "ca.key", "node.crt", "node.key"}
Absent  == -1
Torn    == 0
\* A CA certificate that an operator copied: no generation of this run made it.
Copied  == MaxGen + 1
Content == {Absent, Torn} \cup 1..Copied

Init ==
    /\ copied \in SUBSET MayCopy
    /\ files = [n \in Node |-> [f \in File |->
                   IF f = "ca.crt" /\ n \in copied THEN Copied ELSE Absent]]
    /\ crl = [n \in Node |-> [file |-> Absent, list |-> {}]]
    /\ pc = [n \in Node |-> "down"]
    /\ todo = [n \in Node |-> <<>>]
    /\ attempt = [n \in Node |-> 0]
    /\ issuer = [n \in Node |-> n \in FirstIssuer]
    /\ gen = 0
    /\ id = [n \in Node |-> [file |-> Absent, made |-> 0]]
    /\ enrolledAs = [n \in Node |-> {}]
    /\ handed = {} /\ revoked = {}
    /\ cutAt = [n \in Node |-> "none"]
    /\ crashes = 0 /\ changed = {}

exists(n, f) == files[n][f] # Absent

has_ca_key(n) == exists(n, "ca.key")

has_node_credentials_NoCA(n) == exists(n, "node.crt") /\ exists(n, "node.key")
has_node_credentials(n) ==
    exists(n, "node.crt") /\ exists(n, "node.key") /\ exists(n, "ca.crt")

restVars    == <<copied, revoked, cutAt, crashes, changed>>
historyVars == <<copied, enrolledAs, handed, revoked, cutAt, crashes, changed>>

-----------------------------------------------------------------------------
(* Starting up *)

\* node_id: the file there is, or a new id.  An emptied file does not parse, and
\* the agent does not start.
NodeIdMissing_Always(n) == TRUE
NodeIdMissing(n) == id[n].file = Absent

NodeIdOpen(n) ==
    /\ pc[n] = "down" /\ NodeIdMissing(n)
    /\ pc' = [pc EXCEPT ![n] = "node_id"]
    /\ id' = [id EXCEPT ![n].file = Torn]
    /\ UNCHANGED <<files, crl, todo, attempt, issuer, gen, historyVars>>

NodeIdFill(n) ==
    /\ pc[n] = "node_id"
    /\ pc' = [pc EXCEPT ![n] = "named"]
    /\ id' = [id EXCEPT ![n] = [file |-> @.made + 1, made |-> @.made + 1]]
    /\ UNCHANGED <<files, crl, todo, attempt, issuer, gen, historyVars>>

\* run_agent goes on with the id it made or read.
Named(n) == pc[n] = "named" \/ (pc[n] = "down" /\ id[n].file > Torn)

\* init_ca writes the certificate first and the key last.
CaWrites_KeyFirst(g) == <<[file |-> "ca.key", content |-> g], [file |-> "ca.crt", content |-> g]>>
CaWrites(g) == <<[file |-> "ca.crt", content |-> g], [file |-> "ca.key", content |-> g]>>

\* run_agent, an issuer: init_ca keeps a CA of which both files exist.
StartIssuer(n) ==
    /\ Named(n) /\ issuer[n]
    /\ IF exists(n, "ca.key") /\ exists(n, "ca.crt")
         THEN /\ pc' = [pc EXCEPT ![n] = "up"]
              /\ UNCHANGED <<todo, gen>>
         ELSE /\ gen < MaxGen
              /\ gen' = gen + 1
              /\ pc' = [pc EXCEPT ![n] = "init_ca"]
              /\ todo' = [todo EXCEPT ![n] = CaWrites(gen + 1)]
    /\ UNCHANGED <<id, files, crl, attempt, issuer, historyVars>>

\* run_agent, any other node: it enrols unless it finds its three files.
StartMember(n) ==
    /\ Named(n) /\ ~issuer[n]
    /\ pc' = [pc EXCEPT ![n] = IF has_node_credentials(n) THEN "up" ELSE "enrol"]
    /\ attempt' = [attempt EXCEPT ![n] = 0]
    /\ UNCHANGED <<id, files, crl, todo, issuer, gen, historyVars>>

\* One fs::write: the file is emptied ...
WriteOpen(n) ==
    /\ todo[n] # <<>>
    /\ files[n][Head(todo[n]).file] # Torn
    /\ files' = [files EXCEPT ![n][Head(todo[n]).file] = Torn]
    /\ UNCHANGED <<id, crl, pc, todo, attempt, issuer, gen, historyVars>>

\* ... and filled; after the last one the agent serves.
WriteFill(n) ==
    /\ todo[n] # <<>>
    /\ files[n][Head(todo[n]).file] = Torn
    /\ files' = [files EXCEPT ![n][Head(todo[n]).file] = Head(todo[n]).content]
    /\ todo' = [todo EXCEPT ![n] = Tail(@)]
    /\ pc' = IF Len(todo[n]) = 1 THEN [pc EXCEPT ![n] = "up"] ELSE pc
    /\ UNCHANGED <<id, crl, attempt, issuer, gen, historyVars>>

-----------------------------------------------------------------------------
(* Enrolment *)

\* join: served by a node that has a CA key; init_ca finds both files and does
\* nothing; the answer carries a fresh pair and ca.crt as it is on disk.
\* The caller saves it: node.crt, node.key, ca.crt.
Join(n, seed) ==
    /\ pc[n] = "enrol"
    /\ seed \in Seeds[n] /\ pc[seed] = "up"
    /\ has_ca_key(seed) /\ exists(seed, "ca.crt")
    /\ gen < MaxGen
    /\ gen' = gen + 1
    /\ enrolledAs' = [enrolledAs EXCEPT ![n] = @ \cup {id[n].file}]
    /\ handed' = handed \cup {<<seed, files[seed]["ca.crt"]>>}
    /\ todo' = [todo EXCEPT ![n] = <<[file |-> "node.crt", content |-> gen + 1],
                                     [file |-> "node.key", content |-> gen + 1],
                                     [file |-> "ca.crt", content |-> files[seed]["ca.crt"]]>>]
    /\ pc' = [pc EXCEPT ![n] = "save_node_cert"]
    /\ UNCHANGED <<id, files, crl, attempt, issuer, restVars>>

\* The answer is lost: the seed granted the join, the caller counts a failure.
JoinAnswerLost(n, seed) ==
    /\ pc[n] = "enrol"
    /\ seed \in Seeds[n] /\ pc[seed] = "up"
    /\ has_ca_key(seed) /\ exists(seed, "ca.crt")
    /\ attempt[n] < MaxAttempts
    /\ enrolledAs' = [enrolledAs EXCEPT ![n] = @ \cup {id[n].file}]
    /\ handed' = handed \cup {<<seed, files[seed]["ca.crt"]>>}
    /\ attempt' = [attempt EXCEPT ![n] = @ + 1]
    /\ UNCHANGED <<id, files, crl, pc, todo, issuer, gen, restVars>>

\* A pass over the seeds without an answer: unreachable, or no issuer.
JoinFails_OneMore(n) ==
    /\ pc[n] = "enrol"
    /\ attempt[n] <= MaxAttempts
    /\ attempt' = [attempt EXCEPT ![n] = @ + 1]
    /\ UNCHANGED <<id, files, crl, pc, todo, issuer, gen, historyVars>>
JoinFails(n) ==
    /\ pc[n] = "enrol"
    /\ attempt[n] < MaxAttempts
    /\ attempt' = [attempt EXCEPT ![n] = @ + 1]
    /\ UNCHANGED <<id, files, crl, pc, todo, issuer, gen, historyVars>>

\* After the last pass run_agent returns the error and the process ends.
EnrolGivesUp(n) ==
    /\ pc[n] = "enrol"
    /\ attempt[n] = MaxAttempts
    /\ pc' = [pc EXCEPT ![n] = "down"]
    /\ UNCHANGED <<id, files, crl, todo, attempt, issuer, gen, historyVars>>

-----------------------------------------------------------------------------
(* The revocation list *)

\* is_revoked: Ok(true), Ok(false), or the error of a list that does not parse.
is_revoked_Lenient(n, m) == IF m \in crl[n].list THEN "yes" ELSE "no"
is_revoked(n, m) ==
    CASE crl[n].file = Absent -> "no"
      [] crl[n].file = Torn   -> "error"
      [] OTHER                -> IF m \in crl[n].list THEN "yes" ELSE "no"

\* add_to_crl reads the list, which must parse, and rewrites it with m in it.
AddToCrl(n, m) ==
    /\ pc[n] = "up"
    /\ crl[n].file # Torn
    /\ crl' = [crl EXCEPT ![n] = [file |-> 1, list |-> @.list \cup {m}]]
    /\ revoked' = revoked \cup {<<n, m>>}
    /\ UNCHANGED <<id, files, pc, todo, attempt, issuer, gen, handed, cutAt, crashes, changed,
                   copied, enrolledAs>>

\* The process dies between the two halves of that fs::write.
CrashInAddToCrl(n) ==
    /\ pc[n] = "up"
    /\ crl[n].file # Torn
    /\ crashes < MaxCrashes
    /\ crashes' = crashes + 1
    /\ crl' = [crl EXCEPT ![n] = [file |-> Torn, list |-> {}]]
    /\ pc' = [pc EXCEPT ![n] = "down"]
    /\ UNCHANGED <<id, files, todo, attempt, issuer, gen, handed, revoked, cutAt, changed,
                   copied, enrolledAs>>

-----------------------------------------------------------------------------
(* Crashes and configuration *)

Crash(n) ==
    /\ pc[n] # "down"
    /\ crashes < MaxCrashes
    /\ crashes' = crashes + 1
    /\ pc' = [pc EXCEPT ![n] = "down"]
    /\ todo' = [todo EXCEPT ![n] = <<>>]
    /\ cutAt' = IF todo[n] # <<>> THEN [cutAt EXCEPT ![n] = Head(todo[n]).file] ELSE cutAt
    /\ UNCHANGED <<id, files, crl, attempt, issuer, gen, handed, revoked, changed, copied, enrolledAs>>

\* The operator edits tier or seeds of a stopped node.
Reconfigure(n) ==
    /\ pc[n] = "down"
    /\ Cardinality(changed \cup {n}) <= MaxChanges
    /\ changed' = changed \cup {n}
    /\ issuer' = [issuer EXCEPT ![n] = ~@]
    /\ UNCHANGED <<id, files, crl, pc, todo, attempt, gen, handed, revoked, cutAt, crashes,
                   copied, enrolledAs>>

Next ==
    \E n \in Node :
        \/ NodeIdOpen(n) \/ NodeIdFill(n)
        \/ StartIssuer(n) \/ StartMember(n)
        \/ WriteOpen(n) \/ WriteFill(n)
        \/ \E seed \in Node : Join(n, seed) \/ JoinAnswerLost(n, seed)
        \/ JoinFails(n) \/ EnrolGivesUp(n)
        \/ \E m \in Node \ {n} : AddToCrl(n, m)
        \/ CrashInAddToCrl(n)
        \/ Crash(n)
        \/ Reconfigure(n)

Spec == Init /\ [][Next]_vars

-----------------------------------------------------------------------------
(* Properties *)

\* Every variable has its type.
TypeOK ==
    /\ files \in [Node -> [File -> Content]]
    /\ crl \in [Node -> [file : {Absent, Torn, 1}, list : SUBSET Node]]
    /\ id \in [Node -> [file : {Absent, Torn} \cup Nat, made : Nat]]
    /\ enrolledAs \in [Node -> SUBSET Nat]
    /\ pc \in [Node -> {"down", "node_id", "named", "init_ca", "enrol", "save_node_cert", "up"}]
    /\ \A n \in Node : Len(todo[n]) <= 3
    /\ attempt \in [Node -> 0..MaxAttempts]
    /\ issuer \in [Node -> BOOLEAN]
    /\ gen \in 0..MaxGen
    /\ handed \subseteq Node \X Content /\ revoked \subseteq Node \X Node
    /\ cutAt \in [Node -> File \cup {"none"}]
    /\ crashes \in 0..MaxCrashes /\ changed \subseteq Node
    /\ copied \subseteq MayCopy

\* A node keeps the id that its certificate names: node_id never makes a second
\* one, whenever the first start was interrupted, and no certificate is issued
\* for an id that a restart would not find.
IdentityKept == \A n \in Node : \A i \in enrolledAs[n] : id[n].file = i

\* The CA certificate a join hands out is whole, and restarts of the issuer keep
\* it: however init_ca was interrupted, it is either repeated before the first
\* join or never again.  init_ca writes the key, which join asks for, last.
HandedCaKept ==
    \A h \in handed : h[1] \notin changed => h[2] > Torn /\ files[h[1]]["ca.crt"] = h[2]

\* A node that starts on the bundle it finds has a certificate and key of one
\* enrolment and a whole CA certificate, unless a crash tore the very file that
\* made its bundle look complete: ca.crt, or node.key when ca.crt was there before.
AcceptedBundleWhole ==
    \A n \in Node :
        pc[n] = "up" /\ ~issuer[n] /\ changed \cap (Seeds[n] \cup {n}) = {} =>
            \/ /\ files[n]["node.crt"] > Torn
               /\ files[n]["node.crt"] = files[n]["node.key"]
               /\ files[n]["ca.crt"] > Torn
            \/ cutAt[n] = "ca.crt"
            \/ cutAt[n] = "node.key" /\ n \in copied

\* After add_to_crl returned, is_revoked never answers that the node is not
\* revoked: a list torn by a later crash is an error, not an empty list.
RevocationKept == \A r \in revoked : is_revoked(r[1], r[2]) # "no"
=============================================================================
