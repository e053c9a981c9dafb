----------------------------- MODULE Membership -----------------------------
(***************************************************************************)
(* Who is in the cluster: enrolment through a certificate issuer, the      *)
(* discovery loop that polls seeds and known peers for their peer lists,   *)
(* the failure detector that turns the age of the last sighting into a     *)
(* status, and the scheduler's choice of a node from that table.           *)
(*                                                                         *)
(* Sources: agent/src/main.rs, agent/src/discovery/mod.rs,                 *)
(* agent/src/gossip/mod.rs, agent/src/scheduler/mod.rs, the Join handler   *)
(* of agent/src/grpc_server/mod.rs and /v1/internal/nodes of               *)
(* agent/src/api_rest/mod.rs.                                              *)
(*                                                                         *)
(* Time is counted in periods of five seconds, the sleep of both loops: a  *)
(* period ends when each running loop has made its round, or is stuck in a *)
(* request that is never answered (the HTTP client sets no timeout).       *)
(***************************************************************************)
EXTENDS Integers, FiniteSets

CONSTANTS
    Node,          \* node ids, numbered in the order of their UUID strings
    Seeds,         \* Seeds[n]: the nodes behind discovery.seeds of n
    Tier,          \* Tier[n]: node.tier
    Founders,      \* nodes that already form a settled cluster at the start
    SuspectAfter,  \* periods after which a peer is Suspected (35 s: 7)
    OfflineAfter,  \* periods after which a peer is Offline (100 s: 20)
    MaxKills,      \* bound on processes that die
    MaxFreezes,    \* bound on processes that hang
    MaxGlitches    \* bound on peer-list requests that fail at a live node

ASSUME ConstantsAssumption ==
    /\ Node \subseteq Nat
    /\ Seeds \in [Node -> SUBSET Node]
    /\ \A n \in Node : n \notin Seeds[n]
    /\ Tier \in [Node -> Nat]
    /\ Founders \subseteq Node
    /\ SuspectAfter \in Nat \ {0}
    /\ OfflineAfter \in Nat
    /\ SuspectAfter < OfflineAfter
    /\ MaxKills \in Nat
    /\ MaxFreezes \in Nat
    /\ MaxGlitches \in Nat

VARIABLES
    proc,       \* proc[n]: the agent process of n
    enrolled,   \* nodes with a certificate bundle on disk
    joining,    \* joining[n]: the issuer that serves n's Join, or NoNode
    nodes,      \* nodes[n][m]: m's entry in the cluster table of n
    last_seen,  \* last_seen[n][m]: periods since n last heard of m
    pending,    \* pending[n]: entries n put in the table, not yet in last_seen
    disc,       \* disc[n]: the discovery loop of n
    det,        \* det[n]: the failure detector of n
    kills,      \* deaths so far
    freezes,    \* hangs so far
    glitches    \* failed peer-list requests so far

vars == <<proc, enrolled, joining, nodes, last_seen, pending, disc, det,
          kills, freezes, glitches>>

-----------------------------------------------------------------------------

NoNode == -1
Never  == OfflineAfter + 1        \* no entry in last_seen
Age    == 0..Never                \* ages saturate at OfflineAfter

\* caps: whether the entry holds m's real capabilities or all-false ones.
Entry  == [status : {"absent", "online", "suspected", "offline"}, caps : BOOLEAN]
Absent == [status |-> "absent", caps |-> FALSE]

\* A frozen process accepts connections and never answers (a suspended
\* machine, a stopped process, a network that drops everything).
Running(n)  == proc[n] \in {"enrolling", "serving"}
Known(n)    == {m \in Node : nodes[n][m].status # "absent"}

\* is_bootstrap_issuer: such a node owns the CA key and never enrols.
Issuer(n) == Tier[n] = 0 \/ Seeds[n] = {}

Asleep  == [phase |-> "asleep", todo |-> {}, stuck |-> NoNode]
DetIdle == [pc |-> "asleep", snapshot |-> [m \in Node |-> Never]]
DetDue  == [DetIdle EXCEPT !.pc = "due"]
Round(n) == [phase |-> "seeds", todo |-> Seeds[n], stuck |-> NoNode]

Init ==
    /\ proc = [n \in Node |-> IF n \in Founders THEN "serving" ELSE "down"]
    /\ enrolled = {n \in Founders : ~Issuer(n)}
    /\ joining = [n \in Node |-> NoNode]
    /\ nodes = [n \in Node |-> [m \in Node |->
                 IF {n, m} \subseteq Founders
                   THEN [status |-> "online", caps |-> m = n] ELSE Absent]]
    /\ last_seen = [n \in Node |-> [m \in Node |->
                     IF {n, m} \subseteq Founders THEN 0 ELSE Never]]
    /\ pending = [n \in Node |-> {}]
    /\ disc = [n \in Node |-> Asleep]
    /\ det = [n \in Node |-> DetIdle]
    /\ kills = 0
    /\ freezes = 0
    /\ glitches = 0

-----------------------------------------------------------------------------
(* Start and enrolment *)

\* run_agent: the node enters itself in its own tables and starts both loops;
\* it serves requests at once if it issues certificates or has its own.
Boot(n) ==
    /\ proc[n] = "down"
    /\ proc' = [proc EXCEPT ![n] = IF Issuer(n) \/ n \in enrolled
                                     THEN "serving" ELSE "enrolling"]
    /\ nodes' = [nodes EXCEPT ![n][n] = [status |-> "online", caps |-> TRUE]]
    /\ last_seen' = [last_seen EXCEPT ![n][n] = 0]
    /\ disc' = [disc EXCEPT ![n] = Round(n)]
    /\ det' = [det EXCEPT ![n] = DetDue]
    /\ UNCHANGED <<enrolled, joining, pending, kills, freezes, glitches>>

\* enroll_with_seed_ca / the Join handler of an issuer: the newcomer enters the
\* cluster table with no capabilities; its heartbeat is recorded afterwards.
Join(n, s) ==
    /\ proc[n] = "enrolling"
    /\ joining[n] = NoNode
    /\ s \in Seeds[n]
    /\ proc[s] = "serving"
    /\ Issuer(s)
    /\ n \notin pending[s]
    /\ joining' = [joining EXCEPT ![n] = s]
    /\ nodes' = [nodes EXCEPT ![s][n] = [status |-> "online", caps |-> FALSE]]
    /\ pending' = [pending EXCEPT ![s] = @ \cup {n}]
    /\ UNCHANGED <<proc, enrolled, last_seen, disc, det, kills, freezes, glitches>>

\* The second critical section of Join and of upsert_peer: last_seen.  Join then
\* answers, and the newcomer saves its bundle and starts serving.
RecordHeartbeat(n, m) ==
    /\ Running(n)
    /\ m \in pending[n]
    /\ pending' = [pending EXCEPT ![n] = @ \ {m}]
    /\ last_seen' = [last_seen EXCEPT ![n][m] = 0]
    /\ IF joining[m] = n
         THEN /\ joining' = [joining EXCEPT ![m] = NoNode]
              /\ proc' = [proc EXCEPT ![m] = "serving"]
              /\ enrolled' = enrolled \cup {m}
         ELSE UNCHANGED <<joining, proc, enrolled>>
    /\ UNCHANGED <<nodes, disc, det, kills, freezes, glitches>>

\* After 20 rounds of refused or failed Join calls the process exits; a seed that
\* hangs keeps it waiting.
EnrollGiveUp(n) ==
    /\ proc[n] = "enrolling"
    /\ joining[n] = NoNode
    /\ \A s \in Seeds[n] : proc[s] # "frozen" /\ (proc[s] # "serving" \/ ~Issuer(s))
    /\ proc' = [proc EXCEPT ![n] = "down"]
    /\ nodes' = [nodes EXCEPT ![n] = [m \in Node |-> Absent]]
    /\ last_seen' = [last_seen EXCEPT ![n] = [m \in Node |-> Never]]
    /\ pending' = [pending EXCEPT ![n] = {}]
    /\ disc' = [disc EXCEPT ![n] = Asleep]
    /\ det' = [det EXCEPT ![n] = DetIdle]
    /\ UNCHANGED <<enrolled, joining, kills, freezes, glitches>>

-----------------------------------------------------------------------------
(* The discovery loop *)

\* The loop asks the addresses of a phase one after the other.  Seeds come in
\* the order of the file and known nodes in that of a HashMap: any order.
Ask(n, m) ==
    /\ Running(n)
    /\ disc[n].stuck = NoNode
    /\ m \in disc[n].todo
    /\ disc' = [disc EXCEPT ![n].todo = @ \ {m}]

\* Phase 1 over: phase 2 asks every node known by now.  Phase 2 over: sleep.
NextPhase(n) ==
    /\ Running(n)
    /\ disc[n].phase # "asleep"
    /\ disc[n].stuck = NoNode
    /\ disc[n].todo = {}
    /\ disc' = [disc EXCEPT ![n] =
                 IF @.phase = "seeds"
                   THEN [phase |-> "mesh", todo |-> Known(n) \ {n}, stuck |-> NoNode]
                   ELSE Asleep]
    /\ UNCHANGED <<proc, enrolled, joining, nodes, last_seen, pending, det,
                   kills, freezes, glitches>>

\* What a peer list does to an entry of the receiver's table.
MergedEntry(e) == [status |-> "online", caps |-> e.caps]

\* The peers GET /v1/internal/nodes lists: all of them, whatever their status.
PeerList_SelfOnly(m) == {m}
PeerList(m) == Known(m)

\* A peer list arrives: every peer on it is online and was seen just now.  Ids
\* never leave the table of a running node, so reading the list and merging it
\* make one step.
SeenNow_Skip(n, peers) == last_seen[n]
SeenNow(n, peers) == [m \in Node |-> IF m \in peers THEN 0 ELSE last_seen[n][m]]

PollOk(n, m) ==
    LET peers == PeerList(m) \ {n}
    IN  /\ Ask(n, m)
        /\ proc[m] = "serving"
        /\ nodes' = [nodes EXCEPT ![n] =
                      [p \in Node |-> IF p \in peers THEN MergedEntry(nodes[n][p])
                                                     ELSE nodes[n][p]]]
        /\ last_seen' = [last_seen EXCEPT ![n] = SeenNow(n, peers)]
        /\ UNCHANGED <<proc, enrolled, joining, pending, det, kills, freezes, glitches>>

\* Nobody listens at the address: the loop goes on.
PollRefused(n, m) ==
    /\ Ask(n, m)
    /\ proc[m] \in {"down", "enrolling"}
    /\ UNCHANGED <<proc, enrolled, joining, nodes, last_seen, pending, det,
                   kills, freezes, glitches>>

\* The address accepts the request and does not answer: the loop waits.
PollHangs(n, m) ==
    /\ Running(n)
    /\ disc[n].stuck = NoNode
    /\ m \in disc[n].todo
    /\ proc[m] = "frozen"
    /\ disc' = [disc EXCEPT ![n].stuck = m]
    /\ UNCHANGED <<proc, enrolled, joining, nodes, last_seen, pending, det,
                   kills, freezes, glitches>>

\* The address lives again, or is gone: the request comes to an end.
PollUnhangs(n) ==
    /\ Running(n)
    /\ disc[n].stuck # NoNode
    /\ proc[disc[n].stuck] # "frozen"
    /\ disc' = [disc EXCEPT ![n].stuck = NoNode]
    /\ UNCHANGED <<proc, enrolled, joining, nodes, last_seen, pending, det,
                   kills, freezes, glitches>>

\* A request to a live seed fails and the fallback to /v1/internal/node works:
\* upsert_peer stores the peer with its real capabilities.
PollFallback(n, m) ==
    /\ Ask(n, m)
    /\ disc[n].phase = "seeds"
    /\ proc[m] = "serving"
    /\ glitches < MaxGlitches
    /\ glitches' = glitches + 1
    /\ nodes' = [nodes EXCEPT ![n][m] = [status |-> "online", caps |-> TRUE]]
    /\ pending' = [pending EXCEPT ![n] = @ \cup {m}]
    /\ UNCHANGED <<proc, enrolled, joining, last_seen, det, kills, freezes>>

-----------------------------------------------------------------------------
(* The failure detector *)

\* It copies last_seen under one lock ...
DetectRead(n) ==
    /\ Running(n)
    /\ det[n].pc = "due"
    /\ det' = [det EXCEPT ![n] = [pc |-> "apply", snapshot |-> last_seen[n]]]
    /\ UNCHANGED <<proc, enrolled, joining, nodes, last_seen, pending, disc,
                   kills, freezes, glitches>>

StatusAt_NoOffline(age) ==
    IF age = Never \/ age >= SuspectAfter THEN "suspected" ELSE "online"
StatusAt_Unknown(age) ==
    CASE age = Never -> "unknown"
      [] age >= OfflineAfter /\ age # Never -> "offline"
      [] age >= SuspectAfter /\ age < OfflineAfter -> "suspected"
      [] OTHER -> "online"
StatusAt(age) ==
    CASE age = Never -> "suspected"
      [] age >= OfflineAfter /\ age # Never -> "offline"
      [] age >= SuspectAfter /\ age < OfflineAfter -> "suspected"
      [] OTHER -> "online"

\* The status the detector gives to entry m of n's table.
Detected_KeepBad(n, m) ==
    IF nodes[n][m].status = "online" THEN StatusAt(det[n].snapshot[m])
                                     ELSE nodes[n][m].status
Detected(n, m) ==
    CASE nodes[n][m].status = "absent" -> "absent"
      [] nodes[n][m].status # "absent" /\ m = n -> "online"
      [] OTHER -> StatusAt(det[n].snapshot[m])

\* ... and rewrites every status under another, from that copy.
DetectApply(n) ==
    /\ Running(n)
    /\ det[n].pc = "apply"
    /\ nodes' = [nodes EXCEPT ![n] =
                  [m \in Node |-> [nodes[n][m] EXCEPT !.status = Detected(n, m)]]]
    /\ det' = [det EXCEPT ![n] = DetIdle]
    /\ UNCHANGED <<proc, enrolled, joining, last_seen, pending, disc, kills, freezes,
                   glitches>>

-----------------------------------------------------------------------------
(* Time, and what happens to the machines *)

\* A poll that nobody will answer.
Stuck(n) == disc[n].stuck # NoNode /\ proc[disc[n].stuck] = "frozen"

Older(age) == IF age < OfflineAfter THEN age + 1 ELSE age

Tick ==
    /\ \A n \in Node : Running(n) =>
        /\ disc[n].phase = "asleep" \/ Stuck(n)
        /\ det[n].pc = "asleep"
        /\ pending[n] = {}
    /\ last_seen' = [n \in Node |-> [m \in Node |->
                      IF m = n THEN last_seen[n][m] ELSE Older(last_seen[n][m])]]
    /\ disc' = [n \in Node |-> IF Running(n) /\ ~Stuck(n) THEN Round(n) ELSE disc[n]]
    /\ det' = [n \in Node |-> IF Running(n) THEN DetDue ELSE det[n]]
    /\ UNCHANGED <<proc, enrolled, joining, nodes, pending, kills, freezes, glitches>>

\* The process dies; its tables die with it, its certificates do not.
Kill(n) ==
    /\ proc[n] # "down"
    /\ kills < MaxKills
    /\ kills' = kills + 1
    /\ proc' = [proc EXCEPT ![n] = "down"]
    /\ joining' = [m \in Node |-> IF m = n \/ joining[m] = n THEN NoNode ELSE joining[m]]
    /\ nodes' = [nodes EXCEPT ![n] = [m \in Node |-> Absent]]
    /\ last_seen' = [last_seen EXCEPT ![n] = [m \in Node |-> Never]]
    /\ pending' = [pending EXCEPT ![n] = {}]
    /\ disc' = [disc EXCEPT ![n] = Asleep]
    /\ det' = [det EXCEPT ![n] = DetIdle]
    /\ UNCHANGED <<enrolled, freezes, glitches>>

Freeze(n) ==
    /\ proc[n] = "serving"
    /\ freezes < MaxFreezes
    /\ freezes' = freezes + 1
    /\ proc' = [proc EXCEPT ![n] = "frozen"]
    /\ UNCHANGED <<enrolled, joining, nodes, last_seen, pending, disc, det, kills,
                   glitches>>

Thaw(n) ==
    /\ proc[n] = "frozen"
    /\ proc' = [proc EXCEPT ![n] = "serving"]
    /\ UNCHANGED <<enrolled, joining, nodes, last_seen, pending, disc, det,
                   kills, freezes, glitches>>

-----------------------------------------------------------------------------

Discover(n) == \/ NextPhase(n) \/ PollUnhangs(n)
               \/ \E m \in Node : PollOk(n, m) \/ PollRefused(n, m) \/ PollHangs(n, m)
Detect(n)   == DetectRead(n) \/ DetectApply(n)
Enrol(n)    == \E m \in Node : Join(n, m) \/ RecordHeartbeat(n, m)

\* Steps of the agents' own loops and handlers.
Progress == \E n \in Node : Discover(n) \/ Detect(n) \/ Enrol(n)

Environment ==
    \E n \in Node : \/ Boot(n) \/ EnrollGiveUp(n)
                    \/ Kill(n) \/ Freeze(n) \/ Thaw(n)
                    \/ \E m \in Node : PollFallback(n, m)

Next == Progress \/ Tick \/ Environment

Spec == Init /\ [][Next]_vars

\* The agents never all stop while a loop or handler can go on, and time passes.
FairSpec == Spec /\ WF_vars(Progress) /\ WF_vars(Tick)

-----------------------------------------------------------------------------
(* scheduler::pick_node: the first capable node in the order of ids *)

Request == [docker : BOOLEAN, tier_min : {0, 1}]

Candidates(n, req) ==
    {m \in Node : /\ nodes[n][m].status = "online"
                  /\ Tier[m] >= req.tier_min
                  /\ req.docker => nodes[n][m].caps}

Pick_Local(n, req) == IF n \in Candidates(n, req) THEN n ELSE NoNode
Pick(n, req) ==
    IF Candidates(n, req) = {}
      THEN NoNode
      ELSE CHOOSE m \in Candidates(n, req) : \A k \in Candidates(n, req) : m <= k

-----------------------------------------------------------------------------
(* Properties *)

\* The types of the cluster tables, of the loops and of the processes.
TypeOK ==
    /\ proc \in [Node -> {"down", "enrolling", "serving", "frozen"}]
    /\ enrolled \subseteq Node
    /\ joining \in [Node -> Node \cup {NoNode}]
    /\ nodes \in [Node -> [Node -> Entry]]
    /\ last_seen \in [Node -> [Node -> Age]]
    /\ pending \in [Node -> SUBSET Node]
    /\ disc \in [Node -> [phase : {"asleep", "seeds", "mesh"}, todo : SUBSET Node,
                          stuck : Node \cup {NoNode}]]
    /\ det \in [Node -> [pc : {"asleep", "due", "apply"}, snapshot : [Node -> Age]]]
    /\ kills \in 0..MaxKills
    /\ freezes \in 0..MaxFreezes
    /\ glitches \in 0..MaxGlitches

\* The detector works from a copy of last_seen that a merge may overtake: it can
\* mark down a peer that was heard of since, and the next round repairs that.
\* While no process was suspended, and its detector with it, no peer is shown as
\* suspected or offline more than one period after a sighting of it unless it has
\* been silent for the whole timeout.
WrongSuspicionIsShort ==
    \A n, m \in Node :
        /\ freezes = 0
        /\ Running(n)
        /\ nodes[n][m].status \in {"suspected", "offline"}
        =>
            last_seen[n][m] <= 1 \/ last_seen[n][m] >= SuspectAfter

\* A peer that is in the table without a last_seen entry is one whose insertion
\* is still under way; were it to stay so, the detector would suspect it forever.
SightingFollowsEntry ==
    \A n, m \in Node :
        m \in Known(n) /\ last_seen[n][m] = Never => m \in pending[n]

AllServing == \A n \in Node : proc[n] = "serving"
AllOnline  == \A n, m \in Node : nodes[n][m].status = "online"

\* When every agent runs for good, every table ends up listing every node as
\* online and stays so, though a node knows at first only its seeds.
Convergence == <>[]AllServing => <>[]AllOnline

\* pick_node drops local bias and sorts by id so that placement is the same
\* everywhere: once all agents run for good, they all pick the same node for a
\* job that needs no special capability.
PlacementAgrees ==
    <>[]AllServing =>
        <>[](\A n, m \in Node, tier \in {0, 1} :
                LET req == [docker |-> FALSE, tier_min |-> tier]
                IN  Pick(n, req) = Pick(m, req))

\* A node that is gone for good is shown as offline for good by those who run.
DeadShownOffline ==
    \A n, m \in Node :
        n # m /\ <>[](proc[m] = "down" /\ proc[n] = "serving" /\ m \in Known(n))
            => <>[](nodes[n][m].status = "offline")
=============================================================================
