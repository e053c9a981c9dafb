-------------------------- MODULE MembershipProofs --------------------------
(***************************************************************************)
(* Proofs about Membership, for every set of nodes, seeds and tiers, every *)
(* pair of timeouts and any number of deaths, hangs and failed requests.   *)
(***************************************************************************)
EXTENDS Membership, TLAPS

(* Types *)

DiscState == [phase : {"asleep", "seeds", "mesh"}, todo : SUBSET Node,
              stuck : Node \cup {NoNode}]
DetState  == [pc : {"asleep", "due", "apply"}, snapshot : [Node -> Age]]

\* The constants, as the steps below use them: ages are numbers.
LEMMA Ages ==
  /\ 0 \in Age /\ Never \in Age
  /\ \A age \in Age : age \in Nat /\ Older(age) \in Age
  /\ \A age \in Age : Older(age) = Never => age = Never
  BY ConstantsAssumption DEF ConstantsAssumption, Age, Never, Older

\* The states the two loops start from are states of theirs.
LEMMA LoopTypes ==
  /\ Asleep \in DiscState
  /\ \A n \in Node : Round(n) \in DiscState
  /\ DetIdle \in DetState /\ DetIdle.pc = "asleep"
  /\ DetDue \in DetState /\ DetDue.pc = "due"
<1>1. Never \in Age
  BY Ages
<1>2. \A n \in Node : Seeds[n] \in SUBSET Node
  BY ConstantsAssumption DEF ConstantsAssumption
<1>3. DetIdle \in DetState
  BY <1>1 DEF DetIdle, DetState
<1> QED BY <1>2, <1>3 DEF Asleep, Round, DetDue, DetIdle, DiscState, DetState

\* The detector gives an entry a status, and an absent one none.
LEMMA DetectedStatus ==
  ASSUME TypeOK, NEW n \in Node, NEW m \in Node
  PROVE  /\ Detected(n, m) \in {"absent", "online", "suspected", "offline"}
         /\ Detected(n, m) = "absent" <=> nodes[n][m].status = "absent"
<1>1. StatusAt(det[n].snapshot[m]) \in {"online", "suspected", "offline"}
  BY DEF StatusAt
<1> QED BY <1>1 DEF Detected

\* TypeOK holds initially.
LEMMA TypeInit == Init => TypeOK
<1> SUFFICES ASSUME Init  PROVE TypeOK
  OBVIOUS
<1>1. nodes \in [Node -> [Node -> Entry]]
  BY DEF Init, Entry, Absent
<1>2. last_seen \in [Node -> [Node -> Age]]
  BY Ages DEF Init
<1>3. disc \in [Node -> DiscState] /\ det \in [Node -> DetState]
  BY LoopTypes DEF Init
<1>4. /\ proc \in [Node -> {"down", "enrolling", "serving", "frozen"}]
      /\ enrolled \subseteq Node
      /\ joining \in [Node -> Node \cup {NoNode}]
      /\ pending \in [Node -> SUBSET Node]
  BY ConstantsAssumption DEF Init, ConstantsAssumption
<1>5. kills \in 0..MaxKills /\ freezes \in 0..MaxFreezes /\ glitches \in 0..MaxGlitches
  BY ConstantsAssumption DEF Init, ConstantsAssumption
<1> QED BY <1>1, <1>2, <1>3, <1>4, <1>5 DEF TypeOK, DiscState, DetState

\* Start and enrolment preserve TypeOK.
LEMMA TypeEnrol ==
  ASSUME TypeOK, NEW n \in Node,
         \/ Boot(n) \/ EnrollGiveUp(n)
         \/ \E m \in Node : Join(n, m) \/ RecordHeartbeat(n, m)
  PROVE  TypeOK'
<1> USE LoopTypes, Ages DEF TypeOK
<1>1. CASE Boot(n)
  <2>1. nodes' \in [Node -> [Node -> Entry]]
    BY <1>1 DEF Boot, Entry
  <2>2. last_seen' \in [Node -> [Node -> Age]]
    BY <1>1 DEF Boot
  <2>3. disc' \in [Node -> DiscState] /\ det' \in [Node -> DetState]
    BY <1>1 DEF Boot, DiscState, DetState
  <2> QED BY <1>1, <2>1, <2>2, <2>3 DEF Boot, DiscState, DetState
<1>2. CASE EnrollGiveUp(n)
  <2>1. nodes' \in [Node -> [Node -> Entry]]
    BY <1>2 DEF EnrollGiveUp, Entry, Absent
  <2>2. last_seen' \in [Node -> [Node -> Age]]
    BY <1>2 DEF EnrollGiveUp
  <2>3. disc' \in [Node -> DiscState] /\ det' \in [Node -> DetState]
    BY <1>2 DEF EnrollGiveUp, DiscState, DetState
  <2> QED BY <1>2, <2>1, <2>2, <2>3 DEF EnrollGiveUp, DiscState, DetState
<1>3. ASSUME NEW s \in Node, Join(n, s)  PROVE TypeOK'
  <2>1. nodes' \in [Node -> [Node -> Entry]]
    BY <1>3 DEF Join, Entry
  <2> QED BY <1>3, <2>1 DEF Join
<1>4. ASSUME NEW m \in Node, RecordHeartbeat(n, m)  PROVE TypeOK'
  <2>1. last_seen' \in [Node -> [Node -> Age]]
    BY <1>4 DEF RecordHeartbeat
  <2>2. /\ proc' \in [Node -> {"down", "enrolling", "serving", "frozen"}]
        /\ joining' \in [Node -> Node \cup {NoNode}]
        /\ enrolled' \subseteq Node
    <3>1. CASE joining[m] = n
      <4>1. /\ proc' = [proc EXCEPT ![m] = "serving"] /\ enrolled' = enrolled \cup {m}
            /\ joining' = [joining EXCEPT ![m] = NoNode]
        BY <1>4, <3>1 DEF RecordHeartbeat
      <4> QED BY <4>1
    <3>2. CASE joining[m] # n
      BY <1>4, <3>2 DEF RecordHeartbeat
    <3> QED BY <3>1, <3>2
  <2>3. pending' \in [Node -> SUBSET Node]
    BY <1>4 DEF RecordHeartbeat
  <2> QED BY <1>4, <2>1, <2>2, <2>3 DEF RecordHeartbeat
<1> QED BY <1>1, <1>2, <1>3, <1>4

\* So do the discovery loop and its fallback.
LEMMA TypeDiscover ==
  ASSUME TypeOK, NEW n \in Node, Discover(n) \/ \E m \in Node : PollFallback(n, m)
  PROVE  TypeOK'
<1> USE LoopTypes, Ages DEF TypeOK
<1>1. CASE NextPhase(n)
  <2>1. disc' \in [Node -> DiscState]
    BY <1>1 DEF NextPhase, DiscState, Known
  <2> QED BY <1>1, <2>1 DEF NextPhase, DiscState
<1>2. CASE PollUnhangs(n)
  <2>1. disc' \in [Node -> DiscState]
    BY <1>2 DEF PollUnhangs, DiscState
  <2> QED BY <1>2, <2>1 DEF PollUnhangs, DiscState
<1>3. ASSUME NEW m \in Node, Ask(n, m)  PROVE disc' \in [Node -> DiscState]
  BY <1>3 DEF Ask, DiscState
<1>4. ASSUME NEW m \in Node, PollOk(n, m)  PROVE TypeOK'
  <2>1. nodes' \in [Node -> [Node -> Entry]]
    BY <1>4 DEF PollOk, Entry, MergedEntry
  <2>2. last_seen' \in [Node -> [Node -> Age]]
    BY <1>4 DEF PollOk, SeenNow
  <2> QED BY <1>3, <1>4, <2>1, <2>2 DEF PollOk, DiscState
<1>5. ASSUME NEW m \in Node, PollRefused(n, m)  PROVE TypeOK'
  BY <1>3, <1>5 DEF PollRefused, DiscState
<1>6. ASSUME NEW m \in Node, PollHangs(n, m)  PROVE TypeOK'
  <2>1. disc' \in [Node -> DiscState]
    <3>1. disc[n] \in DiscState
      BY DEF DiscState
    <3>2. [disc[n] EXCEPT !.stuck = m] \in DiscState
      BY <3>1 DEF DiscState
    <3>3. disc' = [disc EXCEPT ![n] = [disc[n] EXCEPT !.stuck = m]]
      BY <1>6 DEF PollHangs
    <3> QED BY <3>2, <3>3 DEF DiscState
  <2> QED BY <1>6, <2>1 DEF PollHangs, DiscState
<1>7. ASSUME NEW m \in Node, PollFallback(n, m)  PROVE TypeOK'
  <2>1. nodes' \in [Node -> [Node -> Entry]]
    BY <1>7 DEF PollFallback, Entry
  <2>2. glitches' \in 0..MaxGlitches
    BY <1>7, ConstantsAssumption DEF PollFallback, ConstantsAssumption
  <2> QED BY <1>3, <1>7, <2>1, <2>2 DEF PollFallback, DiscState
<1> QED BY <1>1, <1>2, <1>4, <1>5, <1>6, <1>7 DEF Discover

\* So do the detector, time and what happens to the machines.
LEMMA TypeRest ==
  ASSUME TypeOK, Tick \/ \E n \in Node : Detect(n) \/ Kill(n) \/ Freeze(n) \/ Thaw(n)
  PROVE  TypeOK'
<1> USE LoopTypes, Ages DEF TypeOK
<1>1. ASSUME NEW n \in Node, DetectRead(n)  PROVE TypeOK'
  <2>1. det' \in [Node -> DetState]
    BY <1>1 DEF DetectRead, DetState
  <2> QED BY <1>1, <2>1 DEF DetectRead, DetState
<1>2. ASSUME NEW n \in Node, DetectApply(n)  PROVE TypeOK'
  <2>1. det' \in [Node -> DetState]
    BY <1>2 DEF DetectApply, DetState
  <2>2. \A m \in Node : [nodes[n][m] EXCEPT !.status = Detected(n, m)] \in Entry
    <3> SUFFICES ASSUME NEW m \in Node
                 PROVE  [nodes[n][m] EXCEPT !.status = Detected(n, m)] \in Entry
      OBVIOUS
    <3>1. Detected(n, m) \in {"absent", "online", "suspected", "offline"}
      BY DetectedStatus
    <3>2. nodes[n][m] \in Entry
      OBVIOUS
    <3> HIDE DEF TypeOK
    <3> QED BY <3>1, <3>2 DEF Entry
  <2>3. nodes' \in [Node -> [Node -> Entry]]
    BY <1>2, <2>2 DEF DetectApply
  <2> QED BY <1>2, <2>1, <2>3 DEF DetectApply, DetState
<1>3. CASE Tick
  <2>1. last_seen' \in [Node -> [Node -> Age]]
    BY <1>3 DEF Tick
  <2>2. disc' \in [Node -> DiscState] /\ det' \in [Node -> DetState]
    BY <1>3 DEF Tick, DiscState, DetState
  <2> QED BY <1>3, <2>1, <2>2 DEF Tick, DiscState, DetState
<1>4. ASSUME NEW n \in Node, Kill(n)  PROVE TypeOK'
  <2>1. nodes' \in [Node -> [Node -> Entry]]
    BY <1>4 DEF Kill, Entry, Absent
  <2>2. last_seen' \in [Node -> [Node -> Age]]
    BY <1>4 DEF Kill
  <2>3. disc' \in [Node -> DiscState] /\ det' \in [Node -> DetState]
    BY <1>4 DEF Kill, DiscState, DetState
  <2>4. kills' \in 0..MaxKills
    BY <1>4, ConstantsAssumption DEF Kill, ConstantsAssumption
  <2> QED BY <1>4, <2>1, <2>2, <2>3, <2>4 DEF Kill, DiscState, DetState
<1>5. ASSUME NEW n \in Node, Freeze(n)  PROVE TypeOK'
  <2>1. freezes' \in 0..MaxFreezes
    BY <1>5, ConstantsAssumption DEF Freeze, ConstantsAssumption
  <2> QED BY <1>5, <2>1 DEF Freeze
<1>6. ASSUME NEW n \in Node, Thaw(n)  PROVE TypeOK'
  BY <1>6 DEF Thaw
<1> QED BY <1>1, <1>2, <1>3, <1>4, <1>5, <1>6 DEF Detect

\* Every step preserves TypeOK.
LEMMA TypeStep == TypeOK /\ [Next]_vars => TypeOK'
<1> SUFFICES ASSUME TypeOK, [Next]_vars  PROVE TypeOK'
  OBVIOUS
<1>1. CASE UNCHANGED vars
  BY <1>1 DEF TypeOK, vars
<1> QED BY <1>1, TypeEnrol, TypeDiscover, TypeRest DEF Next, Progress, Environment, Enrol

\* The tables, loops and processes keep their types in every cluster.
THEOREM TypeCorrect == Spec => []TypeOK
  BY TypeInit, TypeStep, PTL DEF Spec

-----------------------------------------------------------------------------
(* Entries and sightings *)

\* Join, upsert_peer and the merge of a peer list write the table and last_seen in
\* one or in two critical sections: between them the peer is in pending.
LEMMA SightingStep ==
  ASSUME TypeOK, SightingFollowsEntry, [Next]_vars
  PROVE  SightingFollowsEntry'
<1> USE DEF TypeOK, SightingFollowsEntry, Known
<1>0. Never # 0
  BY ConstantsAssumption DEF ConstantsAssumption, Never
<1>1. ASSUME NEW n \in Node, Boot(n)  PROVE SightingFollowsEntry'
  BY <1>0, <1>1 DEF Boot
<1>2. ASSUME NEW n \in Node, EnrollGiveUp(n)  PROVE SightingFollowsEntry'
  BY <1>2 DEF EnrollGiveUp, Absent
<1>3. ASSUME NEW n \in Node, NEW s \in Node, Join(n, s)  PROVE SightingFollowsEntry'
  BY <1>3 DEF Join
<1>4. ASSUME NEW n \in Node, NEW m \in Node, RecordHeartbeat(n, m)
      PROVE  SightingFollowsEntry'
  <2>1. /\ nodes' = nodes /\ pending' = [pending EXCEPT ![n] = pending[n] \ {m}]
        /\ last_seen' = [last_seen EXCEPT ![n][m] = 0]
    BY <1>4 DEF RecordHeartbeat
  <2> QED BY <1>0, <2>1
<1>5. ASSUME NEW n \in Node, NEW m \in Node, PollOk(n, m)  PROVE SightingFollowsEntry'
  BY <1>0, <1>5 DEF PollOk, SeenNow
<1>6. ASSUME NEW n \in Node, NEW m \in Node, PollFallback(n, m)
      PROVE  SightingFollowsEntry'
  BY <1>6 DEF PollFallback
<1>7. ASSUME NEW n \in Node, DetectApply(n)  PROVE SightingFollowsEntry'
  <2>1. /\ last_seen' = last_seen /\ pending' = pending
        /\ nodes' = [nodes EXCEPT ![n] =
             [m \in Node |-> [nodes[n][m] EXCEPT !.status = Detected(n, m)]]]
    BY <1>7 DEF DetectApply
  <2>2. \A k, m \in Node : nodes'[k][m].status = "absent" <=> nodes[k][m].status = "absent"
    BY <2>1, DetectedStatus DEF Entry
  <2> QED BY <2>1, <2>2
<1>8. CASE Tick
  <2>1. \A n, m \in Node : last_seen'[n][m] = Never => last_seen[n][m] = Never
    BY <1>8, Ages DEF Tick
  <2> QED BY <1>8, <2>1 DEF Tick
<1>9. ASSUME NEW n \in Node, Kill(n)  PROVE SightingFollowsEntry'
  BY <1>9 DEF Kill, Absent
<1>10. CASE UNCHANGED <<nodes, last_seen, pending>>
  BY <1>10
<1>11. ASSUME NEW n \in Node, NEW m \in Node,
              \/ NextPhase(n) \/ PollUnhangs(n) \/ PollRefused(n, m) \/ PollHangs(n, m)
              \/ DetectRead(n) \/ Freeze(n) \/ Thaw(n)
       PROVE  UNCHANGED <<nodes, last_seen, pending>>
  BY <1>11 DEF NextPhase, PollUnhangs, PollRefused, PollHangs, DetectRead, Freeze, Thaw
<1> QED BY <1>1, <1>2, <1>3, <1>4, <1>5, <1>6, <1>7, <1>8, <1>9, <1>10, <1>11
        DEF Next, Progress, Environment, Discover, Detect, Enrol, vars

\* Every entry has its sighting or is still being inserted, so no peer is
\* suspected for ever because its last_seen was lost.
THEOREM SightingsFollow == Spec => []SightingFollowsEntry
<1>1. Init => SightingFollowsEntry
  BY ConstantsAssumption
  DEF Init, SightingFollowsEntry, Known, Absent, Never, ConstantsAssumption
<1> QED BY <1>1, TypeCorrect, SightingStep, PTL DEF Spec

-----------------------------------------------------------------------------
(* Wrong suspicions *)

\* A process that is down has no table and no detector.
DeadHasNoTable ==
    \A n \in Node : proc[n] = "down" =>
        det[n].pc = "asleep" /\ \A m \in Node : nodes[n][m].status = "absent"

\* Whoever waits for the answer to a Join is enrolling.
JoinerEnrols == \A n \in Node : joining[n] # NoNode => proc[n] = "enrolling"

ShownDown(n, m) == nodes[n][m].status \in {"suspected", "offline"}
Silent(n, m)    == last_seen[n][m] >= SuspectAfter

\* The copy the detector works from is right, but for those heard of since.
CopyOvertaken ==
    \A n, m \in Node : det[n].pc = "apply" => last_seen[n][m] \in {0, det[n].snapshot[m]}

\* After a round of the detector, whoever is shown down is silent or was heard of
\* in this very period; at the end of the period that sighting is one period old.
RoundsRepair ==
    \A n, m \in Node : ShownDown(n, m) =>
        /\ last_seen[n][m] <= 1 \/ Silent(n, m)
        /\ det[n].pc = "asleep" => last_seen[n][m] = 0 \/ Silent(n, m)

SuspicionInv ==
    /\ DeadHasNoTable
    /\ JoinerEnrols
    /\ freezes = 0 => /\ \A n \in Node : proc[n] # "frozen"
                      /\ CopyOvertaken
                      /\ RoundsRepair

\* Nobody is shown down at the start.
LEMMA SuspicionInit == Init => SuspicionInv
  BY DEF Init, SuspicionInv, DeadHasNoTable, JoinerEnrols, CopyOvertaken, RoundsRepair,
         ShownDown, DetIdle, Absent

\* Processes that start, enrol, give up, die, hang and wake up.
LEMMA SuspicionProcesses ==
  ASSUME TypeOK, SuspicionInv, NEW n \in Node,
         Boot(n) \/ EnrollGiveUp(n) \/ Kill(n) \/ Freeze(n) \/ Thaw(n)
  PROVE  SuspicionInv'
<1> USE DEF TypeOK, SuspicionInv, DeadHasNoTable, JoinerEnrols, CopyOvertaken,
            RoundsRepair, ShownDown, Silent
<1>1. CASE Boot(n)
  <2>1. DetDue.pc = "due"
    BY LoopTypes
  <2> QED BY <1>1, <2>1 DEF Boot
<1>2. CASE EnrollGiveUp(n)
  <2>1. DetIdle.pc = "asleep"
    BY LoopTypes
  <2> QED BY <1>2, <2>1 DEF EnrollGiveUp, Absent
<1>3. CASE Kill(n)
  <2>1. DetIdle.pc = "asleep"
    BY LoopTypes
  <2> QED BY <1>3, <2>1 DEF Kill, Absent
<1>4. CASE Freeze(n)
  BY <1>4 DEF Freeze
<1>5. CASE Thaw(n)
  BY <1>5 DEF Thaw
<1> QED BY <1>1, <1>2, <1>3, <1>4, <1>5

\* What makes an entry online or a sighting new makes no wrong suspicion.
LEMMA SuspicionSightings ==
  ASSUME TypeOK, SuspicionInv, NEW n \in Node, NEW m \in Node,
         Join(n, m) \/ RecordHeartbeat(n, m) \/ PollOk(n, m) \/ PollFallback(n, m)
  PROVE  SuspicionInv'
<1> USE DEF TypeOK, SuspicionInv, DeadHasNoTable, JoinerEnrols, CopyOvertaken,
            RoundsRepair, ShownDown, Silent
<1>1. CASE Join(n, m)
  BY <1>1 DEF Join
<1>2. CASE RecordHeartbeat(n, m)
  <2>1. /\ nodes' = nodes /\ det' = det /\ freezes' = freezes
        /\ last_seen' = [last_seen EXCEPT ![n][m] = 0]
    BY <1>2 DEF RecordHeartbeat
  <2>2. \A k \in Node : proc'[k] = proc[k] \/ proc'[k] = "serving"
    BY <1>2 DEF RecordHeartbeat
  <2>3. JoinerEnrols'
    <3>1. CASE joining[m] = n
      <4>1. /\ joining' = [joining EXCEPT ![m] = NoNode]
            /\ proc' = [proc EXCEPT ![m] = "serving"]
        BY <1>2, <3>1 DEF RecordHeartbeat
      <4> QED BY <4>1
    <3>2. CASE joining[m] # n
      BY <1>2, <3>2 DEF RecordHeartbeat
    <3> QED BY <3>1, <3>2
  <2>4. DeadHasNoTable'
    BY <2>1, <2>2
  <2>5. ASSUME freezes = 0  PROVE CopyOvertaken' /\ RoundsRepair'
    BY <2>1, <2>5
  <2> QED BY <2>1, <2>2, <2>3, <2>4, <2>5
<1>3. CASE PollOk(n, m)
  BY <1>3 DEF PollOk, SeenNow, MergedEntry, Ask, Running
<1>4. CASE PollFallback(n, m)
  BY <1>4 DEF PollFallback, Ask, Running
<1> QED BY <1>1, <1>2, <1>3, <1>4

\* The detector: its copy is fresh, and what it writes follows from the copy.
LEMMA SuspicionDetector ==
  ASSUME TypeOK, SuspicionInv, NEW n \in Node, DetectRead(n) \/ DetectApply(n)
  PROVE  SuspicionInv'
<1>1. CASE DetectRead(n)
  BY <1>1 DEF DetectRead, Running, TypeOK, SuspicionInv, DeadHasNoTable, JoinerEnrols,
         CopyOvertaken, RoundsRepair, ShownDown, Silent
<1>2. CASE DetectApply(n)
  <2>1. /\ proc' = proc /\ joining' = joining /\ last_seen' = last_seen
        /\ freezes' = freezes /\ det' = [det EXCEPT ![n] = DetIdle]
        /\ nodes' = [nodes EXCEPT ![n] =
             [m \in Node |-> [nodes[n][m] EXCEPT !.status = Detected(n, m)]]]
        /\ det[n].pc = "apply" /\ proc[n] # "down"
    BY <1>2 DEF DetectApply, Running
  <2>2. DetIdle.pc = "asleep"
    BY LoopTypes
  <2>3. \A k, m \in Node : k # n => nodes'[k][m] = nodes[k][m]
    BY <2>1 DEF TypeOK
  <2>4. \A m \in Node : nodes'[n][m].status = Detected(n, m)
    BY <2>1 DEF TypeOK, Entry
  <2>5. /\ det'[n].pc = "asleep"
        /\ \A k \in Node : k # n => det'[k] = det[k]
    BY <2>1, <2>2 DEF TypeOK
  <2>6. DeadHasNoTable' /\ JoinerEnrols'
    BY <2>1, <2>3, <2>5 DEF SuspicionInv, DeadHasNoTable, JoinerEnrols
  <2>7. ASSUME freezes = 0  PROVE CopyOvertaken'
    BY <2>1, <2>5, <2>7 DEF SuspicionInv, CopyOvertaken
  <2>8. ASSUME freezes = 0, NEW m \in Node, ShownDown(n, m)'
        PROVE  last_seen[n][m] = 0 \/ Silent(n, m)
    <3>1. StatusAt(det[n].snapshot[m]) \in {"suspected", "offline"}
      BY <2>4, <2>8 DEF ShownDown, Detected
    <3>2. det[n].snapshot[m] \in Nat /\ det[n].snapshot[m] >= SuspectAfter
      BY <3>1, Ages, ConstantsAssumption DEF StatusAt, Never, TypeOK, ConstantsAssumption
    <3>3. last_seen[n][m] \in {0, det[n].snapshot[m]}
      BY <2>1, <2>8 DEF SuspicionInv, CopyOvertaken
    <3> QED BY <3>2, <3>3 DEF Silent
  <2>9. ASSUME freezes = 0  PROVE RoundsRepair'
    BY <2>1, <2>3, <2>5, <2>8, <2>9 DEF SuspicionInv, RoundsRepair, ShownDown, Silent
  <2> QED BY <2>1, <2>6, <2>7, <2>9 DEF SuspicionInv
<1> QED BY <1>1, <1>2

\* A period ends only after the detector's round.
LEMMA SuspicionTick ==
  ASSUME TypeOK, SuspicionInv, Tick
  PROVE  SuspicionInv'
<1>1. /\ proc' = proc /\ joining' = joining /\ nodes' = nodes /\ freezes' = freezes
      /\ \A n \in Node : Running(n) => det[n].pc = "asleep" /\ det'[n].pc = "due"
      /\ \A n \in Node : ~Running(n) => det'[n] = det[n]
  BY LoopTypes DEF Tick
<1>2. \A n, m \in Node : last_seen'[n][m] \in {last_seen[n][m], Older(last_seen[n][m])}
  BY DEF Tick
<1>3. \A n, m \in Node : last_seen[n][m] \in Nat
  BY Ages DEF TypeOK
<1>4. DeadHasNoTable' /\ JoinerEnrols'
  BY <1>1 DEF SuspicionInv, DeadHasNoTable, JoinerEnrols, Running
<1>5. ASSUME freezes = 0  PROVE \A n \in Node : proc[n] = "down" \/ Running(n)
  BY <1>5 DEF SuspicionInv, TypeOK, Running
<1>6. ASSUME freezes = 0  PROVE CopyOvertaken'
  BY <1>1, <1>5, <1>6 DEF SuspicionInv, DeadHasNoTable, CopyOvertaken
<1>7. ASSUME freezes = 0, NEW n \in Node, NEW m \in Node, ShownDown(n, m)
      PROVE  /\ det'[n].pc = "due"
             /\ last_seen'[n][m] <= 1 \/ last_seen'[n][m] >= SuspectAfter
  <2>1. Running(n)
    BY <1>5, <1>7 DEF SuspicionInv, DeadHasNoTable, ShownDown
  <2>2. last_seen[n][m] = 0 \/ last_seen[n][m] >= SuspectAfter
    BY <1>1, <1>7, <2>1 DEF SuspicionInv, RoundsRepair, Silent
  <2>3. SuspectAfter \in Nat /\ OfflineAfter \in Nat
    BY ConstantsAssumption DEF ConstantsAssumption
  <2> QED BY <1>1, <1>2, <1>3, <2>1, <2>2, <2>3 DEF Older
<1>8. ASSUME freezes = 0  PROVE RoundsRepair'
  BY <1>1, <1>7, <1>8 DEF RoundsRepair, ShownDown, Silent
<1> QED BY <1>1, <1>4, <1>6, <1>8 DEF SuspicionInv

\* Every step preserves the invariant.
LEMMA SuspicionStep == TypeOK /\ SuspicionInv /\ [Next]_vars => SuspicionInv'
<1> SUFFICES ASSUME TypeOK, SuspicionInv, [Next]_vars  PROVE SuspicionInv'
  OBVIOUS
<1>1. CASE UNCHANGED <<proc, joining, nodes, last_seen, det, freezes>>
  BY <1>1 DEF SuspicionInv, DeadHasNoTable, JoinerEnrols, CopyOvertaken, RoundsRepair,
         ShownDown, Silent
<1>2. ASSUME NEW n \in Node, NEW m \in Node,
             NextPhase(n) \/ PollUnhangs(n) \/ PollRefused(n, m) \/ PollHangs(n, m)
      PROVE  UNCHANGED <<proc, joining, nodes, last_seen, det, freezes>>
  BY <1>2 DEF NextPhase, PollUnhangs, PollRefused, PollHangs
<1> QED BY <1>1, <1>2, SuspicionProcesses, SuspicionSightings, SuspicionDetector,
           SuspicionTick
        DEF Next, Progress, Environment, Discover, Detect, Enrol, vars

\* For any timeouts and any cluster in which no process was suspended: a peer that
\* the detector marks down from an overtaken copy is corrected within one period.
THEOREM SuspicionsShort == Spec => []WrongSuspicionIsShort
<1>1. TypeOK /\ SuspicionInv => WrongSuspicionIsShort
  BY DEF SuspicionInv, RoundsRepair, ShownDown, Silent, WrongSuspicionIsShort
<1> QED BY SuspicionInit, SuspicionStep, TypeCorrect, <1>1, PTL DEF Spec
=============================================================================
