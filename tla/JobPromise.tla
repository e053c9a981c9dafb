----------------------------- MODULE JobPromise -----------------------------
(***************************************************************************)
(* What a client may see of its jobs who keeps asking the node it gave     *)
(* them to: GET /v1/jobs/:id, without the nodes, calls and retries behind  *)
(* it.  A record says queued once; afterwards it follows the children that *)
(* were launched, a verdict is one that some child ended with and stays    *)
(* unless there is a second child, and a record lost in a crash does not   *)
(* come back.  JobLifecycle implements it.                                 *)
(***************************************************************************)
CONSTANTS
    Job,        \* job ids
    Child       \* the child processes there may be

VARIABLES
    seen,       \* seen[j]: the status in the record of j
    launched,   \* launched[j]: the children of j so far
    ended       \* ended[j]: the verdicts of those that are over

Verdict == {"completed", "failed"}

Init ==
    /\ seen = [j \in Job |-> "unknown"]
    /\ launched = [j \in Job |-> {}]
    /\ ended = [j \in Job |-> {}]

Submit(j) ==
    /\ seen[j] = "unknown"
    /\ seen' = [seen EXCEPT ![j] = "queued"]
    /\ UNCHANGED <<launched, ended>>

Launch(j) ==
    /\ seen[j] # "unknown"
    /\ \E c \in Child : launched' = [launched EXCEPT ![j] = @ \cup {c}]
    /\ UNCHANGED <<seen, ended>>

\* A child may still be heard of: the record is there, and a verdict in it is
\* not the only child's.
Open(j) ==
    /\ seen[j] \notin {"unknown", "lost"}
    /\ launched[j] # {}
    /\ seen[j] \in Verdict => \E c, d \in launched[j] : c # d

Run(j) ==
    /\ Open(j)
    /\ seen' = [seen EXCEPT ![j] = "running"]
    /\ UNCHANGED <<launched, ended>>

\* A child is over, where the record is or elsewhere.
End(j) ==
    /\ launched[j] # {}
    /\ \E v \in Verdict :
        /\ ended' = [ended EXCEPT ![j] = @ \cup {v}]
        /\ \/ Open(j) /\ seen' = [seen EXCEPT ![j] = v]
           \/ UNCHANGED seen
    /\ UNCHANGED launched

\* The result of a child elsewhere arrives.
Learn(j) ==
    /\ Open(j)
    /\ \E v \in ended[j] : seen' = [seen EXCEPT ![j] = v]
    /\ UNCHANGED <<launched, ended>>

Cancel(j) ==
    /\ seen[j] \in {"queued", "running"}
    /\ seen' = [seen EXCEPT ![j] = "cancelled"]
    /\ UNCHANGED <<launched, ended>>

\* A crash loses the records of a node.
Lose ==
    /\ \E J \in SUBSET {j \in Job : seen[j] # "unknown"} :
        seen' = [j \in Job |-> IF j \in J THEN "lost" ELSE seen[j]]
    /\ UNCHANGED <<launched, ended>>

Next ==
    \/ \E j \in Job : Submit(j) \/ Launch(j) \/ Run(j) \/ End(j) \/ Learn(j) \/ Cancel(j)
    \/ Lose

Spec == Init /\ [][Next]_<<seen, launched, ended>>
=============================================================================
