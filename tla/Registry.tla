------------------------------ MODULE Registry ------------------------------
(***************************************************************************)
(* What a node's replicated registry promises, crashes not included: the   *)
(* cluster decides one sequence of commands, and what the node would find  *)
(* on its disk after a restart is the outcome of a prefix of it, which     *)
(* only grows.  RaftStore implements it: a crash there is a stutter here.  *)
(***************************************************************************)
EXTENDS RaftCommands

VARIABLES
    history,    \* the commands decided so far
    view        \* the registry a restart would find

Init ==
    /\ history = <<>>
    /\ view = DefaultState

\* Some more commands are decided.
Decide ==
    /\ Len(history') > Len(history)
    /\ SubSeq(history', 1, Len(history)) = history
    /\ UNCHANGED view

\* The registry moves on to the outcome of a longer prefix.
Advance ==
    /\ \E n \in view.last_applied + 1 .. Len(history) : view' = StateAfter(history, n)
    /\ UNCHANGED history

Spec == Init /\ [][Decide \/ Advance]_<<history, view>>
=============================================================================
