---------------------------- MODULE MCRaftStore ----------------------------
(***************************************************************************)
(* Instances of RaftStore for TLC.                                         *)
(***************************************************************************)
EXTENDS RaftStore, TLC

CONSTANTS j1, t1, n1, n2

\* Two nodes register the same job; one of them reports on it.
JobCommands ==
    {[op |-> "RegisterJob", job |-> j1, node |-> n1],
     [op |-> "RegisterJob", job |-> j1, node |-> n2],
     [op |-> "UpdateJobStatus", job |-> j1, status |-> "completed"]}

\* The two nodes play the same part.
NodeSymmetry == Permutations(Node)
=============================================================================
