--------------------------- MODULE MCObjectStore ---------------------------
(***************************************************************************)
(* ObjectStore on small instances: node a takes the requests, node b is    *)
(* its storage peer where the run has one; keys k1, k2.                    *)
(***************************************************************************)
EXTENDS ObjectStore, TLC

CONSTANTS a, b, k1, k2

\* File names of keys that stay apart, and of `x/y` and `x-y`, which do not.
DistinctIds == [k \in Key |-> k]
SameId      == [k \in Key |-> k1]

NoPeers  == [n \in Node |-> {}]
PeerB    == [n \in Node |-> IF n = a THEN {b} ELSE {}]

\* Requests differ only by their names.
OpSymmetry == Permutations(Op)
=============================================================================
