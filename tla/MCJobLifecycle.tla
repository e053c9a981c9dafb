--------------------------- MODULE MCJobLifecycle ---------------------------
(***************************************************************************)
(* JobLifecycle on small instances: node n1 is an origin, the others are   *)
(* its delegates, and origins as well where two agents delegate to each    *)
(* other.                                                                  *)
(***************************************************************************)
EXTENDS JobLifecycle

\* What the cluster table, which changes all the time, lets pick_node answer:
\* anything, or some node always.
AnyPick     == Node \cup {NoNode}
AlwaysANode == Node
=============================================================================
