---------------------------- MODULE MCMembership ----------------------------
(***************************************************************************)
(* Membership on small clusters: node 1 is the bootstrap issuer (tier 0,   *)
(* no seeds) unless the run says otherwise, the others use it as seed.     *)
(***************************************************************************)
EXTENDS Membership

\* The usual cluster: everybody has the bootstrap node as its only seed.
StarSeeds == [n \in Node |-> IF n = 1 THEN {} ELSE {1}]

BootstrapTier == [n \in Node |-> IF n = 1 THEN 0 ELSE 1]
=============================================================================
