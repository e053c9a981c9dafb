--------------------------- MODULE MCCertificates ---------------------------
(***************************************************************************)
(* Instances of Certificates for TLC.                                      *)
(***************************************************************************)
EXTENDS Certificates, TLC

CONSTANTS n1, n2

\* n2 enrols with n1.
StarSeeds == (n1 :> {} @@ n2 :> {n1})
=============================================================================
