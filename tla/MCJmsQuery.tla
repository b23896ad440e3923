----------------------------- MODULE MCJmsQuery -----------------------------
(***************************************************************************)
(* Instances of JmsQuery for TLC.  Liveness is checked together with       *)
(* safety, so no symmetry is used.                                         *)
(***************************************************************************)
EXTENDS JmsQuery
=============================================================================
