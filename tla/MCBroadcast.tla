---------------------------- MODULE MCBroadcast ----------------------------
(***************************************************************************)
(* Instances of Broadcast for TLC.                                         *)
(***************************************************************************)
EXTENDS Broadcast, TLC

\* Entities are interchangeable, and so are the ids of their rows.
Symmetry == Permutations(Entities) \union Permutations(Ids)
=============================================================================
