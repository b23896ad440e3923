--------------------------- MODULE MCUpdateServer ---------------------------
(***************************************************************************)
(* Instances of UpdateServer for TLC.  Every bound is a constant of the    *)
(* specification; each cfg chooses which of them to exercise.              *)
(***************************************************************************)
EXTENDS UpdateServer, TLC

\* Threads of JMX calls are interchangeable, and so are ids and entities.
Symmetry ==
    Permutations(Operators) \union Permutations(Ids) \union Permutations(Entities)
=============================================================================
