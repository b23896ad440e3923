------------------------------ MODULE MCSockets ------------------------------
(***************************************************************************)
(* Sockets, the texts and ids that its lines are made of, and the grid     *)
(* that shows its rows: a behaviour is one of the sockets, one of a grid,  *)
(* or an input for the functions of RowQueries and CsvText.                *)
(***************************************************************************)
EXTENDS Sockets, TextInputs, PageGrid

CONSTANTS e1, e2, i1, s1, s2

\* Both pages ask for e1, or one for an entity that does not exist.
MCRequests ==
    {[s \in Sockets |-> IF s = s1 THEN e1 ELSE other] : other \in {e1, NoEntity}}

\* With an input nothing happens.  Where the sockets are idle they have one initial state.
MCInit ==
    /\ Init
    /\ served[e2, i1] = 0
    /\ GridInit
    /\ InputInit
    /\ input # <<"none">> => entity[s2] = e1 /\ served[e1, i1] = 0

SocketsNext == input = <<"none">> /\ Next /\ UNCHANGED <<gridVars, input>>
ShowRows == input = <<"grid">> /\ GridNext /\ UNCHANGED <<vars, input>>

MCNext == SocketsNext \/ ShowRows

MCSpec == MCInit /\ [][MCNext]_<<vars, gridVars, input>> /\ Fairness /\ DelaysEnd
=============================================================================
