---------------------------- MODULE BlockStream ----------------------------
(***************************************************************************)
(* What BlockCallback promises to the subscribers of a layer: updates come *)
(* in blocks, one block at a time.  Rows of an ordinary block are applied  *)
(* one by one; a bulk block replaces all rows of its entity, and only when *)
(* it is closed does anybody see the replacement.                          *)
(*                                                                         *)
(* UpdateServer implements this module (UpdateServer!Stream), with many    *)
(* threads that compete for one lock, as long as nobody throws.            *)
(***************************************************************************)
CONSTANTS
    Entities, Ids,
    Content,      \* what a row can hold
    Absent,       \* the content of a row that does not exist
    NoEntity

VARIABLES
    ready,    \* entities whose first load has been made
    served,   \* what readers see
    next,     \* what they see once the open block is closed
    open,     \* entity of the open block, or NoEntity
    bulk      \* the open block is a bulk update

vars == <<ready, served, next, open, bulk>>

Keys == Entities \X Ids
Tables == [Keys -> Content]
EmptyOf(e, table) == [k \in Keys |-> IF k[1] = e THEN Absent ELSE table[k]]

Init ==
    /\ ready = {}
    /\ served = [k \in Keys |-> Absent]
    /\ next = served
    /\ open = NoEntity
    /\ bulk = FALSE

\* The first load of an entity, before any block is opened.  Nothing is served
\* until every entity is loaded.
Load(e) ==
    /\ e \in Entities \ ready
    /\ open = NoEntity
    /\ ready' = ready \union {e}
    /\ \E table \in Tables :
        /\ \A k \in Keys : k[1] # e => table[k] = next[k]
        /\ next' = table
        /\ served' = IF ready' = Entities THEN table ELSE served
    /\ UNCHANGED <<open, bulk>>

Restart ==
    /\ ready' = {}
    /\ served' = [k \in Keys |-> Absent]
    /\ next' = [k \in Keys |-> Absent]
    /\ open' = NoEntity
    /\ bulk' = FALSE

Open(e) ==
    /\ ready = Entities
    /\ open = NoEntity
    /\ open' = e
    /\ UNCHANGED <<ready, served, next, bulk>>

StartBulkUpdate ==
    /\ open # NoEntity
    /\ ~bulk
    /\ bulk' = TRUE
    /\ next' = EmptyOf(open, next)
    /\ UNCHANGED <<ready, served, open>>

\* processUpdate, or processRemove: a row of the open block.
Process(k, row) ==
    /\ k[1] = open
    /\ next' = [next EXCEPT ![k] = row]
    /\ served' = IF bulk THEN served ELSE next'
    /\ UNCHANGED <<ready, open, bulk>>

Close ==
    /\ open # NoEntity
    /\ served' = next
    /\ open' = NoEntity
    /\ bulk' = FALSE
    /\ UNCHANGED <<ready, next>>

Next ==
    \/ \E e \in Entities : Load(e) \/ Open(e)
    \/ Restart
    \/ StartBulkUpdate
    \/ \E k \in Keys, row \in Content : Process(k, row)
    \/ Close

Spec == Init /\ [][Next]_vars

\* Every block is closed at last, so that the next one can be opened.
BlocksEnd == open # NoEntity ~> open = NoEntity
=============================================================================
