----------------------------- MODULE RowQueries -----------------------------
(***************************************************************************)
(* What a data source tells its callback when rows are asked for by id.    *)
(* UpdateServer has one step for it: the row with that id, or its removal. *)
(* This module looks at the queries behind it: the id of a composite key   *)
(* is taken apart for the where clause and put together again for each row *)
(* of the result, and the loop over a result reports as removed the ids    *)
(* that it did not come across.                                            *)
(*                                                                         *)
(* A row of a composite entity is its key; its components are not null     *)
(* (RowExtractor throws), but may be empty.                                *)
(***************************************************************************)
EXTENDS CompositeIds

CONSTANT
    NullText       \* the letters that StringBuilder.append writes for null

Apostrophe == "'"

ASSUME TextAssumption ==
    NullText \in Letters /\ Apostrophe \in Letters /\ NullText # Apostrophe

\* Mutant: an id that was found is struck out wherever it was requested.
ExtractDataAll(found, ids) ==
    [updates |-> found,
     removes |-> SelectSeq(ids, LAMBDA id : ~Contains(found, id))]

\* CsvListFactory.extractDataInternal: `found` are the ids of the rows of the result
\* in their order.  What is left of the requested ids is removed.
ExtractData(found, ids) == [updates |-> found, removes |-> FoldLeft(RemoveFirst, ids, found)]

\* What is put between two apostrophes of the where clause for a component of a parsed id.
Literal(component) == IF component = <<>> THEN <<NullText>> ELSE component

\* What the database takes it for, if its own apostrophes come in pairs; otherwise the
\* statement is another one, or none.
Denoted(text) == Contracted(text, Apostrophe, Apostrophe, Apostrophe)
Denotes(text) == Spelled(Denoted(text), Apostrophe, <<Apostrophe, Apostrophe>>) = text

\* Mutant: the components are compared with the columns in reverse order.
ReverseColumns(table, id) ==
    LET components == Reverse(ParseCompositeIdComponents(id))
    IN  {key \in table : key = [n \in DOMAIN components |-> Denoted(Literal(components[n]))]}

\* getResultSetForSingleRow of a composite entity with `columns` key columns, of
\* which `table` holds the keys.  Without that many components it throws.
SingleRow(table, id) ==
    LET components == ParseCompositeIdComponents(id)
    IN  {key \in table : key = [n \in DOMAIN components |-> Denoted(Literal(components[n]))]}

Throws(columns, id) == Len(ParseCompositeIdComponents(id)) # columns

\* With such a component SingleRow does not say what comes of the statement.
Garbled(id) ==
    LET components == ParseCompositeIdComponents(id)
    IN  \E n \in DOMAIN components : ~Denotes(Literal(components[n]))

GetCsvLine(table, id) ==
    ExtractData(SetToSeq({CreateCompositeId(key) : key \in SingleRow(table, id)}), <<id>>)

\* getCsvLines of an entity that is not composite: the rows of an "in" clause, in any
\* order and as often as the entity's query returns them.
MultipleRows(found, ids) == ExtractData(found, ids)

-----------------------------------------------------------------------------
Times(ids, id) == Cardinality({n \in DOMAIN ids : ids[n] = id})

Findable(key) ==
    /\ Readable(key)
    /\ \A n \in DOMAIN key : key[n] # <<>> /\ Apostrophe \notin ToSet(key[n])

\* pokeCsvEntry, and each id of a notification, with the id under which a row is
\* served, is answered with exactly that row, whatever else is in the table, if the
\* key can be read back and has no empty component and no apostrophe; and if the row
\* does not exist, exactly with its removal.  Every other row is lost by such a request:
\* it throws, or reports the removal of a row that exists, unless an apostrophe ends a
\* literal and makes another statement.
RowFound(key) ==
    LET keys == [DOMAIN key -> Component]
        id == CreateCompositeId(key)
        told == GetCsvLine(keys, id)
        absent == GetCsvLine(keys \ {key}, id)
    IN  IF Findable(key)
        THEN /\ ~Throws(Len(key), id) /\ ~Garbled(id)
             /\ told = [updates |-> <<id>>, removes |-> <<>>]
             /\ absent = [updates |-> <<>>, removes |-> <<id>>]
        ELSE Throws(Len(key), id) \/ Garbled(id) \/ told.removes = <<id>>

\* A request for several ids reports each of them, and an id both as updated and as
\* removed only if it was requested more often than the result had it.
EachIdReported(ids, found) ==
    LET told == MultipleRows(found, ids)
    IN  \A id \in ToSet(ids) :
            /\ Contains(told.updates, id) \/ Contains(told.removes, id)
            /\ Contains(told.updates, id) /\ Contains(told.removes, id)
                 <=> Times(ids, id) > Times(found, id) /\ Times(found, id) > 0
=============================================================================
