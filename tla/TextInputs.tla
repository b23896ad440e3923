----------------------------- MODULE TextInputs -----------------------------
(***************************************************************************)
(* Inputs for the functions of RowQueries and CsvText, and what is true of *)
(* each of them.  A behaviour has one input, which stays.                  *)
(***************************************************************************)
EXTENDS RowQueries, CsvText

CONSTANT MaxTokens   \* bound: tokens of a text that is read

VARIABLE input

\* The columns of a text, and what can be in it.
Columns == <<<<"id">>, <<"a">>, <<"b">>>>
Texts(n) == {text \in BoundedSeq(Special \union Runs, n) : IsText(text)}
Values == Texts(1) \union {<<NullValue>>}

\* The ids of a request, and those of the rows of its result.
Requested == {r \in BoundedSeq({1, 2}, 3) \X BoundedSeq({1, 2}, 3) :
                 ToSet(r[2]) \subseteq ToSet(r[1])}

Inputs ==
    {<<"key", key>> : key \in Key}
    \union {<<"request", r[1], r[2]>> : r \in Requested}
    \union {<<"row", id, values>> : id \in Texts(2), values \in Values \X Values}
    \union {<<"text", text>> : text \in Texts(MaxTokens)}

\* Besides them there are behaviours without an input, and those of a grid.
InputInit == input \in {<<"none">>, <<"grid">>} \union Inputs

InputSpec == InputInit /\ [][UNCHANGED input]_input

-----------------------------------------------------------------------------
\* The id of a key of several columns is read back as this key, by each encoding exactly
\* for the keys of which KeySurvives says so.
KeysSurvive == input[1] = "key" => KeySurvives(input[2])

\* No two keys of the same columns have the same id (IdDistinct), so that the rows of an
\* entity stay apart in the caches even where ids cannot be read back.
IdsDistinct == input[1] = "key" => IdDistinct(input[2])

\* A request by id to the database finds the row with that id and no other, or reports
\* its removal if there is none, for the keys of which RowFound says so: not those with an
\* apostrophe, which ends the literal it is put in.
RowsFound == input[1] = "key" => RowFound(input[2])

\* The loop over a result reports every requested id, and as updated and removed at once
\* only one that was requested more often than it was found.
EachIdOnce == input[1] = "request" => EachIdReported(input[2], input[3])

\* A row arrives at pages with the id and the values it was written with.
RowsArrive == input[1] = "row" => RowArrives(Columns, input[2], input[3])

\* The removal of a row arrives at pages as a row with its id alone exactly if its id needs
\* no quotes.
RemovalsArrive == input[1] = "row" => RemovalArrives(Columns, input[2])

\* A row reaches clients as an update of this row, with line ends in its values turned into
\* newlines and empty values into null.
RowsReachClients == input[1] = "row" => RowReachesClient(Columns, input[2], input[3])

\* The removal of a row reaches clients as the removal of this row exactly if its id is not
\* empty and needs no quotes.
RemovalsReachClients == input[1] = "row" => RemovalReachesClient(Columns, input[2])

\* A page's two readers of a message agree on it.
ReadsAgree == input[1] = "text" => ReadersAgree(input[2])
=============================================================================
