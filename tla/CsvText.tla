------------------------------ MODULE CsvText ------------------------------
(***************************************************************************)
(* The text of a block as it goes to pages and to the topics, and how it   *)
(* is read.  RowFactoryCsv writes a row, the outbound handlers write the   *)
(* id of a removed row as it is.  A page reads a message with jquery.csv,  *)
(* a vendored library: the columns of its grid with toArrays, the rows     *)
(* with toObjects.  A client reads a message with CsvTextBlockToCallback,  *)
(* and each row of it once more to make a bean, by super-csv.              *)
(*                                                                         *)
(* A text is a sequence of the tokens that jquery.csv's regular expression *)
(* matches: the four special characters and runs of others.                *)
(***************************************************************************)
EXTENDS Naturals, Sequences, SequencesExt

CONSTANTS
    Runs,       \* runs of ordinary characters
    NullValue   \* a column value that is null, or undefined in a page

Comma == ","
Quote == "\""
Newline == "\n"
Return == "\r"
Special == {Comma, Quote, Newline, Return}

ASSUME RunsAssumption == Runs \intersect Special = {} /\ NullValue \notin Runs \union Special

\* Runs are maximal.
IsText(text) ==
    \A n \in 1..(Len(text) - 1) : text[n] \in Special \/ text[n + 1] \in Special

-----------------------------------------------------------------------------
(***************************************************************************)
(* Writing                                                                 *)
(***************************************************************************)

\* Mutant: only commas and quotes are special.
NeedsSomeQuotes(value) == ToSet(value) \intersect {Comma, Quote} # {}

\* StringEscapeUtils.escapeCsv
NeedsQuotes(value) == ToSet(value) \intersect Special # {}

EscapeCsv(value) ==
    IF ~NeedsQuotes(value) THEN value
    ELSE <<Quote>>
         \o FlattenSeq([n \in DOMAIN value |->
                          IF value[n] = Quote THEN <<Quote, Quote>> ELSE <<value[n]>>])
         \o <<Quote>>

\* appendEscapedCsvEntry: nothing for null, quotes for an empty value.
CsvEntry(value) ==
    IF value = <<NullValue>> THEN <<>>
    ELSE IF value = <<>> THEN <<Quote, Quote>>
    ELSE EscapeCsv(value)

\* Mutant: the id of a row is written as it is, like that of a removal.
RowLineOfPlainId(id, values) ==
    id \o FlattenSeq([n \in DOMAIN values |-> <<Comma>> \o CsvEntry(values[n])])

\* RowFactoryCsv writes the values with addValue, and puts the id before them.
RowLine(id, values) ==
    EscapeCsv(id) \o FlattenSeq([n \in DOMAIN values |-> <<Comma>> \o CsvEntry(values[n])])

\* Mutant: a comma is written behind the id, as in a row.
RemovalWithComma(id) == Append(id, Comma)

\* processRemove of the outbound handlers
RemovalLine(id) == id

\* A block of one line, under the names of its columns.
Block(columns, line) ==
    FlattenSeq([n \in DOMAIN columns |->
                  IF n = 1 THEN columns[n] ELSE <<Comma>> \o columns[n]])
    \o <<Newline>> \o line \o <<Newline>>

-----------------------------------------------------------------------------
(***************************************************************************)
(* A page: parse, splitLines and parseEntry go through a text alike.       *)
(***************************************************************************)

\* The state of the three parsers after a token.
After(state, token) ==
    IF state = "quoted" THEN IF token = Quote THEN "closing" ELSE "quoted"
    ELSE IF state # "error" /\ token \in {Comma, Newline} THEN "start"
    ELSE IF token = Return THEN state
    ELSE IF state = "start" THEN IF token = Quote THEN "quoted" ELSE "plain"
    ELSE IF state = "closing" /\ token = Quote THEN "quoted" ELSE "error"

\* Whether a token is part of a value.
IsData(state, token) ==
    IF state = "quoted" THEN token # Quote
    ELSE token \notin Special \/ (state = "closing" /\ token = Quote)

Reader == [state |-> "start", value |-> <<>>, entry |-> <<>>, data |-> <<>>]

Read(reader, token) ==
    [reader EXCEPT !.state = After(@, token),
                   !.value = IF IsData(reader.state, token) THEN Append(@, token) ELSE @]

EndOfValue(reader) ==
    [reader EXCEPT !.state = "start", !.value = <<>>, !.entry = Append(@, reader.value)]

EndOfEntry(reader) ==
    [reader EXCEPT !.state = "start", !.entry = <<>>, !.data = Append(@, reader.entry)]

Outside(reader) == reader.state \notin {"quoted", "error"}

\* toArrays, by parse: the values of each entry.  A last entry without values is ignored.
ToArrays(text) ==
    LET Step(reader, token) ==
          IF Outside(reader) /\ token = Comma THEN EndOfValue(reader)
          ELSE IF Outside(reader) /\ token = Newline THEN EndOfEntry(EndOfValue(reader))
          ELSE Read(reader, token)
        end == FoldLeft(Step, Reader, text)
    IN  IF end.state # "error" /\ end.entry # <<>> THEN EndOfEntry(EndOfValue(end)) ELSE end

\* Mutant: a quoted value ends with its line.
SplitEveryLine(text) ==
    LET Step(reader, token) ==
          IF token = Newline THEN EndOfEntry(reader)
          ELSE [reader EXCEPT !.state = After(@, token),
                              !.entry = IF Outside(reader) /\ token = Return THEN @
                                        ELSE Append(@, token)]
        end == FoldLeft(Step, Reader, text)
    IN  IF end.state # "error" /\ end.entry # <<>> THEN EndOfEntry(end) ELSE end

\* splitLines: the entries as they are written, without returns.
SplitLines(text) ==
    LET Step(reader, token) ==
          IF Outside(reader) /\ token = Newline THEN EndOfEntry(reader)
          ELSE [reader EXCEPT !.state = After(@, token),
                              !.entry = IF Outside(reader) /\ token = Return THEN @
                                        ELSE Append(@, token)]
        end == FoldLeft(Step, Reader, text)
    IN  IF end.state # "error" /\ end.entry # <<>> THEN EndOfEntry(end) ELSE end

\* parseEntry: the values of one entry; line ends outside quotes are skipped.
ParseEntry(line) ==
    LET Step(reader, token) ==
          IF Outside(reader) /\ token = Comma THEN EndOfValue(reader)
          ELSE IF Outside(reader) /\ token \in {Newline, Return} THEN reader
          ELSE Read(reader, token)
    IN  EndOfValue(FoldLeft(Step, Reader, line)).entry

\* toObjects: the values of each further entry under those of the first.
ToObjects(text) ==
    LET lines == SplitLines(text).data
        headers == ParseEntry(lines[1])
        Fields(entry) == [header \in ToSet(headers) |->
                            LET n == CHOOSE n \in DOMAIN headers : headers[n] = header
                            IN  IF n \in DOMAIN entry THEN entry[n] ELSE <<NullValue>>]
    IN  [n \in 1..(Len(lines) - 1) |-> Fields(ParseEntry(lines[n + 1]))]

-----------------------------------------------------------------------------
(***************************************************************************)
(* A client: super-csv reads a text line by line; a line ends with a       *)
(* return, a newline or both.                                              *)
(***************************************************************************)
LineEnds == {Newline, Return}

\* `returned`: the last token was a return; `line`: the row as it is written.
Parser ==
    [state |-> "start", returned |-> FALSE,
     value |-> <<>>, row |-> <<>>, line |-> <<>>, rows |-> <<>>]

OrNull(value) == IF value = <<>> THEN <<NullValue>> ELSE value

EndOfColumn(parser) ==
    [parser EXCEPT !.state = "plain", !.value = <<>>, !.row = Append(@, OrNull(parser.value))]

EndOfRow(parser) ==
    LET values == EndOfColumn(parser).row
    IN  [parser EXCEPT !.state = "start", !.value = <<>>, !.row = <<>>, !.line = <<>>,
                       !.rows = Append(@, [values |-> values, line |-> parser.line])]

\* Within quotes a line end is a newline.  Elsewhere a quote begins or ends them, or is one
\* itself right behind another that has ended them.
Parsed(parser, token) ==
    LET quoted == parser.state = "quoted"
        char == IF token \in LineEnds THEN Newline ELSE token
        isData == IF quoted THEN token # Quote ELSE token # Quote \/ parser.state = "closing"
    IN  [parser EXCEPT !.state = IF ~quoted THEN IF token = Quote THEN "quoted" ELSE "plain"
                                 ELSE IF token = Quote THEN "closing" ELSE "quoted",
                       !.value = IF isData THEN Append(@, char) ELSE @,
                       !.line = Append(@, char)]

\* Blank lines are skipped where a row would begin.
Tokenized(parser, token) ==
    LET quoted == parser.state = "quoted"
        next == IF ~quoted /\ token \in LineEnds
                THEN IF parser.state = "start" THEN parser ELSE EndOfRow(parser)
                ELSE IF ~quoted /\ token = Comma
                THEN [EndOfColumn(parser) EXCEPT !.line = Append(@, Comma)]
                ELSE Parsed(parser, token)
    IN  IF token = Newline /\ parser.returned
        THEN [parser EXCEPT !.returned = FALSE]
        ELSE [next EXCEPT !.returned = token = Return]

\* The rows that CsvListReader.read returns one after the other, and whether it then finds
\* the end of the text, which it must not within quotes.
CsvRows(text) ==
    LET end == FoldLeft(Tokenized, Parser, text)
    IN  [rows |-> IF end.state \in {"start", "quoted"} THEN end.rows ELSE EndOfRow(end).rows,
         ended |-> end.state # "quoted"]

\* Mutant: every row is an update.
PresentedAsUpdate(row) == [update |-> TRUE, id |-> row.values[1], line |-> row.line]

\* A row of several columns is an update with getUntokenizedRow, any other is a removal.
Presented(row) == [update |-> Len(row.values) > 1, id |-> row.values[1], line |-> row.line]

\* presentTextBlockToCsvLineCallback: what it calls the callback with, and whether it
\* returns.  There must be a header, and a row only where the header begins with "id".
TextBlock(text) ==
    LET csv == CsvRows(text)
        body == Tail(csv.rows)
    IN  IF csv.rows = <<>> \/ (body # <<>> /\ csv.rows[1].values[1] # <<"id">>)
        THEN [told |-> <<>>, returns |-> FALSE]
        ELSE [told |-> [n \in DOMAIN body |-> Presented(body[n])], returns |-> csv.ended]

\* splitCsv of CsvToBeanStrategySpringConstructor, by the pipe of CsvListReaderUtil.
SplitCsv(line) == CsvRows(Append(line, Newline)).rows[1].values

-----------------------------------------------------------------------------
\* What a page shows for a value.
AsText(value) == IF value = <<NullValue>> THEN <<>> ELSE value

\* A row with at least one value arrives at a page with the id and the values it was
\* written with, whatever characters they contain, save that a page cannot tell null
\* from an empty value; and the grid's columns are the fields of its rows.
RowArrives(columns, id, values) ==
    LET text == Block(columns, RowLine(id, values))
        rows == ToObjects(text)
    IN  /\ SplitLines(text).state # "error" /\ ToArrays(text).state # "error"
        /\ Len(rows) = 1
        /\ rows[1][columns[1]] = id
        /\ \A n \in DOMAIN values : rows[1][columns[n + 1]] = AsText(values[n])
        /\ ToArrays(text).data[1] = columns

\* The removal of a row arrives at a page as a row with its id alone exactly if the id has
\* none of the special characters, for it is not escaped.  With a comma (and no quote) it
\* arrives as another row with further values, unless the message is refused, as it is for
\* a return between runs.
RemovalArrives(columns, id) ==
    LET lines == SplitLines(Block(columns, RemovalLine(id)))
        rows == ToObjects(Block(columns, RemovalLine(id)))
    IN  /\ ~NeedsQuotes(id) <=>
             /\ lines.state = "start" /\ Len(lines.data) = 2
             /\ ParseEntry(lines.data[2]) = <<id>>
        /\ ~NeedsQuotes(id) =>
             rows = <<[column \in ToSet(columns) |->
                         IF column = columns[1] THEN id ELSE <<NullValue>>]>>
        /\ Comma \in ToSet(id) /\ Quote \notin ToSet(id) /\ lines.state # "error" =>
             \E n \in 2..Len(lines.data) :
                 Len(ParseEntry(lines.data[n])) > 1 /\ ParseEntry(lines.data[n])[1] # id

\* What a client keeps of a value: line ends are newlines, and an empty value is null.
Kept(value) ==
    OrNull(FlattenSeq([n \in DOMAIN value |->
                         IF value[n] = Return THEN <<Newline>>
                         ELSE IF value[n] = Newline /\ n > 1 /\ value[n - 1] = Return THEN <<>>
                         ELSE <<value[n]>>]))

\* A row reaches a client as one update with what is kept of its id, and its bean is made of
\* what is kept of its id and its values, whatever characters they contain.
RowReachesClient(columns, id, values) ==
    LET block == TextBlock(Block(columns, RowLine(id, values)))
    IN  /\ block.returns /\ Len(block.told) = 1
        /\ block.told[1].update /\ block.told[1].id = Kept(id)
        /\ SplitCsv(block.told[1].line) =
             <<Kept(id)>> \o [n \in DOMAIN values |-> Kept(values[n])]

\* The removal of a row reaches a client as the removal of this row exactly if its id is
\* not empty and has none of the special characters.  One of line ends, or nothing, is
\* dropped; one with a comma (and no quote) is taken for an update of another row.
RemovalReachesClient(columns, id) ==
    LET block == TextBlock(Block(columns, RemovalLine(id)))
    IN  /\ id # <<>> /\ ~NeedsQuotes(id) <=>
             block = [told |-> <<[update |-> FALSE, id |-> id, line |-> id]>>, returns |-> TRUE]
        /\ ToSet(id) \subseteq LineEnds => block = [told |-> <<>>, returns |-> TRUE]
        /\ Comma \in ToSet(id) /\ Quote \notin ToSet(id) =>
             /\ block.returns
             /\ \E n \in DOMAIN block.told : block.told[n].update /\ block.told[n].id # id

\* The two readers of a page refuse the same texts, and agree on every text whose
\* last line is complete.
ReadersAgree(text) ==
    LET lines == SplitLines(text)
        entries == ToArrays(text)
        complete == text # <<>> /\ text[Len(text)] = Newline
                    /\ FoldLeft(After, "start", text) = "start"
    IN  /\ lines.state = "error" <=> entries.state = "error"
        /\ complete => entries.data = [n \in DOMAIN lines.data |-> ParseEntry(lines.data[n])]
=============================================================================
