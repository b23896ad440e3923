------------------------ MODULE BeanConversion_proofs ------------------------
(***************************************************************************)
(* The conversion of rows to beans, for any number of entities, threads    *)
(* and rows: a thread that converts by itself constructs the bean of its   *)
(* own row, and what a thread that converts by itself never repairs.       *)
(***************************************************************************)
EXTENDS BeanConversion, FiniteSetTheorems, SequenceTheorems, TLAPS

USE DEF pipeVars, contextVars, readVars, lockedVars, historyVars

-----------------------------------------------------------------------------
(***************************************************************************)
(* The inductive invariant.                                                *)
(***************************************************************************)

Rows == [entity : BeanTypes \union {Nobody}, number : Nat, quality : {"good", "bad", "long"}]
Pieces == [of : Rows, kind : {"names", "values"}]
Texts == Seq(Pieces)
Steps == {"idle", "end names", "read names", "write values", "end values", "read values",
          "add id", "add other", "register", "construct", "remove", "clear"}

ConversionTypes ==
    /\ pipe \in Seq(Texts)
    /\ unended \in Texts
    /\ step \in [Readers -> Steps]
    /\ row \in [Readers -> Rows]
    /\ names \in [Readers -> Texts]
    /\ values \in [Readers -> Texts]
    /\ together \subseteq Converting
    /\ rowsRead \in Nat
    /\ \A t \in Converting : row[t].entity \in BeanTypes

\* There are no more lines in the pipe than threads about to read one.
PipeKept == IsFiniteSet(Reading) /\ Len(pipe) <= Cardinality(Reading)

\* What a refused write has left on the line comes before the piece.
Ends(text, piece) == text # <<>> /\ (Len(text) = 1 => text = <<piece>>)

OwnValues(t) == <<Values(row[t])>>

\* What a thread that converts by itself has done with its row so far.
ByItself(t) ==
    /\ Converting = {t}
    /\ step[t] = "end names" => Ends(unended, Names(row[t]))
    /\ step[t] = "read names" =>
          unended = <<>> /\ pipe # <<>> /\ Ends(Head(pipe), Names(row[t]))
    /\ step[t] \notin {"end names", "read names"} =>
          beanClass = row[t].entity /\ Ends(names[t], Names(row[t]))
    /\ step[t] = "write values" => unended = <<>>
    /\ step[t] = "end values" => unended = OwnValues(t)
    /\ step[t] = "read values" => pipe # <<>> /\ Head(pipe) = OwnValues(t)
    /\ step[t] \in {"add id", "add other"} => values[t] = OwnValues(t)
    /\ step[t] = "add other" /\ IsNames(names[t]) =>
          "id" \in DOMAIN cav /\ cav["id"] = OwnValues(t)
    /\ step[t] \in {"register", "construct"} =>
          \A c \in {"id", row[t].entity} : c \in DOMAIN cav /\ cav[c] = OwnValues(t)
    /\ step[t] = "construct" => definition = "registered"
    /\ step[t] \in {"remove", "clear"} => DOMAIN cav = {"id", beanClass}

ConversionInv ==
    /\ ConversionTypes
    /\ PipeKept
    /\ \A t \in Converting \ together : ByItself(t)

-----------------------------------------------------------------------------
(***************************************************************************)
(* Rows, lines, and the threads that read them.                            *)
(***************************************************************************)

LEMMA NewRow ==
    ASSUME NEW e \in BeanTypes, rowsRead \in Nat, rowsRead < Len(Qualities),
           NEW quality \in Qualities[rowsRead + 1]
    PROVE  Row(e, rowsRead + 1, quality) \in Rows
  <1>1. Len(Qualities) \in Nat /\ rowsRead + 1 \in 1..Len(Qualities)
    BY QualitiesAssumption, LenProperties
  <1>2. Qualities[rowsRead + 1] \in SUBSET {"good", "bad", "long"}
    BY <1>1, QualitiesAssumption, ElementOfSeq
  <1>3. quality \in {"good", "bad", "long"} /\ rowsRead + 1 \in Nat
    BY <1>2
  <1>4. QED
    BY <1>3 DEF Row, Rows

LEMMA PieceTypes ==
    /\ NoRow \in Rows
    /\ \A r \in Rows : Names(r) \in Pieces /\ Values(r) \in Pieces
    /\ \A r : Names(r).of = r /\ Names(r).kind = "names"
    /\ <<>> \in Texts /\ <<>> \in Seq(Texts)
  <1>1. NoRow \in Rows
    BY DEF NoRow, Row, Rows
  <1>2. \A r \in Rows : Names(r) \in Pieces /\ Values(r) \in Pieces
    BY DEF Names, Values, Pieces
  <1>3. \A r : Names(r).of = r /\ Names(r).kind = "names"
    BY DEF Names
  <1>4. <<>> \in Texts /\ <<>> \in Seq(Texts)
    BY EmptySeq DEF Texts
  <1>5. QED
    BY <1>1, <1>2, <1>3, <1>4

LEMMA OnePiece ==
    \A piece : /\ Head(<<piece>>) = piece /\ Len(<<piece>>) = 1
               /\ Append(<<>>, piece) = <<piece>>
  OBVIOUS

\* The first write of a line.
LEMMA PieceWritten ==
    ASSUME ConversionTypes, NEW t, NEW piece \in Pieces, Append1(t, piece)
    PROVE  /\ pipe' = pipe /\ unended' \in Texts
           /\ Ends(unended', piece)
           /\ unended = <<>> => unended' = <<piece>>
  <1>1. unended \in Seq(Pieces) /\ unended' = Append(unended, piece) /\ pipe' = pipe
    BY DEF ConversionTypes, Texts, Append1
  <1>2. unended' \in Seq(Pieces) /\ Len(unended') = Len(unended) + 1 /\ Len(unended) \in Nat
    BY <1>1, AppendProperties, LenProperties
  <1>3. unended = <<>> => unended' = <<piece>>
    BY <1>1, OnePiece
  <1>4. unended' # <<>>
    BY <1>1, AppendProperties
  <1>5. Len(unended') = 1 => unended = <<>>
    <2>1. Len(unended') = 1 => Len(unended) = 0
      <3> DEFINE before == Len(unended)
                 after == Len(unended')
      <3>1. before \in Nat /\ after = before + 1
        BY <1>2
      <3> HIDE DEF before, after
      <3>2. after = 1 => before = 0
        BY <3>1
      <3>3. QED
        BY <3>2 DEF before, after
    <2>2. QED
      BY <1>1, <2>1, EmptySeq
  <1>6. QED
    BY <1>1, <1>2, <1>3, <1>4, <1>5 DEF Ends, Texts

\* The second one.
LEMMA LineEnded ==
    ASSUME ConversionTypes, NEW t, EndLine(t)
    PROVE  /\ pipe' \in Seq(Texts) /\ unended' \in Texts
           /\ unended' = <<>>
           /\ Len(pipe') <= Len(pipe) + 1
           /\ pipe = <<>> /\ unended # <<>> => pipe' # <<>> /\ Head(pipe') = unended
  <1>1. /\ pipe \in Seq(Texts) /\ unended \in Texts /\ unended' = <<>>
        /\ pipe' = IF unended = <<>> THEN pipe ELSE Append(pipe, unended)
    BY DEF ConversionTypes, EndLine
  <1>2. Append(pipe, unended) \in Seq(Texts) /\ Len(Append(pipe, unended)) = Len(pipe) + 1
    BY <1>1, AppendProperties
  <1>3. Len(pipe) \in Nat
    BY <1>1, LenProperties
  <1>4. pipe' \in Seq(Texts) /\ Len(pipe') <= Len(pipe) + 1
    BY <1>1, <1>2, <1>3
  <1>5. ASSUME pipe = <<>>, unended # <<>> PROVE pipe' # <<>> /\ Head(pipe') = unended
    <2>1. pipe' = Append(<<>>, unended)
      BY <1>1, <1>5
    <2>2. pipe' = <<unended>>
      BY <2>1, OnePiece
    <2>3. QED
      BY <2>2, OnePiece
  <1>6. unended' \in Texts
    BY <1>1, PieceTypes
  <1>7. QED
    BY <1>1, <1>4, <1>5, <1>6

LEMMA LineRead ==
    ASSUME ConversionTypes, NEW t, PipeRead(t)
    PROVE  /\ pipe' \in Seq(Texts) /\ Head(pipe) \in Texts /\ unended' = unended
           /\ Len(pipe') = Len(pipe) - 1
  <1>1. pipe \in Seq(Texts) /\ pipe # <<>> /\ pipe' = Tail(pipe) /\ unended' = unended
    BY DEF ConversionTypes, PipeRead
  <1>2. QED
    BY <1>1, HeadTailProperties

\* A thread begins to wait for a line, or has it.
LEMMA ReadersCounted ==
    ASSUME PipeKept, NEW t
    PROVE  /\ Cardinality(Reading) \in Nat
           /\ t \notin Reading =>
                /\ IsFiniteSet(Reading \union {t})
                /\ Cardinality(Reading \union {t}) = Cardinality(Reading) + 1
           /\ t \in Reading =>
                /\ IsFiniteSet(Reading \ {t})
                /\ Cardinality(Reading \ {t}) = Cardinality(Reading) - 1
  BY FS_AddElement, FS_RemoveElement, FS_CardinalityType DEF PipeKept

\* When nobody is about to read, the pipe is empty.
LEMMA EmptyPipe ==
    ASSUME ConversionTypes, PipeKept, Reading = {}
    PROVE  pipe = <<>>
  <1>1. pipe \in Seq(Texts) /\ Len(pipe) \in Nat
    BY LenProperties DEF ConversionTypes
  <1>2. Len(pipe) <= 0
    BY FS_EmptySet DEF PipeKept
  <1>3. Len(pipe) = 0
    BY <1>1, <1>2
  <1>4. QED
    BY <1>1, <1>3, EmptySeq

\* What a line that ends with the names of a row is taken for.
LEMMA NamesTaken ==
    ASSUME NEW text \in Texts, NEW r \in Rows, Ends(text, Names(r))
    PROVE  /\ IsNames(text) => FirstName(text) = "id" /\ OtherName(text) = r.entity
           /\ Len(text) <= 1 => IsNames(text)
  <1>1. Len(text) \in Nat /\ Len(text) # 0
    BY LenProperties, EmptySeq DEF Texts, Ends
  <1>2. ASSUME Len(text) = 1 PROVE Head(text) = Names(r)
    <2>1. text = <<Names(r)>>
      BY <1>2 DEF Ends
    <2>2. QED
      BY <2>1, OnePiece
  <1>3. Len(text) = 1 => Head(text).of = r /\ Head(text).kind = "names"
    BY <1>2, PieceTypes
  <1>4. Len(text) <= 1 => Len(text) = 1
    <2> DEFINE pieces == Len(text)
    <2>1. pieces \in Nat /\ pieces # 0
      BY <1>1
    <2> HIDE DEF pieces
    <2>2. pieces <= 1 => pieces = 1
      BY <2>1
    <2>3. QED
      BY <2>2 DEF pieces
  <1>5. QED
    BY <1>3, <1>4 DEF IsNames, FirstName, OtherName

-----------------------------------------------------------------------------
LEMMA InitConversion == ConversionInit => ConversionInv
  <1> SUFFICES ASSUME ConversionInit PROVE ConversionInv
    OBVIOUS
  <1>1. Converting = {} /\ Reading = {}
    BY DEF ConversionInit, Converting, Reading
  <1>2. pipe \in Seq(Texts) /\ Len(pipe) = 0 /\ unended \in Texts
    BY PieceTypes DEF ConversionInit
  <1>3. PipeKept
    BY <1>1, <1>2, FS_EmptySet DEF PipeKept
  <1>4. /\ step \in [Readers -> Steps] /\ row \in [Readers -> Rows]
        /\ names \in [Readers -> Texts] /\ values \in [Readers -> Texts]
    BY PieceTypes DEF ConversionInit, Steps
  <1>5. ConversionTypes
    BY <1>1, <1>2, <1>4 DEF ConversionInit, ConversionTypes
  <1>6. QED
    BY <1>1, <1>3, <1>5 DEF ConversionInv

(***************************************************************************)
(* The steps of a conversion: some in its middle, others that end it.      *)
(***************************************************************************)

\* What a step of a thread's conversion takes and leaves.
LEMMA Moves ==
    ASSUME ConversionTypes, NEW t \in Readers, NEW from, NEW to \in Steps, Go(t, from, to)
    PROVE  /\ step[t] = from /\ step' \in [Readers -> Steps] /\ step'[t] = to
           /\ \A u \in Readers \ {t} : step'[u] = step[u]
  BY DEF Go, ConversionTypes

Middle(t) ==
    \/ EndNames(t) \/ ReadNames(t) \/ WriteValues(t) \/ EndValues(t) \/ ReadValues(t)
    \/ AddId(t) \/ AddOther(t) \/ RegisterBean(t) \/ Construct(t) \/ RemoveBean(t)

LEMMA MiddleSteps ==
    ASSUME ConversionTypes, NEW t \in Readers, Middle(t)
    PROVE  /\ step[t] # "idle" /\ step'[t] # "idle"
           /\ step' \in [Readers -> Steps]
           /\ \A u \in Readers \ {t} : step'[u] = step[u]
           /\ Converting' = Converting
           /\ UNCHANGED <<row, together, rowsRead>>
  <1>1. PICK from \in Steps \ {"idle"}, to \in Steps \ {"idle"} : Go(t, from, to)
    BY DEF Middle, EndNames, ReadNames, WriteValues, EndValues, ReadValues, AddId, AddOther,
           RegisterBean, Construct, RemoveBean, Steps
  <1>2. /\ step[t] = from /\ step' \in [Readers -> Steps] /\ step'[t] = to
        /\ \A u \in Readers \ {t} : step'[u] = step[u]
    BY <1>1, Moves
  <1>3. Converting' = Converting
    BY <1>1, <1>2 DEF Converting
  <1>4. UNCHANGED <<row, together, rowsRead>>
    BY DEF Middle, EndNames, ReadNames, WriteValues, EndValues, ReadValues, AddId, AddOther,
           RegisterBean, Construct, RemoveBean
  <1>5. QED
    BY <1>1, <1>2, <1>3, <1>4

LEMMA MiddleTypes ==
    ASSUME ConversionTypes, NEW t \in Readers, Middle(t)
    PROVE  ConversionTypes'
  <1>1. /\ step' \in [Readers -> Steps] /\ Converting' = Converting
        /\ UNCHANGED <<row, together, rowsRead>>
    BY MiddleSteps
  <1>2. ASSUME pipe' \in Seq(Texts), unended' \in Texts, names' \in [Readers -> Texts],
               values' \in [Readers -> Texts]
        PROVE  ConversionTypes'
    BY <1>1, <1>2 DEF ConversionTypes
  <1>3. /\ pipe \in Seq(Texts) /\ unended \in Texts
        /\ names \in [Readers -> Texts] /\ values \in [Readers -> Texts]
    BY DEF ConversionTypes
  <1>4. CASE EndNames(t) \/ EndValues(t)
    <2>1. EndLine(t) /\ UNCHANGED <<names, values>>
      BY <1>4 DEF EndNames, EndValues
    <2>2. QED
      BY <1>2, <1>3, <2>1, LineEnded
  <1>5. CASE WriteValues(t)
    <2>1. Append1(t, Values(row[t])) /\ UNCHANGED <<names, values>>
      BY <1>5 DEF WriteValues
    <2>2. Values(row[t]) \in Pieces
      BY PieceTypes DEF ConversionTypes
    <2>3. unended' \in Texts /\ pipe' = pipe
      BY <2>1, <2>2, PieceWritten
    <2>4. QED
      BY <1>2, <1>3, <2>1, <2>3
  <1>6. CASE ReadNames(t) \/ ReadValues(t)
    <2>1. /\ PipeRead(t)
          /\ \/ names' = [names EXCEPT ![t] = Head(pipe)] /\ values' = values
             \/ values' = [values EXCEPT ![t] = Head(pipe)] /\ names' = names
      BY <1>6 DEF ReadNames, ReadValues
    <2>2. pipe' \in Seq(Texts) /\ Head(pipe) \in Texts /\ unended' = unended
      BY <2>1, LineRead
    <2>3. names' \in [Readers -> Texts] /\ values' \in [Readers -> Texts]
      BY <1>3, <2>1, <2>2
    <2>4. QED
      BY <1>2, <1>3, <2>2, <2>3
  <1>7. CASE AddId(t) \/ AddOther(t) \/ RegisterBean(t) \/ Construct(t) \/ RemoveBean(t)
    <2>1. UNCHANGED <<pipe, unended, names, values>>
      BY <1>7 DEF AddId, AddOther, RegisterBean, Construct, RemoveBean
    <2>2. QED
      BY <1>2, <1>3, <2>1
  <1>8. QED
    BY <1>4, <1>5, <1>6, <1>7 DEF Middle

Final(t) ==
    \/ WriteRefused(t) \/ ReadBroken(t) \/ AddFails(t) \/ ConstructFails(t) \/ RemoveFails(t)
    \/ ClearArguments(t)

LEMMA FinalSteps ==
    ASSUME ConversionTypes, NEW t \in Readers, Final(t)
    PROVE  /\ step[t] # "idle" /\ step'[t] = "idle"
           /\ step' \in [Readers -> Steps]
           /\ \A u \in Readers \ {t} : step'[u] = step[u]
           /\ Converting' = Converting \ {t} /\ together' = together \ {t}
           /\ UNCHANGED pipeVars
           /\ ConversionTypes'
  <1>1. Leave(t) /\ UNCHANGED pipeVars
    BY DEF Final, WriteRefused, ReadBroken, AddFails, ConstructFails, RemoveFails,
           ClearArguments, GiveUp
  <1>2. step[t] # "idle"
    BY DEF Final, WriteRefused, ReadBroken, AddFails, ConstructFails, RemoveFails,
           ClearArguments, Reading
  <1>3. /\ step \in [Readers -> Steps] /\ row \in [Readers -> Rows] /\ together \subseteq Converting
        /\ names \in [Readers -> Texts] /\ values \in [Readers -> Texts]
    BY DEF ConversionTypes
  <1>4. /\ step' \in [Readers -> Steps] /\ step'[t] = "idle"
        /\ \A u \in Readers \ {t} : step'[u] = step[u]
    BY <1>1, <1>3 DEF Leave, Steps
  <1>5. Converting' = Converting \ {t} /\ together' = together \ {t}
    BY <1>1, <1>4 DEF Converting, Leave
  <1>6. /\ row' \in [Readers -> Rows] /\ \A u \in Readers \ {t} : row'[u] = row[u]
    BY <1>1, <1>3, PieceTypes DEF Leave
  <1>7. names' \in [Readers -> Texts] /\ values' \in [Readers -> Texts]
    <2> DEFINE nothing == <<>>
    <2>1. nothing \in Texts
      BY PieceTypes
    <2>2. names' = [names EXCEPT ![t] = nothing] /\ values' = [values EXCEPT ![t] = nothing]
      BY <1>1 DEF Leave
    <2> HIDE DEF nothing
    <2>3. QED
      BY <1>3, <2>1, <2>2
  <1>8. \A u \in Converting' : row'[u].entity \in BeanTypes
    BY <1>5, <1>6 DEF ConversionTypes, Converting
  <1>9. together' \subseteq Converting'
    BY <1>3, <1>5
  <1>10. rowsRead' = rowsRead
    BY <1>1 DEF Leave
  <1>11. ConversionTypes'
    BY <1>1, <1>4, <1>6, <1>7, <1>8, <1>9, <1>10 DEF ConversionTypes
  <1>12. QED
    BY <1>1, <1>2, <1>4, <1>5, <1>11

\* A row is taken.
LEMMA BeginSteps ==
    ASSUME ConversionTypes, NEW t \in Readers, NEW e \in BeanTypes, GetBean(t, e)
    PROVE  /\ step[t] = "idle" /\ step'[t] = "end names"
           /\ step' \in [Readers -> Steps]
           /\ \A u \in Readers \ {t} : step'[u] = step[u]
           /\ Converting' = Converting \union {t}
           /\ pipe' = pipe /\ Ends(unended', Names(row'[t]))
           /\ ConversionTypes'
  <1>1. Go(t, "idle", "end names") /\ rowsRead < Len(Qualities) /\ rowsRead' = rowsRead + 1
    BY DEF GetBean, TakeRow
  <1>2. PICK quality \in Qualities[rowsRead + 1] :
           LET r == Row(e, rowsRead + 1, quality)
           IN  row' = [row EXCEPT ![t] = r] /\ Append1(t, Names(r))
    BY DEF GetBean
  <1> DEFINE r == Row(e, rowsRead + 1, quality)
  <1>3. rowsRead \in Nat /\ row \in [Readers -> Rows]
    BY DEF ConversionTypes
  <1>4. r \in Rows /\ r.entity = e
    BY <1>1, <1>3, NewRow DEF Row
  <1>5. row' = [row EXCEPT ![t] = r] /\ Append1(t, Names(r))
    BY <1>2
  <1> HIDE DEF r
  <1>6. Names(r) \in Pieces
    BY <1>4, PieceTypes
  <1>7. pipe' = pipe /\ unended' \in Texts /\ Ends(unended', Names(r))
    BY <1>5, <1>6, PieceWritten
  <1>8. /\ row' \in [Readers -> Rows] /\ row'[t] = r
        /\ \A u \in Readers \ {t} : row'[u] = row[u]
    BY <1>3, <1>4, <1>5
  <1>9. /\ step[t] = "idle" /\ step' \in [Readers -> Steps] /\ step'[t] = "end names"
        /\ \A u \in Readers \ {t} : step'[u] = step[u]
    BY <1>1, Moves DEF Steps
  <1>10. Converting' = Converting \union {t}
    BY <1>9 DEF Converting
  <1>11. together' \subseteq Converting'
    BY <1>10 DEF GetBean, ConversionTypes
  <1>12. \A u \in Converting' : row'[u].entity \in BeanTypes
    BY <1>4, <1>8, <1>10 DEF ConversionTypes, Converting
  <1>13. rowsRead' \in Nat
    <2>1. rowsRead \in Nat /\ rowsRead' = rowsRead + 1
      BY <1>1, <1>3
    <2>2. QED
      BY <2>1
  <1>14. UNCHANGED <<names, values>>
    BY DEF GetBean
  <1>15. ConversionTypes'
    BY <1>7, <1>8, <1>9, <1>11, <1>12, <1>13, <1>14 DEF ConversionTypes
  <1>16. QED
    BY <1>7, <1>8, <1>9, <1>10, <1>15

Aside(t) == NamesRefused(t) \/ WaitForLine(t) \/ EndThread(t)

\* Nothing of a conversion changes.
LEMMA AsideSteps ==
    ASSUME ConversionTypes, \/ \E t \in Readers : Aside(t)
                            \/ UNCHANGED conversionVars
    PROVE  /\ UNCHANGED <<pipe, unended, contextVars, step, readVars, together>>
           /\ Converting' = Converting /\ Reading' = Reading
           /\ ConversionTypes'
  <1>1. UNCHANGED <<pipe, unended, contextVars, step, readVars, together>>
    BY DEF Aside, NamesRefused, WaitForLine, EndThread, conversionVars
  <1>2. rowsRead \in Nat /\ (rowsRead' = rowsRead \/ rowsRead' = rowsRead + 1)
    BY DEF Aside, NamesRefused, TakeRow, WaitForLine, EndThread, conversionVars, ConversionTypes
  <1>3. rowsRead' \in Nat
    BY <1>2
  <1>4. Converting' = Converting /\ Reading' = Reading
    BY <1>1 DEF Converting, Reading
  <1>5. QED
    BY <1>1, <1>3, <1>4 DEF ConversionTypes

LEMMA AllSteps ==
    ASSUME [ConversionNext]_conversionVars
    PROVE  \/ \E t \in Readers : Middle(t) \/ Final(t)
           \/ \E t \in Readers, e \in BeanTypes : GetBean(t, e)
           \/ \E t \in Readers : Aside(t)
           \/ UNCHANGED conversionVars
  <1>1. Changing \subseteq BeanTypes
    BY ThreadNames
  <1>2. QED
    BY <1>1 DEF ConversionNext, Convert, Middle, Final, Aside, Readers
\* No step leaves a line in the pipe that nobody is about to read.
LEMMA StepPipe ==
    ASSUME ConversionTypes, PipeKept, [ConversionNext]_conversionVars
    PROVE  PipeKept'
  <1>0. pipe \in Seq(Texts) /\ Len(pipe) \in Nat /\ Cardinality(Reading) \in Nat
    BY LenProperties, ReadersCounted DEF ConversionTypes
  <1>1. ASSUME pipe' = pipe, Reading' = Reading PROVE PipeKept'
    BY <1>1 DEF PipeKept
  <1>2. ASSUME NEW t \in Readers, EndNames(t) \/ EndValues(t) PROVE PipeKept'
    <2>1. EndLine(t) /\ Middle(t)
      BY <1>2 DEF EndNames, EndValues, Middle
    <2>2. step[t] \in {"end names", "end values"} /\ step'[t] \in {"read names", "read values"}
      BY <1>2 DEF EndNames, EndValues, Go, ConversionTypes
    <2>3. t \notin Reading /\ Reading' = Reading \union {t}
      BY <2>1, <2>2, MiddleSteps DEF Reading
    <2>4. Len(pipe') <= Len(pipe) + 1 /\ Len(pipe') \in Nat
      BY <2>1, LineEnded, LenProperties
    <2>5. /\ IsFiniteSet(Reading \union {t})
          /\ Cardinality(Reading \union {t}) = Cardinality(Reading) + 1
      BY <2>3, ReadersCounted
    <2>6. Len(pipe) <= Cardinality(Reading)
      BY DEF PipeKept
    <2>7. Len(pipe') <= Cardinality(Reading) + 1
      BY <1>0, <2>4, <2>6
    <2>8. QED
      BY <2>3, <2>5, <2>7 DEF PipeKept
  <1>3. ASSUME NEW t \in Readers, ReadNames(t) \/ ReadValues(t) PROVE PipeKept'
    <2>1. PipeRead(t) /\ Middle(t)
      BY <1>3 DEF ReadNames, ReadValues, Middle
    <2>2. step[t] \in {"read names", "read values"} /\ step'[t] \in {"write values", "add id"}
      BY <1>3 DEF ReadNames, ReadValues, Go, ConversionTypes
    <2>3. t \in Reading /\ Reading' = Reading \ {t}
      BY <2>1, <2>2, MiddleSteps DEF Reading
    <2>4. Len(pipe') = Len(pipe) - 1
      BY <2>1, LineRead
    <2>5. IsFiniteSet(Reading \ {t}) /\ Cardinality(Reading \ {t}) = Cardinality(Reading) - 1
      BY <2>3, ReadersCounted
    <2>6. Len(pipe) <= Cardinality(Reading)
      BY DEF PipeKept
    <2>7. Len(pipe') <= Cardinality(Reading) - 1
      BY <1>0, <2>4, <2>6
    <2>8. QED
      BY <2>3, <2>5, <2>7 DEF PipeKept
  <1>4. ASSUME NEW t \in Readers,
               WriteValues(t) \/ AddId(t) \/ AddOther(t) \/ RegisterBean(t) \/ Construct(t)
               \/ RemoveBean(t)
        PROVE  PipeKept'
    <2>1. Middle(t) /\ pipe' = pipe
      BY <1>4 DEF WriteValues, AddId, AddOther, RegisterBean, Construct, RemoveBean, Middle,
                  Append1
    <2>2. /\ step[t] \in Steps \ {"read names", "read values"}
          /\ step'[t] \in Steps \ {"read names", "read values"}
      BY <1>4 DEF WriteValues, AddId, AddOther, RegisterBean, Construct, RemoveBean, Go,
                  ConversionTypes, Steps
    <2>3. Reading' = Reading
      BY <2>1, <2>2, MiddleSteps DEF Reading
    <2>4. QED
      BY <1>1, <2>1, <2>3
  <1>5. ASSUME NEW t \in Readers, Final(t), t \in Reading PROVE PipeKept'
    <2>1. pipe = <<>> /\ pipe' = pipe
      BY <1>5, FinalSteps DEF Final, WriteRefused, ReadBroken, AddFails, ConstructFails,
         RemoveFails, ClearArguments, Reading
    <2>2. Reading' = Reading \ {t}
      BY <1>5, FinalSteps DEF Reading
    <2>3. IsFiniteSet(Reading') /\ Cardinality(Reading') \in Nat
      BY <1>5, <2>2, ReadersCounted, FS_CardinalityType
    <2>4. Len(pipe') = 0
      BY <2>1
    <2>5. QED
      BY <2>3, <2>4 DEF PipeKept
  <1>6. ASSUME NEW t \in Readers, Final(t), t \notin Reading PROVE PipeKept'
    <2>1. pipe' = pipe /\ Reading' = Reading
      BY <1>6, FinalSteps DEF Reading
    <2>2. QED
      BY <1>1, <2>1
  <1>7. ASSUME NEW t \in Readers, NEW e \in BeanTypes, GetBean(t, e) PROVE PipeKept'
    <2>1. pipe' = pipe /\ Reading' = Reading
      BY <1>7, BeginSteps DEF Reading
    <2>2. QED
      BY <1>1, <2>1
  <1>8. CASE (\E t \in Readers : Aside(t)) \/ UNCHANGED conversionVars
    BY <1>1, <1>8, AsideSteps
  <1>9. QED
    BY <1>2, <1>3, <1>4, <1>5, <1>6, <1>7, <1>8, AllSteps DEF Middle

LEMMA StepTypes ==
    ASSUME ConversionTypes, [ConversionNext]_conversionVars
    PROVE  ConversionTypes'
  BY AllSteps, MiddleTypes, FinalSteps, BeginSteps, AsideSteps

-----------------------------------------------------------------------------
(***************************************************************************)
(* A thread that converts by itself.                                       *)
(***************************************************************************)

LEMMA LinesByItself ==
    ASSUME ConversionTypes, PipeKept, NEW t \in Readers, ByItself(t),
           \/ EndNames(t) \/ ReadNames(t) \/ WriteValues(t) \/ EndValues(t) \/ ReadValues(t)
    PROVE  ByItself(t)'
  <1>0. /\ Middle(t) /\ Converting = {t} /\ Converting' = {t} /\ row' = row
        /\ step \in [Readers -> Steps]
        /\ names \in [Readers -> Texts] /\ values \in [Readers -> Texts]
    BY MiddleSteps DEF Middle, ByItself, ConversionTypes
  <1>1. OwnValues(t)' = OwnValues(t)
    BY <1>0 DEF OwnValues
  <1>2. CASE EndNames(t)
    <2>1. step[t] = "end names" /\ step'[t] = "read names" /\ EndLine(t)
      BY <1>0, <1>2 DEF EndNames, Go
    <2>2. pipe = <<>>
      BY <1>0, <2>1, EmptyPipe DEF Reading, Converting
    <2>3. Ends(unended, Names(row[t])) /\ unended # <<>>
      BY <2>1 DEF ByItself, Ends
    <2>4. unended' = <<>> /\ pipe' # <<>> /\ Head(pipe') = unended
      BY <2>1, <2>2, <2>3, LineEnded
    <2>5. QED
      BY <1>0, <2>1, <2>3, <2>4 DEF ByItself
  <1>3. CASE ReadNames(t)
    <2>1. /\ step[t] = "read names" /\ step'[t] = "write values"
          /\ names' = [names EXCEPT ![t] = Head(pipe)] /\ beanClass' = row[t].entity
          /\ PipeRead(t)
      BY <1>0, <1>3 DEF ReadNames, Go
    <2>2. names'[t] = Head(pipe) /\ unended' = unended
      BY <1>0, <2>1 DEF PipeRead
    <2>3. Ends(Head(pipe), Names(row[t])) /\ unended = <<>>
      BY <2>1 DEF ByItself
    <2>4. QED
      BY <1>0, <2>1, <2>2, <2>3 DEF ByItself
  <1>4. CASE WriteValues(t)
    <2>1. /\ step[t] = "write values" /\ step'[t] = "end values"
          /\ Append1(t, Values(row[t])) /\ UNCHANGED <<names, beanClass>>
      BY <1>0, <1>4 DEF WriteValues, Go
    <2>2. Values(row[t]) \in Pieces
      BY PieceTypes DEF ConversionTypes
    <2>3. unended' = OwnValues(t)
      BY <2>1, <2>2, PieceWritten DEF ByItself, OwnValues
    <2>4. beanClass = row[t].entity /\ Ends(names[t], Names(row[t]))
      BY <2>1 DEF ByItself
    <2>5. QED
      BY <1>0, <1>1, <2>1, <2>3, <2>4 DEF ByItself
  <1>5. CASE EndValues(t)
    <2>1. /\ step[t] = "end values" /\ step'[t] = "read values" /\ EndLine(t)
          /\ UNCHANGED <<names, beanClass>>
      BY <1>0, <1>5 DEF EndValues, Go
    <2>2. pipe = <<>>
      BY <1>0, <2>1, EmptyPipe DEF Reading, Converting
    <2>3. unended = OwnValues(t)
      BY <2>1 DEF ByItself
    <2>4. unended # <<>>
      BY <2>3 DEF OwnValues
    <2>5. pipe' # <<>> /\ Head(pipe') = OwnValues(t)
      BY <2>1, <2>2, <2>3, <2>4, LineEnded
    <2>6. beanClass = row[t].entity /\ Ends(names[t], Names(row[t]))
      BY <2>1 DEF ByItself
    <2>7. QED
      BY <1>0, <1>1, <2>1, <2>5, <2>6 DEF ByItself
  <1>6. CASE ReadValues(t)
    <2>1. /\ step[t] = "read values" /\ step'[t] = "add id"
          /\ values' = [values EXCEPT ![t] = Head(pipe)] /\ UNCHANGED <<names, beanClass>>
      BY <1>0, <1>6 DEF ReadValues, Go
    <2>2. values'[t] = OwnValues(t)
      BY <1>0, <2>1 DEF ByItself
    <2>3. beanClass = row[t].entity /\ Ends(names[t], Names(row[t]))
      BY <2>1 DEF ByItself
    <2>4. QED
      BY <1>0, <1>1, <2>1, <2>2, <2>3 DEF ByItself
  <1>7. QED
    BY <1>2, <1>3, <1>4, <1>5, <1>6

LEMMA BeanByItself ==
    ASSUME ConversionTypes, NEW t \in Readers, ByItself(t),
           AddId(t) \/ AddOther(t) \/ RegisterBean(t) \/ Construct(t) \/ RemoveBean(t)
    PROVE  ByItself(t)'
  <1>0. /\ Middle(t) /\ Converting = {t} /\ Converting' = {t} /\ row' = row
        /\ step \in [Readers -> Steps]
        /\ UNCHANGED <<names, values, beanClass>>
    BY MiddleSteps DEF Middle, ByItself, ConversionTypes, AddId, AddOther, RegisterBean,
       Construct, RemoveBean
  <1>1. OwnValues(t)' = OwnValues(t)
    BY <1>0 DEF OwnValues
  <1>2. step[t] \in {"add id", "add other", "register", "construct", "remove"}
    BY DEF AddId, AddOther, RegisterBean, Construct, RemoveBean, Go
  <1>3. beanClass = row[t].entity /\ Ends(names[t], Names(row[t]))
    BY <1>2 DEF ByItself
  <1>4. names[t] \in Texts /\ row[t] \in Rows
    BY DEF ConversionTypes
  <1>5. CASE AddId(t)
    <2>1. /\ step[t] = "add id" /\ step'[t] = "add other"
          /\ cav' = Argument(FirstName(names[t]), values[t])
      BY <1>0, <1>5 DEF AddId, Go
    <2>2. values[t] = OwnValues(t)
      BY <2>1 DEF ByItself
    <2>3. IsNames(names[t]) => cav' = Argument("id", OwnValues(t))
      BY <1>3, <1>4, <2>1, <2>2, NamesTaken
    <2> DEFINE own == OwnValues(t)
    <2> HIDE DEF own
    <2>4. IsNames(names[t]) => "id" \in DOMAIN cav' /\ cav'["id"] = own
      BY <2>3 DEF Argument, own
    <2>5. QED
      BY <1>0, <1>1, <1>3, <2>1, <2>2, <2>4 DEF ByItself, own
  <1>6. CASE AddOther(t)
    <2>1. /\ step[t] = "add other" /\ step'[t] = "register"
          /\ Len(names[t]) <= Len(values[t])
          /\ cav' = Argument(OtherName(names[t]), values[t])
      BY <1>0, <1>6 DEF AddOther, Go
    <2>2. values[t] = OwnValues(t)
      BY <2>1 DEF ByItself
    <2>3. Len(names[t]) <= 1
      BY <2>1, <2>2, OnePiece DEF OwnValues
    <2>4. IsNames(names[t]) /\ OtherName(names[t]) = row[t].entity
      BY <1>3, <1>4, <2>3, NamesTaken
    <2>5. "id" \in DOMAIN cav /\ cav["id"] = OwnValues(t)
      BY <2>1, <2>4 DEF ByItself
    <2> DEFINE own == OwnValues(t)
               e == row[t].entity
    <2>6. cav' = Argument(e, own) /\ "id" \in DOMAIN cav /\ cav["id"] = own
      BY <2>1, <2>2, <2>4, <2>5
    <2> HIDE DEF own, e
    <2>7. \A c \in {"id", e} : c \in DOMAIN cav' /\ cav'[c] = own
      BY <2>6 DEF Argument
    <2>8. QED
      BY <1>0, <1>1, <1>3, <2>1, <2>7 DEF ByItself, own, e
  <1>7. CASE RegisterBean(t)
    <2>1. /\ step[t] = "register" /\ step'[t] = "construct" /\ cav' = cav
          /\ definition' = "registered"
      BY <1>0, <1>7 DEF RegisterBean, Go
    <2>2. \A c \in {"id", row[t].entity} : c \in DOMAIN cav /\ cav[c] = OwnValues(t)
      BY <2>1 DEF ByItself
    <2>3. QED
      BY <1>0, <1>1, <1>3, <2>1, <2>2 DEF ByItself
  <1>8. CASE Construct(t)
    <2>1. /\ step[t] = "construct" /\ step'[t] = "remove" /\ cav' = cav
          /\ definition = "made" \/ (definition = "registered" /\ Constructible)
      BY <1>0, <1>8 DEF Construct, Go
    <2>2. definition = "registered"
      BY <2>1 DEF ByItself
    <2>3. DOMAIN cav = {"id", beanClass}
      BY <2>1, <2>2 DEF Constructible
    <2>4. QED
      BY <1>0, <1>3, <2>1, <2>3 DEF ByItself
  <1>9. CASE RemoveBean(t)
    <2>1. step[t] = "remove" /\ step'[t] = "clear" /\ cav' = cav
      BY <1>0, <1>9 DEF RemoveBean, Go
    <2>2. DOMAIN cav = {"id", beanClass}
      BY <2>1 DEF ByItself
    <2>3. QED
      BY <1>0, <1>3, <2>1, <2>2 DEF ByItself
  <1>10. QED
    BY <1>5, <1>6, <1>7, <1>8, <1>9

LEMMA StepByItself ==
    ASSUME ConversionInv, [ConversionNext]_conversionVars,
           NEW t \in (Converting \ together)'
    PROVE  ByItself(t)'
  <1>0. /\ ConversionTypes /\ PipeKept
        /\ t \in Readers /\ t \notin together' /\ step'[t] # "idle"
        /\ t \in Converting \ together => ByItself(t)
    BY DEF ConversionInv, Converting
  <1>1. ASSUME NEW u \in Readers, Middle(u) PROVE ByItself(t)'
    <2>1. t \in Converting \ together /\ u \in Converting
      BY <1>0, <1>1, MiddleSteps DEF Converting
    <2>2. u = t /\ ByItself(t)
      BY <1>0, <2>1 DEF ByItself
    <2>3. QED
      BY <1>0, <1>1, <2>2, LinesByItself, BeanByItself DEF Middle
  <1>2. ASSUME NEW u \in Readers, Final(u) PROVE FALSE
    <2>1. t \in Converting \ together /\ u \in Converting /\ u # t
      BY <1>0, <1>2, FinalSteps DEF Converting
    <2>2. QED
      BY <1>0, <2>1 DEF ByItself
  <1>3. ASSUME NEW u \in Readers, NEW e \in BeanTypes, GetBean(u, e) PROVE ByItself(t)'
    <2>1. /\ Converting' = Converting \union {u} /\ step'[u] = "end names"
          /\ Ends(unended', Names(row'[u]))
      BY <1>0, <1>3, BeginSteps
    <2>2. Converting = {}
      BY <1>0, <1>3, <2>1 DEF GetBean
    <2>3. t = u /\ Converting' = {t}
      BY <2>1, <2>2
    <2>4. QED
      BY <2>1, <2>3 DEF ByItself
  <1>4. ASSUME (\E u \in Readers : Aside(u)) \/ UNCHANGED conversionVars PROVE ByItself(t)'
    <2>1. /\ UNCHANGED <<pipe, unended, contextVars, step, readVars, together>>
          /\ Converting' = Converting
      BY <1>0, <1>4, AsideSteps
    <2>2. ByItself(t)
      BY <1>0, <2>1
    <2>3. QED
      BY <2>1, <2>2 DEF ByItself, OwnValues
  <1>5. QED
    BY <1>1, <1>2, <1>3, <1>4, AllSteps

LEMMA ConversionInvariant == ConversionSpec => []ConversionInv
  <1>1. ConversionInv /\ [ConversionNext]_conversionVars => ConversionInv'
    <2> SUFFICES ASSUME ConversionInv, [ConversionNext]_conversionVars PROVE ConversionInv'
      OBVIOUS
    <2>1. ConversionTypes' /\ PipeKept'
      BY StepTypes, StepPipe DEF ConversionInv
    <2>2. \A t \in (Converting \ together)' : ByItself(t)'
      BY StepByItself
    <2>3. QED
      BY <2>1, <2>2 DEF ConversionInv
  <1>2. QED
    BY <1>1, InitConversion, PTL DEF ConversionSpec

-----------------------------------------------------------------------------
(***************************************************************************)
(* The theorems.                                                           *)
(***************************************************************************)

\* A thread that converted by itself constructs the bean from the values of its own
\* row, whatever the conversions before it left in the pipe, among the arguments and in
\* the context.
THEOREM BeansOfOwnRows == ConversionSpec => OwnRow
  <1>1. ASSUME ConversionInv, NEW t \in Readers, Construct(t), t \notin together
        PROVE  \A c \in DOMAIN cav : cav[c] = <<Values(row[t])>>
    <2>1. t \in Converting \ together /\ step[t] = "construct"
      BY <1>1 DEF Construct, Go, Converting
    <2>2. ByItself(t)
      BY <1>1, <2>1 DEF ConversionInv
    <2>3. /\ \A c \in {"id", row[t].entity} : c \in DOMAIN cav /\ cav[c] = OwnValues(t)
          /\ definition = "registered" /\ beanClass = row[t].entity
      BY <2>1, <2>2 DEF ByItself
    <2>4. DOMAIN cav = {"id", beanClass}
      BY <1>1, <2>3 DEF Construct, Constructible
    <2>5. QED
      BY <2>3, <2>4 DEF OwnValues
  <1>2. ConversionInv =>
          [\A t \in Readers :
              Construct(t) /\ t \notin together =>
                  \A c \in DOMAIN cav : cav[c] = <<Values(row[t])>>]_conversionVars
    BY <1>1
  <1>3. QED
    BY <1>2, ConversionInvariant, PTL DEF OwnRow

\* A pipe whose reader has ended refuses every line for ever while nobody waits for one;
\* arguments that fit no entity stay as long as no two threads convert at a time.
THEOREM NeverRepairedAlone == ConversionSpec => StaysBroken
  <1>1. ASSUME ConversionTypes, Deaf, [ConversionNext]_conversionVars PROVE Deaf'
    <2>1. readSide = Ended /\ Reading = {}
      BY <1>1 DEF Deaf
    <2>2. ASSUME NEW t \in Readers, Middle(t) PROVE Deaf'
      <3>1. ~(EndNames(t) \/ EndValues(t) \/ WriteValues(t))
        BY <2>1 DEF EndNames, EndValues, WriteValues, EndLine, Append1
      <3>2. ~(ReadNames(t) \/ ReadValues(t))
        BY <2>1 DEF ReadNames, ReadValues, Go, Reading
      <3>3. AddId(t) \/ AddOther(t) \/ RegisterBean(t) \/ Construct(t) \/ RemoveBean(t)
        BY <2>2, <3>1, <3>2 DEF Middle
      <3>4. step'[t] \notin {"read names", "read values"} /\ readSide' = readSide
        BY <1>1, <3>3 DEF AddId, AddOther, RegisterBean, Construct, RemoveBean, Go, ConversionTypes
      <3>5. Reading' = {}
        BY <1>1, <2>1, <2>2, <3>4, MiddleSteps DEF Reading
      <3>6. QED
        BY <2>1, <3>4, <3>5 DEF Deaf
    <2>3. ASSUME NEW t \in Readers, Final(t) PROVE Deaf'
      BY <1>1, <2>1, <2>3, FinalSteps DEF Deaf, Reading
    <2>4. ASSUME NEW t \in Readers, NEW e \in BeanTypes, GetBean(t, e) PROVE FALSE
      BY <2>1, <2>4 DEF GetBean, Append1
    <2>5. ASSUME NEW t \in Readers, Aside(t) PROVE Deaf'
      <3>1. readSide' = Ended
        BY <2>1, <2>5 DEF Aside, NamesRefused, WaitForLine, EndThread
      <3>2. QED
        BY <1>1, <2>1, <2>5, <3>1, AsideSteps DEF Deaf
    <2>6. CASE UNCHANGED conversionVars
      BY <2>1, <2>6 DEF conversionVars, Deaf, Reading
    <2>7. QED
      BY <1>1, <2>2, <2>3, <2>4, <2>5, <2>6, AllSteps
  <1>2. ASSUME ConversionInv, Cluttered, together = {}, [ConversionNext]_conversionVars
        PROVE  Cluttered'
    <2>1. ConversionTypes /\ \A t \in Converting : ByItself(t)
      BY <1>2 DEF ConversionInv
    <2>2. \A e \in BeanTypes : ~(DOMAIN cav \subseteq {"id", e})
      BY <1>2 DEF Cluttered
    <2>3. ASSUME DOMAIN cav \subseteq DOMAIN cav' PROVE Cluttered'
      BY <2>2, <2>3 DEF Cluttered
    <2>4. ASSUME NEW t \in Readers, ClearArguments(t) PROVE FALSE
      <3>1. step[t] = "clear" /\ t \in Converting
        BY <2>4 DEF ClearArguments, Converting
      <3>2. ByItself(t) /\ row[t].entity \in BeanTypes
        BY <2>1, <3>1 DEF ConversionTypes
      <3>3. DOMAIN cav = {"id", beanClass} /\ beanClass = row[t].entity
        BY <3>1, <3>2 DEF ByItself
      <3>4. QED
        BY <2>2, <3>2, <3>3
    <2>5. ASSUME NEW t \in Readers, Middle(t) \/ (Final(t) /\ ~ClearArguments(t)) \/ Aside(t)
          PROVE  DOMAIN cav \subseteq DOMAIN cav'
      <3>1. CASE AddId(t) \/ AddOther(t)
        <4>1. PICK c, text : cav' = Argument(c, text)
          BY <3>1 DEF AddId, AddOther
        <4>2. QED
          BY <4>1 DEF Argument
      <3>2. CASE ~(AddId(t) \/ AddOther(t))
        <4>1. cav' = cav
          BY <2>5, <3>2 DEF Middle, EndNames, ReadNames, WriteValues, EndValues, ReadValues,
             RegisterBean, Construct, RemoveBean, Final, WriteRefused, ReadBroken, AddFails,
             ConstructFails, RemoveFails, GiveUp, Aside, NamesRefused, WaitForLine, EndThread
        <4>2. QED
          BY <4>1
      <3>3. QED
        BY <3>1, <3>2
    <2>6. ASSUME NEW t \in Readers, NEW e \in BeanTypes, GetBean(t, e) PROVE cav' = cav
      BY <2>6 DEF GetBean
    <2>7. UNCHANGED conversionVars => cav' = cav
      BY DEF conversionVars
    <2>8. QED
      BY <1>2, <2>3, <2>4, <2>5, <2>6, <2>7, AllSteps
  <1>3. ConversionInv /\ [ConversionNext]_conversionVars =>
          [/\ Deaf => Deaf'
           /\ Cluttered /\ together = {} => Cluttered']_conversionVars
    BY <1>1, <1>2 DEF ConversionInv
  <1>4. QED
    BY <1>3, ConversionInvariant, PTL DEF StaysBroken, ConversionSpec
=============================================================================
