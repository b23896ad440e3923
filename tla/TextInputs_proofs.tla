------------------------- MODULE TextInputs_proofs -------------------------
(***************************************************************************)
(* What is true of every input: ids and requests by RowQueries_proofs, and *)
(* in this module texts of any length, of any runs of ordinary characters. *)
(***************************************************************************)
EXTENDS TextInputs, RowQueries_proofs

-----------------------------------------------------------------------------
(***************************************************************************)
(* The readers of a text, as loops over its tokens.                        *)
(***************************************************************************)
Tokens == Special \union Runs \union {"id", "a", "b"}
States == {"start", "plain", "quoted", "closing", "error"}

Val == Seq(Tokens)
Entry == Seq(Val)
Entries == Seq(Entry)

ArrayReaders == [state : States, value : Val, entry : Entry, data : Entries]
LineReaders == [state : States, value : Val, entry : Val, data : Entry]

ArrayStep(reader, token) ==
    IF Outside(reader) /\ token = Comma THEN EndOfValue(reader)
    ELSE IF Outside(reader) /\ token = Newline THEN EndOfEntry(EndOfValue(reader))
    ELSE Read(reader, token)

LineStep(reader, token) ==
    IF Outside(reader) /\ token = Newline THEN EndOfEntry(reader)
    ELSE [reader EXCEPT !.state = After(@, token),
                        !.entry = IF Outside(reader) /\ token = Return THEN @ ELSE Append(@, token)]

EntryStep(reader, token) ==
    IF Outside(reader) /\ token = Comma THEN EndOfValue(reader)
    ELSE IF Outside(reader) /\ token \in {Newline, Return} THEN reader
    ELSE Read(reader, token)

ArrayDelta == [p \in ArrayReaders \X Tokens |-> ArrayStep(p[1], p[2])]
LineDelta == [p \in LineReaders \X Tokens |-> LineStep(p[1], p[2])]
EntryDelta == [p \in ArrayReaders \X Tokens |-> EntryStep(p[1], p[2])]
AfterDelta == [p \in States \X Tokens |-> After(p[1], p[2])]

LEMMA ValueTypes ==
    /\ <<>> \in Val /\ <<>> \in Entry /\ <<>> \in Entries
    /\ \A v \in Val, c \in Tokens : Append(v, c) \in Val
    /\ \A e \in Entry, v \in Val : Append(e, v) \in Entry
    /\ \A d \in Entries, e \in Entry : Append(d, e) \in Entries
  <1>1. <<>> \in Val /\ \A v \in Val, c \in Tokens : Append(v, c) \in Val
    BY DEF Val
  <1>2. <<>> \in Entry /\ \A e \in Entry, v \in Val : Append(e, v) \in Entry
    BY DEF Entry
  <1>3. <<>> \in Entries /\ \A d \in Entries, e \in Entry : Append(d, e) \in Entries
    BY DEF Entries
  <1>4. QED
    BY <1>1, <1>2, <1>3

LEMMA AfterType == \A s \in States : \A c : After(s, c) \in States
  BY DEF After, States

LEMMA ReadTypes ==
    /\ \A r \in ArrayReaders, c \in Tokens : Read(r, c) \in ArrayReaders
    /\ \A r \in ArrayReaders : EndOfValue(r) \in ArrayReaders
    /\ \A r \in ArrayReaders : EndOfEntry(r) \in ArrayReaders
    /\ \A r \in LineReaders : EndOfEntry(r) \in LineReaders
    /\ Reader \in ArrayReaders /\ Reader \in LineReaders
  <1>1. ASSUME NEW r \in ArrayReaders, NEW c \in Tokens PROVE Read(r, c) \in ArrayReaders
    <2>1. After(r.state, c) \in States /\ Append(r.value, c) \in Val
      BY AfterType, ValueTypes DEF ArrayReaders
    <2>2. QED
      BY <2>1 DEF Read, ArrayReaders
  <1>2. ASSUME NEW r \in ArrayReaders PROVE EndOfValue(r) \in ArrayReaders
    <2>1. "start" \in States /\ Append(r.entry, r.value) \in Entry /\ <<>> \in Val
      BY ValueTypes DEF ArrayReaders, States
    <2>2. QED
      BY <2>1 DEF EndOfValue, ArrayReaders
  <1>3. ASSUME NEW r \in ArrayReaders PROVE EndOfEntry(r) \in ArrayReaders
    <2>1. "start" \in States /\ Append(r.data, r.entry) \in Entries /\ <<>> \in Entry
      BY ValueTypes DEF ArrayReaders, States
    <2>2. QED
      BY <2>1 DEF EndOfEntry, ArrayReaders
  <1>4. ASSUME NEW r \in LineReaders PROVE EndOfEntry(r) \in LineReaders
    <2>1. "start" \in States /\ Append(r.data, r.entry) \in Entry /\ <<>> \in Val
      BY ValueTypes DEF LineReaders, States
    <2>2. QED
      BY <2>1 DEF EndOfEntry, LineReaders
  <1>5. Reader \in ArrayReaders /\ Reader \in LineReaders
    BY ValueTypes DEF Reader, ArrayReaders, LineReaders, States
  <1>6. QED
    BY <1>1, <1>2, <1>3, <1>4, <1>5

LEMMA ArrayLoop ==
    /\ IsLoop(ArrayReaders, Tokens, Reader, ArrayDelta)
    /\ \A r \in ArrayReaders, c \in Tokens : ArrayDelta[<<r, c>>] = ArrayStep(r, c)
  <1>1. \A r \in ArrayReaders, c \in Tokens : ArrayStep(r, c) \in ArrayReaders
    BY ReadTypes DEF ArrayStep
  <1>2. ArrayDelta \in [ArrayReaders \X Tokens -> ArrayReaders]
    BY <1>1 DEF ArrayDelta
  <1>3. QED
    BY <1>2, ReadTypes DEF IsLoop, ArrayDelta

LEMMA EntryLoop ==
    /\ IsLoop(ArrayReaders, Tokens, Reader, EntryDelta)
    /\ \A r \in ArrayReaders, c \in Tokens : EntryDelta[<<r, c>>] = EntryStep(r, c)
  <1>1. \A r \in ArrayReaders, c \in Tokens : EntryStep(r, c) \in ArrayReaders
    BY ReadTypes DEF EntryStep
  <1>2. EntryDelta \in [ArrayReaders \X Tokens -> ArrayReaders]
    BY <1>1 DEF EntryDelta
  <1>3. QED
    BY <1>2, ReadTypes DEF IsLoop, EntryDelta

LEMMA LineLoop ==
    /\ IsLoop(LineReaders, Tokens, Reader, LineDelta)
    /\ \A r \in LineReaders, c \in Tokens : LineDelta[<<r, c>>] = LineStep(r, c)
  <1>1. ASSUME NEW r \in LineReaders, NEW c \in Tokens PROVE LineStep(r, c) \in LineReaders
    <2>1. After(r.state, c) \in States /\ Append(r.entry, c) \in Val /\ r.entry \in Val
      BY AfterType, ValueTypes DEF LineReaders
    <2>2. EndOfEntry(r) \in LineReaders
      BY ReadTypes
    <2>3. QED
      BY <2>1, <2>2 DEF LineStep, LineReaders
  <1>2. LineDelta \in [LineReaders \X Tokens -> LineReaders]
    BY <1>1 DEF LineDelta
  <1>3. QED
    BY <1>2, ReadTypes DEF IsLoop, LineDelta

LEMMA AfterLoop ==
    /\ IsLoop(States, Tokens, "start", AfterDelta)
    /\ \A s \in States, c \in Tokens : AfterDelta[<<s, c>>] = After(s, c)
  <1>1. AfterDelta \in [States \X Tokens -> States]
    BY AfterType DEF AfterDelta
  <1>2. "start" \in States
    BY DEF States
  <1>3. QED
    BY <1>1, <1>2 DEF IsLoop, AfterDelta

ClosedArrays(reader) ==
    IF reader.state # "error" /\ reader.entry # <<>> THEN EndOfEntry(EndOfValue(reader)) ELSE reader

ClosedLines(reader) ==
    IF reader.state # "error" /\ reader.entry # <<>> THEN EndOfEntry(reader) ELSE reader

LEMMA ToArraysIsRun ==
    ASSUME NEW text \in Seq(Tokens)
    PROVE  ToArrays(text) = ClosedArrays(Run(Reader, ArrayDelta, text))
  <1> DEFINE n == Len(text)
             Eq(g) == g = [t \in SUBSET (DOMAIN text) |->
                             IF t = {} THEN Reader
                             ELSE ArrayStep(g[t \ {Max(t)}], text[Max(t)])]
             fold == (CHOOSE g : Eq(g))[DOMAIN text]
  <1>1. ToArrays(text) = ClosedArrays(fold)
    BY DEF ToArrays, ClosedArrays, ArrayStep, FoldLeft, MapThenFoldSet
  <1>2. DOMAIN text = 1..n /\ n \in Nat /\ \A i \in 1..n : text[i] \in Tokens
    OBVIOUS
  <1>3. IsLoop(ArrayReaders, Tokens, Reader, ArrayDelta) /\ \A r \in ArrayReaders, c \in Tokens : ArrayDelta[<<r, c>>] = ArrayStep(r, c)
    BY ArrayLoop
  <1>4. Len(text) = n
    OBVIOUS
  <1> HIDE DEF n
  <1>5. PICK g \in [SUBSET (1..Len(text)) -> ArrayReaders] : FoldsSeq(g, Reader, ArrayDelta, text)
    BY <1>3, FoldOfLoop
  <1>6. \A t \in SUBSET (1..n) : t # {} => Max(t) \in 1..n /\ t \ {Max(t)} \in SUBSET (1..n)
    BY <1>2, LargestOf
  <1>7. Eq(g)
    <2>1. ASSUME NEW t \in SUBSET (1..n)
          PROVE  g[t] = IF t = {} THEN Reader ELSE ArrayStep(g[t \ {Max(t)}], text[Max(t)])
      <3>1. g[t] = IF t = {} THEN Reader ELSE ArrayDelta[<<g[t \ {Max(t)}], text[Max(t)]>>]
        BY <1>4, <1>5 DEF FoldsSeq
      <3>2. CASE t = {}
        BY <3>1, <3>2
      <3>3. CASE t # {}
        <4>1. text[Max(t)] \in Tokens /\ g[t \ {Max(t)}] \in ArrayReaders
          BY <1>2, <1>4, <1>5, <1>6, <3>3
        <4>2. QED
          BY <1>3, <3>1, <3>3, <4>1
      <3>4. QED
        BY <3>2, <3>3
    <2>2. g = [t \in SUBSET (1..n) |-> g[t]]
      BY <1>4, <1>5
    <2>3. QED
      BY <1>2, <2>1, <2>2
  <1>8. Eq(CHOOSE h : Eq(h))
    BY <1>7
  <1>9. ASSUME NEW h, Eq(h) PROVE h[1..n] = Run(Reader, ArrayDelta, text)
    <2>1. h[{}] = Reader
      BY <1>2, <1>9
    <2>2. ASSUME NEW t \in SUBSET (1..n), t # {}, h[t \ {Max(t)}] \in ArrayReaders
          PROVE  h[t] = ArrayDelta[<<h[t \ {Max(t)}], text[Max(t)]>>]
      <3>1. h[t] = ArrayStep(h[t \ {Max(t)}], text[Max(t)])
        BY <1>2, <1>9, <2>2
      <3>2. text[Max(t)] \in Tokens
        BY <1>2, <1>6, <2>2
      <3>3. QED
        BY <1>3, <2>2, <3>1, <3>2
    <2>3. FoldsWithin(h, ArrayReaders, Reader, ArrayDelta, text)
      BY <1>4, <2>1, <2>2 DEF FoldsWithin
    <2> HIDE DEF Eq
    <2>4. h[1..Len(text)] = Run(Reader, ArrayDelta, text)
      BY <1>3, <2>3, FoldIsRun
    <2>5. QED
      BY <1>4, <2>4
  <1>10. fold = Run(Reader, ArrayDelta, text)
    <2> HIDE DEF Eq
    <2>1. QED
      BY <1>2, <1>8, <1>9
  <1> HIDE DEF fold
  <1>11. QED
    BY <1>1, <1>10

LEMMA SplitLinesIsRun ==
    ASSUME NEW text \in Seq(Tokens)
    PROVE  SplitLines(text) = ClosedLines(Run(Reader, LineDelta, text))
  <1> DEFINE n == Len(text)
             Eq(g) == g = [t \in SUBSET (DOMAIN text) |->
                             IF t = {} THEN Reader
                             ELSE LineStep(g[t \ {Max(t)}], text[Max(t)])]
             fold == (CHOOSE g : Eq(g))[DOMAIN text]
  <1>1. SplitLines(text) = ClosedLines(fold)
    BY DEF SplitLines, ClosedLines, LineStep, FoldLeft, MapThenFoldSet
  <1>2. DOMAIN text = 1..n /\ n \in Nat /\ \A i \in 1..n : text[i] \in Tokens
    OBVIOUS
  <1>3. IsLoop(LineReaders, Tokens, Reader, LineDelta) /\ \A r \in LineReaders, c \in Tokens : LineDelta[<<r, c>>] = LineStep(r, c)
    BY LineLoop
  <1>4. Len(text) = n
    OBVIOUS
  <1> HIDE DEF n
  <1>5. PICK g \in [SUBSET (1..Len(text)) -> LineReaders] : FoldsSeq(g, Reader, LineDelta, text)
    BY <1>3, FoldOfLoop
  <1>6. \A t \in SUBSET (1..n) : t # {} => Max(t) \in 1..n /\ t \ {Max(t)} \in SUBSET (1..n)
    BY <1>2, LargestOf
  <1>7. Eq(g)
    <2>1. ASSUME NEW t \in SUBSET (1..n)
          PROVE  g[t] = IF t = {} THEN Reader ELSE LineStep(g[t \ {Max(t)}], text[Max(t)])
      <3>1. g[t] = IF t = {} THEN Reader ELSE LineDelta[<<g[t \ {Max(t)}], text[Max(t)]>>]
        BY <1>4, <1>5 DEF FoldsSeq
      <3>2. CASE t = {}
        BY <3>1, <3>2
      <3>3. CASE t # {}
        <4>1. text[Max(t)] \in Tokens /\ g[t \ {Max(t)}] \in LineReaders
          BY <1>2, <1>4, <1>5, <1>6, <3>3
        <4>2. QED
          BY <1>3, <3>1, <3>3, <4>1
      <3>4. QED
        BY <3>2, <3>3
    <2>2. g = [t \in SUBSET (1..n) |-> g[t]]
      BY <1>4, <1>5
    <2>3. QED
      BY <1>2, <2>1, <2>2
  <1>8. Eq(CHOOSE h : Eq(h))
    BY <1>7
  <1>9. ASSUME NEW h, Eq(h) PROVE h[1..n] = Run(Reader, LineDelta, text)
    <2>1. h[{}] = Reader
      BY <1>2, <1>9
    <2>2. ASSUME NEW t \in SUBSET (1..n), t # {}, h[t \ {Max(t)}] \in LineReaders
          PROVE  h[t] = LineDelta[<<h[t \ {Max(t)}], text[Max(t)]>>]
      <3>1. h[t] = LineStep(h[t \ {Max(t)}], text[Max(t)])
        BY <1>2, <1>9, <2>2
      <3>2. text[Max(t)] \in Tokens
        BY <1>2, <1>6, <2>2
      <3>3. QED
        BY <1>3, <2>2, <3>1, <3>2
    <2>3. FoldsWithin(h, LineReaders, Reader, LineDelta, text)
      BY <1>4, <2>1, <2>2 DEF FoldsWithin
    <2> HIDE DEF Eq
    <2>4. h[1..Len(text)] = Run(Reader, LineDelta, text)
      BY <1>3, <2>3, FoldIsRun
    <2>5. QED
      BY <1>4, <2>4
  <1>10. fold = Run(Reader, LineDelta, text)
    <2> HIDE DEF Eq
    <2>1. QED
      BY <1>2, <1>8, <1>9
  <1> HIDE DEF fold
  <1>11. QED
    BY <1>1, <1>10

LEMMA ParseEntryIsRun ==
    ASSUME NEW line \in Seq(Tokens)
    PROVE  ParseEntry(line) = EndOfValue(Run(Reader, EntryDelta, line)).entry
  <1> DEFINE n == Len(line)
             Eq(g) == g = [t \in SUBSET (DOMAIN line) |->
                             IF t = {} THEN Reader
                             ELSE EntryStep(g[t \ {Max(t)}], line[Max(t)])]
             fold == (CHOOSE g : Eq(g))[DOMAIN line]
  <1>1. ParseEntry(line) = EndOfValue(fold).entry
    BY DEF ParseEntry, EntryStep, FoldLeft, MapThenFoldSet
  <1>2. DOMAIN line = 1..n /\ n \in Nat /\ \A i \in 1..n : line[i] \in Tokens
    OBVIOUS
  <1>3. IsLoop(ArrayReaders, Tokens, Reader, EntryDelta) /\ \A r \in ArrayReaders, c \in Tokens : EntryDelta[<<r, c>>] = EntryStep(r, c)
    BY EntryLoop
  <1>4. Len(line) = n
    OBVIOUS
  <1> HIDE DEF n
  <1>5. PICK g \in [SUBSET (1..Len(line)) -> ArrayReaders] : FoldsSeq(g, Reader, EntryDelta, line)
    BY <1>3, FoldOfLoop
  <1>6. \A t \in SUBSET (1..n) : t # {} => Max(t) \in 1..n /\ t \ {Max(t)} \in SUBSET (1..n)
    BY <1>2, LargestOf
  <1>7. Eq(g)
    <2>1. ASSUME NEW t \in SUBSET (1..n)
          PROVE  g[t] = IF t = {} THEN Reader ELSE EntryStep(g[t \ {Max(t)}], line[Max(t)])
      <3>1. g[t] = IF t = {} THEN Reader ELSE EntryDelta[<<g[t \ {Max(t)}], line[Max(t)]>>]
        BY <1>4, <1>5 DEF FoldsSeq
      <3>2. CASE t = {}
        BY <3>1, <3>2
      <3>3. CASE t # {}
        <4>1. line[Max(t)] \in Tokens /\ g[t \ {Max(t)}] \in ArrayReaders
          BY <1>2, <1>4, <1>5, <1>6, <3>3
        <4>2. QED
          BY <1>3, <3>1, <3>3, <4>1
      <3>4. QED
        BY <3>2, <3>3
    <2>2. g = [t \in SUBSET (1..n) |-> g[t]]
      BY <1>4, <1>5
    <2>3. QED
      BY <1>2, <2>1, <2>2
  <1>8. Eq(CHOOSE h : Eq(h))
    BY <1>7
  <1>9. ASSUME NEW h, Eq(h) PROVE h[1..n] = Run(Reader, EntryDelta, line)
    <2>1. h[{}] = Reader
      BY <1>2, <1>9
    <2>2. ASSUME NEW t \in SUBSET (1..n), t # {}, h[t \ {Max(t)}] \in ArrayReaders
          PROVE  h[t] = EntryDelta[<<h[t \ {Max(t)}], line[Max(t)]>>]
      <3>1. h[t] = EntryStep(h[t \ {Max(t)}], line[Max(t)])
        BY <1>2, <1>9, <2>2
      <3>2. line[Max(t)] \in Tokens
        BY <1>2, <1>6, <2>2
      <3>3. QED
        BY <1>3, <2>2, <3>1, <3>2
    <2>3. FoldsWithin(h, ArrayReaders, Reader, EntryDelta, line)
      BY <1>4, <2>1, <2>2 DEF FoldsWithin
    <2> HIDE DEF Eq
    <2>4. h[1..Len(line)] = Run(Reader, EntryDelta, line)
      BY <1>3, <2>3, FoldIsRun
    <2>5. QED
      BY <1>4, <2>4
  <1>10. fold = Run(Reader, EntryDelta, line)
    <2> HIDE DEF Eq
    <2>1. QED
      BY <1>2, <1>8, <1>9
  <1> HIDE DEF fold
  <1>11. QED
    BY <1>1, <1>10

LEMMA AfterIsRun ==
    ASSUME NEW text \in Seq(Tokens)
    PROVE  FoldLeft(After, "start", text) = Run("start", AfterDelta, text)
  <1> DEFINE n == Len(text)
             Eq(g) == g = [t \in SUBSET (DOMAIN text) |->
                             IF t = {} THEN "start"
                             ELSE After(g[t \ {Max(t)}], text[Max(t)])]
             fold == (CHOOSE g : Eq(g))[DOMAIN text]
  <1>1. FoldLeft(After, "start", text) = fold
    BY DEF FoldLeft, MapThenFoldSet
  <1>2. DOMAIN text = 1..n /\ n \in Nat /\ \A i \in 1..n : text[i] \in Tokens
    OBVIOUS
  <1>3. IsLoop(States, Tokens, "start", AfterDelta) /\ \A r \in States, c \in Tokens : AfterDelta[<<r, c>>] = After(r, c)
    BY AfterLoop
  <1>4. Len(text) = n
    OBVIOUS
  <1> HIDE DEF n
  <1>5. PICK g \in [SUBSET (1..Len(text)) -> States] : FoldsSeq(g, "start", AfterDelta, text)
    BY <1>3, FoldOfLoop
  <1>6. \A t \in SUBSET (1..n) : t # {} => Max(t) \in 1..n /\ t \ {Max(t)} \in SUBSET (1..n)
    BY <1>2, LargestOf
  <1>7. Eq(g)
    <2>1. ASSUME NEW t \in SUBSET (1..n)
          PROVE  g[t] = IF t = {} THEN "start" ELSE After(g[t \ {Max(t)}], text[Max(t)])
      <3>1. g[t] = IF t = {} THEN "start" ELSE AfterDelta[<<g[t \ {Max(t)}], text[Max(t)]>>]
        BY <1>4, <1>5 DEF FoldsSeq
      <3>2. CASE t = {}
        BY <3>1, <3>2
      <3>3. CASE t # {}
        <4>1. text[Max(t)] \in Tokens /\ g[t \ {Max(t)}] \in States
          BY <1>2, <1>4, <1>5, <1>6, <3>3
        <4>2. QED
          BY <1>3, <3>1, <3>3, <4>1
      <3>4. QED
        BY <3>2, <3>3
    <2>2. g = [t \in SUBSET (1..n) |-> g[t]]
      BY <1>4, <1>5
    <2>3. QED
      BY <1>2, <2>1, <2>2
  <1>8. Eq(CHOOSE h : Eq(h))
    BY <1>7
  <1>9. ASSUME NEW h, Eq(h) PROVE h[1..n] = Run("start", AfterDelta, text)
    <2>1. h[{}] = "start"
      BY <1>2, <1>9
    <2>2. ASSUME NEW t \in SUBSET (1..n), t # {}, h[t \ {Max(t)}] \in States
          PROVE  h[t] = AfterDelta[<<h[t \ {Max(t)}], text[Max(t)]>>]
      <3>1. h[t] = After(h[t \ {Max(t)}], text[Max(t)])
        BY <1>2, <1>9, <2>2
      <3>2. text[Max(t)] \in Tokens
        BY <1>2, <1>6, <2>2
      <3>3. QED
        BY <1>3, <2>2, <3>1, <3>2
    <2>3. FoldsWithin(h, States, "start", AfterDelta, text)
      BY <1>4, <2>1, <2>2 DEF FoldsWithin
    <2> HIDE DEF Eq
    <2>4. h[1..Len(text)] = Run("start", AfterDelta, text)
      BY <1>3, <2>3, FoldIsRun
    <2>5. QED
      BY <1>4, <2>4
  <1>10. fold = Run("start", AfterDelta, text)
    <2> HIDE DEF Eq
    <2>1. QED
      BY <1>2, <1>8, <1>9
  <1> HIDE DEF fold
  <1>11. QED
    BY <1>1, <1>10

LEMMA SpecialTokens ==
    /\ Comma # Quote /\ Comma # Newline /\ Comma # Return
    /\ Quote # Newline /\ Quote # Return /\ Newline # Return
    /\ Comma \in Special /\ Quote \in Special /\ Newline \in Special /\ Return \in Special
    /\ Special \subseteq Tokens
  <1>1. /\ Comma # Quote /\ Comma # Newline /\ Comma # Return
        /\ Quote # Newline /\ Quote # Return /\ Newline # Return
    BY DEF Comma, Quote, Newline, Return
  <1>2. QED
    BY <1>1 DEF Special, Tokens

\* What the readers have after a text.
AsArrays(text) == Run(Reader, ArrayDelta, text)
AsLines(text) == Run(Reader, LineDelta, text)
AsEntry(line) == Run(Reader, EntryDelta, line)
StateAfter(text) == Run("start", AfterDelta, text)

LEMMA ReaderSteps ==
    /\ AsArrays(<<>>) = Reader /\ AsLines(<<>>) = Reader /\ AsEntry(<<>>) = Reader
    /\ StateAfter(<<>>) = "start"
    /\ \A text \in Val : /\ AsArrays(text) \in ArrayReaders /\ AsLines(text) \in LineReaders
                         /\ AsEntry(text) \in ArrayReaders /\ StateAfter(text) \in States
    /\ \A text \in Val, c \in Tokens :
          /\ AsArrays(Append(text, c)) = ArrayStep(AsArrays(text), c)
          /\ AsLines(Append(text, c)) = LineStep(AsLines(text), c)
          /\ AsEntry(Append(text, c)) = EntryStep(AsEntry(text), c)
          /\ StateAfter(Append(text, c)) = After(StateAfter(text), c)
  <1>1. /\ AsArrays(<<>>) = Reader
        /\ \A text \in Val : AsArrays(text) \in ArrayReaders
        /\ \A text \in Val, c \in Tokens :
              AsArrays(Append(text, c)) = ArrayDelta[<<AsArrays(text), c>>]
    BY ArrayLoop, RunSteps DEF AsArrays, Val
  <1>2. /\ AsLines(<<>>) = Reader
        /\ \A text \in Val : AsLines(text) \in LineReaders
        /\ \A text \in Val, c \in Tokens :
              AsLines(Append(text, c)) = LineDelta[<<AsLines(text), c>>]
    BY LineLoop, RunSteps DEF AsLines, Val
  <1>3. /\ AsEntry(<<>>) = Reader
        /\ \A text \in Val : AsEntry(text) \in ArrayReaders
        /\ \A text \in Val, c \in Tokens :
              AsEntry(Append(text, c)) = EntryDelta[<<AsEntry(text), c>>]
    BY EntryLoop, RunSteps DEF AsEntry, Val
  <1>4. /\ StateAfter(<<>>) = "start"
        /\ \A text \in Val : StateAfter(text) \in States
        /\ \A text \in Val, c \in Tokens :
              StateAfter(Append(text, c)) = AfterDelta[<<StateAfter(text), c>>]
    BY AfterLoop, RunSteps DEF StateAfter, Val
  <1>5. QED
    BY <1>1, <1>2, <1>3, <1>4, ArrayLoop, LineLoop, EntryLoop, AfterLoop

\* The readings of a text so far match: by its entries, and by its values.
Alike(l, a, p, s) ==
    /\ l.state = a.state /\ p.state = a.state /\ s = a.state
    /\ p.value = a.value /\ p.entry = a.entry
    /\ a.data = [n \in DOMAIN l.data |-> ParseEntry(l.data[n])]

LEMMA AlikeAfterValue ==
    ASSUME NEW l \in LineReaders, NEW a \in ArrayReaders, NEW p \in ArrayReaders, NEW s,
           Alike(l, a, p, s), Outside(a)
    PROVE  Alike(LineStep(l, Comma), ArrayStep(a, Comma), EntryStep(p, Comma), After(s, Comma))
  <1>1. Comma # Newline /\ Comma # Return
    BY SpecialTokens
  <1>2. Outside(l) /\ Outside(p) /\ After(s, Comma) = "start" /\ After(l.state, Comma) = "start"
    BY DEF Alike, Outside, After
  <1>3. LineStep(l, Comma) = [l EXCEPT !.state = "start", !.entry = Append(@, Comma)]
    BY <1>1, <1>2 DEF LineStep, LineReaders
  <1>4. ArrayStep(a, Comma) = EndOfValue(a) /\ EntryStep(p, Comma) = EndOfValue(p)
    BY <1>2 DEF ArrayStep, EntryStep
  <1>5. QED
    BY <1>2, <1>3, <1>4 DEF Alike, EndOfValue, LineReaders, ArrayReaders

LEMMA AlikeAfterReturn ==
    ASSUME NEW l \in LineReaders, NEW a \in ArrayReaders, NEW p \in ArrayReaders, NEW s,
           Alike(l, a, p, s), Outside(a)
    PROVE  /\ Alike(LineStep(l, Return), ArrayStep(a, Return), p, After(s, Return))
           /\ LineStep(l, Return).entry = l.entry
  <1>1. Return # Newline /\ Comma # Return /\ Return # Quote /\ Return \in Special
    BY SpecialTokens
  <1>2. Outside(l) /\ Outside(p) /\ After(s, Return) = s /\ After(l.state, Return) = l.state
        /\ After(a.state, Return) = a.state
    BY <1>1 DEF Alike, Outside, After
  <1>3. LineStep(l, Return) = l
    BY <1>1, <1>2 DEF LineStep, LineReaders
  <1>4. ~IsData(a.state, Return)
    BY <1>1 DEF IsData, Outside
  <1>5. ArrayStep(a, Return) = a
    BY <1>1, <1>2, <1>4 DEF ArrayStep, Read, ArrayReaders
  <1>6. QED
    BY <1>2, <1>3, <1>5

LEMMA AlikeAfterOther ==
    ASSUME NEW l \in LineReaders, NEW a \in ArrayReaders, NEW p \in ArrayReaders, NEW s,
           Alike(l, a, p, s), NEW c \in Tokens, Outside(a) => c \notin {Comma, Newline, Return}
    PROVE  /\ Alike(LineStep(l, c), ArrayStep(a, c), EntryStep(p, c), After(s, c))
           /\ LineStep(l, c).entry = Append(l.entry, c)
  <1>1. Outside(l) = Outside(a) /\ Outside(p) = Outside(a)
    BY DEF Alike, Outside
  <1>2. LineStep(l, c) = [l EXCEPT !.state = After(@, c), !.entry = Append(@, c)]
    BY <1>1 DEF LineStep, LineReaders
  <1>3. ArrayStep(a, c) = Read(a, c) /\ EntryStep(p, c) = Read(p, c)
    BY <1>1 DEF ArrayStep, EntryStep
  <1>4. QED
    BY <1>2, <1>3 DEF Alike, Read, LineReaders, ArrayReaders

LEMMA ParsedEntry ==
    ASSUME NEW line \in Val
    PROVE  ParseEntry(line) = Append(AsEntry(line).entry, AsEntry(line).value)
  <1>1. AsEntry(line) \in ArrayReaders
    BY ReaderSteps
  <1>2. ParseEntry(line) = EndOfValue(AsEntry(line)).entry
    BY ParseEntryIsRun DEF AsEntry, Val
  <1>3. QED
    BY <1>1, <1>2 DEF EndOfValue, ArrayReaders

LEMMA AlikeAfterLine ==
    ASSUME NEW l \in LineReaders, NEW a \in ArrayReaders, NEW s,
           Alike(l, a, AsEntry(l.entry), s), Outside(a)
    PROVE  /\ Alike(LineStep(l, Newline), ArrayStep(a, Newline), Reader, After(s, Newline))
           /\ LineStep(l, Newline).entry = <<>>
  <1>1. Comma # Newline /\ Newline # Return
    BY SpecialTokens
  <1>2. Outside(l) /\ After(s, Newline) = "start"
    BY DEF Alike, Outside, After
  <1>3. l.data \in Seq(Val) /\ l.entry \in Val /\ a.entry \in Entry /\ a.value \in Val
    BY DEF LineReaders, ArrayReaders, Entry
  <1>4. LineStep(l, Newline) = [l EXCEPT !.state = "start", !.entry = <<>>,
                                         !.data = Append(@, l.entry)]
    BY <1>2 DEF LineStep, EndOfEntry
  <1>5. ArrayStep(a, Newline) = [a EXCEPT !.state = "start", !.value = <<>>, !.entry = <<>>,
                                          !.data = Append(@, Append(a.entry, a.value))]
    BY <1>1 DEF ArrayStep, EndOfEntry, EndOfValue, ArrayReaders
  <1>6. ParseEntry(l.entry) = Append(a.entry, a.value)
    BY <1>3, ParsedEntry DEF Alike
  <1>7. Append(a.data, Append(a.entry, a.value))
          = [n \in DOMAIN Append(l.data, l.entry) |-> ParseEntry(Append(l.data, l.entry)[n])]
    <2> DEFINE d == l.data
               e == l.entry
               m == Len(d)
               b == a.data
               v == Append(a.entry, a.value)
    <2>1. d \in Seq(Val) /\ e \in Val /\ m \in Nat /\ DOMAIN d = 1..m
      BY <1>3
    <2>2. b \in Seq(Entry) /\ b = [n \in 1..m |-> ParseEntry(d[n])] /\ Len(b) = m
      BY <2>1 DEF Alike, ArrayReaders, Entries
    <2>3. v = ParseEntry(e)
      BY <1>6
    <2> HIDE DEF d, e, m, b, v
    <2>4. Append(b, v) = [n \in 1..(m + 1) |-> IF n = m + 1 THEN v ELSE b[n]]
      BY <2>1, <2>2
    <2>5. DOMAIN Append(d, e) = 1..(m + 1) /\ Append(d, e)[m + 1] = e
          /\ \A n \in 1..m : Append(d, e)[n] = d[n]
      BY <2>1, AppendProperties DEF m
    <2>6. \A n \in 1..(m + 1) : (IF n = m + 1 THEN v ELSE b[n]) = ParseEntry(Append(d, e)[n])
      <3>1. \A n \in 1..(m + 1) : n = m + 1 \/ n \in 1..m
        BY <2>1
      <3>2. \A n \in 1..m : b[n] = ParseEntry(d[n]) /\ n # m + 1
        BY <2>1, <2>2
      <3>3. QED
        BY <2>3, <2>5, <3>1, <3>2
    <2>7. Append(b, v) = [n \in DOMAIN Append(d, e) |-> ParseEntry(Append(d, e)[n])]
      BY <2>4, <2>5, <2>6
    <2>8. QED
      BY <2>7 DEF d, e, b, v
  <1>8. QED
    BY <1>2, <1>4, <1>5, <1>7 DEF Alike, Reader, LineReaders, ArrayReaders

LEMMA ReadingsAlike ==
    \A text \in Val :
        Alike(AsLines(text), AsArrays(text), AsEntry(AsLines(text).entry), StateAfter(text))
  <1> DEFINE Agreed(text) == Alike(AsLines(text), AsArrays(text), AsEntry(AsLines(text).entry),
                                 StateAfter(text))
             T == {text \in Val : Agreed(text)}
  <1>1. <<>> \in T
    <2>1. Reader.entry = <<>> /\ Reader.data = <<>> /\ Reader.state = "start"
      BY DEF Reader
    <2>2. <<>> = [n \in DOMAIN <<>> |-> ParseEntry(<<>>[n])]
      OBVIOUS
    <2>3. Alike(Reader, Reader, Reader, "start")
      BY <2>1, <2>2 DEF Alike
    <2>4. QED
      BY <2>1, <2>3, ReaderSteps, ValueTypes
  <1>2. ASSUME NEW text \in Seq(Tokens), NEW c \in Tokens, text \in T PROVE Append(text, c) \in T
    <2> DEFINE l == AsLines(text)
               a == AsArrays(text)
               p == AsEntry(l.entry)
               s == StateAfter(text)
    <2>1. text \in Val /\ Append(text, c) \in Val /\ Alike(l, a, p, s)
      BY <1>2, ValueTypes
    <2>2. l \in LineReaders /\ a \in ArrayReaders /\ l.entry \in Val
      BY <2>1, ReaderSteps DEF LineReaders
    <2>3. p \in ArrayReaders /\ AsEntry(Append(l.entry, c)) = EntryStep(p, c)
      BY <2>2, ReaderSteps
    <2>4. AsLines(Append(text, c)) = LineStep(l, c) /\ AsArrays(Append(text, c)) = ArrayStep(a, c)
          /\ StateAfter(Append(text, c)) = After(s, c)
      BY <2>1, ReaderSteps
    <2>5. AsEntry(<<>>) = Reader
      BY ReaderSteps
    <2> SUFFICES Alike(LineStep(l, c), ArrayStep(a, c), AsEntry(LineStep(l, c).entry), After(s, c))
      BY <2>1, <2>4
    <2> HIDE DEF l, a, s
    <2>6. CASE Outside(a) /\ c = Comma
      <3>1. LineStep(l, c).entry = Append(l.entry, c)
        BY <2>1, <2>2, <2>6, SpecialTokens DEF LineStep, LineReaders
      <3>2. Alike(LineStep(l, c), ArrayStep(a, c), EntryStep(p, c), After(s, c))
        <4> HIDE DEF p
        <4>1. QED
          BY <2>1, <2>2, <2>3, <2>6, AlikeAfterValue
      <3>3. QED
        BY <2>3, <3>1, <3>2
    <2>7. CASE Outside(a) /\ c = Newline
      BY <2>1, <2>2, <2>5, <2>7, AlikeAfterLine
    <2>8. CASE Outside(a) /\ c = Return
      BY <2>1, <2>2, <2>3, <2>8, AlikeAfterReturn
    <2>9. CASE Outside(a) => c \notin {Comma, Newline, Return}
      <3>1. Alike(LineStep(l, c), ArrayStep(a, c), EntryStep(p, c), After(s, c))
            /\ LineStep(l, c).entry = Append(l.entry, c)
        <4> HIDE DEF p
        <4>1. QED
          BY <2>1, <2>2, <2>3, <2>9, AlikeAfterOther
      <3>2. QED
        BY <2>3, <3>1
    <2>10. QED
      BY <2>6, <2>7, <2>8, <2>9
  <1>3. \A text \in Seq(Tokens) : text \in T
    <2> HIDE DEF T
    <2>1. QED
      BY <1>1, <1>2, AppendInduction
  <1>4. QED
    BY <1>3 DEF Val

LEMMA LineRead ==
    ASSUME NEW text \in Val, StateAfter(Append(text, Newline)) # "quoted",
           StateAfter(Append(text, Newline)) # "error"
    PROVE  /\ Outside(AsArrays(text)) /\ Outside(AsLines(text))
           /\ AsLines(Append(text, Newline)).entry = <<>>
           /\ AsArrays(Append(text, Newline)).entry = <<>>
  <1> DEFINE l == AsLines(text)
             a == AsArrays(text)
             s == StateAfter(text)
  <1>1. Newline \in Tokens /\ Comma # Newline /\ Newline # Return /\ Newline # Quote
    BY SpecialTokens
  <1>2. l \in LineReaders /\ a \in ArrayReaders
    BY ReaderSteps
  <1>3. /\ AsLines(Append(text, Newline)) = LineStep(l, Newline)
        /\ AsArrays(Append(text, Newline)) = ArrayStep(a, Newline)
        /\ StateAfter(Append(text, Newline)) = After(s, Newline)
    BY <1>1, ReaderSteps
  <1>4. l.state = a.state /\ s = a.state
    BY ReadingsAlike DEF Alike
  <1> HIDE DEF l, a, s
  <1>5. s \notin {"quoted", "error"}
    BY <1>1, <1>3 DEF After
  <1>6. Outside(a) /\ Outside(l)
    BY <1>4, <1>5 DEF Outside
  <1>7. LineStep(l, Newline).entry = <<>> /\ ArrayStep(a, Newline).entry = <<>>
    BY <1>1, <1>2, <1>6 DEF LineStep, ArrayStep, EndOfEntry, EndOfValue, LineReaders, ArrayReaders
  <1>8. QED
    BY <1>3, <1>6, <1>7 DEF l, a

\* The readers of a page agree on every text, and refuse the same ones.
THEOREM EveryTextIsReadAlike ==
    ASSUME NEW text \in Seq(Tokens)
    PROVE  ReadersAgree(text)
  <1> DEFINE l == AsLines(text)
             a == AsArrays(text)
             s == StateAfter(text)
  <1>1. text \in Val
    BY DEF Val
  <1>2. SplitLines(text) = ClosedLines(l) /\ ToArrays(text) = ClosedArrays(a)
        /\ FoldLeft(After, "start", text) = s
    BY SplitLinesIsRun, ToArraysIsRun, AfterIsRun DEF AsLines, AsArrays, StateAfter
  <1>3. l \in LineReaders /\ a \in ArrayReaders
    BY <1>1, ReaderSteps
  <1>4. Alike(l, a, AsEntry(l.entry), s)
    BY <1>1, ReadingsAlike
  <1>5. ASSUME text # <<>>, text[Len(text)] = Newline, s = "start"
        PROVE  l.entry = <<>> /\ a.entry = <<>>
    <2>1. PICK u \in Seq(Tokens), c \in Tokens : text = Append(u, c)
      <3> DEFINE u == [n \in 1..(Len(text) - 1) |-> text[n]]
      <3>1. u \in Seq(Tokens) /\ text[Len(text)] \in Tokens /\ text = Append(u, text[Len(text)])
        BY <1>5
      <3> HIDE DEF u
      <3>2. QED
        BY <3>1
    <2>2. c = Newline
      BY <1>5, <2>1
    <2>3. u \in Val /\ text = Append(u, Newline)
      BY <2>1, <2>2 DEF Val
    <2>4. StateAfter(Append(u, Newline)) = "start"
      BY <1>5, <2>3
    <2>5. AsLines(Append(u, Newline)).entry = <<>> /\ AsArrays(Append(u, Newline)).entry = <<>>
      BY <2>3, <2>4, LineRead
    <2>6. QED
      BY <2>3, <2>5
  <1> HIDE DEF l, a, s
  <1>6. ClosedLines(l).state = "error" <=> ClosedArrays(a).state = "error"
    BY <1>3, <1>4 DEF Alike, ClosedLines, ClosedArrays, EndOfEntry, EndOfValue, LineReaders,
                      ArrayReaders
  <1>7. ASSUME text # <<>>, text[Len(text)] = Newline, s = "start"
        PROVE  ClosedArrays(a).data
                 = [n \in DOMAIN ClosedLines(l).data |-> ParseEntry(ClosedLines(l).data[n])]
    <2>1. ClosedLines(l) = l /\ ClosedArrays(a) = a
      BY <1>5, <1>7 DEF ClosedLines, ClosedArrays
    <2>2. QED
      BY <1>4, <2>1 DEF Alike
  <1>8. QED
    BY <1>2, <1>6, <1>7 DEF ReadersAgree

\* A quoted value is written with its quotes doubled.
Dbl(value) == Spelled(value, Quote, <<Quote, Quote>>)

LEMMA ValLaws == SequenceLaws(Tokens)
  BY Laws

LEMMA DblSteps ==
    /\ Dbl(<<>>) = <<>>
    /\ \A v \in Val : Dbl(v) \in Val
    /\ \A v \in Val, c \in Tokens :
          Dbl(Append(v, c)) = Dbl(v) \o (IF c = Quote THEN <<Quote, Quote>> ELSE <<c>>)
  <1>1. <<Quote, Quote>> \in Seq(Tokens)
    BY SpecialTokens
  <1>2. SpellsOut(Tokens, Quote, <<Quote, Quote>>)
    BY <1>1, SpelledSteps
  <1>3. ASSUME NEW v \in Val, NEW c \in Tokens
        PROVE  Dbl(Append(v, c)) = Dbl(v) \o (IF c = Quote THEN <<Quote, Quote>> ELSE <<c>>)
    <2>1. Append(v, c) = v \o <<c>> /\ v \in Seq(Tokens) /\ <<c>> \in Seq(Tokens)
      BY ValLaws DEF SequenceLaws, Val
    <2>2. Dbl(v \o <<c>>) = Dbl(v) \o Dbl(<<c>>)
      BY <1>2, <2>1 DEF SpellsOut, Dbl
    <2>3. Dbl(<<c>>) = IF c = Quote THEN <<Quote, Quote>> ELSE <<c>>
      BY <1>2 DEF SpellsOut, Dbl, Spelling
    <2>4. QED
      BY <2>1, <2>2, <2>3
  <1>4. QED
    BY <1>2, <1>3 DEF SpellsOut, Dbl, Val

\* The reader b has read the value v since the reader a, as is the rest of its state.
Reads(a, b, v) == b.value = v /\ b.entry = a.entry /\ b.data = a.data

LEMMA TokenRead ==
    ASSUME NEW a \in ArrayReaders
    PROVE  /\ a.state = "start" =>
                 LET b == ArrayStep(a, Quote)
                 IN  b.state = "quoted" /\ Reads(a, b, a.value)
           /\ a.state = "quoted" =>
                 LET b == ArrayStep(a, Quote)
                 IN  b.state = "closing" /\ Reads(a, b, a.value)
           /\ a.state = "closing" =>
                 LET b == ArrayStep(a, Quote)
                 IN  b.state = "quoted" /\ Reads(a, b, Append(a.value, Quote))
           /\ \A c \in Tokens : a.state = "quoted" /\ c # Quote =>
                 LET b == ArrayStep(a, c)
                 IN  b.state = "quoted" /\ Reads(a, b, Append(a.value, c))
           /\ \A c \in Tokens : a.state = "start" /\ c \notin Special =>
                 LET b == ArrayStep(a, c)
                 IN  b.state = "plain" /\ Reads(a, b, Append(a.value, c))
  <1>1. Quote \in Special /\ Comma \in Special /\ Newline \in Special /\ Return \in Special
        /\ Quote # Comma /\ Quote # Newline /\ Quote # Return
    BY SpecialTokens
  <1>2. ASSUME a.state = "start"
        PROVE  LET b == ArrayStep(a, Quote)
               IN  b.state = "quoted" /\ Reads(a, b, a.value)
    BY <1>1, <1>2 DEF ArrayStep, Read, After, IsData, Outside, Reads, ArrayReaders
  <1>3. ASSUME a.state = "quoted"
        PROVE  LET b == ArrayStep(a, Quote)
               IN  b.state = "closing" /\ Reads(a, b, a.value)
    BY <1>1, <1>3 DEF ArrayStep, Read, After, IsData, Outside, Reads, ArrayReaders
  <1>4. ASSUME a.state = "closing"
        PROVE  LET b == ArrayStep(a, Quote)
               IN  b.state = "quoted" /\ Reads(a, b, Append(a.value, Quote))
    BY <1>1, <1>4 DEF ArrayStep, Read, After, IsData, Outside, Reads, ArrayReaders
  <1>5. ASSUME NEW c \in Tokens, a.state = "quoted", c # Quote
        PROVE  LET b == ArrayStep(a, c)
               IN  b.state = "quoted" /\ Reads(a, b, Append(a.value, c))
    BY <1>5 DEF ArrayStep, Read, After, IsData, Outside, Reads, ArrayReaders
  <1>6. ASSUME NEW c \in Tokens, a.state = "start", c \notin Special
        PROVE  LET b == ArrayStep(a, c)
               IN  b.state = "plain" /\ Reads(a, b, Append(a.value, c))
    BY <1>1, <1>6 DEF ArrayStep, Read, After, IsData, Outside, Reads, ArrayReaders
  <1>7. QED
    BY <1>2, <1>3, <1>4, <1>5, <1>6

LEMMA DoubledRead ==
    ASSUME NEW w \in Val, AsArrays(w).state = "quoted", AsArrays(w).value = <<>>
    PROVE  \A v \in Val : /\ AsArrays(w \o Dbl(v)).state = "quoted"
                          /\ Reads(AsArrays(w), AsArrays(w \o Dbl(v)), v)
  <1> DEFINE A(v) == AsArrays(w \o Dbl(v))
             a == AsArrays(w)
             T == {v \in Val : A(v).state = "quoted" /\ Reads(a, A(v), v)}
  <1>1. <<>> \in T
    <2>1. w \o Dbl(<<>>) = w
      BY DblSteps, ValLaws DEF SequenceLaws, Val
    <2>2. QED
      BY <2>1, ValueTypes DEF Reads
  <1>2. ASSUME NEW v \in Seq(Tokens), NEW c \in Tokens, v \in T PROVE Append(v, c) \in T
    <2> DEFINE d == Dbl(v)
               x == w \o d
    <2>1. v \in Val /\ Append(v, c) \in Val /\ d \in Val /\ x \in Val
          /\ w \in Seq(Tokens) /\ d \in Seq(Tokens)
      BY <1>2, DblSteps, ValueTypes, ValLaws DEF SequenceLaws, Val
    <2>2. AsArrays(x) \in ArrayReaders /\ AsArrays(x).state = "quoted" /\ Reads(a, AsArrays(x), v)
      BY <1>2, <2>1, ReaderSteps
    <2>3. CASE c # Quote
      <3>1. Dbl(Append(v, c)) = d \o <<c>>
        BY <2>1, <2>3, DblSteps
      <3>2. d \o <<c>> = Append(d, c)
        BY <2>1, ValLaws DEF SequenceLaws
      <3>3. w \o Append(d, c) = Append(x, c)
        <4> HIDE DEF d
        <4>1. QED
          BY <2>1, AppendToConcat
      <3>4. A(Append(v, c)) = ArrayStep(AsArrays(x), c)
        <4>1. w \o Dbl(Append(v, c)) = Append(x, c)
          BY <3>1, <3>2, <3>3
        <4> HIDE DEF x, d
        <4>2. QED
          BY <2>1, <4>1, ReaderSteps
      <3> DEFINE r == AsArrays(x)
                 b == ArrayStep(r, c)
      <3>5. b.state = "quoted" /\ Reads(r, b, Append(r.value, c))
        <4>1. r \in ArrayReaders /\ r.state = "quoted"
          BY <2>2
        <4> HIDE DEF r
        <4>2. QED
          BY <2>3, <4>1, TokenRead
      <3>6. r.value = v /\ r.entry = a.entry /\ r.data = a.data
        BY <2>2 DEF Reads
      <3> HIDE DEF r, a, A
      <3>7. A(Append(v, c)).state = "quoted" /\ Reads(a, A(Append(v, c)), Append(v, c))
        BY <3>4, <3>5, <3>6 DEF Reads, r
      <3>8. QED
        BY <2>1, <3>7
    <2>4. CASE c = Quote
      <3> DEFINE y == Append(x, Quote)
      <3>1. Dbl(Append(v, c)) = d \o <<Quote, Quote>>
        BY <2>1, <2>4, DblSteps
      <3>2. d \o <<Quote, Quote>> = Append(Append(d, Quote), Quote)
        BY <2>1, SpecialTokens
      <3>3. w \o Append(Append(d, Quote), Quote) = Append(y, Quote)
        <4> DEFINE e == Append(d, Quote)
        <4>1. e \in Seq(Tokens) /\ Quote \in Tokens
          BY <2>1, SpecialTokens
        <4>2. w \o e = y
          <5> HIDE DEF d
          <5>1. QED
            BY <2>1, <4>1, AppendToConcat
        <4> HIDE DEF e
        <4>3. w \o Append(e, Quote) = Append(w \o e, Quote)
          BY <2>1, <4>1, AppendToConcat
        <4>4. QED
          BY <4>2, <4>3 DEF e
      <3>4. Quote \in Tokens /\ y \in Val
        BY <2>1, SpecialTokens, ValueTypes
      <3>5. A(Append(v, c)) = ArrayStep(AsArrays(y), Quote) /\ AsArrays(y) = ArrayStep(AsArrays(x), Quote)
        <4>1. w \o Dbl(Append(v, c)) = Append(y, Quote)
          BY <3>1, <3>2, <3>3
        <4>2. AsArrays(Append(y, Quote)) = ArrayStep(AsArrays(y), Quote)
          <5> HIDE DEF y
          <5>1. QED
            BY <3>4, ReaderSteps
        <4>3. AsArrays(y) = ArrayStep(AsArrays(x), Quote)
          <5> HIDE DEF x
          <5>1. QED
            BY <2>1, <3>4, ReaderSteps
        <4>4. QED
          BY <4>1, <4>2, <4>3
      <3> DEFINE r == AsArrays(x)
                 q == AsArrays(y)
                 b == A(Append(v, c))
      <3>6. r \in ArrayReaders /\ q \in ArrayReaders /\ r.state = "quoted"
            /\ q = ArrayStep(r, Quote) /\ b = ArrayStep(q, Quote)
        BY <2>2, <3>4, <3>5, ReaderSteps
      <3>7. r.value = v /\ r.entry = a.entry /\ r.data = a.data
        BY <2>2 DEF Reads
      <3> HIDE DEF r, q, b, a
      <3>8. q.state = "closing" /\ Reads(r, q, v)
        BY <3>6, <3>7, TokenRead
      <3>9. b.state = "quoted" /\ Reads(q, b, Append(q.value, Quote))
        BY <3>6, <3>8, TokenRead
      <3>10. b.state = "quoted" /\ Reads(a, b, Append(v, c))
        BY <2>4, <3>7, <3>8, <3>9 DEF Reads
      <3>11. QED
        BY <2>1, <3>10 DEF b
    <2>5. QED
      BY <2>3, <2>4
  <1>3. \A v \in Seq(Tokens) : v \in T
    <2> HIDE DEF T
    <2>1. QED
      BY <1>1, <1>2, AppendInduction
  <1>4. QED
    BY <1>3 DEF Val

Between(value) == <<Quote>> \o Dbl(value) \o <<Quote>>

LEMMA QuotedRead ==
    ASSUME NEW u \in Val, AsArrays(u).state = "start", AsArrays(u).value = <<>>, NEW v \in Val
    PROVE  /\ Between(v) \in Val
           /\ AsArrays(u \o Between(v)).state = "closing"
           /\ Reads(AsArrays(u), AsArrays(u \o Between(v)), v)
  <1> DEFINE a == AsArrays(u)
             w == Append(u, Quote)
             q == AsArrays(w)
             d == Dbl(v)
             x == w \o d
             r == AsArrays(x)
             b == AsArrays(Append(x, Quote))
  <1>1. Quote \in Tokens /\ u \in Seq(Tokens) /\ d \in Seq(Tokens) /\ v \in Seq(Tokens)
        /\ d \in Val
    BY SpecialTokens, DblSteps DEF Val
  <1>2. w \in Val /\ w = u \o <<Quote>> /\ <<Quote>> \in Seq(Tokens) /\ x \in Val
        /\ x \in Seq(Tokens)
    <2> HIDE DEF d
    <2>1. QED
      BY <1>1, ValLaws DEF SequenceLaws, Val
  <1>3. Between(v) \in Val /\ u \o Between(v) = Append(x, Quote)
    <2> DEFINE m == <<Quote>>
    <2>1. Between(v) = m \o d \o m
      BY DEF Between
    <2>2. m \in Seq(Tokens) /\ w = u \o m
      BY <1>2
    <2> HIDE DEF m, d, w
    <2>3. m \o d \in Seq(Tokens) /\ (m \o d) \o m \in Seq(Tokens) /\ w \in Seq(Tokens)
      BY <1>1, <1>2, <2>2, ValLaws DEF SequenceLaws, Val
    <2>4. u \o ((m \o d) \o m) = (u \o (m \o d)) \o m
      <3> DEFINE e == m \o d
      <3>1. u \in Seq(Tokens) /\ e \in Seq(Tokens) /\ m \in Seq(Tokens)
        BY <1>1, <2>2, <2>3
      <3> HIDE DEF e
      <3>2. (u \o e) \o m = u \o (e \o m)
        BY <3>1, ConcatAssociative
      <3>3. QED
        BY <3>2 DEF e
    <2>5. u \o (m \o d) = (u \o m) \o d
      BY <1>1, <2>2, ConcatAssociative
    <2>6. Append(x, Quote) = x \o m
      BY <1>1, <1>2, ValLaws DEF SequenceLaws, m
    <2>7. QED
      BY <2>1, <2>2, <2>3, <2>4, <2>5, <2>6 DEF Val
  <1>4. q = ArrayStep(a, Quote) /\ b = ArrayStep(r, Quote)
        /\ a \in ArrayReaders /\ r \in ArrayReaders /\ q \in ArrayReaders
    <2>1. AsArrays(w) = ArrayStep(a, Quote) /\ q \in ArrayReaders /\ a \in ArrayReaders
      BY <1>1, <1>2, ReaderSteps
    <2>2. b = ArrayStep(r, Quote) /\ r \in ArrayReaders
      <3> HIDE DEF x
      <3>1. QED
        BY <1>1, <1>2, ReaderSteps
    <2>3. QED
      BY <2>1, <2>2
  <1>5. q.state = "quoted" /\ Reads(a, q, <<>>)
    <2>1. a.state = "start" /\ a.value = <<>>
      OBVIOUS
    <2> HIDE DEF a, q
    <2>2. QED
      BY <1>4, <2>1, TokenRead
  <1>6. r.state = "quoted" /\ Reads(q, r, v)
    <2>1. q.state = "quoted" /\ q.value = <<>>
      BY <1>5 DEF Reads
    <2> HIDE DEF w
    <2>2. QED
      BY <1>2, <2>1, DoubledRead
  <1> HIDE DEF a, q, r, b, x
  <1>7. b.state = "closing" /\ Reads(r, b, r.value)
    BY <1>4, <1>6, TokenRead
  <1>8. b.state = "closing" /\ Reads(a, b, v)
    BY <1>5, <1>6, <1>7 DEF Reads
  <1>9. QED
    BY <1>3, <1>8 DEF a, b

\* A text without special characters is empty or one run.
PlainTexts == {v \in Seq(Special \union Runs) : IsText(v)}

LEMMA PlainText ==
    ASSUME NEW v \in PlainTexts
    PROVE  /\ v \in Val
           /\ ~NeedsQuotes(v) => v = <<>> \/ \E t \in Tokens : t \notin Special /\ v = <<t>>
  <1>1. v \in Seq(Special \union Runs) /\ Special \union Runs \subseteq Tokens
    BY DEF PlainTexts, Tokens
  <1>2. v \in Val
    BY <1>1 DEF Val
  <1>3. ASSUME ~NeedsQuotes(v), v # <<>>
        PROVE  \E t \in Tokens : t \notin Special /\ v = <<t>>
    <2>1. Len(v) \in Nat /\ Len(v) >= 1 /\ \A i \in 1..Len(v) : v[i] \in Tokens
      BY <1>2, <1>3 DEF Val
    <2>2. \A i \in 1..Len(v) : v[i] \in ToSet(v)
      BY <2>1 DEF ToSet
    <2>3. \A i \in 1..Len(v) : v[i] \notin Special
      BY <1>3, <2>2 DEF NeedsQuotes
    <2>4. Len(v) = 1
      <3> SUFFICES ASSUME Len(v) >= 2 PROVE FALSE
        BY <2>1
      <3>1. 1 \in 1..(Len(v) - 1) /\ 1 \in 1..Len(v) /\ 1 + 1 \in 1..Len(v)
        BY <2>1
      <3>2. v[1] \in Special \/ v[1 + 1] \in Special
        BY <3>1 DEF PlainTexts, IsText
      <3>3. QED
        BY <2>3, <3>1, <3>2
    <2>5. v = <<v[1]>> /\ v[1] \in Tokens /\ v[1] \notin Special
      BY <1>2, <2>1, <2>3, <2>4 DEF Val
    <2>6. QED
      BY <2>5
  <1>4. QED
    BY <1>2, <1>3

\* Every value, as escapeCsv writes it, is read as it was.
LEMMA EscapedRead ==
    ASSUME NEW u \in Val, AsArrays(u).state = "start", AsArrays(u).value = <<>>,
           NEW v \in PlainTexts
    PROVE  /\ EscapeCsv(v) \in Val
           /\ Outside(AsArrays(u \o EscapeCsv(v)))
           /\ Reads(AsArrays(u), AsArrays(u \o EscapeCsv(v)), v)
  <1>1. CASE NeedsQuotes(v)
    <2>1. EscapeCsv(v) = Between(v)
      BY <1>1 DEF EscapeCsv, Between, Dbl, Spelled
    <2>2. QED
      BY <2>1, PlainText, QuotedRead DEF Outside
  <1>2. CASE ~NeedsQuotes(v)
    <2>1. EscapeCsv(v) = v /\ v \in Val
      BY <1>2, PlainText DEF EscapeCsv
    <2>2. CASE v = <<>>
      <3>1. u \o v = u
        BY <2>2, ValLaws DEF SequenceLaws, Val
      <3>2. QED
        BY <2>1, <2>2, <3>1 DEF Outside, Reads
    <2>3. CASE v # <<>>
      <3>1. PICK t \in Tokens : t \notin Special /\ v = <<t>>
        BY <1>2, <2>3, PlainText
      <3>2. u \o v = Append(u, t)
        BY <3>1, ValLaws DEF SequenceLaws, Val
      <3>3. AsArrays(u \o v) = ArrayStep(AsArrays(u), t) /\ AsArrays(u) \in ArrayReaders
        BY <3>1, <3>2, ReaderSteps
      <3> DEFINE a == AsArrays(u)
                 b == ArrayStep(a, t)
      <3>4. b.state = "plain" /\ Reads(a, b, Append(a.value, t))
        <4>1. a \in ArrayReaders /\ a.state = "start"
          BY <3>3
        <4> HIDE DEF a
        <4>2. QED
          BY <3>1, <4>1, TokenRead
      <3>5. Append(a.value, t) = v
        BY <3>1
      <3> HIDE DEF a
      <3>6. Outside(b) /\ Reads(a, b, v)
        BY <3>4, <3>5 DEF Outside
      <3>7. QED
        BY <2>1, <3>3, <3>6 DEF a
    <2>4. QED
      BY <2>2, <2>3
  <1>3. QED
    BY <1>1, <1>2

\* What is read of a column value, null or not.
ColumnValues == PlainTexts \union {<<NullValue>>}

LEMMA EntryRead ==
    ASSUME NEW u \in Val, AsArrays(u).state = "start", AsArrays(u).value = <<>>,
           NEW v \in ColumnValues
    PROVE  /\ CsvEntry(v) \in Val
           /\ Outside(AsArrays(u \o CsvEntry(v)))
           /\ Reads(AsArrays(u), AsArrays(u \o CsvEntry(v)), AsText(v))
  <1>1. CASE v = <<NullValue>>
    <2>1. CsvEntry(v) = <<>> /\ AsText(v) = <<>>
      BY <1>1 DEF CsvEntry, AsText
    <2>2. u \o <<>> = u
      BY ValLaws DEF SequenceLaws, Val
    <2>3. QED
      BY <2>1, <2>2, ValueTypes DEF Outside, Reads
  <1>2. CASE v # <<NullValue>> /\ v = <<>>
    <2>1. CsvEntry(v) = <<Quote, Quote>> /\ AsText(v) = <<>>
      BY <1>2 DEF CsvEntry, AsText
    <2>2. Between(<<>>) = <<Quote, Quote>>
      <3>1. Between(<<>>) = <<Quote>> \o <<>> \o <<Quote>>
        BY DblSteps DEF Between
      <3>2. QED
        BY <3>1
    <2>3. QED
      BY <2>1, <2>2, QuotedRead, ValueTypes DEF Outside
  <1>3. CASE v # <<NullValue>> /\ v # <<>>
    <2>1. CsvEntry(v) = EscapeCsv(v) /\ AsText(v) = v /\ v \in PlainTexts
      BY <1>3 DEF CsvEntry, AsText, ColumnValues
    <2>2. QED
      BY <2>1, EscapedRead
  <1>4. QED
    BY <1>1, <1>2, <1>3

LEMMA IsAppend ==
    ASSUME NEW Y, NEW p \in Seq(Y), NEW m \in Nat, Len(p) = m, NEW y \in Y, 
           NEW q \in [1..(m + 1) -> Y], \A n \in 1..m : q[n] = p[n], q[m + 1] = y
    PROVE  q = Append(p, y)
  <1> DEFINE r == Append(p, y)
  <1>1. r \in Seq(Y) /\ Len(r) = m + 1 /\ r[m + 1] = y /\ \A n \in 1..m : r[n] = p[n]
    BY AppendProperties
  <1>2. r = [n \in 1..(m + 1) |-> r[n]]
    <2> HIDE DEF r
    <2>1. DOMAIN r = 1..(m + 1) /\ r = [n \in DOMAIN r |-> r[n]]
      BY <1>1
    <2>2. QED
      BY <2>1
  <1>3. \A n \in 1..(m + 1) : n = m + 1 \/ n \in 1..m
    OBVIOUS
  <1> HIDE DEF r
  <1>4. \A n \in 1..(m + 1) : q[n] = r[n]
    BY <1>1, <1>3
  <1>5. q = r
    BY <1>2, <1>4
  <1>6. QED
    BY <1>5 DEF r

\* The values of the entry that a reader is in, up to the value that it is in.
Got(reader) == Append(reader.entry, reader.value)

Fresh(reader) == reader.state = "start" /\ reader.value = <<>>

LEMMA EndRead ==
    ASSUME NEW a \in ArrayReaders, Outside(a)
    PROVE  /\ LET b == ArrayStep(a, Comma)
              IN  Fresh(b) /\ b.entry = Got(a) /\ b.data = a.data
           /\ LET b == ArrayStep(a, Newline)
              IN  Fresh(b) /\ b.entry = <<>> /\ b.data = Append(a.data, Got(a))
  BY SpecialTokens DEF ArrayStep, EndOfValue, EndOfEntry, Fresh, Got, ArrayReaders

ValueTail(v) == <<Comma>> \o CsvEntry(v)

LEMMA CommaTo ==
    ASSUME NEW u \in Val, NEW w \in Val
    PROVE  /\ <<Comma>> \o w \in Val /\ Append(u, Comma) \in Val
           /\ u \o (<<Comma>> \o w) = Append(u, Comma) \o w
  <1> DEFINE m == <<Comma>>
  <1>1. u \in Seq(Tokens) /\ w \in Seq(Tokens) /\ m \in Seq(Tokens) /\ Append(u, Comma) = u \o m
        /\ Append(u, Comma) \in Seq(Tokens)
    BY SpecialTokens, ValLaws DEF Val, SequenceLaws
  <1> HIDE DEF m
  <1>2. m \o w \in Seq(Tokens)
    BY <1>1
  <1>3. (u \o m) \o w = u \o (m \o w)
    BY <1>1, ConcatAssociative
  <1>4. QED
    BY <1>1, <1>2, <1>3 DEF m, Val

LEMMA ValueRead ==
    ASSUME NEW u \in Val, Outside(AsArrays(u)), NEW v \in ColumnValues
    PROVE  /\ ValueTail(v) \in Val
           /\ Outside(AsArrays(u \o ValueTail(v)))
           /\ Got(AsArrays(u \o ValueTail(v))) = Append(Got(AsArrays(u)), AsText(v))
           /\ AsArrays(u \o ValueTail(v)).data = AsArrays(u).data
  <1> DEFINE a == AsArrays(u)
             w == Append(u, Comma)
             b == AsArrays(w)
             c == AsArrays(w \o CsvEntry(v))
  <1>1. w \in Val /\ Comma \in Tokens
    BY SpecialTokens, ValueTypes
  <1>2. b = ArrayStep(a, Comma) /\ a \in ArrayReaders
    BY <1>1, ReaderSteps
  <1>3. Fresh(b) /\ b.entry = Got(a) /\ b.data = a.data
    <2>1. Outside(a)
      OBVIOUS
    <2> HIDE DEF a, b
    <2>2. QED
      BY <1>2, <2>1, EndRead
  <1>4. CsvEntry(v) \in Val /\ Outside(c) /\ Reads(b, c, AsText(v))
    <2> HIDE DEF w
    <2>1. QED
      BY <1>1, <1>3, EntryRead DEF Fresh
  <1>5. ValueTail(v) \in Val /\ u \o ValueTail(v) = w \o CsvEntry(v)
    BY <1>4, CommaTo DEF ValueTail
  <1>6. AsArrays(u \o ValueTail(v)) = c
    BY <1>5
  <1> HIDE DEF a, b, c
  <1>7. Got(c) = Append(Got(a), AsText(v)) /\ c.data = a.data
    BY <1>3, <1>4 DEF Reads, Got
  <1>8. QED
    BY <1>4, <1>5, <1>6, <1>7 DEF a

RowTail(values) == FlattenSeq([n \in DOMAIN values |-> <<Comma>> \o CsvEntry(values[n])])
TextsOf(values) == [n \in DOMAIN values |-> AsText(values[n])]

TailOf == [v \in ColumnValues |-> ValueTail(v)]

LEMMA ColumnValueTypes ==
    /\ \A v \in ColumnValues : AsText(v) \in Val /\ CsvEntry(v) \in Val /\ ValueTail(v) \in Val
    /\ TailOf \in [ColumnValues -> Val]
  <1>1. AsArrays(<<>>) = Reader /\ Fresh(Reader) /\ Outside(Reader) /\ <<>> \in Val
    BY ReaderSteps, ValueTypes DEF Fresh, Reader, Outside
  <1>2. \A v \in ColumnValues : ValueTail(v) \in Val
    BY <1>1, ValueRead
  <1>3. \A v \in ColumnValues : CsvEntry(v) \in Val
    BY <1>1, EntryRead DEF Fresh
  <1>4. \A v \in ColumnValues : AsText(v) \in Val
    BY ValueTypes, PlainText DEF AsText, ColumnValues
  <1>5. QED
    BY <1>2, <1>3, <1>4 DEF TailOf

LEMMA RowTailSteps ==
    /\ RowTail(<<>>) = <<>>
    /\ \A vs \in Seq(ColumnValues) : RowTail(vs) \in Val
    /\ \A vs \in Seq(ColumnValues), v \in ColumnValues :
          RowTail(Append(vs, v)) = RowTail(vs) \o ValueTail(v)
  <1> DEFINE M(vs) == MapSeq(TailOf, vs)
  <1>1. MapsOut(ColumnValues, Val, TailOf)
    BY ColumnValueTypes, MapSteps
  <1>2. /\ M(<<>>) = <<>>
        /\ \A vs \in Seq(ColumnValues) : M(vs) \in Seq(Val)
        /\ \A v \in ColumnValues : M(<<v>>) = <<TailOf[v]>>
        /\ \A vs, ws \in Seq(ColumnValues) : M(vs \o ws) = M(vs) \o M(ws)
    BY <1>1 DEF MapsOut
  <1>3. ASSUME NEW vs \in Seq(ColumnValues) PROVE RowTail(vs) = FlattenSeq(M(vs))
    <2>1. DOMAIN vs = 1..Len(vs) /\ \A n \in 1..Len(vs) : vs[n] \in ColumnValues
      OBVIOUS
    <2>2. \A n \in DOMAIN vs : TailOf[vs[n]] = <<Comma>> \o CsvEntry(vs[n])
      BY <2>1 DEF TailOf, ValueTail
    <2>3. [n \in DOMAIN vs |-> <<Comma>> \o CsvEntry(vs[n])] = M(vs)
      BY <2>2 DEF MapSeq
    <2>4. QED
      BY <2>3 DEF RowTail
  <1> HIDE DEF M
  <1>4. RowTail(<<>>) = <<>>
    <2>1. <<>> \in Seq(ColumnValues)
      OBVIOUS
    <2>2. QED
      BY <1>2, <1>3, <2>1, FlattenSteps
  <1>5. \A vs \in Seq(ColumnValues) : RowTail(vs) \in Val
    BY <1>2, <1>3, FlattenSteps DEF Val
  <1>6. ASSUME NEW vs \in Seq(ColumnValues), NEW v \in ColumnValues
        PROVE  RowTail(Append(vs, v)) = RowTail(vs) \o ValueTail(v)
    <2>1. Append(vs, v) = vs \o <<v>> /\ <<v>> \in Seq(ColumnValues)
          /\ Append(vs, v) \in Seq(ColumnValues)
      OBVIOUS
    <2>2. ValueTail(v) \in Val /\ TailOf[v] = ValueTail(v)
      BY ColumnValueTypes DEF TailOf
    <2>3. M(Append(vs, v)) = M(vs) \o <<ValueTail(v)>> /\ M(vs) \in Seq(Val)
      BY <1>2, <2>1, <2>2
    <2>4. M(vs) \o <<ValueTail(v)>> = Append(M(vs), ValueTail(v))
      BY <2>2, <2>3
    <2>5. FlattenSeq(Append(M(vs), ValueTail(v))) = FlattenSeq(M(vs)) \o ValueTail(v)
      BY <2>2, <2>3, FlattenSteps DEF Val
    <2>6. QED
      BY <1>3, <2>1, <2>3, <2>4, <2>5
  <1>7. QED
    BY <1>4, <1>5, <1>6

LEMMA ValuesRead ==
    ASSUME NEW u \in Val, Outside(AsArrays(u))
    PROVE  \A vs \in Seq(ColumnValues) :
              /\ Outside(AsArrays(u \o RowTail(vs)))
              /\ Got(AsArrays(u \o RowTail(vs))) = Got(AsArrays(u)) \o TextsOf(vs)
              /\ AsArrays(u \o RowTail(vs)).data = AsArrays(u).data
  <1> DEFINE A(vs) == AsArrays(u \o RowTail(vs))
             a == AsArrays(u)
             T == {vs \in Seq(ColumnValues) : Outside(A(vs)) /\ Got(A(vs)) = Got(a) \o TextsOf(vs)
                                              /\ A(vs).data = a.data}
  <1>1. a \in ArrayReaders /\ Got(a) \in Entry
    <2>1. a \in ArrayReaders
      BY ReaderSteps
    <2>2. QED
      BY <2>1, ValueTypes DEF Got, ArrayReaders
  <1>2. <<>> \in T
    <2>1. u \o RowTail(<<>>) = u
      BY RowTailSteps, ValLaws DEF SequenceLaws, Val
    <2>2. TextsOf(<<>>) = <<>> /\ <<>> \in Seq(ColumnValues)
      BY DEF TextsOf
    <2>3. Got(a) \o <<>> = Got(a)
      <3> DEFINE g == Got(a)
      <3>1. g \in Seq(Val)
        BY <1>1 DEF Entry
      <3> HIDE DEF g
      <3>2. g \o <<>> = g
        BY <3>1
      <3>3. QED
        BY <3>2 DEF g
    <2>4. Outside(a)
      OBVIOUS
    <2> HIDE DEF a
    <2>5. A(<<>>) = a
      BY <2>1 DEF a
    <2>6. QED
      BY <2>2, <2>3, <2>4, <2>5
  <1>3. ASSUME NEW vs \in Seq(ColumnValues), NEW v \in ColumnValues, vs \in T
        PROVE  Append(vs, v) \in T
    <2> DEFINE x == u \o RowTail(vs)
    <2>1. RowTail(vs) \in Val /\ ValueTail(v) \in Val
      BY RowTailSteps, ColumnValueTypes
    <2>2. x \in Val
      BY <2>1, ValLaws DEF SequenceLaws, Val
    <2>3. u \o RowTail(Append(vs, v)) = x \o ValueTail(v)
      <3> DEFINE p == RowTail(vs)
                 q == ValueTail(v)
      <3>1. u \in Seq(Tokens) /\ p \in Seq(Tokens) /\ q \in Seq(Tokens)
        BY <2>1 DEF Val
      <3>2. RowTail(Append(vs, v)) = p \o q
        BY RowTailSteps
      <3> HIDE DEF p, q
      <3>3. (u \o p) \o q = u \o (p \o q)
        BY <3>1, ConcatAssociative
      <3>4. QED
        BY <3>2, <3>3 DEF p, q
    <2>4. Outside(AsArrays(x)) /\ Got(AsArrays(x)) = Got(a) \o TextsOf(vs)
          /\ AsArrays(x).data = a.data
      BY <1>3
    <2>5. /\ Outside(AsArrays(x \o ValueTail(v)))
          /\ Got(AsArrays(x \o ValueTail(v))) = Append(Got(AsArrays(x)), AsText(v))
          /\ AsArrays(x \o ValueTail(v)).data = AsArrays(x).data
      <3> HIDE DEF x
      <3>1. QED
        BY <2>2, <2>4, ValueRead
    <2>6. Append(Got(a) \o TextsOf(vs), AsText(v)) = Got(a) \o TextsOf(Append(vs, v))
      <3> DEFINE m == Len(vs)
                 q == TextsOf(Append(vs, v))
      <3>1. DOMAIN vs = 1..m /\ m \in Nat /\ \A n \in 1..m : vs[n] \in ColumnValues
        OBVIOUS
      <3>2. TextsOf(vs) \in [1..m -> Val]
        BY <3>1, ColumnValueTypes DEF TextsOf
      <3>3. TextsOf(vs) \in Seq(Val) /\ Len(TextsOf(vs)) = m
        BY <3>1, <3>2
      <3>4. DOMAIN Append(vs, v) = 1..(m + 1) /\ Append(vs, v)[m + 1] = v
            /\ \A n \in 1..m : Append(vs, v)[n] = vs[n]
        BY AppendProperties
      <3>5. q = [n \in 1..(m + 1) |-> AsText(Append(vs, v)[n])]
        BY <3>4 DEF TextsOf
      <3>6. \A n \in 1..m : n \in 1..(m + 1) /\ TextsOf(vs)[n] = AsText(vs[n])
        BY <3>1 DEF TextsOf
      <3>7. m + 1 \in 1..(m + 1) /\ AsText(v) \in Val
        BY <3>1, ColumnValueTypes
      <3> HIDE DEF m, q
      <3>8. q = Append(TextsOf(vs), AsText(v))
        <4>1. q \in [1..(m + 1) -> Val]
          <5>1. \A n \in 1..(m + 1) : n = m + 1 \/ n \in 1..m
            BY <3>1
          <5>2. \A n \in 1..(m + 1) : AsText(Append(vs, v)[n]) \in Val
            BY <3>1, <3>4, <5>1, ColumnValueTypes
          <5>3. QED
            BY <3>5, <5>2
        <4>2. \A n \in 1..m : q[n] = TextsOf(vs)[n]
          BY <3>4, <3>5, <3>6
        <4>3. q[m + 1] = AsText(v)
          BY <3>4, <3>5, <3>7
        <4> DEFINE s == TextsOf(vs)
                   t == AsText(v)
        <4>4. /\ s \in Seq(Val) /\ m \in Nat /\ Len(s) = m /\ t \in Val
              /\ \A n \in 1..m : q[n] = s[n]
              /\ q[m + 1] = t
          BY <3>1, <3>3, <3>7, <4>2, <4>3
        <4> HIDE DEF s, t
        <4>5. q = Append(s, t)
          BY <4>1, <4>4, IsAppend
        <4>6. QED
          BY <4>5 DEF s, t
      <3>9. Got(a) \in Seq(Val)
        BY <1>1 DEF Entry
      <3> DEFINE g == Got(a)
                 s == TextsOf(vs)
      <3>10. g \in Seq(Val) /\ s \in Seq(Val) /\ AsText(v) \in Val
        BY <3>3, <3>7, <3>9
      <3> HIDE DEF g, s
      <3>11. g \o Append(s, AsText(v)) = Append(g \o s, AsText(v))
        BY <3>10, AppendToConcat
      <3>12. QED
        BY <3>8, <3>11 DEF g, s, q
    <2> HIDE DEF a, x
    <2>7. A(Append(vs, v)) = AsArrays(x \o ValueTail(v))
      BY <2>3
    <2>8. Append(vs, v) \in Seq(ColumnValues)
      OBVIOUS
    <2>9. QED
      BY <2>4, <2>5, <2>6, <2>7, <2>8
  <1>4. \A vs \in Seq(ColumnValues) : vs \in T
    <2> HIDE DEF T
    <2>1. QED
      BY <1>2, <1>3, AppendInduction
  <1>5. QED
    BY <1>4

\* The names of columns, as a header has them.
Names == {<<c>> : c \in Tokens \ Special}

Pieces(cs) == [n \in DOMAIN cs |-> IF n = 1 THEN cs[n] ELSE <<Comma>> \o cs[n]]
Header(cs) == FlattenSeq(Pieces(cs))
NextPiece(cs, c) == IF cs = <<>> THEN c ELSE <<Comma>> \o c

LEMMA HeaderSteps ==
    /\ Header(<<>>) = <<>>
    /\ \A cs \in Seq(Val) : Header(cs) \in Val
    /\ \A cs \in Seq(Val), c \in Val :
          NextPiece(cs, c) \in Val /\ Header(Append(cs, c)) = Header(cs) \o NextPiece(cs, c)
  <1>1. \A c \in Val : <<Comma>> \o c \in Val
    BY CommaTo
  <1>2. ASSUME NEW cs \in Seq(Val)
        PROVE  /\ Pieces(cs) \in Seq(Val) /\ Len(Pieces(cs)) = Len(cs)
               /\ \A n \in 1..Len(cs) :
                     Pieces(cs)[n] = IF n = 1 THEN cs[n] ELSE <<Comma>> \o cs[n]
    <2>1. DOMAIN cs = 1..Len(cs) /\ Len(cs) \in Nat /\ \A n \in 1..Len(cs) : cs[n] \in Val
      OBVIOUS
    <2>2. Pieces(cs) \in [1..Len(cs) -> Val]
      BY <1>1, <2>1 DEF Pieces
    <2>3. \A n \in 1..Len(cs) : Pieces(cs)[n] = IF n = 1 THEN cs[n] ELSE <<Comma>> \o cs[n]
      BY <2>1 DEF Pieces
    <2>4. QED
      BY <2>1, <2>2, <2>3
  <1>3. Header(<<>>) = <<>>
    <2>1. Pieces(<<>>) = <<>>
      BY DEF Pieces
    <2>2. QED
      BY <2>1, FlattenSteps DEF Header
  <1>4. \A cs \in Seq(Val) : Header(cs) \in Val
    BY <1>2, FlattenSteps DEF Header, Val
  <1>5. ASSUME NEW cs \in Seq(Val), NEW c \in Val
        PROVE  NextPiece(cs, c) \in Val /\ Header(Append(cs, c)) = Header(cs) \o NextPiece(cs, c)
    <2> DEFINE m == Len(cs)
               p == Pieces(cs)
               q == Pieces(Append(cs, c))
               y == NextPiece(cs, c)
               ds == Append(cs, c)
    <2>1. m \in Nat /\ p \in Seq(Val) /\ Len(p) = m /\ y \in Val
          /\ ds \in Seq(Val) /\ Len(ds) = m + 1 /\ ds[m + 1] = c /\ \A n \in 1..m : ds[n] = cs[n]
      BY <1>1, <1>2, AppendProperties DEF NextPiece
    <2>2. q \in Seq(Val) /\ Len(q) = m + 1
          /\ \A n \in 1..(m + 1) : q[n] = IF n = 1 THEN ds[n] ELSE <<Comma>> \o ds[n]
      <3>1. q = Pieces(ds)
        OBVIOUS
      <3> HIDE DEF ds
      <3>2. QED
        BY <1>2, <2>1, <3>1
    <2>3. \A n \in 1..m : n \in 1..(m + 1) /\ p[n] = IF n = 1 THEN cs[n] ELSE <<Comma>> \o cs[n]
      BY <1>2, <2>1
    <2>4. cs = <<>> <=> m = 0
      BY EmptySeq
    <2> HIDE DEF q, ds, p
    <2>5. q = Append(p, y)
      <3>0. \A n \in 1..m : q[n] = p[n]
        <4> SUFFICES ASSUME NEW n \in 1..m PROVE q[n] = p[n]
          OBVIOUS
        <4>1. n \in 1..(m + 1) /\ p[n] = (IF n = 1 THEN cs[n] ELSE <<Comma>> \o cs[n])
          BY <2>3
        <4>2. q[n] = (IF n = 1 THEN ds[n] ELSE <<Comma>> \o ds[n]) /\ ds[n] = cs[n]
          BY <2>1, <2>2, <4>1
        <4>3. QED
          BY <4>1, <4>2
      <3>1. q \in [1..(m + 1) -> Val]
        BY <2>1, <2>2
      <3>2. q[m + 1] = y
        <4>1. m + 1 \in 1..(m + 1) /\ (m + 1 = 1 <=> m = 0)
          BY <2>1
        <4>2. QED
          BY <2>1, <2>2, <2>4, <4>1 DEF NextPiece
      <3> HIDE DEF m, y
      <3>3. QED
        BY <2>1, <3>0, <3>1, <3>2, IsAppend
    <2>6. FlattenSeq(Append(p, y)) = FlattenSeq(p) \o y
      <3> HIDE DEF y
      <3>1. QED
        BY <2>1, FlattenSteps DEF Val
    <2>7. QED
      BY <2>1, <2>5, <2>6 DEF Header, p, q
  <1>6. QED
    BY <1>3, <1>4, <1>5

LEMMA NameRead ==
    ASSUME NEW u \in Val, Fresh(AsArrays(u)), NEW c \in Names
    PROVE  /\ c \in Val
           /\ Outside(AsArrays(u \o c))
           /\ Reads(AsArrays(u), AsArrays(u \o c), c)
  <1>1. PICK t \in Tokens : t \notin Special /\ c = <<t>>
    BY DEF Names
  <1>2. u \o c = Append(u, t)
    BY <1>1, ValLaws DEF SequenceLaws, Val
  <1>3. AsArrays(u \o c) = ArrayStep(AsArrays(u), t) /\ AsArrays(u) \in ArrayReaders
    BY <1>1, <1>2, ReaderSteps
  <1> DEFINE a == AsArrays(u)
             b == ArrayStep(a, t)
  <1>4. b.state = "plain" /\ Reads(a, b, Append(a.value, t))
    <2>1. a \in ArrayReaders /\ a.state = "start"
      BY <1>3 DEF Fresh
    <2> HIDE DEF a
    <2>2. QED
      BY <1>1, <2>1, TokenRead
  <1>5. Append(a.value, t) = c
    BY <1>1 DEF Fresh
  <1>6. c \in Val
    BY <1>1 DEF Val
  <1> HIDE DEF a
  <1>7. Outside(b) /\ Reads(a, b, c)
    BY <1>4, <1>5 DEF Outside
  <1>8. QED
    BY <1>3, <1>6, <1>7 DEF a

LEMMA HeaderRead ==
    \A cs \in Seq(Names) : cs # <<>> =>
        /\ Header(cs) \in Val
        /\ Outside(AsArrays(Header(cs)))
        /\ Got(AsArrays(Header(cs))) = cs
        /\ AsArrays(Header(cs)).data = <<>>
  <1> DEFINE A(cs) == AsArrays(Header(cs))
             T == {cs \in Seq(Names) :
                      cs # <<>> => Outside(A(cs)) /\ Got(A(cs)) = cs /\ A(cs).data = <<>>}
  <1>1. Names \subseteq Val
    <2> SUFFICES ASSUME NEW c \in Names PROVE c \in Val
      OBVIOUS
    <2>1. PICK t \in Tokens \ Special : c = <<t>>
      BY DEF Names
    <2>2. QED
      BY <2>1 DEF Val
  <1>2. \A cs \in Seq(Names) : cs \in Seq(Val)
    BY <1>1
  <1>3. <<>> \in T
    OBVIOUS
  <1>4. ASSUME NEW cs \in Seq(Names), NEW c \in Names, cs \in T PROVE Append(cs, c) \in T
    <2>1. cs \in Seq(Val) /\ c \in Val /\ Header(cs) \in Val /\ Append(cs, c) \in Seq(Names)
      BY <1>1, <1>2, HeaderSteps
    <2>2. Header(Append(cs, c)) = Header(cs) \o NextPiece(cs, c)
      BY <2>1, HeaderSteps
    <2>3. CASE cs = <<>>
      <3>1. AsArrays(<<>>) = Reader /\ Fresh(Reader) /\ Reader.entry = <<>> /\ Reader.data = <<>>
        BY ReaderSteps DEF Fresh, Reader
      <3>2. <<>> \o c = Header(Append(cs, c)) /\ <<>> \in Val
        BY <2>2, <2>3, HeaderSteps, ValueTypes DEF NextPiece
      <3>3. Outside(A(Append(cs, c))) /\ Reads(Reader, A(Append(cs, c)), c)
        BY <3>1, <3>2, NameRead
      <3> HIDE DEF A
      <3>4. Got(A(Append(cs, c))) = Append(cs, c) /\ A(Append(cs, c)).data = <<>>
        BY <2>3, <3>1, <3>3 DEF Reads, Got
      <3>5. QED
        BY <2>1, <3>3, <3>4
    <2>4. CASE cs # <<>>
      <3> DEFINE x == Header(cs)
                 w == Append(x, Comma)
                 a == AsArrays(x)
                 b == AsArrays(w)
      <3>1. Outside(a) /\ Got(a) = cs /\ a.data = <<>>
        BY <1>4, <2>4
      <3>2. w \in Val /\ x \in Val /\ Comma \in Tokens
        BY <2>1, ValueTypes, SpecialTokens
      <3>3. Header(Append(cs, c)) = w \o c
        <4>1. NextPiece(cs, c) = <<Comma>> \o c
          BY <2>4 DEF NextPiece
        <4> HIDE DEF x
        <4>2. x \o (<<Comma>> \o c) = w \o c
          BY <2>1, <3>2, CommaTo
        <4>3. QED
          BY <2>2, <4>1, <4>2 DEF x
      <3>4. b = ArrayStep(a, Comma) /\ a \in ArrayReaders
        <4> HIDE DEF x
        <4>1. QED
          BY <3>2, ReaderSteps
      <3>5. Fresh(b) /\ b.entry = Got(a) /\ b.data = a.data
        <4> HIDE DEF a, b
        <4>1. QED
          BY <3>1, <3>4, EndRead
      <3>6. Outside(AsArrays(w \o c)) /\ Reads(b, AsArrays(w \o c), c)
        <4> HIDE DEF w
        <4>1. QED
          BY <3>2, <3>5, NameRead
      <3>7. A(Append(cs, c)) = AsArrays(w \o c)
        BY <3>3
      <3> HIDE DEF A, a, b, w
      <3>8. Got(A(Append(cs, c))) = Append(cs, c) /\ A(Append(cs, c)).data = <<>>
        BY <3>1, <3>5, <3>6, <3>7 DEF Reads, Got
      <3>9. QED
        BY <2>1, <3>6, <3>7, <3>8
    <2>5. QED
      BY <2>3, <2>4
  <1>5. \A cs \in Seq(Names) : cs \in T
    <2> HIDE DEF T
    <2>1. QED
      BY <1>3, <1>4, AppendInduction
  <1>6. QED
    BY <1>2, <1>5, HeaderSteps

\* A block up to its line, and the row that is its line.
Opening(cs) == Append(Header(cs), Newline)

LEMMA OpeningRead ==
    ASSUME NEW cs \in Seq(Names), cs # <<>>
    PROVE  /\ Opening(cs) \in Val
           /\ Fresh(AsArrays(Opening(cs)))
           /\ AsArrays(Opening(cs)).entry = <<>>
           /\ AsArrays(Opening(cs)).data = <<cs>>
  <1> DEFINE x == Header(cs)
             a == AsArrays(x)
  <1>1. x \in Val /\ Outside(a) /\ Got(a) = cs /\ a.data = <<>> /\ Newline \in Tokens
    BY HeaderRead, SpecialTokens
  <1>2. Opening(cs) \in Val /\ AsArrays(Opening(cs)) = ArrayStep(a, Newline) /\ a \in ArrayReaders
    <2> HIDE DEF x
    <2>1. Opening(cs) = Append(x, Newline)
      BY DEF Opening, x
    <2>2. QED
      BY <1>1, <2>1, ReaderSteps, ValueTypes
  <1> HIDE DEF a
  <1>3. /\ Fresh(ArrayStep(a, Newline)) /\ ArrayStep(a, Newline).entry = <<>>
        /\ ArrayStep(a, Newline).data = Append(a.data, Got(a))
    BY <1>1, <1>2, EndRead
  <1>4. QED
    BY <1>1, <1>2, <1>3

LEMMA BlockIs ==
    ASSUME NEW cs \in Seq(Names), cs # <<>>, NEW line \in Val
    PROVE  /\ Opening(cs) \o line \in Val
           /\ Block(cs, line) = Append(Opening(cs) \o line, Newline)
  <1> DEFINE x == Header(cs)
             m == <<Newline>>
  <1>1. x \in Val /\ Newline \in Tokens
    BY HeaderRead, SpecialTokens
  <1>2. Block(cs, line) = x \o m \o line \o m
    BY DEF Block, Header, Pieces
  <1> HIDE DEF x
  <1>3. x \o m = Append(x, Newline) /\ x \o m \in Seq(Tokens) /\ line \in Seq(Tokens)
    BY <1>1, ValLaws DEF SequenceLaws, Val
  <1>4. Opening(cs) = x \o m
    BY <1>3 DEF Opening, x
  <1> DEFINE o == x \o m
  <1> HIDE DEF o
  <1>5. o \o line \in Seq(Tokens)
    BY <1>3, ValLaws DEF SequenceLaws, o
  <1>6. Append(o \o line, Newline) = (o \o line) \o m
    BY <1>1, <1>5, ValLaws DEF SequenceLaws
  <1>7. QED
    BY <1>2, <1>4, <1>5, <1>6 DEF o, Val

LEMMA RowRead ==
    ASSUME NEW u \in Val, Fresh(AsArrays(u)), AsArrays(u).entry = <<>>,
           NEW id \in PlainTexts, NEW vs \in Seq(ColumnValues)
    PROVE  /\ RowLine(id, vs) \in Val
           /\ Outside(AsArrays(u \o RowLine(id, vs)))
           /\ Got(AsArrays(u \o RowLine(id, vs))) = <<id>> \o TextsOf(vs)
           /\ AsArrays(u \o RowLine(id, vs)).data = AsArrays(u).data
  <1> DEFINE e == EscapeCsv(id)
             x == u \o e
             t == RowTail(vs)
             a == AsArrays(u)
             b == AsArrays(x)
             c == AsArrays(x \o t)
  <1>1. e \in Val /\ Outside(b) /\ Reads(a, b, id)
    BY EscapedRead DEF Fresh
  <1>2. t \in Val /\ x \in Val
    BY <1>1, RowTailSteps, ValLaws DEF SequenceLaws, Val
  <1>3. Outside(c) /\ Got(c) = Got(b) \o TextsOf(vs) /\ c.data = b.data
    <2> HIDE DEF x
    <2>1. QED
      BY <1>1, <1>2, ValuesRead
  <1>4. RowLine(id, vs) = e \o t
    BY DEF RowLine, RowTail
  <1>5. u \in Seq(Tokens) /\ e \in Seq(Tokens) /\ t \in Seq(Tokens)
    BY <1>1, <1>2 DEF Val
  <1>6. e \o t \in Seq(Tokens) /\ u \o (e \o t) = x \o t
    <2> HIDE DEF e, t
    <2>1. QED
      BY <1>5, ConcatAssociative
  <1>7. AsArrays(u \o RowLine(id, vs)) = c /\ RowLine(id, vs) \in Val
    BY <1>4, <1>6 DEF Val
  <1>8. a.entry = <<>>
    OBVIOUS
  <1> HIDE DEF a, b, c
  <1>9. Got(b) = <<id>> /\ b.data = a.data
    BY <1>1, <1>8 DEF Reads, Got
  <1>10. QED
    BY <1>3, <1>7, <1>9 DEF a

LEMMA LastAppended ==
    ASSUME NEW X, NEW s \in Seq(X), NEW y \in X
    PROVE  /\ Append(s, y) \in Seq(X) /\ Len(Append(s, y)) = Len(s) + 1
           /\ Append(s, y)[Len(s) + 1] = y
           /\ \A i \in 1..Len(s) : Append(s, y)[i] = s[i]
  BY AppendProperties

LEMMA PairIs ==
    ASSUME NEW X, NEW x \in X, NEW y \in X, NEW a \in Seq(X), Len(a) = 2, a[1] = x, a[2] = y
    PROVE  a = <<x, y>>
  <1> DEFINE b == <<x, y>>
  <1>1. b \in Seq(X) /\ Len(b) = 2 /\ b[1] = x /\ b[2] = y
    OBVIOUS
  <1> HIDE DEF b
  <1>2. \A n \in 1..2 : a[n] = b[n]
    <2>1. \A n \in 1..2 : n = 1 \/ n = 2
      OBVIOUS
    <2>2. QED
      BY <1>1, <2>1
  <1>3. a = b
    BY <1>1, <1>2, SeqEqual
  <1>4. QED
    BY <1>3 DEF b

LEMMA AppendedToOne ==
    ASSUME NEW X, NEW x \in X, NEW y \in X
    PROVE  Append(<<x>>, y) = <<x, y>>
  <1> DEFINE s == <<x>>
             a == Append(s, y)
  <1>1. s \in Seq(X)
    OBVIOUS
  <1>2. /\ a \in Seq(X) /\ Len(a) = Len(s) + 1 /\ a[Len(s) + 1] = y
        /\ \A i \in 1..Len(s) : a[i] = s[i]
    <2> HIDE DEF s
    <2>1. QED
      BY <1>1, LastAppended
  <1>3. Len(s) = 1 /\ s[1] = x
    OBVIOUS
  <1> HIDE DEF s, a
  <1>4. 1 \in 1..Len(s) /\ Len(s) + 1 = 2
    BY <1>3
  <1>5. Len(a) = 2 /\ a[2] = y /\ a[1] = x
    <2>1. a[1] = s[1]
      BY <1>2, <1>4
    <2>2. QED
      BY <1>2, <1>3, <1>4, <2>1
  <1>6. a = <<x, y>>
    BY <1>2, <1>5, PairIs
  <1>7. QED
    BY <1>6 DEF a, s

LEMMA OneAndOthers ==
    ASSUME NEW X, NEW x \in X, NEW t \in Seq(X)
    PROVE  /\ <<x>> \o t \in Seq(X) /\ Len(<<x>> \o t) = Len(t) + 1
           /\ (<<x>> \o t)[1] = x
           /\ \A n \in 1..Len(t) : (<<x>> \o t)[n + 1] = t[n]
  OBVIOUS

\* A text up to the end of a line: the lines of both readers are those that are complete.
LEMMA CompleteText ==
    ASSUME NEW y \in Val, Outside(AsArrays(y))
    PROVE  LET text == Append(y, Newline)
               d == AsArrays(text).data
           IN  /\ SplitLines(text).state = "start" /\ ToArrays(text).state = "start"
               /\ ToArrays(text).data = d
               /\ d = Append(AsArrays(y).data, Got(AsArrays(y)))
               /\ SplitLines(text).data \in Seq(Val)
               /\ Len(SplitLines(text).data) = Len(d)
               /\ \A n \in 1..Len(d) : ParseEntry(SplitLines(text).data[n]) = d[n]
  <1> DEFINE text == Append(y, Newline)
             a == AsArrays(y)
             b == AsArrays(text)
             l == AsLines(text)
  <1>1. text \in Val /\ text \in Seq(Tokens) /\ Newline \in Tokens
    BY SpecialTokens, ValueTypes DEF Val
  <1>2. b = ArrayStep(a, Newline) /\ a \in ArrayReaders /\ b \in ArrayReaders /\ l \in LineReaders
    <2>1. b = ArrayStep(a, Newline) /\ a \in ArrayReaders
      BY <1>1, ReaderSteps
    <2> HIDE DEF text
    <2>2. QED
      BY <1>1, <2>1, ReaderSteps
  <1>3. b.state = "start" /\ b.entry = <<>> /\ b.data = Append(a.data, Got(a))
    <2>1. Outside(a)
      OBVIOUS
    <2> HIDE DEF a, b
    <2>2. QED
      BY <1>2, <2>1, EndRead DEF Fresh
  <1>4. Alike(l, b, AsEntry(l.entry), StateAfter(text))
    <2> HIDE DEF text
    <2>1. QED
      BY <1>1, ReadingsAlike
  <1>5. l.entry = <<>>
    <2>1. StateAfter(text) = "start"
      BY <1>3, <1>4 DEF Alike
    <2>2. QED
      BY <2>1, LineRead
  <1>6. SplitLines(text) = ClosedLines(l) /\ ToArrays(text) = ClosedArrays(b)
    <2> HIDE DEF text
    <2>1. QED
      BY <1>1, SplitLinesIsRun, ToArraysIsRun DEF AsLines, AsArrays
  <1> HIDE DEF l, b, a
  <1>7. SplitLines(text) = l /\ ToArrays(text) = b
    BY <1>3, <1>5, <1>6 DEF ClosedLines, ClosedArrays
  <1>8. l.state = "start" /\ b.data = [n \in DOMAIN l.data |-> ParseEntry(l.data[n])]
    BY <1>3, <1>4 DEF Alike
  <1>9. l.data \in Seq(Val) /\ b.data \in Seq(Entry)
    BY <1>2 DEF LineReaders, ArrayReaders, Entry, Entries
  <1> DEFINE d == l.data
             e == b.data
  <1>10. Len(d) = Len(e) /\ \A n \in 1..Len(e) : ParseEntry(d[n]) = e[n]
    <2>1. d \in Seq(Val) /\ e \in Seq(Entry) /\ e = [n \in DOMAIN d |-> ParseEntry(d[n])]
      BY <1>8, <1>9
    <2> HIDE DEF d, e
    <2>2. DOMAIN d = 1..Len(d) /\ DOMAIN e = 1..Len(e) /\ Len(d) \in Nat /\ Len(e) \in Nat
      BY <2>1
    <2>3. DOMAIN e = DOMAIN d
      BY <2>1
    <2>4. Len(d) = Len(e)
      BY <2>1, <2>2, <2>3
    <2>5. \A n \in DOMAIN d : e[n] = ParseEntry(d[n])
      BY <2>1
    <2>6. QED
      BY <2>2, <2>4, <2>5
  <1>11. QED
    BY <1>3, <1>7, <1>8, <1>9, <1>10 DEF b, a

\* A last line that is not complete.
LEMMA UnclosedEntry ==
    ASSUME NEW y \in Val, AsArrays(y).state # "error", AsLines(y).entry # <<>>
    PROVE  LET lines == SplitLines(y).data
               d == AsArrays(y).data
           IN  /\ lines \in Seq(Val) /\ Len(lines) = Len(d) + 1
               /\ ParseEntry(lines[Len(d) + 1]) = Got(AsArrays(y))
  <1> DEFINE a == AsArrays(y)
             l == AsLines(y)
             p == AsEntry(l.entry)
  <1>1. a \in ArrayReaders /\ l \in LineReaders /\ y \in Seq(Tokens)
    BY ReaderSteps DEF Val
  <1>2. Alike(l, a, p, StateAfter(y))
    BY ReadingsAlike
  <1>3. SplitLines(y) = ClosedLines(l)
    BY <1>1, SplitLinesIsRun DEF AsLines
  <1>4. a.state # "error" /\ l.entry # <<>>
    OBVIOUS
  <1> HIDE DEF a, l
  <1>5. ParseEntry(l.entry) = Got(a)
    <2>1. l.entry \in Val
      BY <1>1 DEF LineReaders
    <2>2. ParseEntry(l.entry) = Append(p.entry, p.value)
      BY <2>1, ParsedEntry
    <2>3. QED
      BY <1>2, <2>2 DEF Alike, Got
  <1>7. ClosedLines(l).data = Append(l.data, l.entry)
    <2>1. l.state # "error"
      BY <1>2, <1>4 DEF Alike
    <2>2. QED
      BY <1>1, <1>4, <2>1 DEF ClosedLines, EndOfEntry, LineReaders
  <1>8. l.data \in Seq(Val) /\ l.entry \in Val /\ a.data \in Seq(Entry)
        /\ a.data = [n \in DOMAIN l.data |-> ParseEntry(l.data[n])]
    BY <1>1, <1>2 DEF LineReaders, ArrayReaders, Entry, Entries, Alike
  <1> DEFINE d == l.data
             e == a.data
  <1>9. Len(d) = Len(e) /\ Len(e) \in Nat
    <2>1. d \in Seq(Val) /\ e \in Seq(Entry) /\ e = [n \in DOMAIN d |-> ParseEntry(d[n])]
      BY <1>8
    <2> HIDE DEF d, e
    <2>2. DOMAIN d = 1..Len(d) /\ DOMAIN e = 1..Len(e) /\ Len(d) \in Nat /\ Len(e) \in Nat
      BY <2>1
    <2>3. DOMAIN e = DOMAIN d
      BY <2>1
    <2>4. Len(d) = Len(e)
      BY <2>1, <2>2, <2>3
    <2>5. QED
      BY <2>2, <2>4
  <1>10. /\ Append(d, l.entry) \in Seq(Val) /\ Len(Append(d, l.entry)) = Len(e) + 1
         /\ Append(d, l.entry)[Len(e) + 1] = l.entry
    <2>1. d \in Seq(Val) /\ l.entry \in Val
      BY <1>8
    <2> HIDE DEF d, e
    <2>2. QED
      BY <1>9, <2>1, AppendProperties
  <1>11. QED
    BY <1>3, <1>5, <1>7, <1>10 DEF a

FieldsOf(headers, entry) ==
    [header \in ToSet(headers) |->
        LET n == CHOOSE n \in DOMAIN headers : headers[n] = header
        IN  IF n \in DOMAIN entry THEN entry[n] ELSE <<NullValue>>]

Distinct(cs) == \A i, j \in DOMAIN cs : cs[i] = cs[j] => i = j

LEMMA FieldsAre ==
    ASSUME NEW cs, Distinct(cs), NEW entry, NEW k \in DOMAIN cs
    PROVE  /\ cs[k] \in ToSet(cs)
           /\ FieldsOf(cs, entry)[cs[k]] = IF k \in DOMAIN entry THEN entry[k] ELSE <<NullValue>>
  <1>1. cs[k] \in ToSet(cs)
    BY DEF ToSet
  <1>2. (CHOOSE n \in DOMAIN cs : cs[n] = cs[k]) = k
    BY DEF Distinct
  <1> DEFINE Place(h) == CHOOSE n \in DOMAIN cs : cs[n] = h
  <1>3. FieldsOf(cs, entry)
          = [h \in ToSet(cs) |->
               IF Place(h) \in DOMAIN entry THEN entry[Place(h)] ELSE <<NullValue>>]
    BY DEF FieldsOf
  <1>4. Place(cs[k]) = k
    BY <1>2
  <1> HIDE DEF Place
  <1>5. QED
    BY <1>1, <1>3, <1>4

\* What a page makes of a block of one line.
LEMMA BlockRead ==
    ASSUME NEW cs \in Seq(Names), cs # <<>>, NEW line \in Val,
           Outside(AsArrays(Opening(cs) \o line)),
           AsArrays(Opening(cs) \o line).data = <<cs>>
    PROVE  LET text == Block(cs, line)
               row == Got(AsArrays(Opening(cs) \o line))
           IN  /\ SplitLines(text).state = "start" /\ ToArrays(text).state = "start"
               /\ Len(SplitLines(text).data) = 2
               /\ ParseEntry(SplitLines(text).data[2]) = row
               /\ ToArrays(text).data[1] = cs
               /\ ToObjects(text) = <<FieldsOf(cs, row)>>
  <1> DEFINE y == Opening(cs) \o line
             text == Append(y, Newline)
             d == AsArrays(text).data
             row == Got(AsArrays(y))
             ls == SplitLines(text).data
  <1>1. y \in Val /\ Block(cs, line) = text
    BY BlockIs
  <1>2. /\ SplitLines(text).state = "start" /\ ToArrays(text).state = "start"
        /\ ToArrays(text).data = d
        /\ d = Append(AsArrays(y).data, row)
        /\ Len(ls) = Len(d)
        /\ \A n \in 1..Len(d) : ParseEntry(ls[n]) = d[n]
    <2> HIDE DEF y
    <2>1. Outside(AsArrays(y))
      BY DEF y
    <2>2. QED
      BY <1>1, <2>1, CompleteText
  <1>3. d = <<cs, row>>
    <2>1. AsArrays(y).data = <<cs>>
      OBVIOUS
    <2>2. d = Append(<<cs>>, row)
      <3> HIDE DEF y, row, d
      <3>1. QED
        BY <1>2, <2>1
    <2> HIDE DEF row, d
    <2>3. Append(<<cs>>, row) = <<cs, row>>
      <3>1. cs \in {cs, row} /\ row \in {cs, row}
        OBVIOUS
      <3>2. QED
        BY <3>1, AppendedToOne
    <2>4. QED
      BY <2>2, <2>3
  <1> HIDE DEF d, row, ls
  <1>4. Len(ls) = 2 /\ ParseEntry(ls[1]) = cs /\ ParseEntry(ls[2]) = row
    <2>1. Len(d) = 2 /\ d[1] = cs /\ d[2] = row /\ 1 \in 1..2 /\ 2 \in 1..2
      BY <1>3
    <2>2. QED
      BY <1>2, <2>1
  <1>5. ToObjects(text) = <<FieldsOf(cs, row)>>
    <2>1. ToObjects(text) = [n \in 1..(Len(ls) - 1) |->
                               FieldsOf(ParseEntry(ls[1]), ParseEntry(ls[n + 1]))]
      BY DEF ToObjects, FieldsOf, ls
    <2>2. Len(ls) - 1 = 1 /\ \A n \in 1..1 : n = 1 /\ n + 1 = 2
      BY <1>4
    <2>3. ToObjects(text) = [n \in 1..1 |-> FieldsOf(cs, row)]
      BY <1>4, <2>1, <2>2
    <2>4. QED
      BY <2>3
  <1>6. QED
    BY <1>1, <1>2, <1>3, <1>4, <1>5 DEF row, ls

\* A row with any number of values under columns of different names arrives at a page, whatever
\* special characters its id and its values contain.
THEOREM EveryRowArrives ==
    ASSUME NEW cs \in Seq(Names), Distinct(cs), NEW id \in PlainTexts,
           NEW vs \in Seq(ColumnValues), vs # <<>>, Len(cs) = Len(vs) + 1
    PROVE  RowArrives(cs, id, vs)
  <1> DEFINE line == RowLine(id, vs)
             row == <<id>> \o TextsOf(vs)
             m == Len(vs)
             y == Opening(cs) \o line
             text == Block(cs, line)
  <1>1. m \in Nat /\ m >= 1 /\ DOMAIN vs = 1..m /\ DOMAIN cs = 1..(m + 1) /\ cs # <<>>
        /\ \A n \in 1..m : vs[n] \in ColumnValues
    OBVIOUS
  <1>2. /\ Len(row) = m + 1 /\ DOMAIN row = 1..(m + 1) /\ row[1] = id
        /\ \A n \in 1..m : row[n + 1] = AsText(vs[n])
    <2> DEFINE ts == TextsOf(vs)
    <2>1. ts \in [1..m -> Val] /\ \A n \in 1..m : ts[n] = AsText(vs[n])
      BY <1>1, ColumnValueTypes DEF TextsOf
    <2>2. ts \in Seq(Val) /\ Len(ts) = m
      BY <1>1, <2>1
    <2> HIDE DEF ts
    <2>3. /\ <<id>> \o ts \in Seq(Val) /\ Len(<<id>> \o ts) = Len(ts) + 1
          /\ (<<id>> \o ts)[1] = id
          /\ \A n \in 1..Len(ts) : (<<id>> \o ts)[n + 1] = ts[n]
      BY <2>2, PlainText, OneAndOthers
    <2>5. QED
      BY <2>1, <2>2, <2>3 DEF ts
  <1>3. line \in Val /\ Outside(AsArrays(y)) /\ Got(AsArrays(y)) = row /\ AsArrays(y).data = <<cs>>
    <2> DEFINE o == Opening(cs)
    <2>1. o \in Val /\ Fresh(AsArrays(o)) /\ AsArrays(o).entry = <<>> /\ AsArrays(o).data = <<cs>>
      BY <1>1, OpeningRead
    <2> HIDE DEF o
    <2>2. line \in Val /\ Outside(AsArrays(o \o line)) /\ Got(AsArrays(o \o line)) = row
          /\ AsArrays(o \o line).data = AsArrays(o).data
      BY <2>1, RowRead
    <2>3. QED
      BY <2>1, <2>2 DEF o
  <1> HIDE DEF row, m, line
  <1>5. /\ SplitLines(text).state = "start" /\ ToArrays(text).state = "start"
        /\ ToArrays(text).data[1] = cs
        /\ ToObjects(text) = <<FieldsOf(cs, row)>>
    BY <1>1, <1>3, BlockRead
  <1>6. \A k \in 1..(m + 1) : FieldsOf(cs, row)[cs[k]] = row[k]
    BY <1>1, <1>2, FieldsAre
  <1> DEFINE rows == ToObjects(text)
  <1>8. Len(rows) = 1 /\ rows[1] = FieldsOf(cs, row)
    BY <1>5
  <1>9. rows[1][cs[1]] = id /\ \A n \in DOMAIN vs : rows[1][cs[n + 1]] = AsText(vs[n])
    <2> HIDE DEF rows
    <2>1. 1 \in 1..(m + 1) /\ \A n \in 1..m : n + 1 \in 1..(m + 1)
      BY <1>1
    <2>2. QED
      BY <1>1, <1>2, <1>6, <1>8, <2>1
  <1>10. QED
    BY <1>5, <1>8, <1>9 DEF RowArrives, line

LEMMA GotIs ==
    ASSUME NEW r \in ArrayReaders
    PROVE  /\ Got(r) \in Entry /\ Len(Got(r)) = Len(r.entry) + 1
           /\ Got(r)[Len(r.entry) + 1] = r.value
           /\ r.entry = <<>> => Got(r)[1] = r.value
           /\ r.entry # <<>> => Len(Got(r)) > 1 /\ Got(r)[1] = r.entry[1]
  <1> DEFINE e == r.entry
             v == r.value
  <1>1. e \in Seq(Val) /\ v \in Val /\ Got(r) = Append(e, v)
    BY DEF ArrayReaders, Entry, Got
  <1> HIDE DEF e, v
  <1>2. /\ Got(r) \in Seq(Val) /\ Len(Got(r)) = Len(e) + 1 /\ Got(r)[Len(e) + 1] = v
        /\ \A i \in 1..Len(e) : Got(r)[i] = e[i]
    BY <1>1, LastAppended
  <1>3. ASSUME e = <<>> PROVE Got(r)[1] = v
    BY <1>1, <1>3
  <1>4. ASSUME e # <<>> PROVE Len(Got(r)) > 1 /\ Got(r)[1] = e[1]
    <2>1. Len(e) \in Nat /\ Len(e) >= 1
      BY <1>1, <1>4
    <2>2. 1 \in 1..Len(e) /\ Len(e) + 1 > 1
      BY <2>1
    <2>3. QED
      BY <1>2, <2>2
  <1>5. QED
    BY <1>2, <1>3, <1>4 DEF e, v, Entry

LEMMA SetAppend ==
    ASSUME NEW u \in Val, NEW c \in Tokens
    PROVE  ToSet(Append(u, c)) = ToSet(u) \union {c}
  <1> DEFINE w == Append(u, c)
             m == Len(u)
  <1>1. /\ DOMAIN w = 1..(m + 1) /\ w[m + 1] = c /\ \A i \in 1..m : w[i] = u[i]
        /\ m \in Nat /\ DOMAIN u = 1..m
    BY AppendProperties DEF Val
  <1> HIDE DEF w, m
  <1>2. \A i \in 1..(m + 1) : i = m + 1 \/ i \in 1..m
    BY <1>1
  <1>3. m + 1 \in 1..(m + 1) /\ \A i \in 1..m : i \in 1..(m + 1)
    BY <1>1
  <1>4. ToSet(w) = ToSet(u) \union {c}
    BY <1>1, <1>2, <1>3 DEF ToSet
  <1>5. QED
    BY <1>4 DEF w

\* What a reader knows of the line u, as long as it has met neither a comma nor an end.
Knows(u, r) ==
    /\ r.state = "start" => r.value = <<>>
    /\ r.state \in {"start", "plain"} =>
          Len(r.value) <= Len(u) /\ (Len(r.value) = Len(u) => ~NeedsQuotes(u))
    /\ r.state = "quoted" =>
          /\ Len(r.value) < Len(u)
          /\ Len(r.value) + 1 = Len(u) => u[1] = Quote /\ Quote \notin ToSet(r.value)
    /\ r.state = "closing" => Len(r.value) + 2 <= Len(u)

LEMMA KnowsStart == ASSUME NEW r, Fresh(r) PROVE Knows(<<>>, r)
  <1>1. Len(<<>>) = 0 /\ ToSet(<<>>) = {}
    BY DEF ToSet
  <1>2. QED
    BY <1>1 DEF Knows, Fresh, NeedsQuotes

LEMMA KnowsMore ==
    ASSUME NEW u \in Val, NEW r \in ArrayReaders, Knows(u, r), NEW c \in Tokens,
           Outside(r) => c \notin {Comma, Newline}
    PROVE  Knows(Append(u, c), Read(r, c))
  <1> DEFINE w == Append(u, c)
             v == r.value
             q == Read(r, c)
             x == Append(v, c)
             m == Len(u)
             k == Len(v)
  <1>1. v \in Seq(Tokens) /\ u \in Seq(Tokens)
    BY DEF ArrayReaders, Val
  <1>2. m \in Nat /\ k \in Nat /\ Len(w) = m + 1 /\ Len(x) = k + 1
        /\ (m > 0 => w[1] = u[1]) /\ (m = 0 => w[1] = c) /\ (m = 0 <=> u = <<>>)
        /\ (k = 0 <=> v = <<>>)
    BY <1>1
  <1>3. ToSet(w) = ToSet(u) \union {c} /\ ToSet(x) = ToSet(v) \union {c}
    BY <1>1, SetAppend DEF Val
  <1>4. q.state = After(r.state, c) /\ q.value = IF IsData(r.state, c) THEN x ELSE v
    BY DEF Read, ArrayReaders
  <1>5. Quote \in Special /\ Return \in Special /\ Quote # Return /\ Comma \in Special
        /\ Newline \in Special
    BY SpecialTokens
  <1>6. r.state \in States
    BY DEF ArrayReaders
  <1>7. (NeedsQuotes(w) <=> NeedsQuotes(u) \/ c \in Special) /\ ToSet(<<>>) = {}
    BY <1>3 DEF NeedsQuotes, ToSet
  <1>8. Knows(u, r)
    OBVIOUS
  <1>9. v = r.value /\ Len(u) = m /\ Len(v) = k
    OBVIOUS
  <1> SUFFICES Knows(w, q)
    OBVIOUS
  <1> HIDE DEF w, v, q, x, m, k
  <1>10. CASE r.state = "quoted"
    <2>1. k < m /\ (k + 1 = m => u[1] = Quote /\ Quote \notin ToSet(v))
      BY <1>8, <1>9, <1>10 DEF Knows
    <2>2. CASE c = Quote
      <3>1. q.state = "closing" /\ q.value = v
        BY <1>4, <1>10, <2>2 DEF After, IsData
      <3>2. k + 2 <= m + 1
        BY <1>2, <2>1
      <3>3. QED
        BY <1>2, <1>9, <3>1, <3>2 DEF Knows
    <2>3. CASE c # Quote
      <3>1. q.state = "quoted" /\ q.value = x
        BY <1>4, <1>10, <2>3 DEF After, IsData
      <3>2. k + 1 < m + 1 /\ ((k + 1) + 1 = m + 1 => w[1] = Quote /\ Quote \notin ToSet(x))
        BY <1>2, <1>3, <2>1, <2>3
      <3>3. QED
        BY <1>2, <3>1, <3>2 DEF Knows
    <2>4. QED
      BY <2>2, <2>3
  <1>11. CASE r.state = "error"
    <2>1. q.state = "error"
      BY <1>4, <1>11 DEF After
    <2>2. QED
      BY <2>1 DEF Knows
  <1>12. CASE r.state = "closing"
    <2>0. c \notin {Comma, Newline} /\ k + 2 <= m
      BY <1>8, <1>9, <1>12 DEF Knows, Outside
    <2>1. CASE c = Return
      <3>1. q.state = "closing" /\ q.value = v
        BY <1>4, <1>5, <1>12, <2>0, <2>1 DEF After, IsData
      <3>2. QED
        BY <1>2, <1>9, <2>0, <3>1 DEF Knows
    <2>2. CASE c = Quote
      <3>1. q.state = "quoted" /\ q.value = x
        BY <1>4, <1>5, <1>12, <2>0, <2>2 DEF After, IsData
      <3>2. k + 1 < m + 1 /\ (k + 1) + 1 # m + 1
        BY <1>2, <2>0
      <3>3. QED
        BY <1>2, <3>1, <3>2 DEF Knows
    <2>3. CASE c \notin {Return, Quote}
      <3>1. q.state = "error"
        BY <1>4, <1>12, <2>0, <2>3 DEF After
      <3>2. QED
        BY <3>1 DEF Knows
    <2>4. QED
      BY <2>1, <2>2, <2>3
  <1>13. CASE r.state = "start"
    <2>0. c \notin {Comma, Newline} /\ v = <<>> /\ k = 0 /\ (m = 0 => ~NeedsQuotes(u))
      BY <1>2, <1>8, <1>9, <1>13 DEF Knows, Outside
    <2>1. CASE c = Return
      <3>1. q.state = "start" /\ q.value = v
        BY <1>4, <1>5, <1>13, <2>0, <2>1 DEF After, IsData
      <3>2. QED
        BY <1>2, <1>9, <2>0, <3>1 DEF Knows
    <2>2. CASE c = Quote
      <3>1. q.state = "quoted" /\ q.value = v
        BY <1>4, <1>5, <1>13, <2>0, <2>2 DEF After, IsData
      <3>2. k < m + 1 /\ (k + 1 = m + 1 => w[1] = Quote /\ Quote \notin ToSet(v))
        BY <1>2, <1>7, <2>0, <2>2
      <3>3. QED
        BY <1>2, <1>9, <3>1, <3>2 DEF Knows
    <2>3. CASE c \notin {Return, Quote}
      <3>0. c \notin Special
        BY <2>0, <2>3 DEF Special
      <3>1. q.state = "plain" /\ q.value = x
        BY <1>4, <1>13, <2>0, <2>3, <3>0 DEF After, IsData
      <3>2. k + 1 <= m + 1 /\ (k + 1 = m + 1 => ~NeedsQuotes(w))
        BY <1>2, <1>7, <2>0, <3>0
      <3>3. QED
        BY <1>2, <3>1, <3>2 DEF Knows
    <2>4. QED
      BY <2>1, <2>2, <2>3
  <1>14. CASE r.state = "plain"
    <2>0. c \notin {Comma, Newline} /\ k <= m
      BY <1>2, <1>8, <1>9, <1>14 DEF Knows, Outside
    <2>1. CASE c = Return
      <3>1. q.state = "plain" /\ q.value = v
        BY <1>4, <1>5, <1>14, <2>0, <2>1 DEF After, IsData
      <3>2. k <= m + 1 /\ k # m + 1
        BY <1>2, <2>0
      <3>3. QED
        BY <1>2, <1>9, <3>1, <3>2 DEF Knows
    <2>2. CASE c # Return
      <3>1. q.state = "error"
        BY <1>4, <1>14, <2>0, <2>2 DEF After
      <3>2. QED
        BY <3>1 DEF Knows
    <2>3. QED
      BY <2>1, <2>2
  <1>15. QED
    BY <1>6, <1>10, <1>11, <1>12, <1>13, <1>14 DEF States

OneValue(r) == Len(r.data) = 1 /\ r.entry = <<>>

LEMMA MoreRead ==
    ASSUME NEW u \in Val, NEW r \in ArrayReaders, NEW c \in Tokens,
           Len(r.data) >= 1, OneValue(r) => Knows(u, r)
    PROVE  LET q == ArrayStep(r, c)
           IN  Len(q.data) >= 1 /\ (OneValue(q) => Knows(Append(u, c), q))
  <1> DEFINE q == ArrayStep(r, c)
             d == r.data
             g == Got(r)
  <1>1. d \in Seq(Entry) /\ g \in Entry /\ Len(g) >= 1 /\ Len(d) \in Nat /\ Len(d) >= 1
    BY GotIs DEF ArrayReaders, Entries, Entry
  <1> HIDE DEF q, d, g
  <1>2. CASE Outside(r) /\ c = Comma
    <2>1. q.entry = g /\ q.data = d
      BY <1>2, EndRead DEF q, g, d
    <2>2. q.entry # <<>>
      BY <1>1, <2>1 DEF Entry
    <2>3. QED
      BY <1>1, <2>1, <2>2 DEF OneValue, q
  <1>3. CASE Outside(r) /\ c = Newline
    <2>1. q.data = Append(d, g)
      BY <1>3, EndRead DEF q, g, d
    <2>2. Len(Append(d, g)) = Len(d) + 1
      BY <1>1, LastAppended
    <2>3. Len(q.data) >= 1 /\ Len(q.data) # 1
      BY <1>1, <2>1, <2>2
    <2>4. QED
      BY <2>3 DEF OneValue, q
  <1>4. CASE Outside(r) => c \notin {Comma, Newline}
    <2>1. q = Read(r, c)
      BY <1>4 DEF ArrayStep, q
    <2>2. q.data = r.data /\ q.entry = r.entry
      BY <2>1 DEF Read, ArrayReaders
    <2>3. OneValue(q) => Knows(Append(u, c), q)
      <3> SUFFICES ASSUME OneValue(q) PROVE Knows(Append(u, c), q)
        OBVIOUS
      <3>1. Knows(u, r)
        BY <2>2 DEF OneValue
      <3>2. QED
        BY <1>4, <2>1, <3>1, KnowsMore
    <2>4. QED
      BY <2>2, <2>3 DEF q
  <1>5. QED
    BY <1>2, <1>3, <1>4

\* The reader in a block, after the part u of its line.
LEMMA LineKnown ==
    ASSUME NEW cs \in Seq(Names), cs # <<>>
    PROVE  \A u \in Val : LET r == AsArrays(Opening(cs) \o u)
                          IN  Len(r.data) >= 1 /\ (OneValue(r) => Knows(u, r))
  <1> DEFINE o == Opening(cs)
             A(u) == AsArrays(o \o u)
             T == {u \in Val : Len(A(u).data) >= 1 /\ (OneValue(A(u)) => Knows(u, A(u)))}
  <1>1. o \in Val /\ Fresh(AsArrays(o)) /\ AsArrays(o).data = <<cs>>
    BY OpeningRead
  <1> HIDE DEF o
  <1>2. <<>> \in T
    <2> DEFINE none == <<>>
               r == A(none)
    <2>1. o \o none = o /\ none \in Val
      BY <1>1, ValLaws, ValueTypes DEF SequenceLaws, Val
    <2>2. r.data = <<cs>> /\ Fresh(r)
      BY <1>1, <2>1
    <2>3. Knows(none, r)
      <3> HIDE DEF r
      <3>1. QED
        BY <2>2, KnowsStart
    <2>4. Len(r.data) = 1
      <3>1. Len(<<cs>>) = 1
        OBVIOUS
      <3> HIDE DEF r
      <3>2. QED
        BY <2>2, <3>1
    <2> HIDE DEF none
    <2>5. Len(r.data) >= 1
      <3> HIDE DEF r
      <3>1. QED
        BY <2>4
    <2>6. none \in T
      BY <2>1, <2>3, <2>5
    <2>7. QED
      BY <2>6 DEF none
  <1>3. ASSUME NEW u \in Seq(Tokens), NEW c \in Tokens, u \in T PROVE Append(u, c) \in T
    <2> DEFINE x == o \o u
    <2>1. u \in Val /\ Append(u, c) \in Val /\ x \in Val /\ o \o Append(u, c) = Append(x, c)
      <3>1. o \in Seq(Tokens)
        BY <1>1 DEF Val
      <3>2. u \in Val /\ Append(u, c) \in Val /\ x \in Val
        BY <3>1, ValLaws DEF SequenceLaws, Val
      <3>3. o \o Append(u, c) = Append(o \o u, c)
        BY <3>1, AppendToConcat
      <3>4. QED
        BY <3>2, <3>3
    <2>2. AsArrays(Append(x, c)) = ArrayStep(AsArrays(x), c) /\ AsArrays(x) \in ArrayReaders
      <3> HIDE DEF x
      <3>1. QED
        BY <2>1, ReaderSteps
    <2>3. Len(AsArrays(x).data) >= 1 /\ (OneValue(AsArrays(x)) => Knows(u, AsArrays(x)))
      BY <1>3
    <2> DEFINE r == AsArrays(x)
               q == ArrayStep(r, c)
    <2>4. Len(q.data) >= 1 /\ (OneValue(q) => Knows(Append(u, c), q))
      <3>1. r \in ArrayReaders /\ Len(r.data) >= 1 /\ (OneValue(r) => Knows(u, r))
        BY <2>2, <2>3
      <3> HIDE DEF r
      <3>2. QED
        BY <2>1, <3>1, MoreRead
    <2>5. A(Append(u, c)) = q
      BY <2>1, <2>2
    <2> HIDE DEF A, q
    <2>6. QED
      BY <2>1, <2>4, <2>5
  <1>4. \A u \in Seq(Tokens) : u \in T
    <2> HIDE DEF T
    <2>1. QED
      BY <1>2, <1>3, AppendInduction
  <1>5. QED
    BY <1>4 DEF Val, o

\* An id without special characters arrives as it was written.
LEMMA PlainIdArrives ==
    ASSUME NEW cs \in Seq(Names), Distinct(cs), cs # <<>>,
           NEW id \in PlainTexts, ~NeedsQuotes(id)
    PROVE  LET lines == SplitLines(Block(cs, RemovalLine(id)))
               rows == ToObjects(Block(cs, RemovalLine(id)))
           IN  /\ lines.state = "start" /\ Len(lines.data) = 2
               /\ ParseEntry(lines.data[2]) = <<id>>
               /\ rows = <<[column \in ToSet(cs) |->
                              IF column = cs[1] THEN id ELSE <<NullValue>>]>>
  <1> DEFINE o == Opening(cs)
             a == AsArrays(o)
             b == AsArrays(o \o id)
             text == Block(cs, id)
             x == SplitLines(text).data[2]
  <1>1. EscapeCsv(id) = id /\ id \in Val
    BY PlainText DEF EscapeCsv
  <1>2. o \in Val /\ Fresh(a) /\ a.entry = <<>> /\ a.data = <<cs>>
    BY OpeningRead
  <1>3. Outside(b) /\ Reads(a, b, id)
    <2> HIDE DEF o
    <2>1. QED
      BY <1>1, <1>2, EscapedRead DEF Fresh
  <1>4. Got(b) = <<id>> /\ b.data = <<cs>>
    <2> HIDE DEF a, b
    <2>1. QED
      BY <1>2, <1>3 DEF Reads, Got
  <1>5. /\ SplitLines(text).state = "start" /\ Len(SplitLines(text).data) = 2
        /\ ParseEntry(x) = <<id>>
        /\ ToObjects(text) = <<FieldsOf(cs, <<id>>)>>
    BY <1>1, <1>3, <1>4, BlockRead
  <1>7. FieldsOf(cs, <<id>>)
          = [column \in ToSet(cs) |-> IF column = cs[1] THEN id ELSE <<NullValue>>]
    <2>1. FieldsOf(cs, <<id>>) = [column \in ToSet(cs) |-> FieldsOf(cs, <<id>>)[column]]
      BY DEF FieldsOf
    <2>2. ASSUME NEW column \in ToSet(cs)
          PROVE  FieldsOf(cs, <<id>>)[column] = IF column = cs[1] THEN id ELSE <<NullValue>>
      <3>1. PICK k \in DOMAIN cs : cs[k] = column
        BY DEF ToSet
      <3>2. FieldsOf(cs, <<id>>)[column]
              = IF k \in DOMAIN <<id>> THEN <<id>>[k] ELSE <<NullValue>>
        BY <3>1, FieldsAre
      <3>3. 1 \in DOMAIN cs
        BY EmptySeq
      <3>4. column = cs[1] <=> k = 1
        BY <3>1, <3>3 DEF Distinct
      <3>5. (k \in DOMAIN <<id>> <=> k = 1) /\ <<id>>[1] = id
        OBVIOUS
      <3>6. QED
        BY <3>2, <3>4, <3>5
    <2> HIDE DEF o
    <2>3. QED
      BY <2>1, <2>2
  <1>8. RemovalLine(id) = id
    BY DEF RemovalLine
  <1>9. QED
    BY <1>5, <1>7, <1>8

LEMMA OneValueEntry == \A p, v : p = <<v>> => ~(Len(p) > 1) /\ p[1] = v
  OBVIOUS

\* An id that arrives has no special characters.
LEMMA OnlyPlainIdsArrive ==
    ASSUME NEW cs \in Seq(Names), cs # <<>>, NEW id \in Val,
           SplitLines(Block(cs, id)).state = "start",
           Len(SplitLines(Block(cs, id)).data) = 2,
           ParseEntry(SplitLines(Block(cs, id)).data[2]) = <<id>>
    PROVE  ~NeedsQuotes(id)
  <1> DEFINE y == Opening(cs) \o id
             text == Append(y, Newline)
             r == AsArrays(y)
             q == AsArrays(text)
             lines == SplitLines(text)
             x == lines.data[2]
  <1>1. y \in Val /\ Block(cs, id) = text /\ text \in Val /\ Newline \in Tokens
    BY BlockIs, SpecialTokens, ValueTypes
  <1>2. lines.state = "start" /\ Len(lines.data) = 2
        /\ ParseEntry(x) = <<id>>
    BY <1>1
  <1>3. ~(Len(ParseEntry(x)) > 1) /\ ParseEntry(x)[1] = id
    BY <1>2, OneValueEntry
  <1>4. Len(r.data) >= 1 /\ (OneValue(r) => Knows(id, r))
    BY LineKnown
  <1>5. r \in ArrayReaders /\ q \in ArrayReaders /\ q = ArrayStep(r, Newline)
    <2>1. r \in ArrayReaders /\ q = ArrayStep(r, Newline)
      <3> HIDE DEF y
      <3>1. QED
        BY <1>1, ReaderSteps
    <2> HIDE DEF text
    <2>2. q \in ArrayReaders
      BY <1>1, ReaderSteps
    <2>3. QED
      BY <2>1, <2>2
  <1>6. CASE Outside(r)
    <2> DEFINE d == q.data
    <2>1. /\ d = Append(r.data, Got(r)) /\ Len(lines.data) = Len(d)
          /\ \A n \in 1..Len(d) : ParseEntry(lines.data[n]) = d[n]
      <3> HIDE DEF y
      <3>1. QED
        BY <1>1, <1>6, CompleteText
    <2>2. r.data \in Seq(Entry) /\ Got(r) \in Entry
      BY <1>5, GotIs DEF ArrayReaders, Entries
    <2>3. Len(d) = Len(r.data) + 1 /\ d[Len(r.data) + 1] = Got(r) /\ Len(r.data) \in Nat
      <3> HIDE DEF r, d
      <3>1. QED
        BY <2>1, <2>2, LastAppended
    <2> HIDE DEF r, d, lines
    <2>4. Len(r.data) = 1 /\ 2 \in 1..Len(d) /\ Len(r.data) + 1 = 2
      <3> DEFINE m == Len(r.data)
                 k == Len(d)
                 j == Len(lines.data)
      <3>1. m \in Nat /\ k = m + 1 /\ j = k /\ j = 2
        BY <1>2, <2>1, <2>3
      <3> HIDE DEF m, k, j
      <3>2. m = 1 /\ 2 \in 1..k /\ m + 1 = 2
        BY <3>1
      <3>3. QED
        BY <3>2 DEF m, k
    <2>5. ParseEntry(x) = Got(r)
      BY <2>1, <2>3, <2>4
    <2> HIDE DEF x
    <2>6. r.entry = <<>> /\ r.value = id
      BY <1>3, <1>5, <2>5, GotIs
    <2>7. Knows(id, r)
      BY <1>4, <2>4, <2>6 DEF OneValue
    <2>8. Len(r.value) = Len(id) /\ Len(id) \in Nat
      BY <2>6 DEF Val
    <2>9. CASE r.state \in {"start", "plain"}
      BY <2>7, <2>8, <2>9 DEF Knows
    <2>10. CASE r.state = "closing"
      <3>1. Len(r.value) + 2 <= Len(id)
        BY <2>7, <2>10 DEF Knows
      <3>2. QED
        BY <2>8, <3>1
    <2>11. QED
      BY <1>5, <1>6, <2>9, <2>10 DEF Outside, ArrayReaders, States
  <1>7. CASE r.state = "quoted"
    <2> DEFINE v == Append(r.value, Newline)
               l == AsLines(text)
    <2>1. q.state = "quoted" /\ Reads(r, q, v)
      <3> HIDE DEF r, q
      <3>1. QED
        BY <1>1, <1>5, <1>7, SpecialTokens, TokenRead
    <2>2. l.entry # <<>>
      <3> DEFINE k == AsLines(y)
      <3>1. k \in LineReaders /\ l = LineStep(k, Newline) /\ k.state = "quoted"
        <4>1. k.state = "quoted"
          BY <1>1, <1>7, ReadingsAlike DEF Alike
        <4> HIDE DEF y
        <4>2. QED
          BY <1>1, <4>1, ReaderSteps
      <3> HIDE DEF k, l
      <3>2. Append(k.entry, Newline) # <<>>
        <4> DEFINE e == k.entry
        <4>1. e \in Seq(Tokens)
          BY <3>1 DEF LineReaders, Val
        <4> HIDE DEF e
        <4>2. Append(e, Newline) # <<>>
          BY <1>1, <4>1, AppendProperties
        <4>3. QED
          BY <4>2 DEF e
      <3>3. l.entry = Append(k.entry, Newline)
        BY <3>1 DEF LineStep, Outside, LineReaders
      <3>4. QED
        BY <3>2, <3>3
    <2>3. Len(lines.data) = Len(q.data) + 1 /\ ParseEntry(lines.data[Len(q.data) + 1]) = Got(q)
      <3>1. q.state # "error"
        BY <2>1
      <3> HIDE DEF text
      <3>2. QED
        BY <1>1, <2>2, <3>1, UnclosedEntry
    <2>4. q.data \in Seq(Entry)
      BY <1>5 DEF ArrayReaders, Entries
    <2> HIDE DEF r, q, lines
    <2>5. Len(q.data) = 1 /\ Len(q.data) + 1 = 2
      <3> DEFINE m == Len(q.data)
                 j == Len(lines.data)
      <3>1. m \in Nat /\ j = m + 1 /\ j = 2
        BY <1>2, <2>3, <2>4
      <3> HIDE DEF m, j
      <3>2. m = 1 /\ m + 1 = 2
        BY <3>1
      <3>3. QED
        BY <3>2 DEF m
    <2>6. ParseEntry(x) = Got(q)
      BY <2>3, <2>5
    <2> HIDE DEF x
    <2>7. q.entry = <<>> /\ q.value = id
      BY <1>3, <1>5, <2>6, GotIs
    <2>8. Knows(id, r) /\ id = Append(r.value, Newline)
      BY <1>4, <2>1, <2>5, <2>7 DEF OneValue, Reads
    <2> DEFINE w == r.value
               m == Len(w)
    <2>9. w \in Seq(Tokens) /\ id = Append(w, Newline)
      BY <1>5, <2>8 DEF ArrayReaders, Val
    <2>10. id[1] = Quote /\ Quote \notin ToSet(w)
      <3>1. Len(id) = m + 1
        <4> HIDE DEF w
        <4>1. QED
          BY <1>1, <2>9, LastAppended
      <3>2. QED
        BY <1>7, <2>8, <3>1 DEF Knows
    <2> HIDE DEF w
    <2>11. CASE w = <<>>
      <3>1. id[1] = Newline
        BY <2>9, <2>11
      <3>2. QED
        BY <2>10, <3>1, SpecialTokens
    <2>12. CASE w # <<>>
      <3>1. 1 \in 1..Len(w) /\ DOMAIN w = 1..Len(w)
        BY <2>9, <2>12
      <3>2. id[1] = w[1]
        BY <1>1, <2>9, <3>1, LastAppended
      <3>3. w[1] \in ToSet(w)
        BY <3>1 DEF ToSet
      <3>4. QED
        BY <2>10, <3>2, <3>3
    <2>13. QED
      BY <2>11, <2>12
  <1>8. CASE r.state = "error"
    <2>1. q.state = "error"
      <3> HIDE DEF r, q
      <3>1. QED
        BY <1>5, <1>8 DEF ArrayStep, Outside, Read, After, ArrayReaders
    <2>2. AsLines(text).state = "error"
      <3> HIDE DEF text
      <3>1. QED
        BY <1>1, <2>1, ReadingsAlike DEF Alike
    <2>3. lines = ClosedLines(AsLines(text))
      <3> HIDE DEF text
      <3>1. QED
        BY <1>1, SplitLinesIsRun DEF AsLines, Val
    <2>4. lines.state = "error"
      BY <2>2, <2>3 DEF ClosedLines
    <2>5. QED
      BY <1>2, <2>4
  <1>9. QED
    BY <1>6, <1>7, <1>8 DEF Outside

LEMMA ReturnRead ==
    ASSUME NEW a \in ArrayReaders, Outside(a)
    PROVE  ArrayStep(a, Return) = a
  <1>1. Return # Newline /\ Comma # Return /\ Return # Quote /\ Return \in Special
    BY SpecialTokens
  <1>2. After(a.state, Return) = a.state /\ ~IsData(a.state, Return)
    BY <1>1 DEF Outside, After, IsData
  <1>3. QED
    BY <1>1, <1>2 DEF ArrayStep, Read, ArrayReaders

\* A line of a block that a page takes for another row than id, with further values.
Misread(cs, id) ==
    \E n \in 2..Len(SplitLines(Block(cs, id)).data) :
        LET entry == ParseEntry(SplitLines(Block(cs, id)).data[n])
        IN  Len(entry) > 1 /\ entry[1] # id

LEMMA WideLine ==
    ASSUME NEW cs \in Seq(Names), cs # <<>>, NEW id \in Val,
           Outside(AsArrays(Opening(cs) \o id)),
           NEW n \in Nat, n >= 2,
           LET r == AsArrays(Opening(cs) \o id)
               d == Append(r.data, Got(r))
           IN  n <= Len(d) /\ Len(d[n]) > 1 /\ d[n][1] # id
    PROVE  Misread(cs, id)
  <1> DEFINE y == Opening(cs) \o id
             r == AsArrays(y)
             d == Append(r.data, Got(r))
             lines == SplitLines(Append(y, Newline)).data
             x == lines[n]
  <1>1. y \in Val /\ Block(cs, id) = Append(y, Newline)
    BY BlockIs
  <1>2. Len(lines) = Len(d) /\ \A i \in 1..Len(d) : ParseEntry(lines[i]) = d[i]
    <2>1. Outside(AsArrays(y))
      OBVIOUS
    <2> HIDE DEF y
    <2>2. QED
      BY <1>1, <2>1, CompleteText
  <1>3. n <= Len(d) /\ Len(d[n]) > 1 /\ d[n][1] # id
    OBVIOUS
  <1>4. Len(d) \in Nat
    <2>1. r \in ArrayReaders
      BY <1>1, ReaderSteps
    <2> HIDE DEF r
    <2>2. r.data \in Seq(Entry) /\ Got(r) \in Entry
      BY <2>1, GotIs DEF ArrayReaders, Entries
    <2>3. QED
      BY <2>2
  <1> HIDE DEF d, lines
  <1>5. ParseEntry(x) = d[n] /\ n \in 2..Len(lines)
    <2>1. n \in 1..Len(d)
      BY <1>3, <1>4
    <2>2. QED
      BY <1>2, <1>3, <1>4, <2>1
  <1>6. Len(ParseEntry(x)) > 1 /\ ParseEntry(x)[1] # id
    <2> HIDE DEF x
    <2>1. QED
      BY <1>3, <1>5
  <1>7. QED
    BY <1>1, <1>5, <1>6 DEF Misread, lines

Bare(v) == Comma \notin ToSet(v)

Wide(d) == \E n \in 2..Len(d) : Len(d[n]) > 1 /\ Bare(d[n][1])

\* What a reader has come across after the part u of an id without quotes.
Divides(u, r) ==
    /\ r.state \in {"start", "plain", "error"}
    /\ r.state # "error" =>
          /\ Bare(Got(r)[1]) /\ Len(r.data) >= 1
          /\ Bare(u) \/ r.entry # <<>> \/ Wide(r.data)

LEMMA BareMore ==
    /\ Bare(<<>>)
    /\ \A v \in Val, c \in Tokens : Bare(Append(v, c)) <=> Bare(v) /\ c # Comma
    /\ \A v \in Val, c \in Tokens :
          Quote \notin ToSet(Append(v, c)) => Quote \notin ToSet(v) /\ c # Quote
  <1>1. Bare(<<>>)
    BY DEF Bare, ToSet
  <1>2. ASSUME NEW v \in Val, NEW c \in Tokens
        PROVE  ToSet(Append(v, c)) = ToSet(v) \union {c}
    <2> DEFINE w == Append(v, c)
    <2>1. v \in Seq(Tokens) /\ DOMAIN v = 1..Len(v) /\ Len(v) \in Nat
      BY DEF Val
    <2>2. w \in Seq(Tokens) /\ Len(w) = Len(v) + 1 /\ w[Len(v) + 1] = c
          /\ \A i \in 1..Len(v) : w[i] = v[i]
      BY <2>1, LastAppended
    <2> HIDE DEF w
    <2>3. DOMAIN w = 1..(Len(v) + 1)
      BY <2>2
    <2>4. 1..(Len(v) + 1) = 1..Len(v) \union {Len(v) + 1}
      BY <2>1
    <2>5. ToSet(w) = ToSet(v) \union {c}
      BY <2>1, <2>2, <2>3, <2>4 DEF ToSet
    <2>6. QED
      BY <2>5 DEF w
  <1>3. QED
    BY <1>1, <1>2 DEF Bare

LEMMA WideMore ==
    ASSUME NEW d \in Entries, NEW e \in Entry
    PROVE  /\ Wide(d) => Wide(Append(d, e))
           /\ Len(d) >= 1 /\ Len(e) > 1 /\ Bare(e[1]) => Wide(Append(d, e))
  <1> DEFINE q == Append(d, e)
             m == Len(d)
  <1>1. m \in Nat /\ Len(q) = m + 1 /\ q[m + 1] = e /\ \A i \in 1..m : q[i] = d[i]
    BY LastAppended DEF Entries
  <1> HIDE DEF q
  <1>2. ASSUME Wide(d) PROVE Wide(q)
    <2>1. PICK n \in 2..m : Len(d[n]) > 1 /\ Bare(d[n][1])
      BY <1>2 DEF Wide
    <2>2. n \in 2..Len(q) /\ q[n] = d[n]
      BY <1>1
    <2>3. QED
      BY <2>1, <2>2 DEF Wide
  <1>3. ASSUME m >= 1, Len(e) > 1, Bare(e[1]) PROVE Wide(q)
    <2>1. m + 1 \in 2..Len(q)
      BY <1>1, <1>3
    <2>2. QED
      BY <1>1, <1>3, <2>1 DEF Wide
  <1>4. QED
    BY <1>2, <1>3 DEF q

\* An ordinary token, where no value is quoted.
LEMMA RunRead ==
    ASSUME NEW r \in ArrayReaders, r.state \in {"start", "plain"},
           NEW c \in Tokens, c \notin Special
    PROVE  LET b == ArrayStep(r, c)
           IN  b.state \in {"plain", "error"} /\ Reads(r, b, Append(r.value, c))
  <1>1. c # Comma /\ c # Newline /\ c # Quote /\ c # Return
    BY DEF Special
  <1>2. Outside(r)
    BY DEF Outside
  <1>3. After(r.state, c) \in {"plain", "error"} /\ IsData(r.state, c)
    BY <1>1 DEF After, IsData
  <1>4. QED
    BY <1>1, <1>2, <1>3 DEF ArrayStep, Read, Reads, ArrayReaders

LEMMA DividesMore ==
    ASSUME NEW u \in Val, NEW r \in ArrayReaders, Divides(u, r), NEW c \in Tokens, c # Quote
    PROVE  Divides(Append(u, c), ArrayStep(r, c))
  <1> DEFINE b == ArrayStep(r, c)
             w == Append(u, c)
  <1>1. b \in ArrayReaders
    BY ReadTypes DEF ArrayStep
  <1>2. Bare(w) <=> Bare(u) /\ c # Comma
    BY BareMore
  <1>3. CASE r.state = "error"
    <2>1. b.state = "error"
      BY <1>3 DEF ArrayStep, Outside, Read, After, ArrayReaders
    <2>2. QED
      BY <2>1 DEF Divides
  <1>4. CASE r.state # "error"
    <2>1. /\ r.state \in {"start", "plain"} /\ Outside(r)
          /\ Bare(Got(r)[1]) /\ Len(r.data) >= 1
          /\ Bare(u) \/ r.entry # <<>> \/ Wide(r.data)
      BY <1>4 DEF Divides, Outside
    <2>2. Got(r) \in Entry /\ Len(Got(r)) \in Nat /\ Got(r) # <<>>
      <3>1. Got(r) \in Entry
        BY GotIs
      <3>2. QED
        BY <3>1, AppendProperties DEF Got, ArrayReaders, Entry
    <2>3. r.data \in Entries
      BY DEF ArrayReaders
    <2> HIDE DEF b, w
    <2>4. CASE c = Comma
      <3>1. Fresh(b) /\ b.entry = Got(r) /\ b.data = r.data
        BY <2>1, <2>4, EndRead DEF b
      <3>2. b.entry # <<>> /\ Got(b)[1] = Got(r)[1]
        BY <1>1, <2>2, <3>1, GotIs
      <3>3. QED
        BY <2>1, <3>1, <3>2 DEF Divides, Fresh, b, w
    <2>5. CASE c = Newline
      <3>1. Fresh(b) /\ b.entry = <<>> /\ b.data = Append(r.data, Got(r))
        BY <2>1, <2>5, EndRead DEF b
      <3>2. Bare(Got(b)[1])
        <4>1. Got(b)[1] = <<>>
          BY <1>1, <3>1, GotIs DEF Fresh
        <4>2. QED
          BY <4>1, BareMore
      <3>3. Len(b.data) >= 1
        <4> DEFINE d == r.data
        <4>1. d \in Seq(Entry) /\ Len(d) >= 1
          BY <2>1, <2>3 DEF Entries
        <4> HIDE DEF d
        <4>2. Len(Append(d, Got(r))) >= 1
          BY <2>2, <4>1
        <4>3. QED
          BY <3>1, <4>2 DEF d
      <3>4. Bare(u) => Bare(w)
        BY <1>2, <2>5, SpecialTokens
      <3>5. r.entry # <<>> => Wide(b.data)
        BY <2>1, <2>2, <2>3, <3>1, GotIs, WideMore
      <3>6. Wide(r.data) => Wide(b.data)
        BY <2>2, <2>3, <3>1, WideMore
      <3>7. Bare(w) \/ Wide(b.data)
        BY <2>1, <3>4, <3>5, <3>6
      <3>8. b.state = "start"
        BY <3>1 DEF Fresh
      <3>9. Divides(w, b)
        BY <3>2, <3>3, <3>7, <3>8 DEF Divides
      <3>10. QED
        BY <3>9 DEF b, w
    <2>6. CASE c = Return
      <3>1. b = r
        BY <2>1, <2>6, ReturnRead DEF b
      <3>2. Bare(u) => Bare(w)
        BY <1>2, <2>6, SpecialTokens
      <3>3. Divides(w, b)
        BY <2>1, <3>1, <3>2 DEF Divides
      <3>4. QED
        BY <3>3 DEF b, w
    <2>7. CASE c \notin Special
      <3>1. b.state \in {"plain", "error"} /\ Reads(r, b, Append(r.value, c))
        BY <2>1, <2>7, RunRead DEF b
      <3>2. b.value = Append(r.value, c) /\ b.entry = r.entry /\ b.data = r.data
        BY <3>1 DEF Reads
      <3>3. c # Comma
        BY <2>7 DEF Special
      <3>4. Bare(Got(b)[1])
        <4>1. CASE r.entry # <<>>
          BY <1>1, <2>1, <3>2, <4>1, GotIs
        <4>2. CASE r.entry = <<>>
          <5>1. Got(r)[1] = r.value /\ Got(b)[1] = Append(r.value, c)
            BY <1>1, <3>2, <4>2, GotIs
          <5>2. r.value \in Val
            BY DEF ArrayReaders
          <5>3. QED
            BY <2>1, <3>3, <5>1, <5>2, BareMore
        <4>3. QED
          BY <4>1, <4>2
      <3>5. Bare(u) => Bare(w)
        BY <1>2, <3>3
      <3>6. Divides(w, b)
        BY <2>1, <3>1, <3>2, <3>4, <3>5 DEF Divides
      <3>7. QED
        BY <3>6 DEF b, w
    <2>8. QED
      BY <2>4, <2>5, <2>6, <2>7 DEF Special
  <1>5. QED
    BY <1>3, <1>4

LEMMA IdDivides ==
    ASSUME NEW cs \in Seq(Names), cs # <<>>
    PROVE  \A u \in Val : Quote \notin ToSet(u) => Divides(u, AsArrays(Opening(cs) \o u))
  <1> DEFINE o == Opening(cs)
             A(u) == AsArrays(o \o u)
             T == {u \in Val : Quote \notin ToSet(u) => Divides(u, A(u))}
  <1>1. o \in Val /\ Fresh(AsArrays(o)) /\ AsArrays(o).entry = <<>> /\ AsArrays(o).data = <<cs>>
        /\ AsArrays(o) \in ArrayReaders
    <2>1. o \in Val /\ Fresh(AsArrays(o)) /\ AsArrays(o).entry = <<>> /\ AsArrays(o).data = <<cs>>
      BY OpeningRead
    <2> HIDE DEF o
    <2>2. QED
      BY <2>1, ReaderSteps
  <1> HIDE DEF o
  <1>2. <<>> \in T
    <2> DEFINE none == <<>>
               r == A(none)
    <2>1. o \o none = o /\ none \in Val
      BY <1>1, ValLaws, ValueTypes DEF SequenceLaws, Val
    <2>2. r.data = <<cs>> /\ Fresh(r) /\ r.entry = none /\ r \in ArrayReaders
      BY <1>1, <2>1
    <2>3. Got(r)[1] = none /\ r.state = "start"
      <3> HIDE DEF r
      <3>1. QED
        BY <2>2, GotIs DEF Fresh
    <2>4. Bare(none)
      BY BareMore
    <2>5. Len(r.data) >= 1
      <3>1. Len(<<cs>>) = 1
        OBVIOUS
      <3> HIDE DEF r
      <3>2. Len(r.data) = 1
        BY <2>2, <3>1
      <3>3. QED
        BY <3>2
    <2> HIDE DEF none
    <2>6. Divides(none, r)
      <3> HIDE DEF r
      <3>1. QED
        BY <2>3, <2>4, <2>5 DEF Divides
    <2>7. none \in T
      BY <2>1, <2>6
    <2>8. QED
      BY <2>7 DEF none
  <1>3. ASSUME NEW u \in Seq(Tokens), NEW c \in Tokens, u \in T PROVE Append(u, c) \in T
    <2> DEFINE x == o \o u
               w == Append(u, c)
    <2>1. u \in Val /\ w \in Val /\ x \in Val /\ o \o w = Append(x, c)
      <3>1. o \in Seq(Tokens)
        BY <1>1 DEF Val
      <3>2. u \in Val /\ w \in Val /\ x \in Val
        BY <3>1, ValLaws DEF SequenceLaws, Val
      <3>3. o \o Append(u, c) = Append(o \o u, c)
        BY <3>1, AppendToConcat
      <3>4. QED
        BY <3>2, <3>3
    <2>2. AsArrays(Append(x, c)) = ArrayStep(AsArrays(x), c) /\ AsArrays(x) \in ArrayReaders
      <3> HIDE DEF x
      <3>1. QED
        BY <2>1, ReaderSteps
    <2>3. ASSUME Quote \notin ToSet(w) PROVE Divides(w, A(w))
      <3>1. Quote \notin ToSet(u) /\ c # Quote
        BY <2>1, <2>3, BareMore
      <3>2. Divides(u, AsArrays(x))
        BY <1>3, <3>1
      <3>3. Divides(w, ArrayStep(AsArrays(x), c))
        <4> DEFINE r == AsArrays(x)
        <4>1. r \in ArrayReaders /\ Divides(u, r)
          BY <2>2, <3>2
        <4> HIDE DEF r
        <4>2. Divides(w, ArrayStep(r, c))
          BY <2>1, <3>1, <4>1, DividesMore
        <4>3. QED
          BY <4>2 DEF r
      <3>4. QED
        BY <2>1, <2>2, <3>3
    <2>4. QED
      BY <2>1, <2>3
  <1> HIDE DEF T
  <1>4. \A u \in Seq(Tokens) : u \in T
    BY <1>2, <1>3, AppendInduction
  <1>5. QED
    BY <1>4 DEF T, o, Val

\* Ids with a comma and without quotes: a page takes them for others, if it reads them.
LEMMA CommaIdsAreMisread ==
    ASSUME NEW cs \in Seq(Names), cs # <<>>, NEW id \in Val,
           Comma \in ToSet(id), Quote \notin ToSet(id),
           SplitLines(Block(cs, id)).state # "error"
    PROVE  Misread(cs, id)
  <1> DEFINE y == Opening(cs) \o id
             text == Append(y, Newline)
             r == AsArrays(y)
             q == AsArrays(text)
             d == Append(r.data, Got(r))
  <1>1. y \in Val /\ Block(cs, id) = text /\ text \in Val /\ Newline \in Tokens
    BY BlockIs, SpecialTokens, ValueTypes
  <1>2. Divides(id, r)
    BY IdDivides
  <1>3. r \in ArrayReaders /\ q = ArrayStep(r, Newline)
    <2> HIDE DEF y
    <2>1. QED
      BY <1>1, ReaderSteps
  <1>4. r.state # "error"
    <2> SUFFICES ASSUME r.state = "error" PROVE FALSE
      OBVIOUS
    <2>1. q.state = "error"
      <3> HIDE DEF r, q
      <3>1. QED
        BY <1>3 DEF ArrayStep, Outside, Read, After, ArrayReaders
    <2>2. AsLines(text).state = "error"
      <3> HIDE DEF text
      <3>1. QED
        BY <1>1, <2>1, ReadingsAlike DEF Alike
    <2>3. SplitLines(text) = ClosedLines(AsLines(text))
      <3> HIDE DEF text
      <3>1. QED
        BY <1>1, SplitLinesIsRun DEF AsLines, Val
    <2>4. SplitLines(text).state = "error"
      BY <2>2, <2>3 DEF ClosedLines
    <2>5. QED
      BY <1>1, <2>4
  <1> HIDE DEF r
  <1>5. Outside(r) /\ Bare(Got(r)[1]) /\ Len(r.data) >= 1 /\ (r.entry # <<>> \/ Wide(r.data))
    BY <1>2, <1>4 DEF Divides, Outside, Bare
  <1>6. r.data \in Entries /\ Got(r) \in Entry
    BY <1>3, GotIs DEF ArrayReaders
  <1>7. r.entry # <<>> => Len(Got(r)) > 1
    BY <1>3, GotIs
  <1>8. Wide(d)
    BY <1>5, <1>6, <1>7, WideMore
  <1> HIDE DEF d
  <1>9. PICK n \in 2..Len(d) : Len(d[n]) > 1 /\ Bare(d[n][1])
    BY <1>8 DEF Wide
  <1>10. d[n][1] # id
    BY <1>9 DEF Bare
  <1>11. Len(d) \in Nat
    BY <1>6, LastAppended DEF d, Entries
  <1>12. n \in Nat /\ n >= 2 /\ n <= Len(d)
    BY <1>11
  <1>13. QED
    BY <1>5, <1>9, <1>10, <1>12, WideLine DEF r, d

\* The removal of a row arrives at a page as such exactly if its id needs no quotes.  With
\* a comma it is taken for another row with further values.
THEOREM OnlyPlainRemovalsArrive ==
    ASSUME NEW cs \in Seq(Names), Distinct(cs), cs # <<>>, NEW id \in PlainTexts
    PROVE  RemovalArrives(cs, id)
  <1> DEFINE text == Block(cs, RemovalLine(id))
             lines == SplitLines(text)
             rows == ToObjects(text)
  <1>1. RemovalLine(id) = id /\ id \in Val
    BY PlainText DEF RemovalLine
  <1>2. ~NeedsQuotes(id) =>
          /\ lines.state = "start" /\ Len(lines.data) = 2
          /\ ParseEntry(lines.data[2]) = <<id>>
          /\ rows = <<[column \in ToSet(cs) |-> IF column = cs[1] THEN id ELSE <<NullValue>>]>>
    BY PlainIdArrives
  <1>3. /\ lines.state = "start" /\ Len(lines.data) = 2
        /\ ParseEntry(lines.data[2]) = <<id>>
        => ~NeedsQuotes(id)
    BY <1>1, OnlyPlainIdsArrive
  <1>4. Comma \in ToSet(id) /\ Quote \notin ToSet(id) /\ lines.state # "error" =>
          \E n \in 2..Len(lines.data) :
              Len(ParseEntry(lines.data[n])) > 1 /\ ParseEntry(lines.data[n])[1] # id
    <2>1. Comma \in ToSet(id) /\ Quote \notin ToSet(id) /\ lines.state # "error"
            => Misread(cs, id)
      BY <1>1, CommaIdsAreMisread
    <2>2. QED
      BY <1>1, <2>1 DEF Misread
  <1> HIDE DEF lines, rows
  <1>5. QED
    BY <1>2, <1>3, <1>4 DEF RemovalArrives, lines, rows

-----------------------------------------------------------------------------
(***************************************************************************)
(* Inputs.                                                                 *)
(***************************************************************************)

\* What is true of each input is true of the one of a behaviour.
LEMMA KeyInput ==
    ASSUME InputInit, input[1] = "key" PROVE input[2] \in Key
  BY DEF InputInit, Inputs

LEMMA RequestInput ==
    ASSUME InputInit, input[1] = "request"
    PROVE  input[2] \in Seq({1, 2}) /\ input[3] \in Seq({1, 2})
  <1>1. ASSUME NEW ids \in BoundedSeq({1, 2}, 3) PROVE ids \in Seq({1, 2})
    <2>1. PICK m \in 0..3 : ids \in [1..m -> {1, 2}]
      BY DEF BoundedSeq, SeqOf
    <2>2. QED
      BY <2>1
  <1>2. PICK r \in Requested : input = <<"request", r[1], r[2]>>
    BY DEF InputInit, Inputs
  <1>3. r[1] \in BoundedSeq({1, 2}, 3) /\ r[2] \in BoundedSeq({1, 2}, 3)
    BY DEF Requested
  <1>4. QED
    BY <1>1, <1>2, <1>3

LEMMA TextsArePlain ==
    ASSUME NEW n \in Nat, NEW text \in Texts(n)
    PROVE  text \in PlainTexts
  <1>1. PICK m \in 0..n : text \in [1..m -> Special \union Runs]
    BY DEF Texts, BoundedSeq, SeqOf
  <1>2. text \in Seq(Special \union Runs)
    BY <1>1
  <1>3. QED
    BY <1>2 DEF Texts, PlainTexts

LEMMA RowInput ==
    ASSUME InputInit, input[1] = "row"
    PROVE  /\ input[2] \in PlainTexts
           /\ input[3] \in Seq(ColumnValues) /\ Len(input[3]) = 2
  <1>1. PICK id \in Texts(2), values \in Values \X Values : input = <<"row", id, values>>
    BY DEF InputInit, Inputs
  <1>2. id \in PlainTexts
    BY TextsArePlain
  <1>3. Values \subseteq ColumnValues
    BY TextsArePlain DEF Values, ColumnValues
  <1>4. values \in Seq(ColumnValues) /\ Len(values) = 2
    <2>1. PICK v, w \in Values : values = <<v, w>>
      OBVIOUS
    <2>2. v \in ColumnValues /\ w \in ColumnValues
      BY <1>3
    <2>3. <<v, w>> \in Seq(ColumnValues) /\ Len(<<v, w>>) = 2
      BY <2>2
    <2>4. QED
      BY <2>1, <2>3
  <1>5. QED
    BY <1>1, <1>2, <1>4

LEMMA TextInput ==
    ASSUME InputInit, input[1] = "text" PROVE input[2] \in Seq(Tokens)
  <1>1. PICK text \in Texts(MaxTokens) : input = <<"text", text>>
    BY DEF InputInit, Inputs
  <1>2. text \in Seq(Tokens)
    BY DEF Texts, BoundedSeq, SeqOf, Tokens
  <1>3. QED
    BY <1>1, <1>2

LEMMA ColumnsAreNames ==
    Columns \in Seq(Names) /\ Len(Columns) = 3 /\ Distinct(Columns)
  <1>1. \A c \in {"id", "a", "b"} : <<c>> \in Names
    BY DEF Names, Tokens, Special, Comma, Quote, Newline, Return
  <1>2. Columns \in Seq(Names) /\ Len(Columns) = 3
    BY <1>1 DEF Columns
  <1>3. DOMAIN Columns = 1..3 /\ Columns[1][1] = "id" /\ Columns[2][1] = "a" /\ Columns[3][1] = "b"
    BY DEF Columns
  <1>4. Distinct(Columns)
    BY <1>3 DEF Distinct
  <1>5. QED
    BY <1>2, <1>4

\* No two keys of the same columns have the same id, though some ids are escaped and some
\* are not: rows of keys of any length over any letters stay apart in the caches.
THEOREM IdsAlwaysDistinct == InputSpec => []IdsDistinct
  <1>1. InputInit => IdsDistinct
    BY KeyInput, KeysHaveDistinctIds DEF IdsDistinct
  <1>2. IdsDistinct /\ [UNCHANGED input]_input => IdsDistinct'
    BY DEF IdsDistinct
  <1>3. QED
    BY <1>1, <1>2, PTL DEF InputSpec

\* A key is read back from its id exactly where KeySurvives says so, by both encodings,
\* whatever letters, separators and escapes its components consist of.
THEOREM KeysAlwaysSurvive == InputSpec => []KeysSurvive
  <1>1. InputInit => KeysSurvive
    BY KeyInput, KeysAreReadBack DEF KeysSurvive
  <1>2. KeysSurvive /\ [UNCHANGED input]_input => KeysSurvive'
    BY DEF KeysSurvive
  <1>3. QED
    BY <1>1, <1>2, PTL DEF InputSpec

\* A request by id finds the row of that id and no other, or its removal, for each key that
\* is Findable; and for every other key it throws or reports a removal.
THEOREM RowsAlwaysFound == InputSpec => []RowsFound
  <1>1. InputInit => RowsFound
    BY KeyInput, RowsAreFound DEF RowsFound
  <1>2. RowsFound /\ [UNCHANGED input]_input => RowsFound'
    BY DEF RowsFound
  <1>3. QED
    BY <1>1, <1>2, PTL DEF InputSpec

\* The loop over a result reports each requested id, and one that is both updated and
\* removed was requested more often than found.
THEOREM EachIdAlwaysOnce == InputSpec => []EachIdOnce
  <1>1. InputInit => EachIdOnce
    BY RequestInput, EveryIdIsReported DEF EachIdOnce
  <1>2. EachIdOnce /\ [UNCHANGED input]_input => EachIdOnce'
    BY DEF EachIdOnce
  <1>3. QED
    BY <1>1, <1>2, PTL DEF InputSpec

\* The two readers of a page refuse the same texts and agree on those with a complete last
\* line, of any length.
THEOREM ReadsAlwaysAgree == InputSpec => []ReadsAgree
  <1>1. InputInit => ReadsAgree
    BY TextInput, EveryTextIsReadAlike DEF ReadsAgree
  <1>2. ReadsAgree /\ [UNCHANGED input]_input => ReadsAgree'
    BY DEF ReadsAgree
  <1>3. QED
    BY <1>1, <1>2, PTL DEF InputSpec

\* A row arrives at pages with the id and the values it was written with,
\* whatever special characters they contain.
THEOREM RowsAlwaysArrive == InputSpec => []RowsArrive
  <1>1. ASSUME InputInit PROVE RowsArrive
    <2>1. CASE input[1] = "row"
      <3>1. input[2] \in PlainTexts /\ input[3] \in Seq(ColumnValues) /\ Len(input[3]) = 2
        BY <1>1, <2>1, RowInput
      <3> DEFINE id == input[2]
                 values == input[3]
      <3>2. values # <<>> /\ Len(Columns) = Len(values) + 1
        <4>1. Len(values) = 2 /\ Len(Columns) = 3
          BY <3>1, ColumnsAreNames
        <4>2. Len(Columns) = Len(values) + 1
          BY <4>1
        <4> HIDE DEF values
        <4>3. values # <<>>
          BY <4>1
        <4>4. QED
          BY <4>2, <4>3
      <3> HIDE DEF id, values
      <3>3. RowArrives(Columns, id, values)
        BY <3>1, <3>2, ColumnsAreNames, EveryRowArrives DEF id, values
      <3>4. QED
        BY <3>3 DEF RowsArrive, id, values
    <2>2. QED
      BY <2>1 DEF RowsArrive
  <1>2. RowsArrive /\ [UNCHANGED input]_input => RowsArrive'
    BY DEF RowsArrive
  <1>3. QED
    BY <1>1, <1>2, PTL DEF InputSpec

\* The removal of a row arrives at pages as a row with its id alone exactly if its id needs
\* no quotes; a comma in it turns the removal into another row with further values.
THEOREM RemovalsAlwaysArrive == InputSpec => []RemovalsArrive
  <1>1. ASSUME InputInit PROVE RemovalsArrive
    <2>1. CASE input[1] = "row"
      <3>1. input[2] \in PlainTexts
        BY <1>1, <2>1, RowInput
      <3>2. RemovalArrives(Columns, input[2])
        <4>1. Columns \in Seq(Names) /\ Distinct(Columns) /\ Columns # <<>>
          <5> DEFINE cs == Columns
          <5>1. Len(cs) = 3 /\ cs \in Seq(Names) /\ Distinct(cs)
            BY ColumnsAreNames
          <5> HIDE DEF cs
          <5>2. cs # <<>>
            BY <5>1
          <5>3. QED
            BY <5>1, <5>2 DEF cs
        <4>2. QED
          BY <3>1, <4>1, OnlyPlainRemovalsArrive
      <3>3. QED
        BY <3>2 DEF RemovalsArrive
    <2>2. QED
      BY <2>1 DEF RemovalsArrive
  <1>2. RemovalsArrive /\ [UNCHANGED input]_input => RemovalsArrive'
    BY DEF RemovalsArrive
  <1>3. QED
    BY <1>1, <1>2, PTL DEF InputSpec
=============================================================================
