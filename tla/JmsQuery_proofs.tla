-------------------------- MODULE JmsQuery_proofs --------------------------
(***************************************************************************)
(* Queries over JMS, for any number of callers, rows, timeouts and         *)
(* restarts: every request is accounted for, and a call that has the       *)
(* source to itself gets an answer to its own request.                     *)
(***************************************************************************)
EXTENDS JmsQuery, FiniteSetTheorems, SequenceTheorems, TLAPS

-----------------------------------------------------------------------------
(***************************************************************************)
(* The inductive invariant.                                                *)
(***************************************************************************)

\* A request is being answered with rows.
AnswersRows == iterators # <<>> => serving # <<>> /\ serving # <<"columns">>

\* What the iterator still has to visit are rows of its map; and unless it was
\* raced, it has written the others already, in the order of their ids.
VisitsInOrder ==
    \A n \in DOMAIN iterators :
        LET it == iterators[n]
        IN  /\ it.next \subseteq IdsOf(it.entries)
            /\ ~it.raced =>
                  /\ IdsOf(it.entries) = it.next \union {row[1] : row \in writer}
                  /\ \A row \in writer : \A j \in it.next : row[1] < j
                  /\ it.current => IdsOf(it.entries) = IdsOf(served)

\* The rows of `table` were served at some moment of c's call.
KnownTo(c, table) ==
    \A i \in IdsOf(table) : \E known \in seen[c] : known[i] = table[i]

\* A reply that c may receive.
Fits(c, reply) ==
    IF call[c] = <<"columns">> THEN reply.rows = {}
    ELSE IsAnswer(reply.rows, seen[c], ~reply.raced)

\* What the handler has collected for c.
Collected(c) ==
    \A n \in DOMAIN iterators :
        /\ KnownTo(c, iterators[n].entries)
        /\ \A row \in writer : \E known \in seen[c] : known[row[1]] = row[2]
        /\ ~iterators[n].raced =>
              \E known \in seen[c] : IdsOf(known) = IdsOf(iterators[n].entries)

\* A call that has the source to itself: the only request under way is its own,
\* wherever it is.
OnItsOwn(c) ==
    /\ Waiting = {c} /\ timeouts <= lost
    /\ served \in seen[c]
    /\ queries # <<>> => queries = call[c]
    /\ serving # <<>> => serving = call[c]
    /\ replies # <<>> => Fits(c, Head(replies))
    /\ Collected(c)

QueryInv ==
    /\ TypeOK /\ AnswersRows /\ VisitsInOrder
    /\ Accounted
    /\ \A c \in Waiting \ disturbed : OnItsOwn(c)

-----------------------------------------------------------------------------
(***************************************************************************)
(* Types.                                                                  *)
(***************************************************************************)

\* Replacing the elements of a sequence.
LEMMA ChangedElements ==
    ASSUME NEW S, NEW seq \in Seq(S), NEW new, DOMAIN new = DOMAIN seq,
           new = [n \in DOMAIN new |-> new[n]],
           \A n \in DOMAIN seq : new[n] \in S
    PROVE  new \in Seq(S) /\ Len(new) = Len(seq)
  <1>1. Len(seq) \in Nat /\ DOMAIN seq = 1..Len(seq)
    BY LenProperties
  <1>2. new \in [1..Len(seq) -> S]
    BY <1>1
  <1>3. new \in Seq(S)
    BY <1>1, <1>2, SeqDef
  <1>4. QED
    BY <1>1, <1>2, <1>3, LenProperties

\* The queues of the handler and of a call hold one element at most.
LEMMA ShortSeq ==
    ASSUME NEW S, NEW seq \in Seq(S), Len(seq) <= 1, seq # <<>>
    PROVE  /\ Len(seq) = 1 /\ DOMAIN seq = {1} /\ seq[1] \in S
           /\ seq = <<seq[1]>> /\ Head(seq) = seq[1] /\ Tail(seq) = <<>>
  <1>1. Len(seq) \in Nat /\ Len(seq) # 0 /\ DOMAIN seq = 1..Len(seq)
    BY LenProperties, EmptySeq
  <1>2. Len(seq) = 1 /\ DOMAIN seq = {1}
    BY <1>1
  <1>3. seq[1] \in S
    BY <1>1, <1>2, ElementOfSeq
  <1>4. <<seq[1]>> \in Seq(S) /\ Len(<<seq[1]>>) = 1
    BY <1>3
  <1>5. seq = <<seq[1]>>
    BY <1>2, <1>4, SeqEqual
  <1>6. Tail(seq) \in Seq(S) /\ Len(Tail(seq)) = 0
    BY <1>2, HeadTailProperties
  <1>7. Tail(seq) = <<>>
    BY <1>6, EmptySeq
  <1>8. Head(<<seq[1]>>) = seq[1]
    OBVIOUS
  <1>9. QED
    BY <1>2, <1>3, <1>5, <1>7, <1>8

LEMMA OneElement ==
    ASSUME NEW S, NEW x \in S
    PROVE  /\ <<x>> \in Seq(S) /\ <<x>> # <<>> /\ Len(<<x>>) = 1
           /\ DOMAIN <<x>> = {1} /\ <<x>>[1] = x /\ Head(<<x>>) = x
  OBVIOUS

LEMMA OneIterator ==
    ASSUME TypeOK, iterators # <<>>
    PROVE  /\ DOMAIN iterators = {1} /\ Len(iterators) = 1
           /\ iterators[1] \in Iterator
           /\ iterators[1].next \subseteq Ids /\ iterators[1].entries \in Tables
           /\ iterators[1].current \in BOOLEAN /\ iterators[1].raced \in BOOLEAN
           /\ serving # <<>> /\ Len(serving) = 1
  <1>1. iterators \in Seq(Iterator) /\ Len(iterators) <= Len(serving)
    BY DEF TypeOK
  <1>2. serving \in Seq(Kinds) /\ Len(serving) <= 1
    BY DEF TypeOK
  <1>3. Len(serving) \in Nat /\ Len(iterators) \in Nat \ {0}
    BY <1>1, <1>2, LenProperties, EmptySeq
  <1>4. Len(iterators) <= 1 /\ Len(serving) = 1
    <2>1. \A m, n \in Nat : m # 0 /\ m <= n /\ n <= 1 => m <= 1 /\ n = 1
      OBVIOUS
    <2>2. QED
      BY <1>1, <1>2, <1>3, <2>1, Zenon
  <1>5. DOMAIN iterators = {1} /\ Len(iterators) = 1 /\ iterators[1] \in Iterator
    BY <1>1, <1>4, ShortSeq
  <1>6. serving # <<>>
    BY <1>4, EmptySeq
  <1>7. QED
    BY <1>4, <1>5, <1>6 DEF Iterator

\* Without a request there is no iterator.
LEMMA NoIterator ==
    ASSUME TypeOK, serving = <<>>
    PROVE  iterators = <<>>
  BY OneIterator

LEMMA InitTypes == Init => TypeOK
  <1>1. \A S : <<>> \in Seq(S) /\ Len(<<>>) = 0
    BY EmptySeq
  <1>2. QED
    BY <1>1, BoundsAssumption DEF Init, TypeOK, Tables, Content, Text

LEMMA StepTypes == TypeOK /\ AnswersRows /\ VisitsInOrder /\ [Next]_vars => TypeOK'
  <1> SUFFICES ASSUME TypeOK, AnswersRows, VisitsInOrder, [Next]_vars PROVE TypeOK'
    OBVIOUS
  <1> USE DEF TypeOK, cacheVars, handlerVars, callVars
  <1>0. /\ MaxChanges \in Nat /\ Absent \in Content
        /\ \A S : <<>> \in Seq(S) /\ Len(<<>>) = 0
    BY BoundsAssumption, EmptySeq DEF Content
  <1>1. ASSUME NEW table \in Tables, Serve(table),
               iterators' \in Seq(Iterator), Len(iterators') = Len(iterators)
        PROVE  TypeOK'
    BY <1>0, <1>1 DEF Serve
  <1>2. ASSUME changes < MaxChanges PROVE changes + 1 \in Content
    BY <1>0, <1>2 DEF Content
  <1>3. ASSUME NEW i \in Ids, UpdateLine(i) PROVE TypeOK'
    <2>1. [served EXCEPT ![i] = changes + 1] \in Tables
      BY <1>2, <1>3 DEF UpdateLine, Serve, Tables
    <2>2. \A n \in DOMAIN iterators : iterators[n] \in Iterator
      OBVIOUS
    <2>3. \A n \in DOMAIN iterators : iterators'[n] \in Iterator
      BY <1>2, <1>3, <2>2 DEF UpdateLine, Serve, Iterator, Tables
    <2>4. /\ DOMAIN iterators' = DOMAIN iterators
          /\ iterators' = [n \in DOMAIN iterators' |-> iterators'[n]]
      BY <1>3 DEF UpdateLine
    <2>5. iterators' \in Seq(Iterator) /\ Len(iterators') = Len(iterators)
      BY <2>3, <2>4, ChangedElements
    <2>6. QED
      BY <1>1, <1>3, <2>1, <2>5 DEF UpdateLine
  <1>4. ASSUME NEW i \in Ids, RemoveId(i) PROVE TypeOK'
    <2>1. [served EXCEPT ![i] = Absent] \in Tables
      BY <1>0 DEF Tables
    <2>2. \A n \in DOMAIN iterators : iterators[n] \in Iterator
      OBVIOUS
    <2>3. \A n \in DOMAIN iterators : iterators'[n] \in Iterator
      BY <1>4, <2>2 DEF RemoveId, Iterator
    <2>4. iterators' \in Seq(Iterator) /\ Len(iterators') = Len(iterators)
      BY <1>4, <2>3, ChangedElements DEF RemoveId
    <2>5. QED
      BY <1>1, <1>4, <2>1, <2>4 DEF RemoveId
  <1>5. ASSUME NEW ids \in SUBSET Ids, Swap(ids) PROVE TypeOK'
    <2>1. [i \in Ids |-> IF i \in ids THEN changes + 1 ELSE Absent] \in Tables
      BY <1>0, <1>2, <1>5 DEF Swap, Serve, Tables
    <2>2. \A n \in DOMAIN iterators : iterators[n] \in Iterator
      OBVIOUS
    <2>3. \A n \in DOMAIN iterators : iterators'[n] \in Iterator
      BY <1>5, <2>2 DEF Swap, Iterator
    <2>4. iterators' \in Seq(Iterator) /\ Len(iterators') = Len(iterators)
      BY <1>5, <2>3, ChangedElements DEF Swap
    <2>5. QED
      BY <1>1, <1>5, <2>1, <2>4 DEF Swap
  <1>6. ASSUME NEW c \in Callers, NEW kind \in Kinds, Request(c, kind) PROVE TypeOK'
    BY <1>6 DEF Request, Waiting
  <1>7. ASSUME NEW c \in Callers, Receive(c) PROVE TypeOK'
    BY <1>0, <1>7 DEF Receive, Returned
  <1>8. ASSUME NEW c \in Callers, TimeOut(c) PROVE TypeOK'
    BY <1>0, <1>8 DEF TimeOut, Returned
  <1>9. CASE Accept
    BY <1>0, <1>9 DEF Accept
  <1>10. CASE AnswerColumns
    <2>1. [rows |-> {}, raced |-> FALSE] \in Reply
      BY DEF Reply, Text
    <2>2. iterators = <<>>
      BY <1>10 DEF AnswersRows, AnswerColumns
    <2>3. replies' \in Seq(Reply)
      BY <1>10, <2>1, AppendProperties DEF AnswerColumns
    <2>4. QED
      BY <1>0, <1>10, <2>2, <2>3 DEF AnswerColumns
  <1>11. CASE VisitAll
    <2>1. Opened(served) \in Iterator /\ {} \in Text
      BY DEF Opened, Iterator, IdsOf, Text
    <2>2. QED
      BY <1>11, <2>1 DEF VisitAll
  <1>12. ASSUME NEW i \in Ids, VisitRow(i) PROVE TypeOK'
    <2>0. iterators # <<>>
      BY <1>12 DEF VisitRow
    <2> DEFINE it == iterators[1]
    <2>1. /\ it \in Iterator /\ it.next \subseteq Ids /\ it.entries \in Tables
          /\ it.raced \in BOOLEAN /\ it.next \subseteq IdsOf(it.entries)
      BY <2>0, OneIterator DEF VisitsInOrder
    <2>2. <<i, it.entries[i]>> \in Ids \X (0..MaxChanges)
      BY <1>12, <2>1 DEF VisitRow, IdsOf, Tables, Content
    <2>3. PICK next \in Behind(it, i) : iterators' = <<[it EXCEPT !.next = next]>>
      BY <1>12 DEF VisitRow
    <2>4. next \subseteq Ids
      BY <2>3, <2>1 DEF Behind
    <2>5. [it EXCEPT !.next = next] \in Iterator
      BY <2>1, <2>4 DEF Iterator
    <2>6. iterators' \in Seq(Iterator) /\ Len(iterators') = 1
      BY <2>3, <2>5, OneElement
    <2>7. writer' \in Text
      BY <1>12, <2>2 DEF VisitRow, Text
    <2>8. QED
      BY <1>12, <2>0, <2>6, <2>7, OneIterator DEF VisitRow
  <1>13. CASE ConcurrentModification
    BY <1>0, <1>13 DEF ConcurrentModification
  <1>14. CASE Answer
    <2>1. iterators[1] \in Iterator
      BY <1>14 DEF Answer
    <2>2. [rows |-> writer, raced |-> iterators[1].raced] \in Reply
      BY <2>1 DEF Reply, Iterator
    <2>3. QED
      BY <1>0, <1>14, <2>2 DEF Answer
  <1>15. CASE Crash
    <2>1. Len(serving) \in Nat
      BY LenProperties
    <2>2. lost' \in Nat /\ crashes' \in Nat
      BY <1>15, <2>1 DEF Crash
    <2>3. serving' = <<>> /\ iterators' = <<>> /\ writer' = {} /\ {} \in Text
      BY <1>15 DEF Crash, Text
    <2>4. up' \in BOOLEAN
      BY <1>15 DEF Crash
    <2>5. serving' \in Seq(Kinds) /\ Len(serving') <= 1
      BY <1>0, <2>3
    <2>6. iterators' \in Seq(Iterator) /\ Len(iterators') <= Len(serving')
      BY <1>0, <2>3
    <2>7. QED
      BY <1>15, <2>2, <2>3, <2>4, <2>5, <2>6 DEF Crash
  <1>16. CASE Restart
    BY <1>16 DEF Restart
  <1>17. CASE UNCHANGED vars
    BY <1>17 DEF vars
  <1>18. QED
    BY <1>3, <1>4, <1>5, <1>6, <1>7, <1>8, <1>9, <1>10, <1>11, <1>12, <1>13, <1>14, <1>15,
       <1>16, <1>17 DEF Next

-----------------------------------------------------------------------------
(***************************************************************************)
(* The iteration.                                                          *)
(***************************************************************************)

\* The iterators a block leaves are as many as it found.
LEMMA StillNone ==
    ASSUME TypeOK', iterators = <<>>, DOMAIN iterators' = DOMAIN iterators
    PROVE  iterators' = <<>>
  <1>1. iterators' \in Seq(Iterator)
    BY DEF TypeOK
  <1>2. 1 \notin DOMAIN iterators
    BY EmptySeq, LenProperties
  <1>3. Len(iterators') \in Nat /\ DOMAIN iterators' = 1..Len(iterators')
    BY <1>1, LenProperties
  <1>4. Len(iterators') = 0
    BY <1>2, <1>3
  <1>5. QED
    BY <1>1, <1>4, EmptySeq

LEMMA StepAnswers == TypeOK /\ TypeOK' /\ AnswersRows /\ [Next]_vars => AnswersRows'
  <1> SUFFICES ASSUME TypeOK, TypeOK', AnswersRows, [Next]_vars PROVE AnswersRows'
    OBVIOUS
  <1> USE DEF cacheVars, handlerVars, callVars
  <1>1. ASSUME DOMAIN iterators' = DOMAIN iterators, serving' = serving
        PROVE  AnswersRows'
    BY <1>1, StillNone DEF AnswersRows
  <1>2. ASSUME NEW i \in Ids, UpdateLine(i) PROVE AnswersRows'
    BY <1>1, <1>2 DEF UpdateLine, Serve
  <1>3. ASSUME NEW i \in Ids, RemoveId(i) PROVE AnswersRows'
    BY <1>1, <1>3 DEF RemoveId, Serve
  <1>4. ASSUME NEW ids \in SUBSET Ids, Swap(ids) PROVE AnswersRows'
    BY <1>1, <1>4 DEF Swap, Serve
  <1>5. ASSUME NEW c \in Callers, NEW kind \in Kinds, Request(c, kind) PROVE AnswersRows'
    BY <1>5 DEF Request, AnswersRows
  <1>6. ASSUME NEW c \in Callers, Receive(c) \/ TimeOut(c) PROVE AnswersRows'
    BY <1>6 DEF Receive, TimeOut, AnswersRows
  <1>7. CASE Accept
    BY <1>7, NoIterator DEF Accept, AnswersRows
  <1>8. CASE AnswerColumns
    BY <1>8 DEF AnswerColumns, AnswersRows
  <1>9. CASE VisitAll
    BY <1>9 DEF VisitAll, AnswersRows
  <1>10. ASSUME NEW i \in Ids, VisitRow(i) PROVE AnswersRows'
    BY <1>10 DEF VisitRow, AnswersRows
  <1>11. CASE ConcurrentModification \/ Answer \/ Crash
    BY <1>11 DEF ConcurrentModification, Answer, Crash, AnswersRows
  <1>12. CASE Restart \/ UNCHANGED vars
    BY <1>12 DEF Restart, vars, AnswersRows
  <1>13. QED
    BY <1>2, <1>3, <1>4, <1>5, <1>6, <1>7, <1>8, <1>9, <1>10, <1>11, <1>12 DEF Next

\* A step that leaves the iterator, the writer and the rows alone.
LEMMA VisitsUntouched ==
    ASSUME VisitsInOrder, UNCHANGED <<iterators, writer, served>>
    PROVE  VisitsInOrder'
  BY DEF VisitsInOrder

LEMMA StepVisits ==
    TypeOK /\ TypeOK' /\ VisitsInOrder /\ [Next]_vars => VisitsInOrder'
  <1> SUFFICES ASSUME TypeOK, TypeOK', VisitsInOrder, [Next]_vars PROVE VisitsInOrder'
    OBVIOUS
  <1> USE DEF cacheVars, handlerVars, callVars
  <1>0. /\ \A n \in DOMAIN iterators : iterators[n] \in Iterator
        /\ served \in Tables /\ writer \in Text
    BY DEF TypeOK
  <1>1. ASSUME NEW i \in Ids, UpdateLine(i) PROVE VisitsInOrder'
    <2>1. changes + 1 # Absent /\ changes + 1 \in Content
      <3>1. changes \in 0..MaxChanges /\ changes < MaxChanges
        BY <1>1 DEF UpdateLine, Serve, TypeOK
      <3>2. QED
        BY <3>1, IdsAssumption, BoundsAssumption DEF Content
    <2>2. IdsOf(served') = IdsOf(served) \union {i} /\ writer' = writer
      BY <1>1, <1>0, <2>1 DEF UpdateLine, Serve, IdsOf, Tables
    <2>3. SUFFICES ASSUME NEW n \in DOMAIN iterators
                   PROVE  LET it == iterators'[n]
                          IN  /\ it.next \subseteq IdsOf(it.entries)
                              /\ ~it.raced =>
                                    /\ IdsOf(it.entries)
                                         = it.next \union {row[1] : row \in writer}
                                    /\ \A row \in writer : \A j \in it.next : row[1] < j
                                    /\ it.current => IdsOf(it.entries) = IdsOf(served')
      BY <1>1, <2>2 DEF UpdateLine, VisitsInOrder
    <2>4. /\ iterators[n].entries \in Tables /\ iterators[n].raced \in BOOLEAN
          /\ iterators[n] \in Iterator
      BY <1>0 DEF Iterator
    <2>5. CASE ~iterators[n].current
      <3>1. iterators'[n] = iterators[n]
        BY <1>1, <2>5 DEF UpdateLine
      <3>2. QED
        BY <2>5, <3>1 DEF VisitsInOrder
    <2>6. CASE iterators[n].current
      <3> DEFINE it == iterators[n]  new == iterators'[n]
      <3>1. new = [it EXCEPT !.entries[i] = changes + 1, !.raced = @ \/ served[i] = Absent]
        BY <1>1, <2>6 DEF UpdateLine
      <3>2. /\ new.next = it.next /\ new.current = it.current
            /\ new.entries = [it.entries EXCEPT ![i] = changes + 1]
            /\ new.raced = (it.raced \/ served[i] = Absent)
        BY <2>4, <3>1 DEF Iterator
      <3>3. IdsOf(new.entries) = IdsOf(it.entries) \union {i}
        BY <2>1, <2>4, <3>2 DEF IdsOf, Tables
      <3>4. it.next \subseteq IdsOf(it.entries)
        BY DEF VisitsInOrder
      <3>5. ASSUME ~new.raced
            PROVE  /\ IdsOf(new.entries) = it.next \union {row[1] : row \in writer}
                   /\ \A row \in writer : \A j \in it.next : row[1] < j
                   /\ IdsOf(new.entries) = IdsOf(served')
        <4>1. ~it.raced /\ i \in IdsOf(served)
          BY <3>2, <3>5 DEF IdsOf
        <4>2. /\ IdsOf(it.entries) = it.next \union {row[1] : row \in writer}
              /\ \A row \in writer : \A j \in it.next : row[1] < j
              /\ IdsOf(it.entries) = IdsOf(served)
          BY <2>6, <4>1 DEF VisitsInOrder
        <4>3. IdsOf(new.entries) = IdsOf(it.entries) /\ IdsOf(served') = IdsOf(served)
          BY <2>2, <3>3, <4>1, <4>2
        <4>4. QED
          BY <4>2, <4>3
      <3>6. QED
        BY <3>2, <3>3, <3>4, <3>5
    <2>7. QED
      BY <2>5, <2>6
  <1>2. ASSUME NEW i \in Ids, RemoveId(i) PROVE VisitsInOrder'
    <2>1. SUFFICES ASSUME NEW n \in DOMAIN iterators
                   PROVE  LET it == iterators'[n]
                          IN  /\ it.next \subseteq IdsOf(it.entries)
                              /\ ~it.raced =>
                                    /\ IdsOf(it.entries)
                                         = it.next \union {row[1] : row \in writer}
                                    /\ \A row \in writer : \A j \in it.next : row[1] < j
                                    /\ it.current => IdsOf(it.entries) = IdsOf(served')
      BY <1>2 DEF RemoveId, Serve, VisitsInOrder
    <2>2. iterators[n] \in Iterator
      BY <1>0
    <2>3. CASE ~iterators[n].current
      <3>1. iterators'[n] = iterators[n]
        BY <1>2, <2>3 DEF RemoveId
      <3>2. QED
        BY <2>3, <3>1 DEF VisitsInOrder
    <2>4. CASE iterators[n].current
      <3>1. iterators'[n] = [iterators[n] EXCEPT !.raced = TRUE]
        BY <1>2, <2>4 DEF RemoveId
      <3>2. /\ iterators'[n].next = iterators[n].next /\ iterators'[n].raced
            /\ iterators'[n].entries = iterators[n].entries
        BY <2>2, <3>1 DEF Iterator
      <3>3. QED
        BY <3>2 DEF VisitsInOrder
    <2>5. QED
      BY <2>3, <2>4
  <1>3. ASSUME NEW ids \in SUBSET Ids, Swap(ids) PROVE VisitsInOrder'
    <2>1. \A n \in DOMAIN iterators : iterators'[n] = [iterators[n] EXCEPT !.current = FALSE]
      BY <1>3 DEF Swap
    <2>2. \A n \in DOMAIN iterators :
             /\ iterators'[n].next = iterators[n].next
             /\ iterators'[n].entries = iterators[n].entries
             /\ iterators'[n].raced = iterators[n].raced
             /\ ~iterators'[n].current
      BY <1>0, <2>1 DEF Iterator
    <2>3. DOMAIN iterators' = DOMAIN iterators /\ writer' = writer
      BY <1>3 DEF Swap, Serve
    <2>4. QED
      BY <2>2, <2>3 DEF VisitsInOrder
  <1>4. ASSUME NEW c \in Callers, NEW kind \in Kinds, Request(c, kind) PROVE VisitsInOrder'
    BY <1>4, VisitsUntouched DEF Request
  <1>5. ASSUME NEW c \in Callers, Receive(c) \/ TimeOut(c) PROVE VisitsInOrder'
    BY <1>5, VisitsUntouched DEF Receive, TimeOut
  <1>6. CASE Accept \/ AnswerColumns
    BY <1>6, VisitsUntouched DEF Accept, AnswerColumns
  <1>7. CASE VisitAll
    <2>1. iterators' = <<Opened(served)>> /\ writer' = {} /\ served' = served
      BY <1>7 DEF VisitAll
    <2>2. DOMAIN iterators' = {1} /\ iterators'[1] = Opened(served)
      BY <2>1
    <2>3. /\ Opened(served).next = IdsOf(served) /\ Opened(served).entries = served
      BY DEF Opened
    <2>4. QED
      BY <2>1, <2>2, <2>3 DEF VisitsInOrder
  <1>8. ASSUME NEW i \in Ids, VisitRow(i) PROVE VisitsInOrder'
    <2>0. iterators # <<>>
      BY <1>8 DEF VisitRow
    <2> DEFINE it == iterators[1]
    <2>1. /\ DOMAIN iterators = {1} /\ it \in Iterator /\ it.next \subseteq Ids
          /\ it.entries \in Tables /\ it.raced \in BOOLEAN
      BY <2>0, OneIterator
    <2>2. PICK next \in Behind(it, i) : iterators' = <<[it EXCEPT !.next = next]>>
      BY <1>8 DEF VisitRow
    <2> DEFINE new == [it EXCEPT !.next = next]
    <2>3. DOMAIN iterators' = {1} /\ iterators'[1] = new
      BY <2>2
    <2>4. /\ new.next = next /\ new.entries = it.entries
          /\ new.raced = it.raced /\ new.current = it.current
      BY <2>1 DEF Iterator
    <2>5. next \subseteq IdsOf(it.entries)
      BY <2>2 DEF Behind, IdsOf
    <2>6. i \in it.next /\ \A j \in it.next : i <= j
      BY <1>8 DEF VisitRow
    <2>7. writer' = writer \union {<<i, it.entries[i]>>} /\ served' = served
      BY <1>8 DEF VisitRow
    <2>8. ASSUME ~it.raced
          PROVE  /\ IdsOf(it.entries) = next \union {row[1] : row \in writer'}
                 /\ \A row \in writer' : \A j \in next : row[1] < j
                 /\ it.current => IdsOf(it.entries) = IdsOf(served')
      <3>1. next = {j \in IdsOf(it.entries) : j > i}
        BY <2>2, <2>8 DEF Behind, IdsOf
      <3>2. /\ IdsOf(it.entries) = it.next \union {row[1] : row \in writer}
            /\ \A row \in writer : \A j \in it.next : row[1] < j
            /\ it.current => IdsOf(it.entries) = IdsOf(served)
        BY <2>1, <2>8 DEF VisitsInOrder
      <3>3. \A j \in Ids : j \in Nat
        BY IdsAssumption
      <3>4. \A row \in writer : row[1] \in Nat /\ row[1] < i
        BY <1>0, <2>6, <3>2, <3>3 DEF Text
      <3>5. next = it.next \ {i}
        BY <2>1, <2>6, <3>1, <3>2, <3>3, <3>4
      <3>6. {row[1] : row \in writer'} = {row[1] : row \in writer} \union {i}
        <4>1. <<i, it.entries[i]>>[1] = i
          OBVIOUS
        <4>2. \A x : x \in {row[1] : row \in writer'}
                     <=> x \in {row[1] : row \in writer} \/ x = <<i, it.entries[i]>>[1]
          BY <2>7, Zenon
        <4>3. QED
          BY <4>1, <4>2
      <3>7. IdsOf(it.entries) = next \union {row[1] : row \in writer'}
        BY <2>6, <3>2, <3>5, <3>6
      <3>8. \A row \in writer' : \A j \in next : row[1] < j
        BY <2>1, <2>7, <3>1, <3>2, <3>3, <3>5 DEF IdsOf
      <3>9. QED
        BY <2>7, <3>2, <3>7, <3>8
    <2> HIDE DEF new
    <2>9. QED
      BY <2>3, <2>4, <2>5, <2>8 DEF VisitsInOrder
  <1>9. CASE ConcurrentModification \/ Answer \/ Crash
    <2>1. iterators' = <<>>
      BY <1>9 DEF ConcurrentModification, Answer, Crash
    <2>2. DOMAIN iterators' = {}
      BY <2>1
    <2>3. QED
      BY <2>2 DEF VisitsInOrder
  <1>10. CASE Restart \/ UNCHANGED vars
    BY <1>10, VisitsUntouched DEF Restart, vars
  <1>11. QED
    BY <1>1, <1>2, <1>3, <1>4, <1>5, <1>6, <1>7, <1>8, <1>9, <1>10 DEF Next

-----------------------------------------------------------------------------
(***************************************************************************)
(* The account of the requests.                                            *)
(***************************************************************************)

LEMMA InitAccounted == Init => Accounted
  <1> SUFFICES ASSUME Init PROVE Accounted
    OBVIOUS
  <1>1. Waiting = {}
    BY DEF Init, Waiting
  <1>2. Cardinality(Waiting) = 0
    BY <1>1, FS_EmptySet
  <1>3. Len(queries) = 0 /\ Len(serving) = 0 /\ Len(replies) = 0
    BY EmptySeq DEF Init
  <1>4. QED
    BY <1>2, <1>3 DEF Init, Accounted, Unanswered

\* How many wait, as they come and go.
LEMMA WaitingCounted ==
    ASSUME NEW waiting \in SUBSET Callers, NEW c \in Callers
    PROVE  /\ Cardinality(waiting) \in Nat
           /\ c \notin waiting => Cardinality(waiting \union {c}) = Cardinality(waiting) + 1
           /\ c \in waiting => Cardinality(waiting \ {c}) = Cardinality(waiting) - 1
  <1>1. IsFiniteSet(waiting)
    BY CallersAssumption, FS_Subset
  <1>2. QED
    BY <1>1, FS_AddElement, FS_RemoveElement, FS_CardinalityType

LEMMA StepAccounted == TypeOK /\ Accounted /\ [Next]_vars => Accounted'
  <1> SUFFICES ASSUME TypeOK, Accounted, [Next]_vars PROVE Accounted'
    OBVIOUS
  <1> USE DEF cacheVars, handlerVars, callVars
  <1>0. /\ queries \in Seq(Kinds) /\ serving \in Seq(Kinds) /\ replies \in Seq(Reply)
        /\ Len(queries) \in Nat /\ Len(serving) \in Nat /\ Len(replies) \in Nat
        /\ lost \in Nat /\ timeouts \in Nat /\ Len(serving) <= 1
        /\ Waiting \in SUBSET Callers
    BY LenProperties DEF TypeOK, Waiting
  <1>1. Len(<<>>) = 0
    BY EmptySeq
  <1>2. call \in [Callers -> Seq(Kinds)] /\ \A kind \in Kinds : <<kind>> # <<>>
    BY DEF TypeOK
  <1>3. ASSUME UNCHANGED <<queries, serving, replies, lost, call, timeouts>>
        PROVE  Accounted'
    BY <1>3 DEF Accounted, Unanswered, Waiting
  <1>4. ASSUME NEW c \in Callers, NEW kind \in Kinds, Request(c, kind) PROVE Accounted'
    <2>1. Waiting' = Waiting \union {c} /\ c \notin Waiting
      BY <1>2, <1>4 DEF Request, Waiting
    <2>2. Cardinality(Waiting') = Cardinality(Waiting) + 1 /\ Cardinality(Waiting) \in Nat
      BY <1>0, <2>1, WaitingCounted
    <2>3. Len(queries') = Len(queries) + 1
      BY <1>0, <1>4, AppendProperties DEF Request
    <2>4. UNCHANGED <<serving, replies, lost, timeouts>>
      BY <1>4 DEF Request
    <2>5. Unanswered' = Unanswered + 1 /\ Unanswered \in Nat
      BY <1>0, <2>3, <2>4 DEF Unanswered
    <2>6. Unanswered + lost = Cardinality(Waiting) + timeouts /\ lost \in Nat /\ timeouts \in Nat
      BY <1>0 DEF Accounted
    <2>7. Unanswered' + lost' = Cardinality(Waiting') + timeouts'
      BY <2>2, <2>4, <2>5, <2>6
    <2>8. QED
      BY <2>7 DEF Accounted
  <1>5. ASSUME NEW c \in Callers, Receive(c) PROVE Accounted'
    <2>1. Waiting' = Waiting \ {c} /\ c \in Waiting
      BY <1>2, <1>5 DEF Receive, Waiting
    <2>2. Cardinality(Waiting') = Cardinality(Waiting) - 1 /\ Cardinality(Waiting) \in Nat
      BY <1>0, <2>1, WaitingCounted
    <2>3. Len(replies') = Len(replies) - 1
      BY <1>0, <1>5, HeadTailProperties DEF Receive
    <2>4. UNCHANGED <<queries, serving, lost, timeouts>>
      BY <1>5 DEF Receive
    <2>5. QED
      BY <1>0, <2>2, <2>3, <2>4 DEF Accounted, Unanswered
  <1>6. ASSUME NEW c \in Callers, TimeOut(c) PROVE Accounted'
    <2>1. Waiting' = Waiting \ {c} /\ c \in Waiting
      BY <1>2, <1>6 DEF TimeOut, Waiting
    <2>2. Cardinality(Waiting') = Cardinality(Waiting) - 1 /\ Cardinality(Waiting) \in Nat
      BY <1>0, <2>1, WaitingCounted
    <2>3. timeouts' = timeouts + 1 /\ UNCHANGED <<queries, serving, replies, lost>>
      BY <1>6 DEF TimeOut
    <2>4. QED
      BY <1>0, <2>2, <2>3 DEF Accounted, Unanswered
  <1>7. ASSUME UNCHANGED <<call, timeouts>>
        PROVE  Waiting' = Waiting /\ Cardinality(Waiting) \in Nat
    BY <1>0, <1>7, CallersAssumption, FS_Subset, FS_CardinalityType DEF Waiting
  <1>8. CASE Accept
    <2>1. Len(queries') = Len(queries) - 1 /\ Len(serving) = 0 /\ Len(serving') = 1
      BY <1>0, <1>1, <1>8, HeadTailProperties DEF Accept
    <2>2. UNCHANGED <<replies, lost, call, timeouts>>
      BY <1>8 DEF Accept
    <2>3. QED
      BY <1>0, <1>7, <2>1, <2>2 DEF Accounted, Unanswered
  <1>9. CASE AnswerColumns
    <2>1. [rows |-> {}, raced |-> FALSE] \in Reply
      BY DEF Reply, Text
    <2>2. Len(replies') = Len(replies) + 1 /\ Len(serving) = 1 /\ Len(serving') = 0
      BY <1>0, <1>1, <1>9, <2>1, AppendProperties DEF AnswerColumns
    <2>3. UNCHANGED <<queries, lost, call, timeouts>>
      BY <1>9 DEF AnswerColumns
    <2>4. QED
      BY <1>0, <1>7, <2>2, <2>3 DEF Accounted, Unanswered
  <1>10. CASE Answer
    <2>1. iterators[1] \in Iterator /\ Len(serving) = 1 /\ writer \in Text
      BY <1>10, OneIterator DEF Answer, TypeOK
    <2>2. [rows |-> writer, raced |-> iterators[1].raced] \in Reply
      BY <2>1 DEF Reply, Iterator
    <2>3. Len(replies') = Len(replies) + 1 /\ Len(serving') = 0
      BY <1>0, <1>1, <1>10, <2>2, AppendProperties DEF Answer
    <2>4. UNCHANGED <<queries, lost, call, timeouts>>
      BY <1>10 DEF Answer
    <2>5. QED
      BY <1>0, <1>7, <2>1, <2>3, <2>4 DEF Accounted, Unanswered
  <1>11. CASE ConcurrentModification \/ Crash
    <2>1. lost' = lost + Len(serving) /\ Len(serving') = 0
      BY <1>1, <1>11 DEF ConcurrentModification, Crash
    <2>2. UNCHANGED <<queries, replies, call, timeouts>>
      BY <1>11 DEF ConcurrentModification, Crash
    <2>3. QED
      BY <1>0, <1>7, <2>1, <2>2 DEF Accounted, Unanswered
  <1>12. ASSUME NEW i \in Ids, UpdateLine(i) \/ RemoveId(i) \/ VisitRow(i) PROVE Accounted'
    BY <1>3, <1>12 DEF UpdateLine, RemoveId, Serve, VisitRow
  <1>13. ASSUME NEW ids \in SUBSET Ids, Swap(ids) PROVE Accounted'
    BY <1>3, <1>13 DEF Swap, Serve
  <1>14. CASE VisitAll \/ Restart \/ UNCHANGED vars
    BY <1>3, <1>14 DEF VisitAll, Restart, vars
  <1>15. QED
    BY <1>4, <1>5, <1>6, <1>8, <1>9, <1>10, <1>11, <1>12, <1>13, <1>14 DEF Next
-----------------------------------------------------------------------------
(***************************************************************************)
(* A call that has the source to itself.                                   *)
(***************************************************************************)

\* What is true of its queues, by the account.
LEMMA OneUnderWay ==
    ASSUME TypeOK, Accounted, NEW c \in Waiting, OnItsOwn(c)
    PROVE  /\ Len(queries) + Len(serving) + Len(replies) <= 1
           /\ queries # <<>> => serving = <<>> /\ replies = <<>>
           /\ serving # <<>> => queries = <<>> /\ replies = <<>>
           /\ replies # <<>> => queries = <<>> /\ serving = <<>>
           /\ Len(queries) <= 1 /\ Len(replies) <= 1
  <1>1. /\ queries \in Seq(Kinds) /\ serving \in Seq(Kinds) /\ replies \in Seq(Reply)
        /\ Len(queries) \in Nat /\ Len(serving) \in Nat /\ Len(replies) \in Nat
        /\ lost \in Nat /\ timeouts \in Nat
    BY LenProperties DEF TypeOK
  <1>2. Cardinality(Waiting) = 1
    BY FS_Singleton DEF OnItsOwn
  <1>3. timeouts <= lost
    BY DEF OnItsOwn
  <1>4. Len(queries) + Len(serving) + Len(replies) <= 1
    BY <1>1, <1>2, <1>3 DEF Accounted, Unanswered
  <1>5. /\ queries # <<>> => Len(queries) # 0
        /\ serving # <<>> => Len(serving) # 0
        /\ replies # <<>> => Len(replies) # 0
    BY <1>1, EmptySeq
  <1>6. /\ Len(queries) = 0 => queries = <<>>
        /\ Len(serving) = 0 => serving = <<>>
        /\ Len(replies) = 0 => replies = <<>>
    BY <1>1, EmptySeq
  <1>7. /\ Len(queries) # 0 => Len(serving) = 0 /\ Len(replies) = 0
        /\ Len(serving) # 0 => Len(queries) = 0 /\ Len(replies) = 0
        /\ Len(replies) # 0 => Len(queries) = 0 /\ Len(serving) = 0
        /\ Len(queries) <= 1 /\ Len(replies) <= 1
    BY <1>1, <1>4
  <1>8. QED
    BY <1>4, <1>5, <1>6, <1>7

\* Nothing is under way when nobody waits and no request of a call that timed out
\* is still to be answered.
LEMMA NoneUnderWay ==
    ASSUME TypeOK, Accounted, ~Disturbing
    PROVE  queries = <<>> /\ serving = <<>> /\ replies = <<>> /\ iterators = <<>>
  <1>1. /\ queries \in Seq(Kinds) /\ serving \in Seq(Kinds) /\ replies \in Seq(Reply)
        /\ Len(queries) \in Nat /\ Len(serving) \in Nat /\ Len(replies) \in Nat
        /\ lost \in Nat /\ timeouts \in Nat
    BY LenProperties DEF TypeOK
  <1>2. Waiting = {} /\ ~(timeouts > lost)
    BY DEF Disturbing
  <1>3. Cardinality(Waiting) = 0
    BY <1>2, FS_EmptySet
  <1>4. Len(queries) = 0 /\ Len(serving) = 0 /\ Len(replies) = 0
    BY <1>1, <1>2, <1>3 DEF Accounted, Unanswered
  <1>5. QED
    BY <1>1, <1>4, EmptySeq, NoIterator

\* A change of the rows that the server serves, for a call that goes on.
LEMMA ServeOnItsOwn ==
    ASSUME TypeOK, NEW table, Serve(table), NEW c \in Waiting, OnItsOwn(c),
           Collected(c)'
    PROVE  OnItsOwn(c)'
  <1>1. /\ UNCHANGED <<queries, serving, replies, call, timeouts, lost>>
        /\ served' = table /\ seen'[c] = seen[c] \union {table}
    BY DEF Serve, callVars, Waiting, TypeOK
  <1>2. Waiting' = Waiting
    BY <1>1 DEF Waiting
  <1>3. ASSUME replies # <<>> PROVE Fits(c, Head(replies))'
    <2>1. Fits(c, Head(replies))
      BY <1>3 DEF OnItsOwn
    <2>2. call'[c] = call[c] /\ Head(replies') = Head(replies)
      BY <1>1
    <2>3. QED
      BY <1>1, <2>1, <2>2 DEF Fits, IsAnswer
  <1>4. QED
    BY <1>1, <1>2, <1>3 DEF OnItsOwn

LEMMA StepOnItsOwn ==
    ASSUME QueryInv, TypeOK', [Next]_vars, NEW c \in (Waiting \ disturbed)'
    PROVE  OnItsOwn(c)'
  <1> USE DEF cacheVars, handlerVars, callVars
  <1>0. /\ TypeOK /\ AnswersRows /\ VisitsInOrder /\ Accounted
        /\ c \in Waiting \ disturbed => OnItsOwn(c)
        /\ c \in Callers /\ c \notin disturbed' /\ call'[c] # <<>>
    BY DEF QueryInv, Waiting
  <1>1. /\ \A n \in DOMAIN iterators : iterators[n] \in Iterator
        /\ served \in Tables /\ writer \in Text
        /\ seen \in [Callers -> SUBSET Tables]
        /\ call \in [Callers -> Seq(Kinds)]
    BY <1>0 DEF TypeOK
  \* Only a request begins a call.
  <1>2. ASSUME UNCHANGED <<call, disturbed>>
        PROVE  c \in Waiting \ disturbed /\ Waiting' = Waiting /\ OnItsOwn(c) /\ c \in Waiting
    BY <1>0, <1>2 DEF Waiting
  <1>3. ASSUME NEW i \in Ids, UpdateLine(i) PROVE OnItsOwn(c)'
    <2>1. OnItsOwn(c) /\ c \in Waiting
      BY <1>2, <1>3 DEF UpdateLine, Serve
    <2>2. seen'[c] = seen[c] \union {served'} /\ seen[c] \subseteq seen'[c] /\ writer' = writer
      BY <1>0, <1>1, <1>3, <2>1 DEF UpdateLine, Serve
    <2>3. served' = [served EXCEPT ![i] = changes + 1] /\ served'[i] = changes + 1
      BY <1>1, <1>3 DEF UpdateLine, Serve, Tables
    <2>4. ASSUME NEW n \in DOMAIN iterators
          PROVE  /\ \A j \in IdsOf(iterators'[n].entries) :
                        \E known \in seen'[c] : known[j] = iterators'[n].entries[j]
                 /\ ~iterators'[n].raced =>
                      \E known \in seen'[c] : IdsOf(known) = IdsOf(iterators'[n].entries)
      <3> DEFINE it == iterators[n]  new == iterators'[n]
      <3>1. /\ \A j \in IdsOf(it.entries) : \E known \in seen[c] : known[j] = it.entries[j]
            /\ ~it.raced => \E known \in seen[c] : IdsOf(known) = IdsOf(it.entries)
        BY <2>1 DEF OnItsOwn, Collected, KnownTo
      <3>2. it \in Iterator /\ it.entries \in Tables /\ it.raced \in BOOLEAN
        BY <1>1 DEF Iterator
      <3>3. CASE ~it.current
        <4>1. new = it
          BY <1>3, <3>3 DEF UpdateLine
        <4>2. QED
          BY <2>2, <3>1, <4>1
      <3>4. CASE it.current
        <4>1. new = [it EXCEPT !.entries[i] = changes + 1, !.raced = @ \/ served[i] = Absent]
          BY <1>3, <3>4 DEF UpdateLine
        <4>2. /\ new.entries = [it.entries EXCEPT ![i] = changes + 1]
              /\ new.raced = (it.raced \/ served[i] = Absent)
          BY <3>2, <4>1 DEF Iterator
        <4>3. \A j \in IdsOf(new.entries) : \E known \in seen'[c] : known[j] = new.entries[j]
          <5>1. ASSUME NEW j \in IdsOf(new.entries), j # i
                PROVE  \E known \in seen'[c] : known[j] = new.entries[j]
            <6>1. new.entries[j] = it.entries[j] /\ j \in IdsOf(it.entries)
              BY <3>2, <4>2, <5>1 DEF IdsOf, Tables
            <6>2. QED
              BY <2>2, <3>1, <6>1
          <5>2. new.entries[i] = changes + 1
            BY <3>2, <4>2 DEF Tables
          <5>3. \E known \in seen'[c] : known[i] = new.entries[i]
            BY <2>2, <2>3, <5>2
          <5>4. QED
            BY <5>1, <5>3
        <4>4. ASSUME ~new.raced
              PROVE  \E known \in seen'[c] : IdsOf(known) = IdsOf(new.entries)
          <5>1. ~it.raced /\ i \in IdsOf(served)
            BY <4>2, <4>4 DEF IdsOf
          <5>2. IdsOf(it.entries) = IdsOf(served)
            BY <1>0, <3>4, <5>1 DEF VisitsInOrder
          <5>3. changes + 1 # Absent
            <6>1. changes \in Nat
              BY <1>0, BoundsAssumption DEF TypeOK
            <6>2. QED
              BY <6>1, IdsAssumption
          <5>4. IdsOf(new.entries) = IdsOf(it.entries)
            BY <3>2, <4>2, <5>1, <5>2, <5>3 DEF IdsOf, Tables
          <5>5. QED
            BY <2>2, <3>1, <5>1, <5>4
        <4>5. QED
          BY <4>3, <4>4
      <3>5. QED
        BY <3>3, <3>4
    <2>5. \A n \in DOMAIN iterators :
             \A row \in writer : \E known \in seen'[c] : known[row[1]] = row[2]
      BY <2>1, <2>2 DEF OnItsOwn, Collected
    <2>6. DOMAIN iterators' = DOMAIN iterators
      BY <1>3 DEF UpdateLine
    <2>7. Collected(c)'
      BY <2>2, <2>4, <2>5, <2>6 DEF Collected, KnownTo
    <2>8. QED
      BY <1>0, <1>3, <2>1, <2>7, ServeOnItsOwn DEF UpdateLine
  \* A removal, or another cache: the rows that the iterator knows stay.
  <1>4. ASSUME NEW table, Serve(table), DOMAIN iterators' = DOMAIN iterators,
               \A n \in DOMAIN iterators :
                  /\ iterators'[n].entries = iterators[n].entries
                  /\ iterators[n].raced => iterators'[n].raced
        PROVE  OnItsOwn(c)'
    <2>1. OnItsOwn(c) /\ c \in Waiting
      BY <1>2, <1>4 DEF Serve
    <2>2. seen[c] \subseteq seen'[c] /\ writer' = writer
      BY <1>0, <1>1, <1>4, <2>1 DEF Serve
    <2>3. \A n \in DOMAIN iterators :
            /\ \A i \in IdsOf(iterators[n].entries) :
                  \E known \in seen[c] : known[i] = iterators[n].entries[i]
            /\ \A row \in writer : \E known \in seen[c] : known[row[1]] = row[2]
            /\ ~iterators[n].raced =>
                  \E known \in seen[c] : IdsOf(known) = IdsOf(iterators[n].entries)
      BY <2>1 DEF OnItsOwn, Collected, KnownTo
    <2>4. \A n \in DOMAIN iterators :
            /\ \A i \in IdsOf(iterators'[n].entries) :
                  \E known \in seen'[c] : known[i] = iterators'[n].entries[i]
            /\ \A row \in writer' : \E known \in seen'[c] : known[row[1]] = row[2]
            /\ ~iterators'[n].raced =>
                  \E known \in seen'[c] : IdsOf(known) = IdsOf(iterators'[n].entries)
      BY <1>4, <2>2, <2>3
    <2>5. Collected(c)'
      BY <1>4, <2>4 DEF Collected, KnownTo
    <2>6. QED
      BY <1>0, <1>4, <2>1, <2>5, ServeOnItsOwn
  <1>5. ASSUME NEW i \in Ids, RemoveId(i) PROVE OnItsOwn(c)'
    <2>1. \A n \in DOMAIN iterators :
             /\ iterators'[n].entries = iterators[n].entries
             /\ iterators[n].raced => iterators'[n].raced
      BY <1>1, <1>5 DEF RemoveId, Iterator
    <2>2. DOMAIN iterators' = DOMAIN iterators /\ Serve([served EXCEPT ![i] = Absent])
      BY <1>5 DEF RemoveId
    <2>3. QED
      BY <1>4, <2>1, <2>2
  <1>6. ASSUME NEW ids \in SUBSET Ids, Swap(ids) PROVE OnItsOwn(c)'
    <2>1. \A n \in DOMAIN iterators :
             /\ iterators'[n].entries = iterators[n].entries
             /\ iterators[n].raced => iterators'[n].raced
      BY <1>1, <1>6 DEF Swap, Iterator
    <2>2. /\ DOMAIN iterators' = DOMAIN iterators
          /\ Serve([i \in Ids |-> IF i \in ids THEN changes + 1 ELSE Absent])
      BY <1>6 DEF Swap
    <2>3. QED
      BY <1>4, <2>1, <2>2
  <1>7. ASSUME NEW d \in Callers, NEW kind \in Kinds, Request(d, kind) PROVE OnItsOwn(c)'
    <2>1. c = d
      BY <1>0, <1>1, <1>7 DEF Request, Waiting
    <2>2. ~Disturbing
      BY <1>0, <1>7, <2>1 DEF Request
    <2>3. queries = <<>> /\ serving = <<>> /\ replies = <<>> /\ iterators = <<>>
      BY <1>0, <2>2, NoneUnderWay
    <2>4. call'[c] = <<kind>> /\ seen'[c] = {served} /\ served' = served
      BY <1>1, <1>7, <2>1 DEF Request
    <2>5. Waiting = {} /\ timeouts <= lost
      BY <1>0, <2>2 DEF Disturbing, TypeOK
    <2>6. Waiting' = {c}
      BY <1>0, <1>1, <1>7, <2>1, <2>5 DEF Request, Waiting
    <2>7. queries' = <<kind>>
      BY <1>7, <2>3 DEF Request
    <2>8. DOMAIN iterators' = {} /\ serving' = <<>> /\ replies' = <<>>
      BY <1>7, <2>3 DEF Request
    <2>9. Collected(c)'
      BY <2>8 DEF Collected
    <2>10. UNCHANGED <<timeouts, lost>>
      BY <1>7 DEF Request
    <2>11. QED
      BY <2>4, <2>5, <2>6, <2>7, <2>8, <2>9, <2>10 DEF OnItsOwn
  <1>8. ASSUME NEW d \in Callers, Receive(d) \/ TimeOut(d) PROVE OnItsOwn(c)'
    <2>1. d # c /\ d \in Waiting
      BY <1>0, <1>1, <1>8 DEF Receive, TimeOut, Waiting
    <2>2. call'[c] = call[c] /\ c \notin disturbed
      BY <1>0, <1>1, <1>8, <2>1 DEF Receive, TimeOut, Returned
    <2>3. c \in Waiting \ disturbed
      BY <1>0, <2>2 DEF Waiting
    <2>4. Waiting = {c}
      BY <1>0, <2>3 DEF OnItsOwn
    <2>5. QED
      BY <2>1, <2>4
  <1>9. CASE Accept
    <2>1. OnItsOwn(c) /\ c \in Waiting /\ Waiting' = Waiting
      BY <1>2, <1>9 DEF Accept
    <2>2. queries # <<>> /\ queries = call[c] /\ Len(queries) <= 1 /\ replies = <<>>
      BY <1>0, <1>9, <2>1, OneUnderWay DEF Accept, OnItsOwn
    <2>3. queries \in Seq(Kinds)
      BY <1>0 DEF TypeOK
    <2>4. queries = <<Head(queries)>> /\ Tail(queries) = <<>>
      BY <2>2, <2>3, ShortSeq
    <2>5. /\ serving' = call[c] /\ queries' = <<>>
          /\ UNCHANGED <<replies, call, timeouts, lost, served, seen, iterators, writer>>
      BY <1>9, <2>2, <2>4 DEF Accept
    <2>6. Collected(c)'
      BY <2>1, <2>5 DEF OnItsOwn, Collected, KnownTo
    <2>7. QED
      BY <2>1, <2>2, <2>5, <2>6 DEF OnItsOwn
  <1>10. CASE AnswerColumns
    <2>1. OnItsOwn(c) /\ c \in Waiting /\ Waiting' = Waiting
      BY <1>2, <1>10 DEF AnswerColumns
    <2>2. /\ serving = call[c] /\ serving = <<"columns">> /\ serving # <<>>
          /\ queries = <<>> /\ replies = <<>>
      BY <1>0, <1>10, <2>1, OneUnderWay DEF AnswerColumns, OnItsOwn
    <2>3. /\ replies' = <<[rows |-> {}, raced |-> FALSE]>> /\ serving' = <<>>
          /\ UNCHANGED <<queries, call, timeouts, lost, served, seen, iterators, writer>>
      BY <1>10, <2>2 DEF AnswerColumns
    <2>4. Head(replies').rows = {} /\ call'[c] = <<"columns">>
      <3>1. Head(<<[rows |-> {}, raced |-> FALSE]>>) = [rows |-> {}, raced |-> FALSE]
        OBVIOUS
      <3>2. Head(replies').rows = {}
        BY <2>3, <3>1
      <3>3. call'[c] = <<"columns">>
        BY <2>2, <2>3, Zenon
      <3>4. QED
        BY <3>2, <3>3
    <2>5. Fits(c, Head(replies))'
      BY <2>4 DEF Fits
    <2>6. Collected(c)'
      BY <2>1, <2>3 DEF OnItsOwn, Collected, KnownTo
    <2>7. QED
      BY <2>1, <2>2, <2>3, <2>5, <2>6 DEF OnItsOwn
  <1>11. CASE VisitAll
    <2>1. OnItsOwn(c) /\ c \in Waiting /\ Waiting' = Waiting
      BY <1>2, <1>11 DEF VisitAll
    <2>2. /\ iterators' = <<Opened(served)>> /\ writer' = {}
          /\ UNCHANGED <<queries, serving, replies, call, timeouts, lost, served, seen>>
      BY <1>11 DEF VisitAll
    <2>3. /\ DOMAIN iterators' = {1} /\ iterators'[1].entries = served
      BY <2>2 DEF Opened
    <2>4. served \in seen[c]
      BY <2>1 DEF OnItsOwn
    <2>5. Collected(c)'
      BY <2>2, <2>3, <2>4 DEF Collected, KnownTo
    <2>6. Fits(c, Head(replies))' <=> Fits(c, Head(replies))
      BY <2>2 DEF Fits, IsAnswer
    <2>7. QED
      BY <2>1, <2>2, <2>5, <2>6 DEF OnItsOwn
  <1>12. ASSUME NEW i \in Ids, VisitRow(i) PROVE OnItsOwn(c)'
    <2>1. OnItsOwn(c) /\ c \in Waiting /\ Waiting' = Waiting
      BY <1>2, <1>12 DEF VisitRow
    <2>2. iterators # <<>>
      BY <1>12 DEF VisitRow
    <2> DEFINE it == iterators[1]
    <2>3. /\ DOMAIN iterators = {1} /\ it \in Iterator /\ it.entries \in Tables
          /\ it.next \subseteq IdsOf(it.entries)
      BY <1>0, <2>2, OneIterator DEF VisitsInOrder
    <2>4. PICK next \in Behind(it, i) : iterators' = <<[it EXCEPT !.next = next]>>
      BY <1>12 DEF VisitRow
    <2>5. /\ DOMAIN iterators' = {1}
          /\ iterators'[1].entries = it.entries /\ iterators'[1].raced = it.raced
      BY <2>3, <2>4 DEF Iterator
    <2>6. /\ i \in IdsOf(it.entries) /\ writer' = writer \union {<<i, it.entries[i]>>}
          /\ UNCHANGED <<queries, serving, replies, call, timeouts, lost, served, seen>>
      BY <1>12, <2>3 DEF VisitRow
    <2>7. /\ \A j \in IdsOf(it.entries) : \E known \in seen[c] : known[j] = it.entries[j]
          /\ \A row \in writer : \E known \in seen[c] : known[row[1]] = row[2]
          /\ ~it.raced => \E known \in seen[c] : IdsOf(known) = IdsOf(it.entries)
      BY <2>1, <2>3 DEF OnItsOwn, Collected, KnownTo
    <2>8. \A row \in writer' : \E known \in seen[c] : known[row[1]] = row[2]
      <3>1. ASSUME NEW row \in writer' PROVE \E known \in seen[c] : known[row[1]] = row[2]
        <4>1. CASE row \in writer
          BY <2>7, <4>1
        <4>2. CASE row = <<i, it.entries[i]>>
          <5>1. row[1] = i /\ row[2] = it.entries[i]
            BY <4>2
          <5>2. QED
            BY <2>6, <2>7, <5>1
        <4>3. QED
          BY <2>6, <3>1, <4>1, <4>2
      <3>2. QED
        BY <3>1
    <2>9. Collected(c)'
      BY <2>5, <2>6, <2>7, <2>8 DEF Collected, KnownTo
    <2>10. Fits(c, Head(replies))' <=> Fits(c, Head(replies))
      BY <2>6 DEF Fits, IsAnswer
    <2>11. QED
      BY <2>1, <2>6, <2>9, <2>10 DEF OnItsOwn
  <1>13. CASE ConcurrentModification \/ Crash
    <2>1. OnItsOwn(c) /\ c \in Waiting /\ Waiting' = Waiting
      BY <1>2, <1>13 DEF ConcurrentModification, Crash
    <2>2. /\ iterators' = <<>> /\ serving' = <<>> /\ lost' = lost + Len(serving)
          /\ UNCHANGED <<queries, replies, call, timeouts, served, seen>>
      BY <1>13 DEF ConcurrentModification, Crash
    <2>3. timeouts' <= lost'
      <3>1. Len(serving) \in Nat /\ lost \in Nat /\ timeouts \in Nat
        BY <1>0, LenProperties DEF TypeOK
      <3>2. timeouts <= lost
        BY <2>1 DEF OnItsOwn
      <3>3. QED
        BY <2>2, <3>1, <3>2
    <2>4. DOMAIN iterators' = {}
      BY <2>2
    <2>5. Collected(c)'
      BY <2>4 DEF Collected
    <2>6. Fits(c, Head(replies))' <=> Fits(c, Head(replies))
      BY <2>2 DEF Fits, IsAnswer
    <2>7. QED
      BY <2>1, <2>2, <2>3, <2>5, <2>6 DEF OnItsOwn
  <1>14. CASE Answer
    <2>1. OnItsOwn(c) /\ c \in Waiting /\ Waiting' = Waiting
      BY <1>2, <1>14 DEF Answer
    <2>2. iterators # <<>> /\ iterators[1].next = {}
      BY <1>14 DEF Answer
    <2> DEFINE it == iterators[1]
    <2>3. DOMAIN iterators = {1} /\ it.raced \in BOOLEAN /\ serving # <<>>
      BY <1>0, <2>2, OneIterator
    <2>4. queries = <<>> /\ replies = <<>> /\ call[c] = serving /\ serving # <<"columns">>
      BY <1>0, <2>1, <2>2, <2>3, OneUnderWay DEF OnItsOwn, AnswersRows
    <2>5. /\ replies' = <<[rows |-> writer, raced |-> it.raced]>>
          /\ serving' = <<>> /\ iterators' = <<>>
          /\ UNCHANGED <<queries, call, timeouts, lost, served, seen>>
      BY <1>14, <2>4 DEF Answer
    <2>6. /\ \A row \in writer : \E known \in seen[c] : known[row[1]] = row[2]
          /\ ~it.raced => \E known \in seen[c] : IdsOf(known) = IdsOf(it.entries)
      BY <2>1, <2>3 DEF OnItsOwn, Collected
    <2>7. ~it.raced => IdsOf(it.entries) = {row[1] : row \in writer}
      BY <1>0, <2>2, <2>3 DEF VisitsInOrder
    <2>8. IsAnswer(writer, seen[c], ~it.raced)
      BY <2>6, <2>7 DEF IsAnswer
    <2>9. /\ Head(replies') = [rows |-> writer, raced |-> it.raced]
          /\ call'[c] # <<"columns">>
      BY <2>4, <2>5
    <2>10. Fits(c, Head(replies))'
      BY <2>5, <2>8, <2>9 DEF Fits
    <2>11. DOMAIN iterators' = {}
      BY <2>5
    <2>12. Collected(c)'
      BY <2>11 DEF Collected
    <2>13. QED
      BY <2>1, <2>4, <2>5, <2>10, <2>12 DEF OnItsOwn
  <1>15. CASE Restart \/ UNCHANGED vars
    <2>1. OnItsOwn(c) /\ c \in Waiting /\ Waiting' = Waiting
      BY <1>2, <1>15 DEF Restart, vars
    <2>2. UNCHANGED <<queries, replies, serving, iterators, writer, call, timeouts, lost,
                      served, seen>>
      BY <1>15 DEF Restart, vars
    <2>3. Fits(c, Head(replies))' <=> Fits(c, Head(replies))
      BY <2>2 DEF Fits, IsAnswer
    <2>4. Collected(c)'
      BY <2>1, <2>2 DEF OnItsOwn, Collected, KnownTo
    <2>5. QED
      BY <2>1, <2>2, <2>3, <2>4 DEF OnItsOwn
  <1>16. QED
    BY <1>3, <1>5, <1>6, <1>7, <1>8, <1>9, <1>10, <1>11, <1>12, <1>13, <1>14, <1>15 DEF Next

-----------------------------------------------------------------------------
(***************************************************************************)
(* The theorems.                                                           *)
(***************************************************************************)

LEMMA InitQueryInv == Init => QueryInv
  <1> SUFFICES ASSUME Init PROVE QueryInv
    OBVIOUS
  <1>1. iterators = <<>> /\ DOMAIN iterators = {} /\ Waiting = {}
    BY DEF Init, Waiting
  <1>2. AnswersRows /\ VisitsInOrder
    BY <1>1 DEF AnswersRows, VisitsInOrder
  <1>3. QED
    BY <1>1, <1>2, InitTypes, InitAccounted DEF QueryInv

LEMMA StepQueryInv == QueryInv /\ [Next]_vars => QueryInv'
  <1> SUFFICES ASSUME QueryInv, [Next]_vars PROVE QueryInv'
    OBVIOUS
  <1>1. TypeOK'
    BY StepTypes DEF QueryInv
  <1>2. AnswersRows' /\ VisitsInOrder' /\ Accounted'
    BY <1>1, StepAnswers, StepVisits, StepAccounted DEF QueryInv
  <1>3. \A c \in (Waiting \ disturbed)' : OnItsOwn(c)'
    BY <1>1, StepOnItsOwn
  <1>4. QED
    BY <1>1, <1>2, <1>3 DEF QueryInv

LEMMA QueryInvariant == Spec => []QueryInv
  BY InitQueryInv, StepQueryInv, PTL DEF Spec

\* Every variable keeps its type: at most one request is on the handler, and an
\* iterator only with it.
THEOREM TypeCorrect == Spec => []TypeOK
  <1>1. QueryInv => TypeOK
    BY DEF QueryInv
  <1>2. QED
    BY <1>1, QueryInvariant, PTL

\* The requests under way and those that died are as many as the calls that wait
\* and the calls that timed out, however many callers there are.
THEOREM RequestsAccounted == Spec => []Accounted
  <1>1. QueryInv => Accounted
    BY DEF QueryInv
  <1>2. QED
    BY <1>1, QueryInvariant, PTL

\* A call that has the source to itself receives the reply to its own request: rows
\* served during the call, complete unless the iteration was raced.
THEOREM AnswersOwnRequest == Spec => OwnReply
  <1>1. ASSUME QueryInv, NEW c \in Callers, Receive(c), c \notin disturbed
        PROVE  IF call[c] = <<"columns">> THEN Head(replies).rows = {}
               ELSE IsAnswer(Head(replies).rows, seen[c], ~Head(replies).raced)
    <2>1. c \in Waiting \ disturbed /\ replies # <<>>
      BY <1>1 DEF Receive, Waiting
    <2>2. Fits(c, Head(replies))
      BY <1>1, <2>1 DEF QueryInv, OnItsOwn
    <2>3. QED
      BY <2>2 DEF Fits
  <1>2. QueryInv =>
          [\A c \in Callers :
              Receive(c) /\ c \notin disturbed =>
                  IF call[c] = <<"columns">> THEN Head(replies).rows = {}
                  ELSE IsAnswer(Head(replies).rows, seen[c], ~Head(replies).raced)]_vars
    BY <1>1
  <1>3. QED
    BY <1>2, QueryInvariant, PTL DEF OwnReply
=============================================================================
