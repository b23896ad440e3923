--------------------------- MODULE Sockets_proofs ---------------------------
(***************************************************************************)
(* The pages of web sockets, for any number of them: what a page shows     *)
(* between blocks, and that the pages get nothing more once a block has    *)
(* been given up with a subscriber stuck.                                  *)
(***************************************************************************)
EXTENDS Sockets, SequenceTheorems, WellFoundedInduction, TLAPS

USE DEF streamVars, callVars, threadVars, sessionVars, pageVars, historyVars

-----------------------------------------------------------------------------
(***************************************************************************)
(* The inductive invariant.                                                *)
(***************************************************************************)

Clear == Sockets \ (gone \union unclear)

\* What a page will show when its message ends.
Showing(s) == Reading(message[s], page[s])

NoRows == [i \in Ids |-> Absent]

\* The open block and the rows: what a block has changed and readers do not see.
BlockInOrder ==
    /\ ~bulk => next = served
    /\ bulk => \A k \in Keys : k[1] # open => next[k] = served[k]
    /\ bulk => open # NoEntity
    /\ call \in {"start", "row"} => open # NoEntity
    /\ call = "finish" => open = NoEntity

\* The line that is passed on is that of a row of the block's entity, as the block leaves it.
LineInOrder ==
    call = "row" =>
        /\ line # Header
        /\ next[<<open, line.id>>] = line.row
        /\ bulk => line.row # Absent
        /\ \A s \in untold : entity[s] = open

\* A page that connects.
Connecting(s) ==
    /\ s \in subscribed <=> at[s] \in {"rows", "open"}
    /\ at[s] = "new" => message[s] = <<>>
    /\ at[s] = "started" => message[s] = <<Header>>
    /\ at[s] # "open" => page[s] = NoRows
    /\ at[s] = "rows" =>
          /\ open = NoEntity /\ call = "none"
          /\ message[s] # <<>>
          /\ \A i \in Ids : IF todo[s][i] = Absent THEN Showing(s)[i] = served[<<entity[s], i>>]
                            ELSE todo[s][i] = served[<<entity[s], i>>]

\* A part of the message has been sent to s, and its end has not.
InMessage(s) ==
    \/ call = "none" /\ open # NoEntity
    \/ call = "row"
    \/ call = "start" /\ s \notin untold
    \/ call = "finish" /\ s \in untold

Awaits(s, i) == call = "row" /\ s \in untold /\ line.id = i

\* x stands for the row as it is served.
StandsFor(x, s, i) ==
    LET row == served[<<entity[s], i>>]
    IN  x = row \/ (row = Absent /\ (x = Blank \/ <<s, i>> \in dropped))

\* A page that has loaded: with the message it gets, it has each row that was told, as the
\* block leaves it, and the other rows as they are served.
Following(s) ==
    /\ message[s] # <<>> <=> InMessage(s)
    /\ \A i \in Ids : ~Awaits(s, i) =>
          IF bulk /\ open = entity[s] /\ next[<<entity[s], i>>] # Absent
          THEN Showing(s)[i] = next[<<entity[s], i>>]
          ELSE StandsFor(Showing(s)[i], s, i)

Follows(s) ==
    /\ Connecting(s)
    /\ at[s] = "open" => Following(s)

PagesFollow ==
    ~leaked =>
        /\ BlockInOrder /\ LineInOrder
        /\ \A s \in Clear : Follows(s)

\* The start of every block waits for a subscriber that throws.
NobodyTold ==
    silent =>
        /\ leaked
        /\ (call = "none" /\ open = NoEntity) \/ call = "start"
        /\ \E s \in subscribed : Stuck(s) /\ (call = "start" => s \in untold)

\* What else the types rest on.
SocketTypes ==
    /\ TypeOK
    /\ \A s \in Sockets : at[s] \in {"started", "rows", "open"} => entity[s] # NoEntity
    /\ call = "row" => line # Header

SocketsInv == SocketTypes /\ PagesFollow /\ NobodyTold

-----------------------------------------------------------------------------
(***************************************************************************)
(* What a page reads of a message.                                         *)
(***************************************************************************)

Stores == [Ids -> Content \union {Blank}]

\* The lines of a message that are about row i, of which Reading takes the last one.
About(sent, i) == {n \in 2..Len(sent) : sent[n] # Header /\ sent[n].id = i}
LastOf(own) == CHOOSE n \in own : \A m \in own : m <= n

LEMMA ReadingOf ==
    ASSUME NEW sent, NEW store, NEW i \in Ids
    PROVE  Reading(sent, store)[i] = IF About(sent, i) = {} THEN store[i]
                                     ELSE Cell(sent[LastOf(About(sent, i))].row)
  BY DEF Reading, About, LastOf

LEMMA ReadingDomain ==
    ASSUME NEW sent, NEW store
    PROVE  Reading(sent, store) = [i \in Ids |-> Reading(sent, store)[i]]
  BY DEF Reading

LEMMA LastOne ==
    ASSUME NEW n \in Nat, NEW own \in SUBSET (1..n), own # {}
    PROVE  LastOf(own) \in own
  <1> DEFINE T == {n - k : k \in own}
  <1>1. \A k \in own : k \in Nat /\ k <= n /\ n - k \in Nat
    OBVIOUS
  <1>2. T \subseteq Nat /\ T # {}
    BY <1>1
  <1>3. \E x \in T : \A y \in T : ~(<<y, x>> \in OpToRel(<, Nat))
    BY <1>2, NatLessThanWellFounded, WFMin
  <1>4. PICK x \in T : \A y \in T : ~(y < x)
    BY <1>2, <1>3 DEF OpToRel
  <1>5. PICK k \in own : x = n - k
    BY <1>4
  <1>6. ASSUME NEW m \in own PROVE m <= k
    <2>1. n - m \in T
      OBVIOUS
    <2>2. ~(n - m < n - k)
      BY <1>4, <1>5, <2>1
    <2>3. QED
      BY <1>1, <2>2
  <1>7. QED
    BY <1>6 DEF LastOf

LEMMA AboutWithin ==
    ASSUME NEW sent \in Seq(Line), NEW i
    PROVE  /\ About(sent, i) \in SUBSET (1..Len(sent)) /\ Len(sent) \in Nat
           /\ About(sent, i) # {} => LastOf(About(sent, i)) \in About(sent, i)
  <1>1. About(sent, i) \in SUBSET (1..Len(sent)) /\ Len(sent) \in Nat
    BY LenProperties DEF About
  <1>2. QED
    BY <1>1, LastOne

LEMMA ReadingType ==
    ASSUME NEW sent \in Seq(Line), NEW store \in Stores
    PROVE  Reading(sent, store) \in Stores
  <1>1. ASSUME NEW i \in Ids PROVE Reading(sent, store)[i] \in Content \union {Blank}
    <2>1. CASE About(sent, i) = {}
      BY <2>1, ReadingOf DEF Stores
    <2>2. CASE About(sent, i) # {}
      <3> DEFINE last == LastOf(About(sent, i))
      <3>1. last \in About(sent, i) /\ last \in 1..Len(sent)
        BY <2>2, AboutWithin
      <3>2. sent[last] \in Line /\ sent[last] # Header
        BY <3>1, ElementOfSeq DEF About
      <3>3. sent[last].row \in Content
        BY <3>2 DEF Line
      <3>4. Reading(sent, store)[i] = Cell(sent[last].row)
        BY <2>2, ReadingOf
      <3>5. QED
        BY <3>3, <3>4 DEF Cell
    <2>3. QED
      BY <2>1, <2>2
  <1>2. QED
    BY <1>1, ReadingDomain DEF Stores

LEMMA ReadingEmpty ==
    ASSUME NEW store \in Stores
    PROVE  Reading(<<>>, store) = store
  <1>1. Len(<<>>) = 0
    BY EmptySeq
  <1>2. \A i \in Ids : About(<<>>, i) = {}
    BY <1>1 DEF About
  <1>3. \A i \in Ids : Reading(<<>>, store)[i] = store[i]
    BY <1>2, ReadingOf
  <1>4. QED
    BY <1>3, ReadingDomain DEF Stores

\* A message goes on with a line.
LEMMA LongerMessage ==
    ASSUME NEW sent \in Seq(Line), NEW l \in Line
    PROVE  /\ Append(sent, l) \in Seq(Line) /\ Append(sent, l) # <<>>
           /\ Len(sent) \in Nat /\ Len(Append(sent, l)) = Len(sent) + 1
           /\ \A n \in 1..Len(sent) : Append(sent, l)[n] = sent[n]
           /\ Append(sent, l)[Len(sent) + 1] = l
  BY AppendProperties, LenProperties

\* A line of column names changes nothing, wherever it is.
LEMMA ReadingHeader ==
    ASSUME NEW sent \in Seq(Line), NEW store \in Stores
    PROVE  Reading(Append(sent, Header), store) = Reading(sent, store)
  <1> DEFINE new == Append(sent, Header)
  <1>1. /\ Len(sent) \in Nat /\ Len(new) = Len(sent) + 1
        /\ \A n \in 1..Len(sent) : new[n] = sent[n]
        /\ new[Len(sent) + 1] = Header
    BY LongerMessage DEF Line
  <1> HIDE DEF new
  <1>2. ASSUME NEW i \in Ids PROVE Reading(new, store)[i] = Reading(sent, store)[i]
    <2>1. About(new, i) = About(sent, i)
      BY <1>1 DEF About
    <2>2. About(sent, i) # {} => new[LastOf(About(sent, i))] = sent[LastOf(About(sent, i))]
      BY <1>1, AboutWithin
    <2>3. QED
      BY <2>1, <2>2, ReadingOf
  <1>3. QED
    BY <1>2, ReadingDomain DEF new

\* A line about a row that is not the first line of its message replaces the row.
LEMMA ReadingRow ==
    ASSUME NEW sent \in Seq(Line), sent # <<>>, NEW store \in Stores,
           NEW l \in Line, l # Header
    PROVE  /\ l.id \in Ids /\ l.row \in Content
           /\ Reading(Append(sent, l), store)[l.id] = Cell(l.row)
           /\ \A i \in Ids \ {l.id} :
                  Reading(Append(sent, l), store)[i] = Reading(sent, store)[i]
  <1> DEFINE new == Append(sent, l)
  <1>0. l.id \in Ids /\ l.row \in Content
    BY DEF Line
  <1>1. /\ Len(sent) \in Nat \ {0} /\ Len(new) = Len(sent) + 1
        /\ \A n \in 1..Len(sent) : new[n] = sent[n]
        /\ new[Len(sent) + 1] = l
    BY LongerMessage, EmptySeq
  <1> HIDE DEF new
  <1>2. ASSUME NEW i \in Ids \ {l.id} PROVE Reading(new, store)[i] = Reading(sent, store)[i]
    <2>1. About(new, i) = About(sent, i)
      BY <1>1, <1>2 DEF About
    <2>2. About(sent, i) # {} => new[LastOf(About(sent, i))] = sent[LastOf(About(sent, i))]
      BY <1>1, AboutWithin
    <2>3. QED
      BY <2>1, <2>2, ReadingOf
  <1>3. Reading(new, store)[l.id] = Cell(l.row)
    <2> DEFINE own == About(new, l.id)
    <2>1. Len(new) \in own /\ \A m \in own : m \in Nat /\ m <= Len(new)
      BY <1>0, <1>1 DEF About
    <2>2. LastOf(own) = Len(new)
      <3>1. \A n \in own : (\A m \in own : m <= n) => n = Len(new)
        BY <1>1, <2>1
      <3>2. QED
        BY <1>1, <2>1, <3>1 DEF LastOf
    <2>3. QED
      BY <1>0, <1>1, <2>1, <2>2, ReadingOf
  <1>4. QED
    BY <1>0, <1>2, <1>3 DEF new
-----------------------------------------------------------------------------
(***************************************************************************)
(* Types.                                                                  *)
(***************************************************************************)

LEMMA ContentTypes ==
    /\ Absent \in Content /\ Header \in Line /\ NoRows \in Stores
    /\ \A i \in Ids, row \in Content : [id |-> i, row |-> row] \in Line \ {Header}
    /\ Absent # Blank /\ Blank \notin Content
    /\ NoEntity \notin Entities /\ 0 \in Content
  BY NamesAssumption, BoundsAssumption DEF Content, Line, NoRows, Stores

\* A message goes on with a line ...
LEMMA SentTypes ==
    ASSUME TypeOK, NEW s \in Sockets, NEW l \in Line, Sent(s, l)
    PROVE  /\ message' \in [Sockets -> Seq(Line)]
           /\ \A t \in Sockets \ {s} : message'[t] = message[t]
           /\ s \in Clear => message'[s] = Append(message[s], l)
  <1>1. message \in [Sockets -> Seq(Line)]
    BY DEF TypeOK
  <1>2. Append(message[s], l) \in Seq(Line)
    BY <1>1, LongerMessage
  <1>3. QED
    BY <1>1, <1>2 DEF Sent, Clear

\* ... or is not followed any more ...
LEMMA LostTypes ==
    ASSUME TypeOK, NEW S, Lost(S)
    PROVE  /\ message' \in [Sockets -> Seq(Line)] /\ page' \in [Sockets -> Stores]
           /\ \A s \in Sockets \ S : message'[s] = message[s] /\ page'[s] = page[s]
  <1>1. message \in [Sockets -> Seq(Line)] /\ page \in [Sockets -> Stores]
    BY DEF TypeOK, Stores
  <1>2. <<>> \in Seq(Line) /\ [i \in Ids |-> Absent] \in Stores
    BY EmptySeq, ContentTypes DEF NoRows
  <1>3. QED
    BY <1>1, <1>2 DEF Lost

\* ... or ends, and the page reads it.
LEMMA FinishedTypes ==
    ASSUME TypeOK, NEW s \in Sockets, Finished(s)
    PROVE  /\ counted' \in [Sockets -> BOOLEAN]
           /\ message' \in [Sockets -> Seq(Line)] /\ page' \in [Sockets -> Stores]
           /\ unclear' = unclear
           /\ message'[s] = <<>> /\ page'[s] = Reading(message[s], page[s])
           /\ \A t \in Sockets \ {s} :
                 message'[t] = message[t] /\ page'[t] = page[t] /\ counted'[t] = counted[t]
  <1>1. /\ message \in [Sockets -> Seq(Line)] /\ page \in [Sockets -> Stores]
        /\ counted \in [Sockets -> BOOLEAN]
    BY DEF TypeOK, Stores
  <1>2. Reading(message[s], page[s]) \in Stores /\ <<>> \in Seq(Line)
    BY <1>1, ReadingType, EmptySeq
  <1>3. QED
    BY <1>1, <1>2 DEF Finished

LEMMA PassedOnTypes ==
    ASSUME NEW kind \in {"start", "row", "finish"}, NEW l \in Line, NEW S,
           kind = "row" => l # Header, PassedOn(kind, l, S)
    PROVE  /\ call' \in {"none", "start", "row", "finish"} /\ line' \in Line
           /\ untold' = S /\ (call' = "none" <=> S = {})
           /\ call' \in {"none", kind}
           /\ S # {} => line' = l
           /\ call' = "row" => line' # Header
  BY ContentTypes DEF PassedOn

\* The parts of the type invariant that the components of the state have.
StreamTypes ==
    /\ served \in [Keys -> Content] /\ next \in [Keys -> Content]
    /\ open \in Entities \union {NoEntity} /\ bulk \in BOOLEAN
    /\ blocks \in 0..MaxBlocks /\ rows \in 0..MaxRows

CallTypes ==
    /\ call \in {"none", "start", "row", "finish"} /\ line \in Line
    /\ untold \subseteq subscribed /\ subscribed \subseteq Sockets
    /\ call = "none" => untold = {}
    /\ call = "row" => line # Header

ThreadTypes ==
    /\ entity \in [Sockets -> Entities \union {NoEntity}]
    /\ \A s \in subscribed : entity[s] # NoEntity
    /\ \A s \in Sockets : at[s] \in {"started", "rows", "open"} => entity[s] # NoEntity
    /\ at \in [Sockets -> {"new", "started", "rows", "open", "failed"}]
    /\ todo \in [Sockets -> [Ids -> Content]]

PageTypes ==
    /\ leaked \in BOOLEAN /\ silent \in BOOLEAN
    /\ counted \in [Sockets -> BOOLEAN]
    /\ closing \subseteq closed /\ closed \subseteq gone /\ gone \subseteq Sockets
    /\ message \in [Sockets -> Seq(Line)]
    /\ page \in [Sockets -> Stores]
    /\ unclear \subseteq Sockets
    /\ dropped \subseteq Sockets \X Ids

LEMMA TypesSplit == SocketTypes <=> StreamTypes /\ CallTypes /\ ThreadTypes /\ PageTypes
  BY DEF SocketTypes, TypeOK, StreamTypes, CallTypes, ThreadTypes, PageTypes, Stores

LEMMA InitTypes == Init => SocketTypes
  <1> SUFFICES ASSUME Init PROVE SocketTypes
    OBVIOUS
  <1> USE ContentTypes
  <1>1. StreamTypes
    <2>1. {Absent, 0} \subseteq Content /\ 0 \in 0..MaxBlocks /\ 0 \in 0..MaxRows
      BY BoundsAssumption
    <2>2. served \in [Keys -> Content] /\ next \in [Keys -> Content]
      BY <2>1 DEF Init
    <2>3. QED
      BY <2>1, <2>2 DEF Init, StreamTypes
  <1>2. CallTypes
    BY DEF Init, CallTypes
  <1>3. ThreadTypes
    BY RequestsAssumption DEF Init, ThreadTypes
  <1>4. PageTypes
    BY EmptySeq DEF Init, PageTypes, NoRows
  <1>5. QED
    BY <1>1, <1>2, <1>3, <1>4, TypesSplit

LEMMA StepTypes == SocketTypes /\ [Next]_vars => SocketTypes'
  <1> SUFFICES ASSUME SocketTypes, [Next]_vars PROVE SocketTypes'
    OBVIOUS
  <1>0. TypeOK /\ StreamTypes /\ CallTypes /\ ThreadTypes /\ PageTypes
    BY TypesSplit DEF SocketTypes
  <1>split. StreamTypes' /\ CallTypes' /\ ThreadTypes' /\ PageTypes' => SocketTypes'
    BY TypesSplit, PTL
  <1>stream. UNCHANGED <<streamVars, blocks, rows>> => StreamTypes'
    BY <1>0 DEF StreamTypes
  <1>call. UNCHANGED <<call, line, untold, subscribed>> => CallTypes'
    BY <1>0 DEF CallTypes
  <1>thread. UNCHANGED <<entity, threadVars>> => ThreadTypes'
    BY <1>0 DEF ThreadTypes
  <1>page. UNCHANGED <<leaked, sessionVars, pageVars, historyVars>> => PageTypes'
    BY <1>0 DEF PageTypes
  <1>1. ASSUME NEW s \in Sockets, Lose(s) PROVE SocketTypes'
    <2>1. Lost({s})
      BY <1>1 DEF Lose
    <2>2. PageTypes'
      BY <1>0, <1>1, <2>1, LostTypes, BoundsAssumption DEF Lose, PageTypes
    <2>3. QED
      BY <1>split, <1>stream, <1>call, <1>thread, <1>1, <2>2 DEF Lose
  <1>2. ASSUME NEW s \in Sockets, Close(s) PROVE SocketTypes'
    <2>1. PageTypes'
      BY <1>0, <1>2 DEF Close, PageTypes
    <2>2. QED
      BY <1>split, <1>stream, <1>call, <1>thread, <1>2, <2>1 DEF Close
  <1>3. ASSUME NEW s \in Sockets, Unsubscribe(s) PROVE SocketTypes'
    <2>1. PageTypes' /\ ThreadTypes'
      BY <1>0, <1>3 DEF Unsubscribe, PageTypes, ThreadTypes
    <2>2. CallTypes'
      BY <1>0, <1>3 DEF Unsubscribe, LockFree, CallTypes
    <2>3. QED
      BY <1>split, <1>stream, <1>3, <2>1, <2>2 DEF Unsubscribe
  <1>4. ASSUME NEW s \in Sockets, Start(s) PROVE SocketTypes'
    <2>1. message' \in [Sockets -> Seq(Line)]
      BY <1>0, <1>4, SentTypes, ContentTypes DEF Start
    <2>2. PageTypes'
      BY <1>0, <1>4, <2>1 DEF Start, PageTypes
    <2>3. ThreadTypes'
      BY <1>0, <1>4 DEF Start, ThreadTypes
    <2>4. QED
      BY <1>split, <1>stream, <1>call, <1>4, <2>2, <2>3 DEF Start
  <1>5. ASSUME NEW s \in Sockets, StartFails(s) PROVE SocketTypes'
    <2>1. ThreadTypes'
      BY <1>0, <1>5 DEF StartFails, ThreadTypes
    <2>2. QED
      BY <1>split, <1>stream, <1>call, <1>page, <1>5, <2>1 DEF StartFails
  <1>6. ASSUME NEW s \in Sockets, AddCallback(s) PROVE SocketTypes'
    <2>1. entity[s] \in Entities
      BY <1>0, <1>6 DEF AddCallback, ThreadTypes
    <2>2. [i \in Ids |-> served[<<entity[s], i>>]] \in [Ids -> Content]
      BY <1>0, <2>1 DEF StreamTypes, Keys
    <2>3. ThreadTypes'
      BY <1>0, <1>6, <2>1, <2>2, ContentTypes DEF AddCallback, ThreadTypes
    <2>4. CallTypes'
      BY <1>0, <1>6 DEF AddCallback, CallTypes
    <2>5. QED
      BY <1>split, <1>stream, <1>page, <1>6, <2>3, <2>4 DEF AddCallback
  <1>7. ASSUME NEW s \in Sockets, NEW i \in Ids, SendRow(s, i) PROVE SocketTypes'
    <2>1. todo[s][i] \in Content
      BY <1>0 DEF ThreadTypes
    <2>2. message' \in [Sockets -> Seq(Line)]
      BY <1>0, <1>7, <2>1, SentTypes, ContentTypes DEF SendRow
    <2>3. PageTypes'
      BY <1>0, <1>7, <2>2 DEF SendRow, PageTypes
    <2>4. ThreadTypes'
      BY <1>0, <1>7, ContentTypes DEF SendRow, ThreadTypes
    <2>5. QED
      BY <1>split, <1>stream, <1>call, <1>7, <2>3, <2>4 DEF SendRow
  <1>8. ASSUME NEW s \in Sockets, FinishLoad(s) PROVE SocketTypes'
    <2>1. PageTypes'
      BY <1>0, <1>8, FinishedTypes DEF FinishLoad, PageTypes
    <2>2. ThreadTypes'
      BY <1>0, <1>8 DEF FinishLoad, ThreadTypes
    <2>3. QED
      BY <1>split, <1>stream, <1>call, <1>8, <2>1, <2>2 DEF FinishLoad
  <1>9. ASSUME NEW s \in Sockets, ConnectFails(s) PROVE SocketTypes'
    <2>1. PageTypes'
      BY <1>0, <1>9 DEF ConnectFails, PageTypes
    <2>2. ThreadTypes'
      BY <1>0, <1>9 DEF ConnectFails, ThreadTypes
    <2>3. QED
      BY <1>split, <1>stream, <1>call, <1>9, <2>1, <2>2 DEF ConnectFails
  <1>10. ASSUME NEW s \in Sockets, TellStart(s) PROVE SocketTypes'
    <2>1. message' \in [Sockets -> Seq(Line)]
      BY <1>0, <1>10, SentTypes, ContentTypes DEF TellStart
    <2>2. PageTypes'
      BY <1>0, <1>10, <2>1 DEF TellStart, PageTypes
    <2>3. CallTypes'
      BY <1>0, <1>10, ContentTypes DEF TellStart, CallTypes, PassedOn
    <2>4. QED
      BY <1>split, <1>stream, <1>thread, <1>10, <2>2, <2>3 DEF TellStart
  <1>11. ASSUME NEW s \in Sockets, TellRow(s) PROVE SocketTypes'
    <2>1. message' \in [Sockets -> Seq(Line)]
      BY <1>0, <1>11, SentTypes DEF TellRow, CallTypes
    <2>2. PageTypes'
      BY <1>0, <1>11, <2>1 DEF TellRow, PageTypes
    <2>3. CallTypes'
      BY <1>0, <1>11, ContentTypes DEF TellRow, CallTypes, PassedOn
    <2>4. QED
      BY <1>split, <1>stream, <1>thread, <1>11, <2>2, <2>3 DEF TellRow
  <1>12. ASSUME NEW s \in Sockets, TellFinish(s) PROVE SocketTypes'
    <2>1. PageTypes'
      BY <1>0, <1>12, FinishedTypes DEF TellFinish, PageTypes, PassedOn
    <2>2. CallTypes'
      BY <1>0, <1>12, ContentTypes DEF TellFinish, CallTypes, PassedOn
    <2>3. QED
      BY <1>split, <1>stream, <1>thread, <1>12, <2>1, <2>2 DEF TellFinish
  <1>13. ASSUME NEW s \in Sockets, GiveUp(s) PROVE SocketTypes'
    <2>1. s \in Sockets /\ counted' \in [Sockets -> BOOLEAN]
      BY <1>0, <1>13 DEF GiveUp, PageTypes
    <2>2. PageTypes'
      BY <1>0, <1>13, <2>1 DEF GiveUp, PageTypes
    <2>3. CallTypes'
      BY <1>0, <1>13, ContentTypes DEF GiveUp, CallTypes
    <2>4. StreamTypes'
      BY <1>0, <1>13 DEF GiveUp, StreamTypes
    <2>5. QED
      BY <1>split, <1>thread, <1>13, <2>2, <2>3, <2>4 DEF GiveUp
  <1>14. ASSUME NEW s \in Sockets, Refuse(s) PROVE SocketTypes'
    <2>1. StreamTypes'
      BY <1>0, <1>14 DEF Refuse, StreamTypes, Server!Close
    <2>2. CallTypes'
      BY <1>0, <1>14, ContentTypes DEF Refuse, CallTypes, PassedOn
    <2>3. PageTypes'
      BY <1>0, <1>14, LostTypes DEF Refuse, PageTypes, CallTypes
    <2>4. QED
      BY <1>split, <1>thread, <1>14, <2>1, <2>2, <2>3 DEF Refuse
  <1>15. ASSUME NEW e \in Entities, OpenBlock(e) PROVE SocketTypes'
    <2>1. StreamTypes'
      BY <1>0, <1>15, BoundsAssumption DEF OpenBlock, StreamTypes, Server!Open
    <2>2. CallTypes'
      BY <1>0, <1>15, ContentTypes DEF OpenBlock, CallTypes, PassedOn
    <2>3. PageTypes'
      BY <1>0, <1>15, LostTypes DEF OpenBlock, PageTypes
    <2>4. QED
      BY <1>split, <1>thread, <1>15, <2>1, <2>2, <2>3 DEF OpenBlock
  <1>16. CASE StartBulkUpdate
    <2>1. StreamTypes'
      BY <1>0, <1>16, ContentTypes DEF StartBulkUpdate, StreamTypes, Server!StartBulkUpdate,
                                       Server!EmptyOf, Server!Keys, Keys
    <2>2. QED
      BY <1>split, <1>call, <1>thread, <1>page, <1>16, <2>1 DEF StartBulkUpdate
  <1>17. ASSUME NEW i \in Ids, NEW row \in Content, Process(i, row) PROVE SocketTypes'
    <2>1. /\ open \in Entities /\ rows' \in 0..MaxRows /\ blocks' = blocks
          /\ next' = [next EXCEPT ![<<open, i>>] = row]
          /\ served' = (IF bulk THEN served ELSE next')
          /\ UNCHANGED <<open, bulk>>
      BY <1>0, <1>17, BoundsAssumption DEF Process, StreamTypes, Server!Process
    <2>2. next' \in [Keys -> Content]
      BY <1>0, <2>1 DEF StreamTypes
    <2>3. StreamTypes'
      BY <1>0, <2>1, <2>2 DEF StreamTypes
    <2>4. [id |-> i, row |-> row] \in Line \ {Header}
      BY ContentTypes
    <2>5. PassedOn("row", [id |-> i, row |-> row], Interested(open)) /\ subscribed' = subscribed
      BY <1>17 DEF Process
    <2>6. CallTypes'
      BY <1>0, <2>4, <2>5, PassedOnTypes DEF CallTypes, Interested
    <2>7. QED
      BY <1>split, <1>thread, <1>page, <1>17, <2>3, <2>6 DEF Process
  <1>18. CASE CloseBlock
    <2>1. StreamTypes'
      BY <1>0, <1>18 DEF CloseBlock, StreamTypes, Server!Close
    <2>2. CallTypes'
      BY <1>0, <1>18, ContentTypes DEF CloseBlock, CallTypes, PassedOn
    <2>3. PageTypes'
      BY <1>0, <1>18 DEF CloseBlock, PageTypes, CallTypes, Interested
    <2>4. QED
      BY <1>split, <1>thread, <1>18, <2>1, <2>2, <2>3 DEF CloseBlock
  <1>19. CASE UNCHANGED vars
    BY <1>split, <1>stream, <1>call, <1>thread, <1>page, <1>19 DEF vars
  <1>20. QED
    BY <1>1, <1>2, <1>3, <1>4, <1>5, <1>6, <1>7, <1>8, <1>9, <1>10, <1>11, <1>12, <1>13, <1>14,
       <1>15, <1>16, <1>17, <1>18, <1>19 DEF Next, Tell, Load
-----------------------------------------------------------------------------
(***************************************************************************)
(* The open block, and the line that is passed on.                         *)
(***************************************************************************)

LEMMA StepBlock ==
    ASSUME SocketTypes, PagesFollow, [Next]_vars, ~leaked'
    PROVE  ~leaked /\ BlockInOrder' /\ LineInOrder'
  <1>0. ~leaked
    BY DEF Next, Tell, Load, vars, Lose, Close, Unsubscribe, Start, StartFails, AddCallback,
           SendRow, FinishLoad, ConnectFails, TellStart, TellRow, TellFinish, GiveUp, Refuse,
           OpenBlock, StartBulkUpdate, Process, CloseBlock
  <1>1. BlockInOrder /\ LineInOrder /\ StreamTypes
    BY <1>0, TypesSplit DEF PagesFollow
  <1>same. UNCHANGED <<streamVars, call, line, untold, entity>> => BlockInOrder' /\ LineInOrder'
    BY <1>1 DEF BlockInOrder, LineInOrder
  <1>told. ASSUME UNCHANGED <<streamVars, entity>>, NEW S \in SUBSET untold,
                  PassedOn(call, line, S)
           PROVE  BlockInOrder' /\ LineInOrder'
    <2>1. call' \in {"none", call} /\ untold' = S /\ (call' # "none" => line' = line)
      BY <1>told DEF PassedOn
    <2>2. BlockInOrder'
      BY <1>1, <1>told, <2>1 DEF BlockInOrder
    <2>3. LineInOrder'
      BY <1>1, <1>told, <2>1 DEF LineInOrder
    <2>4. QED
      BY <2>2, <2>3
  <1>2. ASSUME NEW s \in Sockets, TellStart(s) \/ TellRow(s) \/ TellFinish(s)
        PROVE  BlockInOrder' /\ LineInOrder'
    <2>1. PassedOn(call, line, untold \ {s}) /\ UNCHANGED <<streamVars, entity>>
      BY <1>2 DEF TellStart, TellRow, TellFinish
    <2>2. QED
      BY <1>told, <2>1
  <1>3. ASSUME NEW s \in Sockets, Refuse(s) PROVE BlockInOrder' /\ LineInOrder'
    <2>1. /\ next' = next /\ served' = next /\ open' = NoEntity /\ ~bulk'
          /\ call' # "start" /\ call' # "row"
      BY <1>3 DEF Refuse, Server!Close, PassedOn
    <2>2. QED
      BY <2>1 DEF BlockInOrder, LineInOrder
  <1>4. CASE CloseBlock
    <2>1. /\ next' = next /\ served' = next /\ open' = NoEntity /\ ~bulk'
          /\ call' # "start" /\ call' # "row"
      BY <1>4 DEF CloseBlock, Server!Close, PassedOn
    <2>2. QED
      BY <1>0, <2>1 DEF BlockInOrder, LineInOrder
  <1>5. ASSUME NEW e \in Entities, OpenBlock(e) PROVE BlockInOrder' /\ LineInOrder'
    <2>1. /\ UNCHANGED <<next, served, bulk>> /\ ~bulk /\ open' = e /\ e # NoEntity
          /\ call' \in {"none", "start"}
      BY <1>5, NamesAssumption DEF OpenBlock, Server!Open, PassedOn
    <2>2. QED
      BY <1>1, <2>1 DEF BlockInOrder, LineInOrder
  <1>6. CASE StartBulkUpdate
    <2>1. /\ UNCHANGED <<served, open, call>> /\ open # NoEntity /\ bulk' = TRUE /\ call = "none"
          /\ next = served /\ next' = [k \in Keys |-> IF k[1] = open THEN Absent ELSE next[k]]
      BY <1>1, <1>6 DEF StartBulkUpdate, Server!StartBulkUpdate, Server!EmptyOf, Server!Keys,
                        Keys, BlockInOrder
    <2>2. QED
      BY <1>0, <2>1 DEF BlockInOrder, LineInOrder
  <1>7. ASSUME NEW i \in Ids, NEW row \in Content, Process(i, row)
        PROVE  BlockInOrder' /\ LineInOrder'
    <2>1. /\ UNCHANGED <<open, bulk, entity>> /\ open # NoEntity /\ open \in Entities
          /\ next' = [next EXCEPT ![<<open, i>>] = row]
          /\ served' = (IF bulk THEN served ELSE next')
          /\ bulk => row # Absent
          /\ PassedOn("row", [id |-> i, row |-> row], Interested(open))
      BY <1>1, <1>7 DEF Process, Server!Process, StreamTypes
    <2>2. [id |-> i, row |-> row] \in Line \ {Header}
      BY ContentTypes
    <2>3. /\ call' \in {"none", "row"} /\ untold' = Interested(open)
          /\ call' = "row" => line' = [id |-> i, row |-> row]
      BY <2>1 DEF PassedOn
    <2>4. <<open, i>> \in Keys /\ next \in [Keys -> Content]
      BY <1>1, <2>1 DEF StreamTypes, Keys
    <2>5. /\ next'[<<open, i>>] = row
          /\ \A k \in Keys : k[1] # open => next'[k] = next[k]
      BY <2>1, <2>4
    <2>6. BlockInOrder'
      BY <1>1, <2>1, <2>3, <2>5 DEF BlockInOrder
    <2>7. LineInOrder'
      BY <2>1, <2>2, <2>3, <2>5 DEF LineInOrder, Interested
    <2>8. QED
      BY <2>6, <2>7
  <1>8. ASSUME NEW s \in Sockets,
               \/ Lose(s) \/ Close(s) \/ Unsubscribe(s) \/ Start(s) \/ StartFails(s)
               \/ AddCallback(s) \/ (\E i \in Ids : SendRow(s, i)) \/ FinishLoad(s)
               \/ ConnectFails(s)
        PROVE  BlockInOrder' /\ LineInOrder'
    BY <1>same, <1>8 DEF Lose, Close, Unsubscribe, Start, StartFails, AddCallback, SendRow,
                         FinishLoad, ConnectFails
  <1>9. ASSUME NEW s \in Sockets PROVE ~GiveUp(s)
    BY DEF GiveUp
  <1>10. CASE UNCHANGED vars
    BY <1>same, <1>10 DEF vars
  <1>11. QED
    BY <1>0, <1>2, <1>3, <1>4, <1>5, <1>6, <1>7, <1>8, <1>9, <1>10 DEF Next, Tell, Load
-----------------------------------------------------------------------------
(***************************************************************************)
(* The pages: what a step does to a page that is followed.                 *)
(***************************************************************************)

LEMMA ShowingStep ==
    ASSUME NEW t PROVE Showing(t)' = Reading(message'[t], page'[t])
  BY DEF Showing, Reading, Cell

LEMMA ShowingTypes ==
    ASSUME TypeOK, NEW t \in Sockets
    PROVE  message[t] \in Seq(Line) /\ page[t] \in Stores /\ Showing(t) \in Stores
  <1>1. message[t] \in Seq(Line) /\ page[t] \in Stores
    BY DEF TypeOK, Stores
  <1>2. QED
    BY <1>1, ReadingType DEF Showing

\* Pages are lost, not found.
LEMMA ClearStep ==
    ASSUME SocketTypes, [Next]_vars
    PROVE  Clear' \subseteq Clear /\ entity' = entity
  BY DEF Clear, Next, Tell, Load, vars, Lose, Close, Unsubscribe, Start, StartFails, AddCallback,
         SendRow, FinishLoad, Finished, ConnectFails, TellStart, TellRow, TellFinish, GiveUp,
         Refuse, OpenBlock, StartBulkUpdate, Process, CloseBlock

\* A step that is not about the page.
LEMMA FollowsStill ==
    ASSUME NEW t, Follows(t),
           message'[t] = message[t], page'[t] = page[t], at'[t] = at[t], todo'[t] = todo[t],
           t \in subscribed' <=> t \in subscribed,
           UNCHANGED <<streamVars, call, line, untold, entity, dropped>>
    PROVE  Follows(t)'
  <1>1. Showing(t)' = Showing(t)
    BY ShowingStep DEF Showing
  <1>2. Connecting(t)'
    BY <1>1 DEF Follows, Connecting
  <1>3. ASSUME at'[t] = "open" PROVE Following(t)'
    <2>1. Following(t)
      BY <1>3 DEF Follows
    <2>2. InMessage(t)' <=> InMessage(t)
      BY DEF InMessage
    <2>3. \A i \in Ids : /\ Awaits(t, i)' <=> Awaits(t, i)
                         /\ StandsFor(Showing(t)[i], t, i) => StandsFor(Showing(t)[i], t, i)'
      BY <1>1 DEF Awaits, StandsFor
    <2>4. QED
      BY <1>1, <2>1, <2>2, <2>3 DEF Following
  <1>4. QED
    BY <1>2, <1>3 DEF Follows

\* The sessions, and the threads in onWebSocketConnect.
LEMMA StepSessions ==
    ASSUME SocketTypes, PagesFollow, ~leaked, NEW t \in Clear', t \in Clear,
           NEW s \in Sockets,
           Lose(s) \/ Close(s) \/ Unsubscribe(s) \/ StartFails(s) \/ ConnectFails(s)
    PROVE  Follows(t)'
  <1>0. /\ t \in Sockets /\ t \notin gone /\ Follows(t)
        /\ TypeOK /\ closing \subseteq gone /\ closed \subseteq gone
        /\ at \in [Sockets -> {"new", "started", "rows", "open", "failed"}]
    BY DEF PagesFollow, Clear, SocketTypes, TypeOK
  <1>1. CASE Lose(s)
    <2>1. Lost({s}) /\ t # s
      BY <1>0, <1>1 DEF Lose, Clear
    <2>2. message'[t] = message[t] /\ page'[t] = page[t]
      BY <1>0, <2>1, LostTypes
    <2>3. QED
      BY <1>0, <1>1, <2>2, FollowsStill DEF Lose
  <1>2. CASE Close(s)
    BY <1>0, <1>2, FollowsStill DEF Close
  <1>3. CASE Unsubscribe(s)
    <2>1. t # s /\ subscribed' = subscribed \ {s}
      BY <1>0, <1>3 DEF Unsubscribe
    <2>2. QED
      BY <1>0, <1>3, <2>1, FollowsStill DEF Unsubscribe
  <1>4. CASE StartFails(s)
    <2>1. CASE t # s
      <3>1. at'[t] = at[t]
        BY <1>0, <1>4, <2>1 DEF StartFails
      <3>2. QED
        BY <1>0, <1>4, <3>1, FollowsStill DEF StartFails
    <2>2. CASE t = s
      <3>1. at[t] = "new" /\ at'[t] = "failed" /\ UNCHANGED <<page, subscribed>>
        BY <1>0, <1>4, <2>2 DEF StartFails
      <3>2. t \notin subscribed' /\ page'[t] = NoRows
        BY <1>0, <3>1 DEF Follows, Connecting
      <3>3. QED
        BY <3>1, <3>2 DEF Follows, Connecting
    <2>3. QED
      BY <2>1, <2>2
  <1>5. CASE ConnectFails(s)
    <2>1. t # s
      BY <1>5 DEF ConnectFails, Clear
    <2>2. at'[t] = at[t]
      BY <1>0, <1>5, <2>1 DEF ConnectFails
    <2>3. QED
      BY <1>0, <1>5, <2>2, FollowsStill DEF ConnectFails
  <1>6. QED
    BY <1>1, <1>2, <1>3, <1>4, <1>5

LEMMA StepConnect ==
    ASSUME SocketTypes, PagesFollow, ~leaked, NEW t \in Clear', t \in Clear,
           NEW s \in Sockets,
           Start(s) \/ AddCallback(s) \/ (\E i \in Ids : SendRow(s, i)) \/ FinishLoad(s)
    PROVE  Follows(t)'
  <1>0. /\ t \in Sockets /\ t \notin gone \union unclear
        /\ Follows(t) /\ Connecting(t) /\ BlockInOrder /\ TypeOK
    BY DEF PagesFollow, Clear, SocketTypes, Follows
  <1>types. /\ at \in [Sockets -> {"new", "started", "rows", "open", "failed"}]
            /\ todo \in [Sockets -> [Ids -> Content]]
            /\ message[t] \in Seq(Line) /\ page[t] \in Stores /\ Showing(t) \in Stores
    BY <1>0, ShowingTypes DEF TypeOK
  <1>1. CASE Start(s)
    <2>1. Sent(s, Header) /\ Header \in Line
      BY <1>1, ContentTypes DEF Start
    <2>2. CASE t # s
      <3>1. at'[t] = at[t] /\ message'[t] = message[t]
        BY <1>0, <1>types, <1>1, <2>1, <2>2, SentTypes DEF Start
      <3>2. QED
        BY <1>0, <1>1, <3>1, FollowsStill DEF Start
    <2>3. CASE t = s
      <3>1. /\ at[t] = "new" /\ at'[t] = "started" /\ UNCHANGED <<page, subscribed>>
            /\ message[t] = <<>> /\ page[t] = NoRows /\ t \notin subscribed
        BY <1>0, <1>types, <1>1, <2>3 DEF Start, Connecting
      <3>2. message'[t] = Append(<<>>, Header)
        BY <1>0, <2>1, <2>3, <3>1, SentTypes DEF Clear
      <3>3. message'[t] = <<Header>>
        BY <3>2
      <3>4. QED
        BY <3>1, <3>3 DEF Follows, Connecting
    <2>4. QED
      BY <2>2, <2>3
  <1>2. CASE AddCallback(s)
    <2>1. CASE t # s
      <3>1. /\ at'[t] = at[t] /\ todo'[t] = todo[t]
            /\ t \in subscribed' <=> t \in subscribed
        BY <1>0, <1>types, <1>2, <2>1 DEF AddCallback
      <3>2. QED
        BY <1>0, <1>2, <3>1, FollowsStill DEF AddCallback
    <2>2. CASE t = s
      <3>1. /\ at[t] = "started" /\ at'[t] = "rows" /\ t \in subscribed'
            /\ UNCHANGED <<message, page, served, entity, open, call>>
            /\ open = NoEntity /\ call = "none"
            /\ message[t] = <<Header>> /\ page[t] = NoRows
        BY <1>0, <1>types, <1>2, <2>2 DEF AddCallback, LockFree, Connecting
      <3>2. todo'[t] = [i \in Ids |-> served[<<entity[t], i>>]]
        BY <1>types, <1>2, <2>2 DEF AddCallback
      <3>3. <<Header>> = Append(<<>>, Header) /\ <<Header>> # <<>> /\ <<>> \in Seq(Line)
        BY EmptySeq
      <3>4. Reading(<<Header>>, NoRows) = NoRows
        BY <3>3, ReadingHeader, ReadingEmpty, ContentTypes
      <3>5. Showing(t)' = NoRows
        BY <3>1, <3>4, ShowingStep
      <3>6. \A i \in Ids : Showing(t)'[i] = Absent
        BY <3>5 DEF NoRows
      <3>7. QED
        BY <3>1, <3>2, <3>3, <3>6 DEF Follows, Connecting
    <2>3. QED
      BY <2>1, <2>2
  <1>3. ASSUME NEW i \in Ids, SendRow(s, i) PROVE Follows(t)'
    <2> DEFINE l == [id |-> i, row |-> todo[s][i]]
    <2>1. /\ Sent(s, l) /\ l \in Line /\ l # Header /\ l.id = i /\ l.row = todo[s][i]
          /\ todo[s][i] # Absent
      BY <1>types, <1>3, ContentTypes DEF SendRow
    <2> HIDE DEF l
    <2>2. CASE t # s
      <3>1. todo'[t] = todo[t] /\ message'[t] = message[t]
        BY <1>0, <1>types, <1>3, <2>1, <2>2, SentTypes DEF SendRow
      <3>2. QED
        BY <1>0, <1>3, <3>1, FollowsStill DEF SendRow
    <2>3. CASE t = s
      <3>1. /\ at[t] = "rows" /\ UNCHANGED <<at, page, served, entity, open, call, subscribed>>
            /\ t \in subscribed /\ open = NoEntity /\ call = "none" /\ message[t] # <<>>
            /\ page[t] = NoRows
        BY <1>0, <1>3, <2>3 DEF SendRow, Connecting
      <3>2. message'[t] = Append(message[t], l) /\ message'[t] # <<>>
        BY <1>0, <1>types, <2>1, <2>3, SentTypes, LongerMessage DEF Clear
      <3>3. /\ Showing(t)'[i] = Cell(l.row)
            /\ \A j \in Ids \ {i} : Showing(t)'[j] = Showing(t)[j]
        BY <1>types, <2>1, <3>1, <3>2, ShowingStep, ReadingRow DEF Showing
      <3>4. todo'[t] = [todo[t] EXCEPT ![i] = Absent]
        BY <1>types, <1>3, <2>3 DEF SendRow
      <3>5. todo[t][i] = served[<<entity[t], i>>] /\ Cell(l.row) = todo[t][i]
        BY <1>0, <2>1, <2>3, <3>1 DEF Connecting, Cell
      <3>6. ASSUME NEW j \in Ids
            PROVE  IF todo'[t][j] = Absent THEN Showing(t)'[j] = served[<<entity[t], j>>]
                   ELSE todo'[t][j] = served[<<entity[t], j>>]
        <4>1. CASE j = i
          BY <1>types, <3>3, <3>4, <3>5, <4>1
        <4>2. CASE j # i
          BY <1>0, <1>types, <3>1, <3>3, <3>4, <4>2 DEF Connecting
        <4>3. QED
          BY <4>1, <4>2
      <3>7. QED
        BY <3>1, <3>2, <3>6 DEF Follows, Connecting
    <2>4. QED
      BY <2>2, <2>3
  <1>4. CASE FinishLoad(s)
    <2>1. Finished(s)
      BY <1>4 DEF FinishLoad
    <2>2. CASE t # s
      <3>1. at'[t] = at[t] /\ message'[t] = message[t] /\ page'[t] = page[t]
        BY <1>0, <1>types, <1>4, <2>1, <2>2, FinishedTypes DEF FinishLoad
      <3>2. QED
        BY <1>0, <1>4, <3>1, FollowsStill DEF FinishLoad
    <2>3. CASE t = s
      <3>1. /\ at[t] = "rows" /\ at'[t] = "open" /\ AllSent(t)
            /\ UNCHANGED <<served, next, entity, open, bulk, call, subscribed, dropped>>
            /\ t \in subscribed /\ open = NoEntity /\ call = "none" /\ ~bulk
        BY <1>0, <1>types, <1>4, <2>3 DEF FinishLoad, Connecting, BlockInOrder
      <3>2. message'[t] = <<>> /\ page'[t] = Showing(t)
        BY <1>0, <2>1, <2>3, FinishedTypes DEF Showing
      <3>3. Showing(t)' = Showing(t)
        BY <1>types, <3>2, ShowingStep, ReadingEmpty
      <3>4. ~InMessage(t)'
        BY <3>1 DEF InMessage
      <3>5. \A i \in Ids : Showing(t)[i] = served[<<entity[t], i>>]
        BY <1>0, <3>1 DEF AllSent, Connecting
      <3>6. Following(t)'
        BY <3>1, <3>2, <3>3, <3>4, <3>5 DEF Following, StandsFor
      <3>7. QED
        BY <3>1, <3>6 DEF Follows, Connecting
    <2>4. QED
      BY <2>2, <2>3
  <1>5. QED
    BY <1>1, <1>2, <1>3, <1>4

\* What a page of a subscriber that a call was passed on to knows of it.
LEMMA StepTells ==
    ASSUME SocketTypes, PagesFollow, ~leaked, NEW t \in Clear', t \in Clear,
           NEW s \in Sockets,
           TellStart(s) \/ TellRow(s) \/ TellFinish(s) \/ Refuse(s)
    PROVE  Follows(t)'
  <1>0. /\ t \in Sockets /\ t \notin gone \union unclear /\ TypeOK
        /\ Follows(t) /\ Connecting(t) /\ BlockInOrder /\ LineInOrder
        /\ untold \subseteq subscribed
    BY DEF PagesFollow, Clear, SocketTypes, TypeOK, Follows
  <1>types. message[t] \in Seq(Line) /\ page[t] \in Stores /\ Showing(t) \in Stores
    BY <1>0, ShowingTypes
  <1>1. at[t] # "rows" /\ (t \in untold => at[t] = "open")
    BY <1>0 DEF Connecting, TellStart, TellRow, TellFinish, Refuse
  <1>2. ASSUME page'[t] = page[t], at' = at, subscribed' = subscribed,
               at[t] # "open" => message'[t] = message[t]
        PROVE  Connecting(t)'
    BY <1>0, <1>1, <1>2 DEF Connecting
  <1>3. CASE TellStart(s)
    <2>1. /\ call = "start" /\ s \in untold /\ Sent(s, Header) /\ Header \in Line
          /\ UNCHANGED <<at, subscribed, page, entity, streamVars, dropped>>
          /\ open # NoEntity
      BY <1>0, <1>3, ContentTypes DEF TellStart, BlockInOrder
    <2>2. /\ untold' = untold \ {s}
          /\ call' = "start" \/ (call' = "none" /\ untold \ {s} = {})
      BY <1>3 DEF TellStart, PassedOn
    <2>3. /\ t # s => message'[t] = message[t]
          /\ t = s => message'[t] = Append(message[t], Header)
      BY <1>0, <2>1, SentTypes DEF Clear
    <2>4. Showing(t)' = Showing(t)
      <3>1. t = s => Reading(message'[t], page'[t]) = Reading(message[t], page[t])
        BY <1>types, <2>1, <2>3, ReadingHeader
      <3>2. QED
        BY <2>1, <2>3, <3>1, ShowingStep DEF Showing
    <2>5. Connecting(t)'
      BY <1>1, <1>2, <2>1, <2>3
    <2>6. ASSUME at[t] = "open" PROVE Following(t)'
      <3>1. Following(t)
        BY <1>0, <2>6 DEF Follows
      <3>2. message'[t] # <<>> <=> InMessage(t)'
        <4>1. CASE t = s
          <5>1. message'[t] # <<>>
            BY <1>types, <2>1, <2>3, <4>1, LongerMessage
          <5>2. InMessage(t)'
            BY <2>1, <2>2, <4>1 DEF InMessage
          <5>3. QED
            BY <5>1, <5>2
        <4>2. CASE t # s
          <5>1. InMessage(t)' <=> t \notin untold
            BY <2>1, <2>2, <4>2 DEF InMessage
          <5>2. InMessage(t) <=> t \notin untold
            BY <2>1 DEF InMessage
          <5>3. QED
            BY <2>3, <3>1, <4>2, <5>1, <5>2 DEF Following
        <4>3. QED
          BY <4>1, <4>2
      <3>3. \A i \in Ids : ~Awaits(t, i) /\ ~Awaits(t, i)'
        BY <2>1, <2>2 DEF Awaits
      <3>4. \A i \in Ids : StandsFor(Showing(t)[i], t, i) => StandsFor(Showing(t)[i], t, i)'
        BY <2>1, <2>4 DEF StandsFor
      <3>5. QED
        BY <2>1, <2>4, <3>1, <3>2, <3>3, <3>4 DEF Following
    <2>7. QED
      BY <2>1, <2>5, <2>6 DEF Follows
  <1>4. CASE TellRow(s)
    <2>1. /\ call = "row" /\ s \in untold /\ Sent(s, line) /\ line \in Line /\ line # Header
          /\ UNCHANGED <<at, subscribed, page, entity, streamVars>>
          /\ open # NoEntity
      BY <1>0, <1>4 DEF TellRow, BlockInOrder, LineInOrder, TypeOK
    <2>2. /\ untold' = untold \ {s}
          /\ (call' = "row" /\ line' = line) \/ (call' = "none" /\ untold \ {s} = {})
          /\ dropped' = dropped \ {<<s, line.id>>}
      BY <1>4 DEF TellRow, PassedOn
    <2>3. /\ t # s => message'[t] = message[t]
          /\ t = s => message'[t] = Append(message[t], line)
      BY <1>0, <2>1, SentTypes DEF Clear
    <2>4. Connecting(t)'
      BY <1>1, <1>2, <2>1, <2>3
    <2>5. ASSUME at[t] = "open" PROVE Following(t)'
      <3>1. Following(t) /\ message[t] # <<>>
        BY <1>0, <2>1, <2>5 DEF Follows, Following, InMessage
      <3>2. InMessage(t)'
        BY <2>1, <2>2 DEF InMessage
      <3>3. CASE t # s
        <4>1. Showing(t)' = Showing(t)
          BY <2>1, <2>3, <3>3, ShowingStep DEF Showing
        <4>2. \A i \in Ids : Awaits(t, i)' <=> Awaits(t, i)
          BY <2>1, <2>2, <3>3 DEF Awaits
        <4>3. \A i \in Ids : StandsFor(Showing(t)[i], t, i) => StandsFor(Showing(t)[i], t, i)'
          BY <2>1, <2>2, <3>3, <4>1 DEF StandsFor
        <4>4. QED
          BY <2>1, <2>3, <3>1, <3>2, <3>3, <4>1, <4>2, <4>3 DEF Following
      <3>4. CASE t = s
        <4>1. /\ message'[t] # <<>> /\ line.row \in Content
              /\ Showing(t)'[line.id] = Cell(line.row)
              /\ \A i \in Ids \ {line.id} : Showing(t)'[i] = Showing(t)[i]
          <5>1. message'[t] # <<>>
            BY <1>types, <2>1, <2>3, <3>4, LongerMessage
          <5>2. /\ line.row \in Content
                /\ Reading(Append(message[t], line), page[t])[line.id] = Cell(line.row)
                /\ \A i \in Ids \ {line.id} :
                      Reading(Append(message[t], line), page[t])[i] = Reading(message[t], page[t])[i]
            BY <1>types, <2>1, <3>1, ReadingRow
          <5>3. Showing(t)' = Reading(Append(message[t], line), page[t])
            BY <2>1, <2>3, <3>4, ShowingStep
          <5>4. QED
            BY <5>1, <5>2, <5>3 DEF Showing
        <4>2. /\ entity[t] = open /\ next[<<open, line.id>>] = line.row
              /\ bulk => line.row # Absent
              /\ ~bulk => next = served
          BY <1>0, <2>1, <3>4 DEF LineInOrder, BlockInOrder
        <4>3. ASSUME NEW i \in Ids
              PROVE  IF bulk' /\ open' = entity'[t] /\ next'[<<entity'[t], i>>] # Absent
                     THEN Showing(t)'[i] = next'[<<entity'[t], i>>]
                     ELSE StandsFor(Showing(t)[i], t, i)'
          <5>1. CASE i = line.id
            <6>1. line.row # Absent => Cell(line.row) = line.row
              BY DEF Cell
            <6>2. line.row = Absent => Cell(line.row) = Blank
              BY DEF Cell
            <6>3. QED
              BY <2>1, <4>1, <4>2, <5>1, <6>1, <6>2 DEF StandsFor
          <5>2. CASE i # line.id
            <6>1. ~Awaits(t, i) /\ Showing(t)'[i] = Showing(t)[i]
              BY <4>1, <5>2 DEF Awaits
            <6>2. StandsFor(Showing(t)[i], t, i) => StandsFor(Showing(t)[i], t, i)'
              BY <2>1, <2>2, <5>2, <6>1 DEF StandsFor
            <6>3. QED
              BY <2>1, <3>1, <6>1, <6>2 DEF Following
          <5>3. QED
            BY <5>1, <5>2
        <4>4. QED
          BY <3>2, <4>1, <4>3 DEF Following
      <3>5. QED
        BY <3>3, <3>4
    <2>6. QED
      BY <2>1, <2>4, <2>5 DEF Follows
  <1>5. CASE TellFinish(s)
    <2>1. /\ call = "finish" /\ s \in untold /\ Finished(s)
          /\ UNCHANGED <<at, subscribed, entity, streamVars, dropped>>
          /\ open = NoEntity /\ ~bulk
      BY <1>0, <1>5 DEF TellFinish, BlockInOrder
    <2>2. /\ untold' = untold \ {s}
          /\ call' = "finish" \/ (call' = "none" /\ untold \ {s} = {})
      BY <1>5 DEF TellFinish, PassedOn
    <2>3. /\ t # s => message'[t] = message[t] /\ page'[t] = page[t]
          /\ t = s => message'[t] = <<>> /\ page'[t] = Showing(t)
      BY <1>0, <2>1, FinishedTypes DEF Showing
    <2>4. Showing(t)' = Showing(t)
      <3>1. t = s => Reading(message'[t], page'[t]) = Showing(t)
        BY <1>types, <2>3, ReadingEmpty
      <3>2. QED
        BY <2>3, <3>1, ShowingStep DEF Showing
    <2>5. Connecting(t)'
      <3>1. t = s => at[t] = "open"
        BY <1>1, <2>1
      <3>2. QED
        BY <1>0, <1>1, <2>1, <2>3, <3>1 DEF Connecting
    <2>6. ASSUME at[t] = "open" PROVE Following(t)'
      <3>1. Following(t)
        BY <1>0, <2>6 DEF Follows
      <3>2. message'[t] # <<>> <=> InMessage(t)'
        <4>1. InMessage(t)' <=> t \in untold /\ t # s
          BY <2>1, <2>2 DEF InMessage
        <4>2. InMessage(t) <=> t \in untold
          BY <2>1 DEF InMessage
        <4>3. QED
          BY <2>3, <3>1, <4>1, <4>2 DEF Following
      <3>3. \A i \in Ids : ~Awaits(t, i)
        BY <2>1 DEF Awaits
      <3>4. \A i \in Ids : StandsFor(Showing(t)[i], t, i) => StandsFor(Showing(t)[i], t, i)'
        BY <2>1, <2>4 DEF StandsFor
      <3>5. QED
        BY <2>1, <2>4, <3>1, <3>2, <3>3, <3>4 DEF Following
    <2>7. QED
      BY <2>1, <2>5, <2>6 DEF Follows
  <1>6. CASE Refuse(s)
    <2>1. /\ call = "row" /\ ~bulk /\ ~bulk' /\ next' = next /\ served' = next
          /\ UNCHANGED <<at, subscribed, entity, dropped>>
          /\ Lost(untold) /\ unclear' = unclear \union untold
          /\ PassedOn("finish", Header, subscribed)
      BY <1>6 DEF Refuse, Server!Close
    <2>2. served' = served /\ t \notin untold
      BY <1>0, <2>1 DEF BlockInOrder, Clear
    <2>3. message'[t] = message[t] /\ page'[t] = page[t]
      BY <1>0, <2>1, <2>2, LostTypes
    <2>4. Showing(t)' = Showing(t)
      BY <2>3, ShowingStep DEF Showing
    <2>5. Connecting(t)'
      BY <1>1, <1>2, <2>1, <2>3
    <2>6. ASSUME at[t] = "open" PROVE Following(t)'
      <3>1. Following(t) /\ t \in subscribed
        BY <1>0, <2>6 DEF Follows, Connecting
      <3>2. call' = "finish" /\ untold' = subscribed
        BY <2>1, <3>1 DEF PassedOn
      <3>3. InMessage(t) /\ InMessage(t)'
        BY <2>1, <3>1, <3>2 DEF InMessage
      <3>4. \A i \in Ids : ~Awaits(t, i)
        BY <2>2 DEF Awaits
      <3>5. \A i \in Ids : StandsFor(Showing(t)[i], t, i) => StandsFor(Showing(t)[i], t, i)'
        BY <2>1, <2>2, <2>4 DEF StandsFor
      <3>6. QED
        BY <2>1, <2>3, <2>4, <3>1, <3>3, <3>4, <3>5 DEF Following
    <2>7. QED
      BY <2>1, <2>5, <2>6 DEF Follows
  <1>7. QED
    BY <1>3, <1>4, <1>5, <1>6

\* The blocks.
LEMMA StepBlocks ==
    ASSUME SocketTypes, PagesFollow, ~leaked, NEW t \in Clear', t \in Clear,
           \/ \E e \in Entities : OpenBlock(e)
           \/ StartBulkUpdate
           \/ \E i \in Ids, row \in Content : Process(i, row)
           \/ CloseBlock
    PROVE  Follows(t)'
  <1>0. /\ t \in Sockets /\ t \notin gone \union unclear /\ TypeOK
        /\ Follows(t) /\ Connecting(t) /\ BlockInOrder
        /\ StreamTypes /\ entity \in [Sockets -> Entities \union {NoEntity}]
        /\ entity[t] \in Entities \union {NoEntity}
    BY TypesSplit DEF PagesFollow, Clear, SocketTypes, TypeOK, Follows
  <1>1. ASSUME NEW e \in Entities, OpenBlock(e) PROVE Follows(t)'
    <2>1. /\ call = "none" /\ open = NoEntity /\ ~bulk
          /\ UNCHANGED <<served, next, bulk, at, subscribed, entity, dropped>>
          /\ Lost(unclear') /\ unclear' = unclear \union {s \in Sockets : at[s] = "rows"}
          /\ PassedOn("start", Header, subscribed)
      BY <1>1 DEF OpenBlock, Server!Open
    <2>2. at[t] # "rows" /\ t \notin unclear'
      BY <1>0, <2>1 DEF Clear
    <2>3. message'[t] = message[t] /\ page'[t] = page[t]
      BY <1>0, <2>1, <2>2, LostTypes
    <2>4. Showing(t)' = Showing(t)
      BY <2>3, ShowingStep DEF Showing
    <2>5. Connecting(t)'
      BY <1>0, <2>1, <2>2, <2>3 DEF Connecting
    <2>6. ASSUME at[t] = "open" PROVE Following(t)'
      <3>1. Following(t) /\ t \in subscribed
        BY <1>0, <2>6 DEF Follows, Connecting
      <3>2. call' = "start" /\ untold' = subscribed
        BY <2>1, <3>1 DEF PassedOn
      <3>3. ~InMessage(t) /\ ~InMessage(t)'
        BY <2>1, <3>1, <3>2 DEF InMessage
      <3>4. \A i \in Ids : ~Awaits(t, i)
        BY <2>1 DEF Awaits
      <3>5. \A i \in Ids : StandsFor(Showing(t)[i], t, i) => StandsFor(Showing(t)[i], t, i)'
        BY <2>1, <2>4 DEF StandsFor
      <3>6. QED
        BY <2>1, <2>3, <2>4, <3>1, <3>3, <3>4, <3>5 DEF Following
    <2>7. QED
      BY <2>1, <2>5, <2>6 DEF Follows
  <1>others. ASSUME call = "none", open # NoEntity, UNCHANGED <<at, message, page, subscribed>>
             PROVE  at[t] # "rows" /\ Connecting(t)' /\ Showing(t)' = Showing(t)
    <2>1. at[t] # "rows" /\ Connecting(t)'
      BY <1>0, <1>others DEF Connecting
    <2>2. QED
      BY <1>others, <2>1, ShowingStep DEF Showing
  <1>2. CASE StartBulkUpdate
    <2>1. /\ call = "none" /\ open # NoEntity /\ ~bulk
          /\ UNCHANGED <<served, open, call, untold, line, at, subscribed, entity, message, page,
                         dropped>>
          /\ next' = [k \in Keys |-> IF k[1] = open THEN Absent ELSE next[k]]
      BY <1>2 DEF StartBulkUpdate, Server!StartBulkUpdate, Server!EmptyOf, Server!Keys, Keys
    <2>2. Connecting(t)' /\ Showing(t)' = Showing(t)
      BY <1>others, <2>1
    <2>3. ASSUME at[t] = "open" PROVE Following(t)'
      <3>1. Following(t)
        BY <1>0, <2>3 DEF Follows
      <3>2. InMessage(t)' <=> InMessage(t)
        BY <2>1 DEF InMessage
      <3>3. \A i \in Ids : ~Awaits(t, i)
        BY <2>1 DEF Awaits
      <3>4. \A i \in Ids : StandsFor(Showing(t)[i], t, i) => StandsFor(Showing(t)[i], t, i)'
        BY <2>1, <2>2 DEF StandsFor
      <3>5. \A i \in Ids : open = entity[t] => next'[<<entity[t], i>>] = Absent
        <4>1. \A i \in Ids : open = entity[t] => <<entity[t], i>> \in Keys
          BY <1>0, <2>1 DEF Keys
        <4>2. QED
          BY <2>1, <4>1
      <3>6. QED
        BY <2>1, <2>2, <3>1, <3>2, <3>3, <3>4, <3>5 DEF Following
    <2>4. QED
      BY <2>1, <2>2, <2>3 DEF Follows
  <1>3. ASSUME NEW i \in Ids, NEW row \in Content, Process(i, row) PROVE Follows(t)'
    <2>1. /\ call = "none" /\ open # NoEntity /\ open \in Entities
          /\ UNCHANGED <<open, bulk, at, subscribed, entity, message, page, dropped>>
          /\ next' = [next EXCEPT ![<<open, i>>] = row]
          /\ served' = (IF bulk THEN served ELSE next')
          /\ PassedOn("row", [id |-> i, row |-> row], Interested(open))
      BY <1>0, <1>3 DEF Process, Server!Process, StreamTypes
    <2>2. Connecting(t)' /\ Showing(t)' = Showing(t)
      BY <1>others, <2>1
    <2>3. /\ call' \in {"none", "row"} /\ untold' = Interested(open)
          /\ Interested(open) # {} => call' = "row" /\ line' = [id |-> i, row |-> row]
      BY <2>1 DEF PassedOn
    <2>4. ASSUME NEW j \in Ids, entity[t] # open \/ j # i
          PROVE  /\ next'[<<entity[t], j>>] = next[<<entity[t], j>>]
                 /\ served'[<<entity[t], j>>] = served[<<entity[t], j>>]
      <3>1. next'[<<entity[t], j>>] = next[<<entity[t], j>>]
        <4>1. <<entity[t], j>> # <<open, i>> /\ next \in [Keys -> Content]
          BY <1>0, <2>4 DEF StreamTypes
        <4>2. CASE entity[t] \in Entities
          <5>1. <<entity[t], j>> \in Keys
            BY <4>2 DEF Keys
          <5>2. QED
            BY <2>1, <4>1, <5>1
        <4>3. CASE entity[t] = NoEntity
          BY <2>1, <4>1, <4>3
        <4>4. QED
          BY <1>0, <4>2, <4>3
      <3>2. QED
        BY <1>0, <2>1, <3>1 DEF BlockInOrder
    <2>5. ASSUME at[t] = "open" PROVE Following(t)'
      <3>1. Following(t) /\ t \in subscribed /\ t \in Sockets
        BY <1>0, <2>5 DEF Follows, Connecting
      <3>2. InMessage(t) /\ InMessage(t)'
        BY <2>1, <2>3 DEF InMessage
      <3>3. \A j \in Ids : ~Awaits(t, j)
        BY <2>1 DEF Awaits
      <3>4. ASSUME NEW j \in Ids, ~Awaits(t, j)'
            PROVE  entity[t] # open \/ j # i
        <4>1. SUFFICES ASSUME entity[t] = open PROVE j # i
          OBVIOUS
        <4>2. t \in Interested(open)
          BY <3>1, <4>1 DEF Interested
        <4>3. QED
          BY <2>3, <3>4, <4>2 DEF Awaits
      <3>5. ASSUME NEW j \in Ids, entity[t] # open \/ j # i
            PROVE  StandsFor(Showing(t)[j], t, j) => StandsFor(Showing(t)[j], t, j)'
        BY <2>1, <2>2, <2>4, <3>5 DEF StandsFor
      <3>6. QED
        BY <2>1, <2>2, <2>4, <3>1, <3>2, <3>3, <3>4, <3>5 DEF Following
    <2>6. QED
      BY <2>1, <2>2, <2>5 DEF Follows
  <1>4. CASE CloseBlock
    <2>1. /\ call = "none" /\ open # NoEntity /\ ~bulk' /\ next' = next /\ served' = next
          /\ UNCHANGED <<at, subscribed, entity, message, page>>
          /\ PassedOn("finish", Header, subscribed)
      BY <1>4 DEF CloseBlock, Server!Close
    <2>2. Connecting(t)' /\ Showing(t)' = Showing(t)
      BY <1>others, <2>1
    <2>3. ASSUME at[t] = "open" PROVE Following(t)'
      <3>1. Following(t) /\ t \in subscribed
        BY <1>0, <2>3 DEF Follows, Connecting
      <3>2. call' = "finish" /\ untold' = subscribed
        BY <2>1, <3>1 DEF PassedOn
      <3>3. InMessage(t) /\ InMessage(t)'
        BY <2>1, <3>1, <3>2 DEF InMessage
      <3>4. ASSUME NEW i \in Ids PROVE StandsFor(Showing(t)[i], t, i)'
        <4> DEFINE k == <<entity[t], i>>
        <4>1. ~Awaits(t, i)
          BY <2>1 DEF Awaits
        <4>2. \/ bulk /\ open = entity[t] /\ next[k] # Absent /\ Showing(t)[i] = next[k]
              \/ bulk /\ open = entity[t] /\ next[k] = Absent /\ StandsFor(Showing(t)[i], t, i)
              \/ (~bulk \/ open # entity[t]) /\ StandsFor(Showing(t)[i], t, i)
          BY <3>1, <4>1 DEF Following
        <4>3. /\ dropped \subseteq dropped'
              /\ open = entity[t] /\ served[k] # Absent /\ served'[k] = Absent
                    => <<t, i>> \in dropped'
          BY <1>0, <1>4, <3>1 DEF CloseBlock, Interested
        <4>4. ~bulk \/ open # entity[t] => next[k] = served[k]
          <5>1. open # entity[t] /\ bulk /\ k \in Keys => next[k] = served[k]
            BY <1>0 DEF BlockInOrder
          <5>2. entity[t] # NoEntity => k \in Keys
            BY <1>0 DEF Keys
          <5>3. entity[t] # NoEntity
            BY <2>3 DEF SocketTypes, Clear
          <5>4. QED
            BY <1>0, <5>1, <5>2, <5>3 DEF BlockInOrder
        <4>5. QED
          BY <2>1, <2>2, <4>2, <4>3, <4>4 DEF StandsFor
      <3>5. QED
        BY <2>1, <3>1, <3>3, <3>4 DEF Following
    <2>4. QED
      BY <2>1, <2>2, <2>3 DEF Follows
  <1>5. QED
    BY <1>1, <1>2, <1>3, <1>4

LEMMA StepPages == SocketTypes /\ PagesFollow /\ [Next]_vars => PagesFollow'
  <1> SUFFICES ASSUME SocketTypes, PagesFollow, [Next]_vars, ~leaked'
               PROVE  BlockInOrder' /\ LineInOrder' /\ \A t \in Clear' : Follows(t)'
    BY DEF PagesFollow
  <1>1. ~leaked /\ BlockInOrder' /\ LineInOrder'
    BY StepBlock
  <1>2. ASSUME NEW t \in Clear' PROVE Follows(t)'
    <2>1. t \in Clear
      BY ClearStep
    <2>2. ASSUME NEW s \in Sockets PROVE ~GiveUp(s)
      BY DEF GiveUp
    <2>3. CASE UNCHANGED vars
      <3>1. Follows(t)
        BY <1>1, <2>1 DEF PagesFollow
      <3>2. QED
        BY <2>3, <3>1, FollowsStill DEF vars
    <2>4. QED
      BY <1>1, <2>1, <2>2, <2>3, StepSessions, StepConnect, StepTells, StepBlocks
         DEF Next, Tell, Load
  <1>3. QED
    BY <1>1, <1>2

LEMMA InitPages == Init => PagesFollow
  <1> SUFFICES ASSUME Init PROVE PagesFollow
    OBVIOUS
  <1>1. BlockInOrder /\ LineInOrder
    BY DEF Init, BlockInOrder, LineInOrder
  <1>2. \A s \in Clear : Follows(s)
    BY DEF Init, Clear, Follows, Connecting, NoRows
  <1>3. QED
    BY <1>1, <1>2 DEF PagesFollow

-----------------------------------------------------------------------------
(***************************************************************************)
(* A block that was given up with a subscriber stuck.                      *)
(***************************************************************************)

LEMMA StepStuck == SocketTypes /\ NobodyTold /\ [Next]_vars => NobodyTold'
  <1> SUFFICES ASSUME SocketTypes, NobodyTold, [Next]_vars, silent' PROVE NobodyTold'
    BY DEF NobodyTold
  <1>types. /\ at \in [Sockets -> {"new", "started", "rows", "open", "failed"}]
            /\ counted \in [Sockets -> BOOLEAN]
            /\ untold \subseteq subscribed /\ subscribed \subseteq Sockets
            /\ call = "none" => untold = {}
            /\ NoEntity \notin Entities
    BY NamesAssumption DEF SocketTypes, TypeOK
  <1>1. CASE ~silent
    <2>1. \E s \in Sockets : GiveUp(s)
      BY <1>1 DEF Next, Tell, Load, Lose, Close, Unsubscribe, Start, StartFails, AddCallback,
                  SendRow, FinishLoad, ConnectFails, TellStart, TellRow, TellFinish, Refuse,
                  OpenBlock, StartBulkUpdate, Process, CloseBlock, vars
    <2>2. PICK s \in Sockets : GiveUp(s)
      BY <2>1
    <2>3. /\ leaked' /\ call' = "none" /\ open' = NoEntity
          /\ (\E u \in subscribed : Stuck(u))' /\ UNCHANGED subscribed
      BY <1>1, <2>2 DEF GiveUp
    <2>4. \E u \in subscribed' : Stuck(u)'
      BY <2>3
    <2>5. QED
      BY <2>3, <2>4 DEF NobodyTold
  <1>2. CASE silent
    <2>1. leaked /\ ((call = "none" /\ open = NoEntity) \/ call = "start")
      BY <1>2 DEF NobodyTold
    <2>2. PICK u \in subscribed : Stuck(u) /\ (call = "start" => u \in untold)
      BY <1>2 DEF NobodyTold
    <2>3. u \in Sockets
      BY <1>types
    <2>same. ASSUME UNCHANGED <<leaked, call, open, untold, subscribed>>, Stuck(u)'
             PROVE  NobodyTold'
      BY <2>1, <2>2, <2>same DEF NobodyTold
    <2>stuck. closed \subseteq closed' /\ at'[u] = at[u] /\ counted'[u] = counted[u] => Stuck(u)'
      BY <2>2 DEF Stuck
    <2>4. ASSUME NEW s \in Sockets,
                 \/ Lose(s) \/ Close(s) \/ Start(s) \/ StartFails(s)
                 \/ (\E i \in Ids : SendRow(s, i)) \/ FinishLoad(s) \/ ConnectFails(s)
          PROVE  NobodyTold'
      <3>1. UNCHANGED <<leaked, call, open, untold, subscribed>>
        BY <2>4 DEF Lose, Close, Start, StartFails, SendRow, FinishLoad, ConnectFails
      <3>2. CASE Lose(s) \/ Close(s)
        BY <2>same, <2>stuck, <3>1, <3>2 DEF Lose, Close
      <3>3. CASE Start(s) \/ StartFails(s)
        <4>1. closed' = closed /\ counted' = counted /\ at[s] = "new" /\ \A t \in Sockets \ {s} : at'[t] = at[t]
          BY <1>types, <3>3 DEF Start, StartFails
        <4>2. u = s => u \in closed
          BY <2>2, <4>1 DEF Stuck
        <4>3. Stuck(u)'
          BY <2>2, <2>3, <4>1, <4>2 DEF Stuck
        <4>4. QED
          BY <2>same, <3>1, <4>3
      <3>4. CASE \E i \in Ids : SendRow(s, i)
        <4>1. /\ closed' = closed /\ at' = at
              /\ \A t \in Sockets : counted[t] => counted'[t]
          BY <1>types, <3>4 DEF SendRow
        <4>2. Stuck(u)'
          BY <2>2, <2>3, <4>1 DEF Stuck
        <4>3. QED
          BY <2>same, <3>1, <4>2
      <3>5. CASE FinishLoad(s)
        <4>1. s # u /\ closed' = closed
          BY <2>2, <3>5 DEF FinishLoad, Stuck
        <4>2. at'[u] = at[u] /\ counted'[u] = counted[u]
          BY <1>types, <2>3, <3>5, <4>1 DEF FinishLoad, Finished
        <4>3. QED
          BY <2>same, <2>stuck, <3>1, <4>1, <4>2
      <3>6. CASE ConnectFails(s)
        <4>1. /\ closed' = closed \union {s} /\ counted' = counted
              /\ \A t \in Sockets \ {s} : at'[t] = at[t]
          BY <1>types, <3>6 DEF ConnectFails
        <4>2. Stuck(u)'
          BY <2>2, <2>3, <4>1 DEF Stuck
        <4>3. QED
          BY <2>same, <3>1, <4>2
      <3>7. QED
        BY <2>4, <3>2, <3>3, <3>4, <3>5, <3>6
    <2>5. ASSUME NEW s \in Sockets PROVE ~Unsubscribe(s) /\ ~AddCallback(s)
      BY <2>1 DEF Unsubscribe, AddCallback, LockFree
    <2>6. ASSUME NEW s \in Sockets, TellStart(s) PROVE NobodyTold'
      <3>1. /\ call = "start" /\ s \notin closed /\ ~counted[s]
            /\ UNCHANGED <<leaked, open, subscribed, at, counted, closed>>
            /\ PassedOn(call, line, untold \ {s})
        BY <2>6 DEF TellStart, StartRefused
      <3>2. u # s /\ u \in untold \ {s}
        BY <2>2, <3>1 DEF Stuck
      <3>3. call' = "start" /\ u \in untold' /\ u \in subscribed'
        BY <2>2, <3>1, <3>2 DEF PassedOn
      <3>4. Stuck(u)'
        BY <2>stuck, <3>1
      <3>5. QED
        BY <2>1, <3>1, <3>3, <3>4 DEF NobodyTold
    <2>7. ASSUME NEW s \in Sockets PROVE ~TellRow(s) /\ ~TellFinish(s) /\ ~Refuse(s)
      BY <2>1 DEF TellRow, TellFinish, Refuse
    <2>8. ASSUME NEW s \in Sockets, GiveUp(s) PROVE NobodyTold'
      <3>1. call = "start"
        BY <1>types, <2>1, <2>8 DEF GiveUp
      <3>2. /\ leaked' /\ call' = "none" /\ open' = NoEntity
            /\ UNCHANGED <<subscribed, at, counted, closed>>
        BY <2>8, <3>1 DEF GiveUp
      <3>3. Stuck(u)'
        BY <2>stuck, <3>2
      <3>4. QED
        BY <2>2, <3>2, <3>3 DEF NobodyTold
    <2>9. ASSUME NEW e \in Entities, OpenBlock(e) PROVE NobodyTold'
      <3>1. /\ UNCHANGED <<leaked, subscribed, at, counted, closed>>
            /\ PassedOn("start", Header, subscribed)
        BY <2>9 DEF OpenBlock
      <3>2. call' = "start" /\ u \in untold' /\ u \in subscribed'
        BY <2>2, <3>1 DEF PassedOn
      <3>3. Stuck(u)'
        BY <2>stuck, <3>1
      <3>4. QED
        BY <2>1, <3>1, <3>2, <3>3 DEF NobodyTold
    <2>10. ~StartBulkUpdate /\ ~CloseBlock /\ \A i \in Ids, row \in Content : ~Process(i, row)
      BY <2>1 DEF StartBulkUpdate, CloseBlock, Process, Server!StartBulkUpdate, Server!Close
    <2>11. CASE UNCHANGED vars
      BY <2>same, <2>stuck, <2>11 DEF vars
    <2>12. QED
      BY <2>4, <2>5, <2>6, <2>7, <2>8, <2>9, <2>10, <2>11 DEF Next, Tell, Load
  <1>3. QED
    BY <1>1, <1>2

-----------------------------------------------------------------------------
(***************************************************************************)
(* The theorems.                                                           *)
(***************************************************************************)

LEMMA InvariantHolds == Spec => []SocketsInv
  <1>1. Init => SocketsInv
    <2>1. Init => NobodyTold
      BY DEF Init, NobodyTold
    <2>2. QED
      BY <2>1, InitTypes, InitPages DEF SocketsInv
  <1>2. SocketsInv /\ [Next]_vars => SocketsInv'
    BY StepTypes, StepPages, StepStuck DEF SocketsInv
  <1>3. QED
    BY <1>1, <1>2, PTL DEF Spec

\* The state has its types; only sockets with a known entity are ever subscribed, and
\* nobody is left to tell unless a call is being passed on.
THEOREM TypeCorrect == Spec => []TypeOK
  <1>1. SocketsInv => TypeOK
    BY DEF SocketsInv, SocketTypes
  <1>2. QED
    BY <1>1, InvariantHolds, PTL

\* Between blocks, a page that has loaded shows the rows of its entity as the server serves
\* them, although onWebSocketConnect subscribes it first and sends it all rows without the
\* lock: Shown, for any number of sockets, entities, rows and blocks.
THEOREM PagesShow == Spec => []Shown
  <1>1. SocketsInv => Shown
    <2> SUFFICES ASSUME SocketsInv, NEW s \in Sockets, NEW i \in Ids,
                        at[s] = "open", s \notin gone \union unclear, LockFree
                 PROVE  StandsFor(page[s][i], s, i)
      BY DEF Shown, StandsFor
    <2>1. TypeOK /\ ~leaked /\ BlockInOrder /\ Following(s)
      BY DEF SocketsInv, SocketTypes, LockFree, PagesFollow, Clear, Follows
    <2>2. ~bulk /\ ~InMessage(s) /\ ~Awaits(s, i)
      BY <2>1 DEF LockFree, BlockInOrder, InMessage, Awaits
    <2>3. message[s] = <<>> /\ StandsFor(Showing(s)[i], s, i)
      BY <2>1, <2>2 DEF Following
    <2>4. Showing(s) = page[s]
      BY <2>1, <2>3, ReadingEmpty, ShowingTypes DEF Showing
    <2>5. QED
      BY <2>3, <2>4
  <1>2. QED
    BY <1>1, InvariantHolds, PTL

\* An exception that leaves a block with the session of a subscriber closed, or with rows
\* in the message of an open page, is the last thing the loaded pages hear of: Silenced.
THEOREM SilencedForGood == Spec => Silenced
  <1>1. ASSUME SocketsInv, [Next]_vars, silent,
               NEW s \in Sockets \ (gone' \union unclear'), at[s] = "open"
        PROVE  page'[s] = page[s]
    <2>1. TypeOK /\ ((call = "none" /\ open = NoEntity) \/ call = "start")
      BY <1>1 DEF SocketsInv, SocketTypes, NobodyTold
    <2>2. ASSUME NEW t \in Sockets, Lose(t) PROVE page'[s] = page[s]
      BY <1>1, <2>1, <2>2, LostTypes DEF Lose
    <2>3. ASSUME NEW t \in Sockets, FinishLoad(t) PROVE page'[s] = page[s]
      BY <1>1, <2>1, <2>3, FinishedTypes DEF FinishLoad
    <2>4. ASSUME NEW t \in Sockets PROVE ~TellFinish(t) /\ ~Refuse(t)
      BY <2>1 DEF TellFinish, Refuse
    <2>5. ASSUME NEW e \in Entities, OpenBlock(e) PROVE page'[s] = page[s]
      BY <1>1, <2>1, <2>5, LostTypes DEF OpenBlock
    <2>6. ASSUME NEW t \in Sockets,
                 \/ Close(t) \/ Unsubscribe(t) \/ Start(t) \/ StartFails(t) \/ AddCallback(t)
                 \/ (\E i \in Ids : SendRow(t, i)) \/ ConnectFails(t)
                 \/ TellStart(t) \/ TellRow(t) \/ GiveUp(t)
          PROVE  page' = page
      BY <2>6 DEF Close, Unsubscribe, Start, StartFails, AddCallback, SendRow, ConnectFails,
                  TellStart, TellRow, GiveUp
    <2>7. ASSUME \/ StartBulkUpdate \/ CloseBlock \/ UNCHANGED vars
                 \/ \E i \in Ids, row \in Content : Process(i, row)
          PROVE  page' = page
      BY <2>7 DEF StartBulkUpdate, CloseBlock, Process, vars
    <2>8. QED
      BY <1>1, <2>2, <2>3, <2>4, <2>5, <2>6, <2>7 DEF Next, Tell, Load
  <1>2. SocketsInv /\ [Next]_vars =>
            [silent => \A s \in Sockets \ (gone' \union unclear') :
                           at[s] = "open" => page'[s] = page[s]]_vars
    BY <1>1
  <1>3. QED
    BY <1>2, InvariantHolds, PTL DEF Spec, Silenced
=============================================================================
