------------------------- MODULE Broadcast_proofs -------------------------
(***************************************************************************)
(* From a server's blocks to the beans of a client: types, the client's    *)
(* lock, and that the beans converge to the rows that the server serves.   *)
(***************************************************************************)
EXTENDS Broadcast, SequenceTheorems, FiniteSetTheorems, WellFoundedInduction, TLAPS

USE DEF streamVars, handlerVars, lockVars, threadVars, beanVars, loadVars

-----------------------------------------------------------------------------
(***************************************************************************)
(* The inductive invariant.                                                *)
(***************************************************************************)

\* What a row will be when the blocks and messages on their way have arrived: the open
\* block's, if it has told the row.
Current(k) == IF bulk /\ open = k[1] /\ next[k] # Absent THEN next[k] ELSE served[k]

\* The last of the lines about a row, if there is any, says that it is `row`.
LastTells(lines, i, row) ==
    \A n \in LinesOf(i, lines) :
        (\A m \in LinesOf(i, lines) : m <= n) => lines[n].row = row

\* The client makes `row` of a message: it applies the removals last.
Tells(lines, i, row) ==
    /\ LastTells(lines, i, row)
    /\ row # Absent => \A n \in LinesOf(i, lines) : lines[n].row # Absent

NotInText(k) == LinesOf(k[2], text[k[1]]) = {}
NotInTopic(k) == \A n \in 1..Len(topic[k[1]]) : LinesOf(k[2], topic[k[1]][n].lines) = {}

\* What a block has changed and readers do not see.
BlockInOrder ==
    /\ ~bulk => next = served
    /\ bulk => open # NoEntity /\ \A k \in Keys : k[1] # open => next[k] = served[k]

\* The buffer of a handler: blocks whose message could not be sent, and the open one.
TextShape(e) ==
    /\ open # NoEntity => text[e] # <<>>
    /\ text[e] # <<>> => text[e][1] = Header
    /\ open # NoEntity /\ e # open => OfThisBlock(text[e]) = {}

TextInOrder(k) ==
    /\ bulk /\ open = k[1] => (k[2] \in TellsNow(k[1]) <=> next[k] # Absent)
    /\ k \notin excused \/ (open = k[1] /\ k[2] \in TellsNow(k[1])) =>
          LastTells(text[k[1]], k[2], Current(k))

\* The last message about a row tells what it is.
TopicInOrder(k) ==
    k \notin excused /\ NotInText(k) =>
        \A n \in 1..Len(topic[k[1]]) :
            (\A m \in n + 1 .. Len(topic[k[1]]) : LinesOf(k[2], topic[k[1]][m].lines) = {}) =>
                Tells(topic[k[1]][n].lines, k[2], Current(k))

ServerInOrder ==
    /\ BlockInOrder
    /\ \A e \in Entities : TextShape(e)
    /\ \A k \in Keys : TextInOrder(k) /\ TopicInOrder(k)

\* The thread that fills the maps of an entity, unless the entity is broken.
Worker(e) == IF loading = e THEN Loader ELSE e

\* That thread has lines of its message in the maps, or will have.
Unfinished(e) ==
    LET t == Worker(e)
    IN  at[t] = "rows" \/ (at[t] \in {"finish", "clear"} /\ e \in callbacks[t])

\* It has not merged the maps into the cache.
Unmerged(e) == Unfinished(e) /\ ~(at[Worker(e)] = "clear" /\ clearing[Worker(e)] = e)

\* The maps hold the lines of a message that are done.
RecordedRow(i, update, removals, lines, done) ==
    /\ i \in removals <=> \E n \in LinesOf(i, lines) : n <= done /\ lines[n].row = Absent
    /\ update = Unset => \A n \in LinesOf(i, lines) : n <= done => lines[n].row = Absent
    /\ update # Unset =>
          \E n \in LinesOf(i, lines) :
              /\ n <= done /\ lines[n].row = update /\ update # Absent
              /\ \A m \in LinesOf(i, lines) : n < m /\ m <= done => lines[m].row = Absent

Recorded(updates, removals, lines, done) ==
    \A i \in Ids : RecordedRow(i, updates[i], removals, lines, done)

MapsInOrder(e) ==
    IF e \in subscribed /\ Unfinished(e)
    THEN Recorded(updated[e], deleted[e], message[Worker(e)].lines, line[Worker(e)])
    ELSE ~Uncleared(e)

\* Nothing about a row is on its way to a listener, nor untold.
Silent(k) == k \notin excused /\ NotInText(k) /\ NotInTopic(k)

\* A row of the cache, and what the message in work makes of it.
CacheInOrder(k) ==
    LET t == Worker(k[1])
        lines == message[t].lines
    IN  /\ t = Loader /\ (at[t] = "query" \/ Unmerged(k[1])) => cache[k] = Absent
        /\ at[t] # "query" /\ Silent(k) =>
              IF Unmerged(k[1]) /\ LinesOf(k[2], lines) # {}
              THEN Tells(lines, k[2], Current(k))
              ELSE cache[k] = Current(k)

EntityInOrder(e) ==
    /\ e \notin broken => MapsInOrder(e)
    /\ \A k \in Keys :
          /\ k[1] = e /\ e \notin subscribed => cache[k] = Absent
          /\ k[1] = e /\ e \in subscribed \ broken => CacheInOrder(k)

ClientInOrder == \A e \in Entities : EntityInOrder(e)

\* The bean "id" is made of no message but one with two lines of names.
OnlyRows(lines) == \A n \in 1..Len(lines) : lines[n] # Header

NameInOrder(e) ==
    <<e, NameId>> \notin excused =>
        /\ \A n \in 1..Len(topic[e]) : OnlyRows(topic[e][n].lines)
        /\ OnlyRows(message[e].lines)
        /\ updated[e][NameId] = Unset
        /\ cache[<<e, NameId>>] = Absent

NamesInOrder == OnlyRows(message[Loader].lines) /\ \A e \in Entities : NameInOrder(e)

\* The lock, and the loads.
LockInOrder ==
    /\ lockOwner = NoThread <=> holds = 0
    /\ ListenersApart

LoadsInOrder ==
    /\ at[Loader] = "idle" <=> loading = NoEntity
    /\ Loading \subseteq subscribed \ loaded
    /\ subscribed \subseteq loaded \union Loading \union broken
    /\ ~connected => subscribed = {} /\ \A e \in Entities : topic[e] = <<>>
    /\ \A e \in Entities : at[e] # "query" /\ (at[e] # "idle" => Loading \subseteq broken)

ThreadsInOrder ==
    /\ line \in [Threads -> Nat]
    /\ \A t \in Threads :
          /\ at[t] \in {"idle", "query"} => line[t] = 0
          /\ at[t] \in {"finish", "clear"} => line[t] = Len(message[t].lines)
          /\ at[t] = "clear" => clearing[t] \in callbacks[t]
    /\ at[Loader] \in {"finish", "clear"} => callbacks[Loader] \subseteq Loading

BroadcastTypes == TypeOK /\ LockInOrder /\ LoadsInOrder /\ ThreadsInOrder

BroadcastInv == BroadcastTypes /\ ServerInOrder /\ ClientInOrder /\ NamesInOrder

-----------------------------------------------------------------------------
(***************************************************************************)
(* The lines of buffers and messages.                                      *)
(***************************************************************************)

LEMMA LineTypes ==
    /\ Header \in Line
    /\ \A i \in Ids, row \in Content : [id |-> i, row |-> row] \in Line \ {Header}
    /\ \A l \in Line \ {Header} : l.id \in Ids /\ l.row \in Content
  BY IdsAssumption DEF Line

LEMMA LinesWithin ==
    ASSUME NEW lines \in Seq(Line), NEW i
    PROVE  /\ Len(lines) \in Nat
           /\ LinesOf(i, lines) \in SUBSET (1..Len(lines))
           /\ \A n \in LinesOf(i, lines) :
                 lines[n] \in Line \ {Header} /\ lines[n].id = i /\ lines[n].row \in Content
  <1>1. Len(lines) \in Nat /\ \A n \in 1..Len(lines) : lines[n] \in Line
    BY LenProperties, ElementOfSeq
  <1>2. QED
    BY <1>1, LineTypes DEF LinesOf

\* A finite set of positions has a last one.
LEMMA LastOne ==
    ASSUME NEW len \in Nat, NEW own \in SUBSET (1..len), own # {}
    PROVE  \E n \in own : \A m \in own : m <= n
  <1> DEFINE T == {len - k : k \in own}
  <1>1. \A k \in own : k \in Nat /\ k <= len /\ len - k \in Nat
    OBVIOUS
  <1>2. T \subseteq Nat /\ T # {}
    BY <1>1
  <1>3. \E x \in T : \A y \in T : ~(<<y, x>> \in OpToRel(<, Nat))
    BY <1>2, NatLessThanWellFounded, WFMin
  <1>4. PICK x \in T : \A y \in T : ~(y < x)
    BY <1>2, <1>3 DEF OpToRel
  <1>5. PICK k \in own : x = len - k
    BY <1>4
  <1>6. ASSUME NEW m \in own PROVE m <= k
    <2>1. len - m \in T
      OBVIOUS
    <2>2. ~(len - m < len - k)
      BY <1>4, <1>5, <2>1
    <2>3. QED
      BY <1>1, <2>2
  <1>7. QED
    BY <1>6

\* A buffer goes on with a line.
LEMMA LongerLines ==
    ASSUME NEW lines \in Seq(Line), NEW l \in Line
    PROVE  /\ Append(lines, l) \in Seq(Line) /\ Append(lines, l) # <<>>
           /\ Len(lines) \in Nat /\ Len(Append(lines, l)) = Len(lines) + 1
           /\ \A n \in 1..Len(lines) : Append(lines, l)[n] = lines[n]
           /\ Append(lines, l)[Len(lines) + 1] = l
  BY AppendProperties, LenProperties

\* A line of column names is about no row, and begins a block.
LEMMA AnotherHeader ==
    ASSUME NEW lines \in Seq(Line)
    PROVE  /\ OfThisBlock(Append(lines, Header)) = {}
           /\ lines # <<>> /\ lines[1] = Header => Append(lines, Header)[1] = Header
           /\ lines = <<>> => Append(lines, Header)[1] = Header
           /\ \A i : LinesOf(i, Append(lines, Header)) = LinesOf(i, lines)
           /\ \A i, row : LastTells(lines, i, row) => LastTells(Append(lines, Header), i, row)
  <1> DEFINE new == Append(lines, Header)
  <1>1. /\ Len(lines) \in Nat /\ Len(new) = Len(lines) + 1
        /\ \A n \in 1..Len(lines) : new[n] = lines[n]
        /\ new[Len(lines) + 1] = Header
    BY LongerLines, LineTypes
  <1>2. lines # <<>> => Len(lines) # 0
    BY EmptySeq
  <1>3. lines = <<>> => Len(lines) = 0
    BY EmptySeq
  <1> HIDE DEF new
  <1>4. OfThisBlock(new) = {}
    BY <1>1 DEF OfThisBlock
  <1>5. \A i : LinesOf(i, new) = LinesOf(i, lines)
    BY <1>1 DEF LinesOf
  <1>6. \A i, row : LastTells(lines, i, row) => LastTells(new, i, row)
    <2>1. \A i : \A n \in LinesOf(i, lines) : new[n] = lines[n]
      BY <1>1, LinesWithin
    <2>2. QED
      BY <1>5, <2>1 DEF LastTells
  <1>7. (lines # <<>> /\ lines[1] = Header => new[1] = Header) /\ (lines = <<>> => new[1] = Header)
    BY <1>1, <1>2, <1>3
  <1>8. QED
    BY <1>4, <1>5, <1>6, <1>7 DEF new

\* A line about a row is the last one about it, and of the block.
LEMMA AnotherRow ==
    ASSUME NEW lines \in Seq(Line), NEW l \in Line \ {Header}
    PROVE  /\ OfThisBlock(Append(lines, l)) = OfThisBlock(lines) \union {Len(lines) + 1}
           /\ Append(lines, l)[Len(lines) + 1] = l
           /\ \A n \in 1..Len(lines) : Append(lines, l)[n] = lines[n]
           /\ lines # <<>> => Append(lines, l)[1] = lines[1]
           /\ LinesOf(l.id, Append(lines, l)) # {}
           /\ LastTells(Append(lines, l), l.id, l.row)
           /\ \A i : i # l.id =>
                 /\ LinesOf(i, Append(lines, l)) = LinesOf(i, lines)
                 /\ \A row : LastTells(lines, i, row) => LastTells(Append(lines, l), i, row)
  <1> DEFINE new == Append(lines, l)
  <1>1. /\ Len(lines) \in Nat /\ Len(new) = Len(lines) + 1
        /\ \A n \in 1..Len(lines) : new[n] = lines[n]
        /\ new[Len(lines) + 1] = l
    BY LongerLines
  <1>2. lines # <<>> => Len(lines) # 0
    BY EmptySeq
  <1> HIDE DEF new
  <1>3. OfThisBlock(new) = OfThisBlock(lines) \union {Len(lines) + 1}
    BY <1>1 DEF OfThisBlock
  <1>4. LinesOf(l.id, new) = LinesOf(l.id, lines) \union {Len(lines) + 1}
    BY <1>1 DEF LinesOf
  <1>5. LastTells(new, l.id, l.row)
    <2>1. \A n \in LinesOf(l.id, lines) : n \in Nat /\ n <= Len(lines)
      BY <1>1 DEF LinesOf
    <2>2. \A n \in LinesOf(l.id, new) : Len(lines) + 1 <= n => n = Len(lines) + 1
      BY <1>1, <1>4, <2>1
    <2>3. QED
      BY <1>1, <1>4, <2>2 DEF LastTells
  <1>6. ASSUME NEW i, i # l.id
        PROVE  /\ LinesOf(i, new) = LinesOf(i, lines)
               /\ \A row : LastTells(lines, i, row) => LastTells(new, i, row)
    <2>1. LinesOf(i, new) = LinesOf(i, lines)
      BY <1>1, <1>6 DEF LinesOf
    <2>2. \A n \in LinesOf(i, lines) : new[n] = lines[n]
      BY <1>1, LinesWithin
    <2>3. QED
      BY <2>1, <2>2 DEF LastTells
  <1>7. lines # <<>> => new[1] = lines[1]
    BY <1>1, <1>2
  <1>8. QED
    BY <1>1, <1>3, <1>4, <1>5, <1>6, <1>7 DEF new

\* The message that is made of a buffer tells its rows, less the order in which it removed
\* and updated a row.
LEMMA MessageTells ==
    ASSUME NEW lines \in Seq(Line), lines # <<>>, lines[1] = Header
    PROVE  /\ Tail(lines) \in Seq(Line)
           /\ \A i : LinesOf(i, Tail(lines)) = {} <=> LinesOf(i, lines) = {}
           /\ \A i, row :
                 /\ LastTells(lines, i, row)
                 /\ ~\E m, n \in LinesOf(i, lines) :
                        /\ lines[m].row = Absent
                        /\ lines[n].row # Absent /\ \A l \in LinesOf(i, lines) : l <= n
                 => Tells(Tail(lines), i, row)
  <1> DEFINE tail == Tail(lines)
  <1>1. /\ tail \in Seq(Line) /\ Len(lines) \in Nat \ {0} /\ Len(tail) = Len(lines) - 1
        /\ \A n \in 1..Len(tail) : tail[n] = lines[n + 1]
    BY HeadTailProperties, EmptySeq, LenProperties
  <1> HIDE DEF tail
  <1>2. ASSUME NEW i
        PROVE  /\ \A n \in LinesOf(i, tail) :
                     /\ n \in Nat /\ n + 1 \in LinesOf(i, lines) /\ tail[n] = lines[n + 1]
               /\ \A n \in LinesOf(i, lines) :
                     /\ n \in Nat /\ n - 1 \in LinesOf(i, tail) /\ tail[n - 1] = lines[n]
    <2>1. \A n \in LinesOf(i, tail) : n \in 1..Len(tail) /\ tail[n] # Header /\ tail[n].id = i
      BY DEF LinesOf
    <2>2. \A n \in LinesOf(i, tail) : n \in Nat /\ n + 1 \in 1..Len(lines)
      BY <1>1, <2>1
    <2>3. \A n \in LinesOf(i, lines) : n \in 1..Len(lines) /\ lines[n] # Header /\ lines[n].id = i
      BY DEF LinesOf
    <2>4. \A n \in LinesOf(i, lines) : n # 1 /\ n \in Nat
      BY <1>1, <2>3
    <2>5. \A n \in LinesOf(i, lines) : n - 1 \in 1..Len(tail) /\ (n - 1) + 1 = n
      BY <1>1, <2>3, <2>4
    <2>6. \A n \in LinesOf(i, lines) : tail[n - 1] = lines[n]
      <3>1. \A n \in LinesOf(i, lines) : tail[n - 1] = lines[(n - 1) + 1]
        BY <1>1, <2>5
      <3>2. QED
        BY <2>5, <3>1
    <2>7. QED
      BY <1>1, <2>1, <2>2, <2>3, <2>4, <2>5, <2>6 DEF LinesOf
  <1>3. ASSUME NEW i PROVE LinesOf(i, tail) = {} <=> LinesOf(i, lines) = {}
    BY <1>2
  <1>4. ASSUME NEW i, NEW row, LastTells(lines, i, row),
               ~\E m, n \in LinesOf(i, lines) :
                    /\ lines[m].row = Absent
                    /\ lines[n].row # Absent /\ \A l \in LinesOf(i, lines) : l <= n
        PROVE  Tells(tail, i, row)
    <2>1. ASSUME NEW n \in LinesOf(i, tail), \A m \in LinesOf(i, tail) : m <= n
          PROVE  tail[n].row = row
      <3>1. n \in Nat /\ n + 1 \in LinesOf(i, lines) /\ tail[n] = lines[n + 1]
        BY <1>2
      <3>2. ASSUME NEW m \in LinesOf(i, lines) PROVE m <= n + 1
        <4>1. m \in Nat /\ m - 1 \in LinesOf(i, tail)
          BY <1>2
        <4>2. m - 1 <= n
          BY <2>1, <4>1
        <4>3. QED
          BY <3>1, <4>1, <4>2
      <3>3. QED
        BY <1>4, <3>1, <3>2 DEF LastTells
    <2>2. ASSUME row # Absent, NEW n \in LinesOf(i, tail) PROVE tail[n].row # Absent
      <3>1. n + 1 \in LinesOf(i, lines) /\ tail[n] = lines[n + 1]
        BY <1>2
      <3>2. PICK last \in LinesOf(i, lines) : \A m \in LinesOf(i, lines) : m <= last
        BY <3>1, LinesWithin, LastOne
      <3>3. lines[last].row = row
        BY <1>4, <3>2 DEF LastTells
      <3>4. QED
        BY <1>4, <2>2, <3>1, <3>2, <3>3
    <2>3. QED
      BY <2>1, <2>2 DEF Tells, LastTells
  <1>5. QED
    BY <1>1, <1>3, <1>4 DEF tail

\* A finite set as a sequence: each element once.
LEMMA SetAsSequence ==
    ASSUME NEW S, IsFiniteSet(S)
    PROVE  /\ SetToSeq(S) \in Seq(S)
           /\ \A x \in S : \E n \in 1..Len(SetToSeq(S)) : SetToSeq(S)[n] = x
  <1> DEFINE n == Cardinality(S)
             s == SetToSeq(S)
  <1>1. n \in Nat /\ ExistsBijection(1..n, S)
    BY FS_CardinalityType
  <1>2. \E f \in [1..n -> S] : IsInjective(f)
    BY <1>1 DEF ExistsBijection, Bijection, Injection
  <1>3. s \in [1..n -> S] /\ IsInjective(s)
    BY <1>2 DEF SetToSeq
  <1> HIDE DEF s
  <1>4. s \in Injection(1..n, S)
    BY <1>3 DEF Injection
  <1>5. IsFiniteSet(1..n) /\ Cardinality(1..n) = n
    BY <1>1, FS_Interval
  <1>6. s \in Surjection(1..n, S)
    BY <1>4, <1>5, FS_Injection
  <1>7. s \in Seq(S) /\ Len(s) = n
    BY <1>1, <1>3, SeqDef
  <1>8. \A x \in S : \E m \in 1..n : s[m] = x
    BY <1>6 DEF Surjection
  <1>9. QED
    BY <1>7, <1>8 DEF s

\* The reply to the query of all rows tells what is served.
LEMMA AnswerTells ==
    ASSUME NEW e \in Entities, served \in [Keys -> Content]
    PROVE  /\ Answer(e) \in Seq(Line) /\ OnlyRows(Answer(e))
           /\ \A i \in Ids :
                 /\ LinesOf(i, Answer(e)) = {} <=> served[<<e, i>>] = Absent
                 /\ Tells(Answer(e), i, served[<<e, i>>])
  <1> DEFINE There == {j \in Ids : served[<<e, j>>] # Absent}
             Row(i) == [id |-> i, row |-> served[<<e, i>>]]
             S == {Row(i) : i \in There}
             s == SetToSeq(S)
  <1>1. IsFiniteSet(S)
    <2> DEFINE f == [i \in There |-> Row(i)]
    <2>1. IsFiniteSet(There)
      BY IdsAssumption, FS_Subset
    <2>2. f \in Surjection(There, S)
      BY DEF Surjection
    <2>3. QED
      BY <2>1, <2>2, FS_Surjection
  <1>2. \A i \in Ids : Row(i) \in Line \ {Header} /\ Row(i).id = i /\ Row(i).row = served[<<e, i>>]
    <2>1. \A i \in Ids : <<e, i>> \in Keys
      BY DEF Keys
    <2>2. QED
      BY <2>1, LineTypes
  <1>3. S \subseteq Line /\ Answer(e) = s
    BY <1>2 DEF Answer
  <1>4. s \in Seq(S) /\ \A x \in S : \E n \in 1..Len(s) : s[n] = x
    BY <1>1, SetAsSequence
  <1> HIDE DEF s
  <1>5. s \in Seq(Line)
    BY <1>3, <1>4, SeqMonotonic
  <1>6. \A n \in 1..Len(s) : s[n] \in S
    BY <1>4, ElementOfSeq
  <1>7. ASSUME NEW i \in Ids, NEW n \in LinesOf(i, s)
        PROVE  i \in There /\ s[n].row = served[<<e, i>>]
    <2>1. n \in 1..Len(s) /\ s[n].id = i
      BY DEF LinesOf
    <2>2. PICK j \in There : s[n] = Row(j)
      BY <1>6, <2>1
    <2>3. j = i
      BY <1>2, <2>1, <2>2
    <2>4. QED
      BY <1>2, <2>2, <2>3
  <1>8. ASSUME NEW i \in There PROVE LinesOf(i, s) # {}
    <2>1. Row(i) \in S
      OBVIOUS
    <2>2. PICK n \in 1..Len(s) : s[n] = Row(i)
      BY <1>4, <2>1
    <2>3. QED
      BY <1>2, <2>2 DEF LinesOf
  <1>9. ASSUME NEW i \in Ids
        PROVE  /\ LinesOf(i, s) = {} <=> served[<<e, i>>] = Absent
               /\ Tells(s, i, served[<<e, i>>])
    BY <1>7, <1>8 DEF Tells, LastTells
  <1>10. OnlyRows(s)
    <2>1. \A x \in S : x # Header
      BY <1>2
    <2>2. QED
      BY <1>6, <2>1 DEF OnlyRows
  <1>11. QED
    BY <1>3, <1>5, <1>9, <1>10
-----------------------------------------------------------------------------
(***************************************************************************)
(* Types, the lock and the loads.                                          *)
(***************************************************************************)

Messages == [lines : Seq(Line), bulk : BOOLEAN]
Updates == [CacheIds -> Content \union {Unset}]

ServerTypes ==
    /\ served \in [Keys -> Content] /\ next \in [Keys -> Content]
    /\ open \in Entities \union {NoEntity} /\ bulk \in BOOLEAN
    /\ blocks \in 0..MaxBlocks /\ reloads \in 0..MaxReloads
    /\ text \in [Entities -> Seq(Line)] /\ bulkUpdate \in [Entities -> BOOLEAN]

LoadTypes ==
    /\ topic \in [Entities -> Seq(Messages)]
    /\ loaded \subseteq subscribed /\ subscribed \subseteq Entities
    /\ loading \in Entities \union {NoEntity}
    /\ LoadsInOrder

LockTypes == lockOwner \in Entities \union {NoThread} /\ holds \in Nat /\ LockInOrder

ThreadTypes ==
    /\ at \in [Threads -> {"idle", "query", "rows", "finish", "clear"}]
    /\ message \in [Threads -> Messages]
    /\ \A t \in Threads : line[t] \in 0..Len(message[t].lines)
    /\ callbacks \in [Threads -> SUBSET subscribed]
    /\ clearing \in [Threads -> Entities \union {NoEntity}]
    /\ ThreadsInOrder

BeanTypes ==
    /\ updated \in [Entities -> Updates]
    /\ deleted \in [Entities -> SUBSET Ids]
    /\ cache \in [CacheKeys -> Content]

LEMMA TypesSplit ==
    BroadcastTypes <=> ServerTypes /\ LoadTypes /\ LockTypes /\ ThreadTypes /\ BeanTypes
  BY DEF BroadcastTypes, TypeOK, ServerTypes, LoadTypes, LockTypes, ThreadTypes, BeanTypes,
         Messages, Updates

LEMMA Names ==
    /\ Loader \in Threads /\ Entities \subseteq Threads /\ Loader \notin Entities
    /\ NoThread \notin Threads /\ NoEntity \notin Entities
    /\ Absent \in Content /\ 0 \in Content /\ Unset \notin Content /\ Unset # Absent
    /\ NoMessage \in Messages /\ Len(NoMessage.lines) = 0 /\ NoUpdates \in Updates
    /\ Ids \subseteq CacheIds /\ NameId \in CacheIds \ Ids
    /\ Keys \subseteq CacheKeys /\ \A k \in CacheKeys : k \in Keys \/ k = <<k[1], NameId>>
  <1>1. /\ Loader \in Threads /\ Entities \subseteq Threads /\ Loader \notin Entities
        /\ NoThread \notin Threads /\ NoEntity \notin Entities
    BY ThreadsAssumption DEF Threads
  <1>2. Absent \in Content /\ 0 \in Content /\ Unset \notin Content /\ Unset # Absent
    BY ThreadsAssumption, BoundsAssumption DEF Content
  <1>3. <<>> \in Seq(Line) /\ Len(<<>>) = 0
    BY EmptySeq
  <1>4. NoMessage \in Messages /\ Len(NoMessage.lines) = 0
    BY <1>3 DEF NoMessage, Messages
  <1>5. NoUpdates \in Updates
    BY DEF NoUpdates, Updates
  <1>6. Ids \subseteq CacheIds /\ NameId \in CacheIds \ Ids
    BY IdsAssumption DEF CacheIds
  <1>7. Keys \subseteq CacheKeys /\ \A k \in CacheKeys : k \in Keys \/ k = <<k[1], NameId>>
    BY DEF Keys, CacheKeys, CacheIds
  <1>8. QED
    BY <1>1, <1>2, <1>4, <1>5, <1>6, <1>7

LEMMA InitTypes == Init => BroadcastTypes
  <1> SUFFICES ASSUME Init PROVE BroadcastTypes
    OBVIOUS
  <1> USE Names
  <1>1. ServerTypes
    <2>1. {Absent, 0} \subseteq Content /\ 0 \in 0..MaxBlocks /\ 0 \in 0..MaxReloads
      BY BoundsAssumption
    <2>2. served \in [Keys -> Content] /\ next \in [Keys -> Content]
      BY <2>1 DEF Init
    <2>3. text \in [Entities -> Seq(Line)]
      BY EmptySeq DEF Init
    <2>4. QED
      BY <2>1, <2>2, <2>3 DEF Init, ServerTypes
  <1>2. LoadTypes
    <2>1. topic \in [Entities -> Seq(Messages)]
      BY EmptySeq DEF Init
    <2>2. QED
      BY <2>1 DEF Init, LoadTypes, LoadsInOrder, Loading
  <1>3. LockTypes
    BY DEF Init, LockTypes, LockInOrder, ListenersApart
  <1>4. ThreadTypes
    BY DEF Init, ThreadTypes, ThreadsInOrder
  <1>5. BeanTypes
    BY DEF Init, BeanTypes
  <1>6. QED
    BY <1>1, <1>2, <1>3, <1>4, <1>5, TypesSplit

\* The server's steps leave the client alone.
LEMMA SendTypes ==
    ASSUME BroadcastTypes, NEW sent \in SUBSET Entities, Send(sent),
           \A e \in Entities : text[e] # <<>>
    PROVE  /\ text' \in [Entities -> Seq(Line)] /\ bulkUpdate' \in [Entities -> BOOLEAN]
           /\ topic' \in [Entities -> Seq(Messages)]
           /\ ~connected => topic' = topic
  <1>1. ServerTypes /\ LoadTypes
    BY TypesSplit
  <1>2. \A e \in Entities : Tail(text[e]) \in Seq(Line) /\ <<>> \in Seq(Line)
    BY <1>1, HeadTailProperties, EmptySeq DEF ServerTypes
  <1>3. \A e \in Entities : [lines |-> Tail(text[e]), bulk |-> bulkUpdate[e]] \in Messages
    BY <1>1, <1>2 DEF ServerTypes, Messages
  <1>4. \A e \in Entities :
           Append(topic[e], [lines |-> Tail(text[e]), bulk |-> bulkUpdate[e]]) \in Seq(Messages)
    BY <1>1, <1>3, AppendProperties DEF LoadTypes
  <1>5. topic' \in [Entities -> Seq(Messages)] /\ (~connected => topic' = topic)
    BY <1>1, <1>4 DEF Send, LoadTypes
  <1>6. QED
    BY <1>1, <1>2, <1>5 DEF Send, ServerTypes

LEMMA ServerTypesStep ==
    ASSUME BroadcastTypes, \A e \in Entities : TextShape(e), ServerStep
    PROVE  BroadcastTypes'
  <1>0. ServerTypes /\ LoadTypes /\ LockTypes /\ ThreadTypes /\ BeanTypes
    BY TypesSplit
  <1>1. UNCHANGED <<loadVars, lockVars, threadVars, beanVars, broken>>
    BY DEF ServerStep
  <1>2. LockTypes' /\ ThreadTypes' /\ BeanTypes'
    BY <1>0, <1>1 DEF LockTypes, LockInOrder, ListenersApart, ThreadTypes, ThreadsInOrder, Loading,
                      BeanTypes
  <1>3. ASSUME topic' \in [Entities -> Seq(Messages)], ~connected => topic' = topic
        PROVE  LoadTypes'
    BY <1>0, <1>1, <1>3 DEF LoadTypes, LoadsInOrder, Loading
  <1>4. LoadTypes' /\ ServerTypes' => BroadcastTypes'
    BY <1>2, TypesSplit, PTL
  <1>5. ASSUME NEW e \in Entities, ServerStart(e), UNCHANGED topic PROVE BroadcastTypes'
    <2>1. \A f \in Entities : Append(text[f], Header) \in Seq(Line)
      BY <1>0, LongerLines, LineTypes DEF ServerTypes
    <2>2. blocks' \in 0..MaxBlocks
      BY <1>0, <1>5, BoundsAssumption DEF ServerStart, ServerTypes
    <2>3. ServerTypes'
      BY <1>0, <1>5, <2>1, <2>2 DEF ServerStart, ServerTypes, Server!Open
    <2>4. LoadTypes'
      BY <1>0, <1>3, <1>5 DEF LoadTypes
    <2>5. QED
      BY <1>4, <2>3, <2>4
  <1>6. ASSUME ServerStartBulkUpdate, UNCHANGED topic PROVE BroadcastTypes'
    <2>1. reloads' \in 0..MaxReloads
      BY <1>0, <1>6, BoundsAssumption DEF ServerStartBulkUpdate, ServerTypes
    <2>2. next' \in [Keys -> Content] /\ bulk' \in BOOLEAN
      BY <1>0, <1>6, Names DEF ServerStartBulkUpdate, ServerTypes, Server!StartBulkUpdate,
                               Server!EmptyOf, Server!Keys, Keys
    <2>3. ServerTypes'
      BY <1>0, <1>6, <2>1, <2>2 DEF ServerStartBulkUpdate, ServerTypes, Server!StartBulkUpdate
    <2>4. LoadTypes'
      BY <1>0, <1>3, <1>6 DEF LoadTypes
    <2>5. QED
      BY <1>4, <2>3, <2>4
  <1>7. ASSUME NEW k \in Keys, NEW row \in Content, ServerProcess(k, row), UNCHANGED topic
        PROVE  BroadcastTypes'
    <2>1. [id |-> k[2], row |-> row] \in Line /\ k[1] \in Entities
      BY LineTypes DEF Keys
    <2>2. Append(text[k[1]], [id |-> k[2], row |-> row]) \in Seq(Line)
      BY <1>0, <2>1, LongerLines DEF ServerTypes
    <2>3. text' \in [Entities -> Seq(Line)]
      BY <1>0, <1>7, <2>2 DEF ServerProcess, ServerTypes
    <2>4. next' \in [Keys -> Content] /\ served' \in [Keys -> Content]
      BY <1>0, <1>7 DEF ServerProcess, ServerTypes, Server!Process
    <2>5. ServerTypes'
      BY <1>0, <1>7, <2>3, <2>4 DEF ServerProcess, ServerTypes, Server!Process
    <2>6. LoadTypes'
      BY <1>0, <1>3, <1>7 DEF LoadTypes
    <2>7. QED
      BY <1>4, <2>5, <2>6
  <1>8. ASSUME NEW sent \in SUBSET Entities, Server!Close, Send(sent), UNCHANGED <<blocks, reloads>>
        PROVE  BroadcastTypes'
    <2>1. \A e \in Entities : text[e] # <<>>
      BY <1>8 DEF TextShape, Server!Close
    <2>2. ServerTypes'
      BY <1>0, <1>8, <2>1, SendTypes DEF ServerTypes, Server!Close
    <2>3. LoadTypes'
      BY <1>3, <1>8, <2>1, SendTypes
    <2>4. QED
      BY <1>4, <2>2, <2>3
  <1>9. QED
    BY <1>5, <1>6, <1>7, <1>8 DEF ServerStep, ServerFinish, ServerFinishFails

\* The client's steps leave the server alone.  A thread that works has its parts in the maps
\* of one entity.
LEMMA WorkOf ==
    ASSUME BroadcastTypes, NEW t \in Threads, at[t] \in {"query", "rows", "finish", "clear"}
    PROVE  /\ EntityOf(t) \in Entities
           /\ t = Loader => EntityOf(t) = loading /\ loading \in subscribed \ loaded
           /\ t # Loader => EntityOf(t) = t /\ t \in Entities /\ lockOwner = t /\ holds > 0
  BY TypesSplit, Names DEF EntityOf, LoadTypes, LoadsInOrder, LockTypes, LockInOrder, ListenersApart,
                           Loading, Threads

LEMMA LoadTypesStep ==
    ASSUME BroadcastTypes,
           \/ Connect
           \/ \E e \in Entities : Subscribe(e)
           \/ Query
           \/ \E e \in Entities : Begin(e) \/ Reject(e)
    PROVE  BroadcastTypes'
  <1>0. ServerTypes /\ LoadTypes /\ LockTypes /\ ThreadTypes /\ BeanTypes
    BY TypesSplit
  <1>types. /\ at \in [Threads -> {"idle", "query", "rows", "finish", "clear"}]
            /\ message \in [Threads -> Messages] /\ line \in [Threads -> Nat]
            /\ topic \in [Entities -> Seq(Messages)]
    BY <1>0 DEF ThreadTypes, ThreadsInOrder, LoadTypes
  <1>split. ServerTypes' /\ LoadTypes' /\ LockTypes' /\ ThreadTypes' /\ BeanTypes' => BroadcastTypes'
    BY TypesSplit, PTL
  <1>server. UNCHANGED <<streamVars, handlerVars>> => ServerTypes'
    BY <1>0 DEF ServerTypes
  <1>lock. UNCHANGED <<lockVars, at>> => LockTypes'
    BY <1>0 DEF LockTypes, LockInOrder, ListenersApart
  <1>beans. UNCHANGED beanVars => BeanTypes'
    BY <1>0 DEF BeanTypes
  <1>1. CASE Connect
    <2>1. LoadTypes'
      BY <1>0, <1>1 DEF Connect, LoadTypes, LoadsInOrder, Loading
    <2>2. ThreadTypes'
      BY <1>0, <1>1 DEF Connect, ThreadTypes, ThreadsInOrder, Loading
    <2>3. QED
      BY <1>split, <1>server, <1>lock, <1>beans, <1>1, <2>1, <2>2 DEF Connect
  <1>2. ASSUME NEW e \in Entities, Subscribe(e) PROVE BroadcastTypes'
    <2>1. /\ at[Loader] = "idle" /\ lockOwner = NoThread /\ connected
          /\ e \notin subscribed /\ subscribed' = subscribed \union {e} /\ loading' = e
          /\ UNCHANGED <<topic, connected, loaded, broken, lockVars, message, line, callbacks,
                         clearing>>
          /\ \A t \in Threads \ {Loader} : at'[t] = at[t]
          /\ at' \in [Threads -> {"idle", "query", "rows", "finish", "clear"}]
          /\ at'[Loader] = "query"
      BY <1>types, <1>2, Names DEF Subscribe
    <2>2. \A f \in Entities : at[f] = "idle"
      BY <1>0, <2>1, Names DEF LockTypes, LockInOrder, ListenersApart
    <2>3. loading = NoEntity /\ line[Loader] = 0
      BY <1>0, <2>1, Names DEF LoadTypes, LoadsInOrder, ThreadTypes, ThreadsInOrder
    <2>4. LoadTypes'
      BY <1>0, <2>1, <2>2, <2>3, Names DEF LoadTypes, LoadsInOrder, Loading
    <2>5. LockTypes'
      BY <1>0, <2>1, <2>2, Names DEF LockTypes, LockInOrder, ListenersApart
    <2>6. ThreadTypes'
      <3>1. callbacks' \in [Threads -> SUBSET subscribed']
        BY <1>0, <2>1 DEF ThreadTypes
      <3>2. QED
        BY <1>0, <2>1, <2>3, <3>1, Names DEF ThreadTypes, ThreadsInOrder
    <2>7. QED
      BY <1>split, <1>server, <1>beans, <1>2, <2>4, <2>5, <2>6 DEF Subscribe
  <1>3. CASE Query
    <2>1. loading \in Entities /\ served \in [Keys -> Content] /\ line[Loader] = 0
          /\ at[Loader] = "query"
      BY <1>0, <1>3, WorkOf, Names DEF Query, ServerTypes, ThreadTypes, ThreadsInOrder, LoadTypes,
                                       EntityOf
    <2>2. Answer(loading) \in Seq(Line)
      BY <2>1, AnswerTells
    <2>3. /\ at' = [at EXCEPT ![Loader] = "rows"]
          /\ message' \in [Threads -> Messages]
          /\ \A t \in Threads \ {Loader} : message'[t] = message[t]
          /\ UNCHANGED <<topic, loadVars, lockVars, broken, line, callbacks, clearing>>
      BY <1>types, <1>3, <2>2 DEF Query, Messages
    <2>4. LoadTypes'
      BY <1>0, <2>1, <2>3, Names DEF LoadTypes, LoadsInOrder, Loading, ThreadTypes
    <2>5. LockTypes'
      BY <1>0, <2>3, Names DEF LockTypes, LockInOrder, ListenersApart, ThreadTypes
    <2>6. ThreadTypes'
      <3>1. /\ at' \in [Threads -> {"idle", "query", "rows", "finish", "clear"}]
            /\ \A t \in Threads \ {Loader} : at'[t] = at[t]
            /\ at'[Loader] = "rows"
        BY <1>types, <2>3, Names
      <3>2. \A t \in Threads : line'[t] \in 0..Len(message'[t].lines)
        <4>1. Len(message'[Loader].lines) \in Nat
          BY <2>3, LenProperties, Names DEF Messages
        <4>2. 0 \in 0..Len(message'[Loader].lines)
          BY <4>1
        <4>3. QED
          BY <1>0, <2>1, <2>3, <4>2 DEF ThreadTypes
      <3>3. QED
        BY <1>0, <2>3, <3>1, <3>2, Names DEF ThreadTypes, ThreadsInOrder, Loading
    <2>7. QED
      BY <1>split, <1>server, <1>beans, <1>3, <2>4, <2>5, <2>6 DEF Query
  <1>4. ASSUME NEW e \in Entities, Take(e)
        PROVE  /\ topic' \in [Entities -> Seq(Messages)] /\ Head(topic[e]) \in Messages
               /\ connected
               /\ lockOwner' = e /\ holds' \in Nat /\ holds' > 0
               /\ \A f \in Entities : f # e => at[f] = "idle"
               /\ UNCHANGED <<streamVars, handlerVars, loadVars, line, callbacks, clearing, beanVars>>
    <2>1. Head(topic[e]) \in Messages /\ Tail(topic[e]) \in Seq(Messages)
      BY <1>types, <1>4, HeadTailProperties DEF Take
    <2>2. topic' \in [Entities -> Seq(Messages)]
      BY <1>types, <1>4, <2>1 DEF Take
    <2>3. connected
      BY <1>0, <1>4 DEF Take, LoadTypes, LoadsInOrder
    <2>4. holds \in Nat /\ holds' = holds + 1
      BY <1>0, <1>4 DEF Take, LockTypes
    <2>5. holds' \in Nat /\ holds' > 0
      BY <2>4
    <2>6. \A f \in Entities : f # e => at[f] = "idle"
      BY <1>0, <1>4, Names DEF Take, LockTypes, LockInOrder, ListenersApart
    <2>7. QED
      BY <1>4, <2>1, <2>2, <2>3, <2>5, <2>6 DEF Take
  <1>5. ASSUME NEW e \in Entities, Begin(e) PROVE BroadcastTypes'
    <2>1. /\ Take(e) /\ at[e] = "idle" /\ line[e] = 0 /\ e # Loader /\ e \in Threads
          /\ broken' = broken \union Loading
      BY <1>0, <1>5, Names DEF Begin, Take, ThreadTypes, ThreadsInOrder
    <2>2. /\ at' \in [Threads -> {"idle", "query", "rows", "finish", "clear"}]
          /\ \A t \in Threads \ {e} : at'[t] = at[t]
          /\ at'[e] = "rows"
          /\ message' \in [Threads -> Messages]
          /\ \A t \in Threads \ {e} : message'[t] = message[t]
      BY <1>types, <1>4, <1>5, <2>1 DEF Begin
    <2>client. /\ topic' \in [Entities -> Seq(Messages)] /\ connected
               /\ lockOwner' = e /\ holds' \in Nat /\ holds' > 0
               /\ \A f \in Entities : f # e => at[f] = "idle"
               /\ UNCHANGED <<loadVars, line, callbacks, clearing>>
      BY <1>4, <2>1
    <2>3. LoadTypes'
      <3>1. at'[Loader] = at[Loader] /\ Loading' = Loading
        BY <2>1, <2>2, <2>client, Names DEF Loading
      <3>2. LoadsInOrder'
        BY <1>0, <2>1, <2>2, <2>client, <3>1, Names DEF LoadTypes, LoadsInOrder
      <3>3. QED
        BY <1>0, <2>client, <3>2 DEF LoadTypes
    <2>4. LockTypes'
      <3>1. holds' # 0 /\ lockOwner' # NoThread
        BY <2>client, Names
      <3>2. \A f \in Entities : at'[f] # "idle" => f = e
        BY <2>2, <2>client, Names
      <3>3. QED
        BY <2>1, <2>client, <3>1, <3>2, Names DEF LockTypes, LockInOrder, ListenersApart
    <2>5. ThreadTypes'
      <3>1. \A t \in Threads : line'[t] \in 0..Len(message'[t].lines)
        <4>1. Len(message'[e].lines) \in Nat
          BY <2>1, <2>2, LenProperties DEF Messages
        <4>2. 0 \in 0..Len(message'[e].lines)
          BY <4>1
        <4>3. QED
          BY <1>0, <1>4, <2>1, <2>2, <4>2 DEF ThreadTypes
      <3>2. QED
        BY <1>0, <1>4, <2>1, <2>2, <3>1, Names DEF ThreadTypes, ThreadsInOrder, Loading
    <2>6. QED
      BY <1>split, <1>server, <1>beans, <1>4, <2>1, <2>3, <2>4, <2>5
  <1>6. ASSUME NEW e \in Entities, Reject(e) PROVE BroadcastTypes'
    <2>1. Take(e) /\ UNCHANGED <<message, at>> /\ broken \subseteq broken'
      BY <1>6 DEF Reject
    <2>2. at[e] = "idle"
      BY <1>6 DEF Reject, Take
    <2>3. LoadTypes'
      BY <1>0, <1>4, <2>1, Names DEF LoadTypes, LoadsInOrder, Loading
    <2>4. LockTypes'
      BY <1>0, <1>4, <2>1, <2>2, Names DEF LockTypes, LockInOrder, ListenersApart
    <2>5. ThreadTypes'
      BY <1>0, <1>4, <2>1 DEF ThreadTypes, ThreadsInOrder, Loading
    <2>6. QED
      BY <1>split, <1>server, <1>beans, <1>4, <2>1, <2>3, <2>4, <2>5
  <1>7. QED
    BY <1>1, <1>2, <1>3, <1>5, <1>6

\* A line as the client takes it.
LEMMA RowOfLine ==
    ASSUME NEW l \in Line
    PROVE  /\ AsRow(l).id \in CacheIds /\ AsRow(l).row \in Content
           /\ AsRow(l).row = Absent => AsRow(l).id \in Ids
           /\ l # Header => AsRow(l) = l
           /\ l = Header => AsRow(l).id = NameId /\ AsRow(l).row # Absent
  BY LineTypes, Names, ThreadsAssumption DEF AsRow

LEMMA WorkTypesStep ==
    ASSUME BroadcastTypes, NEW t \in Threads, Work(t) \/ ProcessFails(t) \/ FinishFails(t)
    PROVE  BroadcastTypes'
  <1>0. ServerTypes /\ LoadTypes /\ LockTypes /\ ThreadTypes /\ BeanTypes
    BY TypesSplit
  <1>types. /\ at \in [Threads -> {"idle", "query", "rows", "finish", "clear"}]
            /\ message \in [Threads -> Messages] /\ line \in [Threads -> Nat]
            /\ callbacks \in [Threads -> SUBSET subscribed] /\ subscribed \subseteq Entities
            /\ clearing \in [Threads -> Entities \union {NoEntity}]
            /\ line[t] \in 0..Len(message[t].lines)
    BY <1>0 DEF ThreadTypes, ThreadsInOrder, LoadTypes
  <1>lines. message[t].lines \in Seq(Line) /\ Len(message[t].lines) \in Nat
    BY <1>types, LenProperties DEF Messages
  <1>split. ServerTypes' /\ LoadTypes' /\ LockTypes' /\ ThreadTypes' /\ BeanTypes' => BroadcastTypes'
    BY TypesSplit, PTL
  <1>same. UNCHANGED <<streamVars, handlerVars>> => ServerTypes'
    BY <1>0 DEF ServerTypes
  <1>beans. UNCHANGED beanVars => BeanTypes'
    BY <1>0 DEF BeanTypes
  \* A thread that goes on with its work, where the steps differ.
  <1>goes. ASSUME UNCHANGED <<topic, loadVars, lockVars, broken>>,
                  at[t] \in {"rows", "finish", "clear"},
                  at' \in [Threads -> {"idle", "query", "rows", "finish", "clear"}],
                  \A u \in Threads \ {t} : at'[u] = at[u],
                  at'[t] \in {"rows", "finish", "clear"}
           PROVE  LoadTypes' /\ LockTypes'
    <2>1. \A u \in Threads : at'[u] = "idle" <=> at[u] = "idle"
      BY <1>goes
    <2>2. \A u \in Threads : at'[u] = "query" => at[u] = "query"
      BY <1>goes
    <2>3. LoadTypes'
      BY <1>0, <1>goes, <2>1, <2>2, Names DEF LoadTypes, LoadsInOrder, Loading
    <2>4. LockTypes'
      BY <1>0, <1>goes, <2>1, Names DEF LockTypes, LockInOrder, ListenersApart
    <2>5. QED
      BY <2>3, <2>4
  <1>1. CASE Process(t)
    <2> DEFINE e == EntityOf(t)
               own == message[t].lines[line[t] + 1]
               l == AsRow(own)
    <2>1. /\ at[t] = "rows" /\ line[t] < Len(message[t].lines) /\ e \in Entities
          /\ UNCHANGED <<streamVars, handlerVars, topic, loadVars, lockVars, at, message,
                         callbacks, clearing, cache, broken>>
          /\ line' = [line EXCEPT ![t] = @ + 1]
      BY <1>1, WorkOf DEF Process
    <2>2. line[t] + 1 \in 1..Len(message[t].lines) /\ line[t] + 1 \in Nat
      BY <1>types, <1>lines, <2>1
    <2>3. own \in Line
      BY <1>lines, <2>2, ElementOfSeq
    <2>4. l.id \in CacheIds /\ l.row \in Content /\ (l.row = Absent => l.id \in Ids)
      BY <2>3, RowOfLine
    <2>5. \/ UNCHANGED <<updated, deleted>>
          \/ /\ l.row = Absent /\ UNCHANGED updated
             /\ deleted' = [deleted EXCEPT ![e] = @ \union {l.id}]
          \/ /\ UNCHANGED deleted
             /\ updated' \in {[updated EXCEPT ![e][l.id] = l.row], updated}
      BY <1>1 DEF Process
    <2> HIDE DEF e, l, own
    <2>6. BeanTypes'
      <3>1. deleted' \in [Entities -> SUBSET Ids]
        BY <1>0, <2>1, <2>4, <2>5 DEF BeanTypes
      <3>2. [updated EXCEPT ![e][l.id] = l.row] \in [Entities -> Updates]
        BY <1>0, <2>1, <2>4 DEF BeanTypes, Updates
      <3>3. updated' \in [Entities -> Updates]
        BY <1>0, <2>5, <3>2 DEF BeanTypes
      <3>4. QED
        BY <1>0, <2>1, <3>1, <3>3 DEF BeanTypes
    <2>7. LoadTypes' /\ LockTypes'
      BY <1>types, <1>goes, <2>1
    <2>8. ThreadTypes'
      <3>1. line' \in [Threads -> Nat] /\ \A u \in Threads \ {t} : line'[u] = line[u]
        BY <1>types, <2>1, <2>2
      <3>2. line'[t] \in 0..Len(message[t].lines)
        BY <1>types, <1>lines, <2>1, <2>2
      <3>3. QED
        BY <1>0, <2>1, <3>1, <3>2 DEF ThreadTypes, ThreadsInOrder, Loading
    <2>9. QED
      BY <1>split, <1>same, <2>1, <2>6, <2>7, <2>8
  <1>2. CASE FinishRows(t)
    <2>1. /\ at[t] = "rows" /\ line[t] = Len(message[t].lines) /\ EntityOf(t) \in Entities
          /\ UNCHANGED <<streamVars, handlerVars, topic, loadVars, lockVars, message, line,
                         clearing, beanVars, broken>>
          /\ at' = [at EXCEPT ![t] = "finish"]
          /\ callbacks' = [callbacks EXCEPT ![t] = IF t = Loader THEN {loading} ELSE subscribed]
      BY <1>2, WorkOf DEF FinishRows
    <2>2. t = Loader => loading \in subscribed /\ loading # NoEntity
      BY <1>0, <2>1, WorkOf, Names DEF LoadTypes
    <2>3. /\ at' \in [Threads -> {"idle", "query", "rows", "finish", "clear"}]
          /\ \A u \in Threads \ {t} : at'[u] = at[u] /\ callbacks'[u] = callbacks[u]
          /\ at'[t] = "finish" /\ callbacks' \in [Threads -> SUBSET subscribed]
          /\ t = Loader => callbacks'[t] = {loading}
      BY <1>types, <2>1, <2>2
    <2>4. LoadTypes' /\ LockTypes'
      BY <1>goes, <2>1, <2>3
    <2>5. ThreadTypes'
      BY <1>0, <2>1, <2>2, <2>3, Names DEF ThreadTypes, ThreadsInOrder, Loading
    <2>6. QED
      BY <1>split, <1>same, <1>beans, <2>1, <2>4, <2>5
  <1>3. ASSUME NEW f \in Entities, Merge(t, f) PROVE BroadcastTypes'
    <2>1. /\ at[t] = "finish" /\ f \in callbacks[t]
          /\ UNCHANGED <<streamVars, handlerVars, topic, loadVars, lockVars, message, line,
                         callbacks, updated, deleted, broken>>
          /\ at' = [at EXCEPT ![t] = "clear"]
          /\ clearing' = [clearing EXCEPT ![t] = f]
      BY <1>3 DEF Merge
    <2>2. /\ at' \in [Threads -> {"idle", "query", "rows", "finish", "clear"}]
          /\ \A u \in Threads \ {t} : at'[u] = at[u] /\ clearing'[u] = clearing[u]
          /\ at'[t] = "clear" /\ clearing'[t] = f
          /\ clearing' \in [Threads -> Entities \union {NoEntity}]
      BY <1>types, <2>1
    <2>3. LoadTypes' /\ LockTypes'
      BY <1>goes, <2>1, <2>2
    <2>4. ThreadTypes'
      BY <1>0, <2>1, <2>2 DEF ThreadTypes, ThreadsInOrder, Loading
    <2>5. BeanTypes'
      <3>1. \A i \in CacheIds : updated[f][i] # Unset => updated[f][i] \in Content
        BY <1>0 DEF BeanTypes, Updates
      <3>2. cache' \in [CacheKeys -> Content]
        BY <1>0, <1>3, <3>1, Names DEF Merge, BeanTypes, CacheKeys
      <3>3. QED
        BY <1>0, <2>1, <3>2 DEF BeanTypes
    <2>6. QED
      BY <1>split, <1>same, <2>1, <2>3, <2>4, <2>5
  <1>4. CASE Clear(t)
    <2>1. /\ at[t] = "clear" /\ clearing[t] \in Entities
          /\ UNCHANGED <<streamVars, handlerVars, topic, loadVars, lockVars, message, line, cache,
                         broken>>
          /\ updated' = [updated EXCEPT ![clearing[t]] = NoUpdates]
          /\ deleted' = [deleted EXCEPT ![clearing[t]] = {}]
          /\ at' = [at EXCEPT ![t] = "finish"]
          /\ callbacks' = [callbacks EXCEPT ![t] = @ \ {clearing[t]}]
          /\ clearing' = [clearing EXCEPT ![t] = NoEntity]
      BY <1>0, <1>4 DEF Clear, ThreadTypes, ThreadsInOrder, LoadTypes
    <2>2. /\ at' \in [Threads -> {"idle", "query", "rows", "finish", "clear"}]
          /\ \A u \in Threads \ {t} : /\ at'[u] = at[u] /\ clearing'[u] = clearing[u]
                                      /\ callbacks'[u] = callbacks[u]
          /\ at'[t] = "finish" /\ callbacks'[t] \subseteq callbacks[t]
          /\ clearing' \in [Threads -> Entities \union {NoEntity}]
          /\ callbacks' \in [Threads -> SUBSET subscribed]
      BY <1>types, <2>1
    <2>3. LoadTypes' /\ LockTypes'
      BY <1>goes, <2>1, <2>2
    <2>4. ThreadTypes'
      BY <1>0, <2>1, <2>2 DEF ThreadTypes, ThreadsInOrder, Loading
    <2>5. BeanTypes'
      BY <1>0, <2>1, Names DEF BeanTypes
    <2>6. QED
      BY <1>split, <1>same, <2>1, <2>3, <2>4, <2>5
  \* A thread that comes to rest.
  <1>rests. ASSUME at[t] \in {"rows", "finish", "clear"}, at' = [at EXCEPT ![t] = "idle"],
                   message' = [message EXCEPT ![t] = NoMessage],
                   line' = [line EXCEPT ![t] = 0],
                   loading' = (IF t = Loader THEN NoEntity ELSE loading),
                   UNCHANGED subscribed,
                   \/ at[t] # "clear" /\ UNCHANGED <<callbacks, clearing>>
                   \/ /\ callbacks' = [callbacks EXCEPT ![t] = {}]
                      /\ clearing' = [clearing EXCEPT ![t] = NoEntity]
            PROVE  ThreadTypes'
    <2>0. /\ callbacks' \in [Threads -> SUBSET subscribed]
          /\ clearing' \in [Threads -> Entities \union {NoEntity}]
          /\ \A u \in Threads \ {t} : callbacks'[u] = callbacks[u] /\ clearing'[u] = clearing[u]
      BY <1>types, <1>rests
    <2>1. /\ at' \in [Threads -> {"idle", "query", "rows", "finish", "clear"}]
          /\ message' \in [Threads -> Messages] /\ line' \in [Threads -> Nat]
          /\ \A u \in Threads \ {t} : at'[u] = at[u] /\ message'[u] = message[u] /\ line'[u] = line[u]
          /\ at'[t] = "idle" /\ line'[t] = 0 /\ Len(message'[t].lines) = 0
      BY <1>types, <1>rests, Names
    <2>2. \A u \in Threads : line'[u] \in 0..Len(message'[u].lines)
      <3>1. line'[t] \in 0..Len(message'[t].lines)
        BY <2>1
      <3>2. QED
        BY <1>0, <2>1, <3>1 DEF ThreadTypes
    <2>3. at'[Loader] \in {"finish", "clear"} => loading' = loading
      BY <1>rests, <2>1, Names
    <2>4. ThreadsInOrder'
      <3>1. at'[Loader] \in {"finish", "clear"} => callbacks'[Loader] = callbacks[Loader]
        BY <2>0, <2>1, Names
      <3>2. \A u \in Threads : at'[u] = "clear" => clearing'[u] \in callbacks'[u]
        BY <1>0, <2>0, <2>1 DEF ThreadTypes, ThreadsInOrder
      <3>3. QED
        BY <1>0, <1>rests, <2>1, <2>3, <3>1, <3>2, Names DEF ThreadTypes, ThreadsInOrder, Loading
    <2>5. QED
      BY <1>0, <1>rests, <2>0, <2>1, <2>2, <2>4 DEF ThreadTypes
  <1>5. CASE Return(t)
    <2>1. /\ at[t] = "finish" /\ at' = [at EXCEPT ![t] = "idle"]
          /\ UNCHANGED <<streamVars, handlerVars, topic, connected, subscribed, beanVars, broken>>
          /\ loaded' = (IF t = Loader THEN loaded \union {loading} ELSE loaded)
          /\ loading' = (IF t = Loader THEN NoEntity ELSE loading)
          /\ holds' = (IF t = Loader THEN holds ELSE holds - 1)
          /\ lockOwner' = (IF t # Loader /\ holds = 1 THEN NoThread ELSE lockOwner)
      BY <1>5 DEF Return, Idle
    <2>2. /\ \A u \in Threads \ {t} : at'[u] = at[u]
          /\ at'[t] = "idle"
      BY <1>types, <2>1
    <2>3. ThreadTypes'
      BY <1>5, <1>rests DEF Return, Idle
    <2>4. LoadTypes'
      <3>1. CASE t = Loader
        <4>1. loading \in subscribed \ loaded /\ loading \in Entities
          BY <2>1, <3>1, WorkOf
        <4>2. QED
          BY <1>0, <2>1, <2>2, <3>1, <4>1, Names DEF LoadTypes, LoadsInOrder, Loading
      <3>2. CASE t # Loader
        BY <1>0, <2>1, <2>2, <3>2, Names DEF LoadTypes, LoadsInOrder, Loading
      <3>3. QED
        BY <3>1, <3>2
    <2>5. LockTypes'
      <3>1. CASE t = Loader
        BY <1>0, <2>1, <2>2, <3>1, Names DEF LockTypes, LockInOrder, ListenersApart
      <3>2. CASE t # Loader
        <4>1. lockOwner = t /\ t \in Entities /\ holds \in Nat /\ holds > 0
          BY <1>0, <2>1, <3>2, WorkOf DEF LockTypes
        <4>2. holds' \in Nat /\ (holds' = 0 <=> holds = 1)
          BY <2>1, <3>2, <4>1
        <4>3. \A e \in Entities : at'[e] = "idle"
          BY <1>0, <2>2, <3>2, <4>1, Names DEF LockTypes, LockInOrder, ListenersApart
        <4>4. QED
          BY <2>1, <3>2, <4>1, <4>2, <4>3, Names DEF LockTypes, LockInOrder, ListenersApart
      <3>3. QED
        BY <3>1, <3>2
    <2>6. QED
      BY <1>split, <1>same, <1>beans, <2>1, <2>3, <2>4, <2>5
  \* A thread that gives up.
  <1>6. ASSUME \/ ProcessFails(t)
               \/ FinishFails(t)
        PROVE  LoadTypes' /\ LockTypes' /\ ServerTypes' /\ ThreadTypes'
    <2>1. /\ at[t] \in {"rows", "finish", "clear"} /\ at' = [at EXCEPT ![t] = "idle"]
          /\ UNCHANGED <<streamVars, handlerVars, topic, connected, subscribed, loaded, lockVars>>
          /\ loading' = (IF t = Loader THEN NoEntity ELSE loading)
          /\ broken \subseteq broken' /\ Loading \subseteq broken'
      BY <1>6 DEF ProcessFails, FinishFails
    <2>2. /\ \A u \in Threads \ {t} : at'[u] = at[u]
          /\ at'[t] = "idle"
      BY <1>types, <2>1
    <2>3. ThreadTypes'
      BY <1>6, <1>rests DEF ProcessFails, FinishFails
    <2>4. LoadTypes'
      <3>1. Loading' \subseteq Loading
        BY <2>1 DEF Loading
      <3>2. LoadsInOrder'
        <4>1. at'[Loader] = "idle" <=> loading' = NoEntity
          BY <1>0, <2>1, <2>2, Names DEF LoadTypes, LoadsInOrder
        <4>2. \A e \in Entities : at'[e] # "query" /\ (at'[e] # "idle" => Loading' \subseteq broken')
          BY <1>0, <2>1, <2>2, <3>1, Names DEF LoadTypes, LoadsInOrder
        <4>3. QED
          BY <1>0, <2>1, <3>1, <4>1, <4>2 DEF LoadTypes, LoadsInOrder
      <3>3. QED
        BY <1>0, <2>1, <3>2 DEF LoadTypes
    <2>5. LockTypes'
      BY <1>0, <2>1, <2>2, Names DEF LockTypes, LockInOrder, ListenersApart
    <2>6. QED
      BY <1>same, <2>1, <2>3, <2>4, <2>5
  <1>7. CASE ProcessFails(t)
    BY <1>split, <1>beans, <1>6, <1>7 DEF ProcessFails
  <1>8. CASE FinishFails(t)
    <2>1. cache' \in [CacheKeys -> Content] /\ UNCHANGED <<updated, deleted>>
      <3>1. CASE UNCHANGED cache
        BY <1>0, <1>8, <3>1 DEF FinishFails, BeanTypes
      <3>2. ASSUME NEW f \in callbacks[t], NEW some \in SUBSET CacheIds,
                   cache' = [k \in CacheKeys |->
                                IF k[1] = f /\ k[2] \in some /\ updated[f][k[2]] # Unset
                                THEN updated[f][k[2]] ELSE cache[k]]
            PROVE  cache' \in [CacheKeys -> Content]
        <4>1. f \in Entities
          BY <1>types
        <4>2. \A i \in CacheIds : updated[f][i] # Unset => updated[f][i] \in Content
          BY <1>0, <4>1 DEF BeanTypes, Updates
        <4>3. QED
          BY <1>0, <3>2, <4>2 DEF BeanTypes
      <3>3. QED
        BY <1>8, <3>1, <3>2 DEF FinishFails
    <2>2. BeanTypes'
      BY <1>0, <2>1 DEF BeanTypes
    <2>3. QED
      BY <1>split, <1>6, <1>8, <2>2
  <1>9. QED
    BY <1>1, <1>2, <1>3, <1>4, <1>5, <1>7, <1>8 DEF Work

LEMMA StepTypes ==
    ASSUME BroadcastTypes, \A e \in Entities : TextShape(e), [Next]_vars
    PROVE  BroadcastTypes'
  <1>1. CASE UNCHANGED vars
    <2>1. ServerTypes /\ LoadTypes /\ LockTypes /\ ThreadTypes /\ BeanTypes
      BY TypesSplit
    <2>2. ServerTypes' /\ LoadTypes' /\ LockTypes' /\ ThreadTypes' /\ BeanTypes'
      BY <1>1, <2>1 DEF vars, ServerTypes, LoadTypes, LoadsInOrder, Loading, LockTypes, LockInOrder,
                        ListenersApart, ThreadTypes, ThreadsInOrder, BeanTypes
    <2>3. QED
      BY <2>2, TypesSplit, PTL
  <1>2. QED
    BY <1>1, ServerTypesStep, LoadTypesStep, WorkTypesStep DEF Next
-----------------------------------------------------------------------------
(***************************************************************************)
(* What is on its way from the server.                                     *)
(***************************************************************************)

LEMMA ToldIsInText ==
    ASSUME NEW k \in Keys, text \in [Entities -> Seq(Line)], k[2] \in TellsNow(k[1])
    PROVE  ~NotInText(k) /\ OfThisBlock(text[k[1]]) # {}
  <1>1. text[k[1]] \in Seq(Line)
    BY DEF Keys
  <1>2. PICK n \in OfThisBlock(text[k[1]]) : text[k[1]][n].id = k[2]
    BY DEF TellsNow
  <1>3. n \in 1..Len(text[k[1]]) /\ text[k[1]][n] # Header
    BY <1>1, <1>2, LenProperties DEF OfThisBlock
  <1>4. QED
    BY <1>2, <1>3 DEF NotInText, LinesOf

LEMMA StepStart ==
    ASSUME BroadcastTypes, ServerInOrder, NEW e \in Entities, ServerStart(e),
           UNCHANGED <<topic, excused>>
    PROVE  ServerInOrder'
  <1>0. BlockInOrder /\ ServerTypes /\ text \in [Entities -> Seq(Line)]
    BY TypesSplit DEF ServerInOrder, ServerTypes
  <1>1. /\ open = NoEntity /\ ~bulk /\ UNCHANGED <<next, served, bulk>>
        /\ text' = [f \in Entities |-> Append(text[f], Header)]
    BY <1>0 DEF ServerStart, Server!Open, BlockInOrder
  <1>2. BlockInOrder'
    BY <1>0, <1>1 DEF BlockInOrder
  <1>3. ASSUME NEW f \in Entities
        PROVE  /\ OfThisBlock(text'[f]) = {} /\ text'[f] # <<>> /\ text'[f][1] = Header
               /\ \A i : LinesOf(i, text'[f]) = LinesOf(i, text[f])
               /\ \A i, row : LastTells(text[f], i, row) => LastTells(text'[f], i, row)
    <2>1. text[f] \in Seq(Line) /\ text'[f] = Append(text[f], Header) /\ TextShape(f)
      BY <1>0, <1>1 DEF ServerInOrder
    <2>2. text'[f] # <<>>
      BY <2>1, LongerLines, LineTypes
    <2>3. text'[f][1] = Header
      BY <2>1, AnotherHeader DEF TextShape
    <2>4. QED
      BY <2>1, <2>2, <2>3, AnotherHeader
  <1>4. \A f \in Entities : TextShape(f)'
    BY <1>3 DEF TextShape
  <1>5. ASSUME NEW k \in Keys PROVE TextInOrder(k)' /\ TopicInOrder(k)'
    <2>1. k[1] \in Entities /\ TextInOrder(k) /\ TopicInOrder(k)
      BY DEF Keys, ServerInOrder
    <2>2. Current(k)' = Current(k)
      BY <1>1 DEF Current
    <2>3. k[2] \notin TellsNow(k[1])'
      BY <1>3, <2>1 DEF TellsNow
    <2>4. TextInOrder(k)'
      BY <1>1, <1>3, <2>1, <2>2, <2>3 DEF TextInOrder
    <2>5. NotInText(k)' <=> NotInText(k)
      BY <1>3, <2>1 DEF NotInText
    <2>6. TopicInOrder(k)'
      BY <2>1, <2>2, <2>5 DEF TopicInOrder
    <2>7. QED
      BY <2>4, <2>6
  <1>6. QED
    BY <1>2, <1>4, <1>5 DEF ServerInOrder

LEMMA StepStartBulk ==
    ASSUME BroadcastTypes, ServerInOrder, ServerStartBulkUpdate, UNCHANGED <<topic, excused>>
    PROVE  ServerInOrder'
  <1>0. BlockInOrder /\ ServerTypes
    BY TypesSplit DEF ServerInOrder
  <1>1. /\ open # NoEntity /\ ~bulk /\ bulk' = TRUE /\ next = served
        /\ UNCHANGED <<open, served, text>> /\ OfThisBlock(text[open]) = {}
        /\ next' = [k \in Keys |-> IF k[1] = open THEN Absent ELSE next[k]]
    BY <1>0 DEF ServerStartBulkUpdate, Server!StartBulkUpdate, Server!EmptyOf, Server!Keys, Keys,
                BlockInOrder
  <1>2. BlockInOrder'
    BY <1>1 DEF BlockInOrder
  <1>3. \A f \in Entities : TextShape(f)'
    BY <1>1 DEF TextShape, ServerInOrder
  <1>4. ASSUME NEW k \in Keys PROVE TextInOrder(k)' /\ TopicInOrder(k)'
    <2>1. TextInOrder(k) /\ TopicInOrder(k)
      BY DEF ServerInOrder
    <2>2. Current(k)' = Current(k)
      BY <1>1 DEF Current
    <2>3. open = k[1] => next'[k] = Absent /\ TellsNow(k[1])' = {} /\ TellsNow(k[1]) = {}
      BY <1>1 DEF TellsNow
    <2>4. TextInOrder(k)'
      BY <1>1, <2>1, <2>2, <2>3 DEF TextInOrder
    <2>5. TopicInOrder(k)'
      BY <1>1, <2>1, <2>2 DEF TopicInOrder, NotInText
    <2>6. QED
      BY <2>4, <2>5
  <1>5. QED
    BY <1>2, <1>3, <1>4 DEF ServerInOrder

\* What a row of the open block changes.
LEMMA ProcessTells ==
    ASSUME BroadcastTypes, ServerInOrder, NEW k \in Keys, NEW row \in Content,
           ServerProcess(k, row)
    PROVE  /\ UNCHANGED <<open, bulk>> /\ open = k[1] /\ next'[k] = row
           /\ Current(k)' = row /\ (bulk => row # Absent)
           /\ ~NotInText(k)' /\ k[2] \in TellsNow(k[1])' /\ LastTells(text'[k[1]], k[2], row)
           /\ text'[k[1]] # <<>> /\ text'[k[1]][1] = Header
           /\ \A j \in Keys \ {k} :
                 /\ next'[j] = next[j] /\ served'[j] = served[j] /\ Current(j)' = Current(j)
                 /\ NotInText(j)' <=> NotInText(j)
                 /\ j[2] \in TellsNow(j[1])' <=> j[2] \in TellsNow(j[1])
                 /\ \A x : LastTells(text[j[1]], j[2], x) => LastTells(text'[j[1]], j[2], x)
           /\ \A f \in Entities \ {k[1]} : text'[f] = text[f]
  <1> DEFINE e == k[1]
             l == [id |-> k[2], row |-> row]
             lines == text[e]
             new == Append(lines, l)
  <1>0. /\ BlockInOrder /\ next \in [Keys -> Content] /\ served \in [Keys -> Content]
        /\ text \in [Entities -> Seq(Line)] /\ NoEntity \notin Entities
    BY TypesSplit, Names DEF ServerInOrder, ServerTypes
  <1>1. e \in Entities /\ k[2] \in Ids /\ l \in Line \ {Header} /\ l.id = k[2] /\ l.row = row
    BY LineTypes DEF Keys
  <1>2. /\ open = e /\ UNCHANGED <<open, bulk>> /\ (bulk => row # Absent)
        /\ next' = [next EXCEPT ![k] = row]
        /\ served' = (IF bulk THEN served ELSE next')
        /\ text' = [text EXCEPT ![e] = new]
    BY DEF ServerProcess, Server!Process
  <1>3. lines \in Seq(Line) /\ lines # <<>> /\ lines[1] = Header
    BY <1>0, <1>1, <1>2 DEF ServerInOrder, TextShape
  <1>4. text'[e] = new /\ \A f \in Entities \ {e} : text'[f] = text[f]
    BY <1>0, <1>1, <1>2
  <1> HIDE DEF l, lines, e
  <1>5. /\ OfThisBlock(new) = OfThisBlock(lines) \union {Len(lines) + 1}
        /\ new[Len(lines) + 1] = l
        /\ \A n \in 1..Len(lines) : new[n] = lines[n]
        /\ new[1] = lines[1] /\ new # <<>>
        /\ LinesOf(k[2], new) # {} /\ LastTells(new, k[2], row)
        /\ \A i : i # k[2] =>
              /\ LinesOf(i, new) = LinesOf(i, lines)
              /\ \A x : LastTells(lines, i, x) => LastTells(new, i, x)
    BY <1>1, <1>3, AnotherRow, LongerLines
  <1> HIDE DEF new
  <1>6. k[2] \in TellsNow(k[1])' /\ ~NotInText(k)'
    BY <1>1, <1>4, <1>5 DEF TellsNow, NotInText, e
  <1>7. next'[k] = row /\ Current(k)' = row
    <2>1. next'[k] = row
      BY <1>0, <1>2
    <2>2. QED
      BY <1>2, <2>1 DEF Current, e
  <1>8. ASSUME NEW j \in Keys \ {k}
        PROVE  /\ next'[j] = next[j] /\ served'[j] = served[j] /\ Current(j)' = Current(j)
               /\ NotInText(j)' <=> NotInText(j)
               /\ j[2] \in TellsNow(j[1])' <=> j[2] \in TellsNow(j[1])
               /\ \A x : LastTells(text[j[1]], j[2], x) => LastTells(text'[j[1]], j[2], x)
    <2>1. next'[j] = next[j]
      BY <1>0, <1>2
    <2>2. served'[j] = served[j]
      BY <1>0, <1>2, <2>1 DEF BlockInOrder
    <2>3. Current(j)' = Current(j)
      BY <1>2, <2>1, <2>2 DEF Current
    <2>4. CASE j[1] # e
      <3>1. text'[j[1]] = text[j[1]]
        BY <1>4, <2>4 DEF Keys
      <3>2. QED
        BY <2>1, <2>2, <2>3, <3>1 DEF NotInText, TellsNow
    <2>5. CASE j[1] = e
      <3>1. j[2] # k[2]
        BY <2>5 DEF Keys, e
      <3>2. text'[j[1]] = new /\ text[j[1]] = lines
        BY <1>4, <2>5 DEF lines
      <3>3. NotInText(j)' <=> NotInText(j)
        BY <1>5, <3>1, <3>2 DEF NotInText
      <3>4. TellsNow(j[1])' = TellsNow(j[1]) \union {k[2]}
        <4>1. \A n \in OfThisBlock(lines) : new[n] = lines[n]
          BY <1>5 DEF OfThisBlock
        <4>2. {new[n].id : n \in OfThisBlock(new)} = {lines[n].id : n \in OfThisBlock(lines)} \union {k[2]}
          BY <1>1, <1>5, <4>1
        <4>3. QED
          BY <3>2, <4>2 DEF TellsNow
      <3>5. \A x : LastTells(text[j[1]], j[2], x) => LastTells(text'[j[1]], j[2], x)
        BY <1>5, <3>1, <3>2
      <3>6. QED
        BY <2>1, <2>2, <2>3, <3>1, <3>3, <3>4, <3>5
    <2>6. QED
      BY <2>4, <2>5
  <1>9. /\ LastTells(text'[k[1]], k[2], row) /\ text'[k[1]] # <<>> /\ text'[k[1]][1] = Header
        /\ \A f \in Entities \ {k[1]} : text'[f] = text[f]
    BY <1>3, <1>4, <1>5 DEF e
  <1>10. open = k[1]
    BY <1>2 DEF e
  <1>11. QED
    BY <1>2, <1>6, <1>7, <1>8, <1>9, <1>10

LEMMA StepProcess ==
    ASSUME BroadcastTypes, ServerInOrder, NEW k \in Keys, NEW row \in Content,
           ServerProcess(k, row), UNCHANGED <<topic, excused>>
    PROVE  ServerInOrder'
  <1>0. BlockInOrder /\ k[1] \in Entities /\ open \in Entities /\ NoEntity \notin Entities
    BY Names, ProcessTells DEF ServerInOrder, Keys
  <1>1. BlockInOrder'
    <2>1. ~bulk => next' = served'
      BY DEF ServerProcess, Server!Process
    <2>2. \A j \in Keys : j[1] # open => j # k
      BY ProcessTells
    <2>3. bulk => \A j \in Keys : j[1] # open => next'[j] = served'[j]
      BY <1>0, <2>2, ProcessTells DEF BlockInOrder
    <2>4. QED
      BY <1>0, <2>1, <2>3, ProcessTells DEF BlockInOrder
  <1>2. \A f \in Entities : TextShape(f)'
    <2>1. \A f \in Entities \ {k[1]} : TextShape(f)'
      BY ProcessTells DEF TextShape, ServerInOrder
    <2>2. TextShape(k[1])'
      BY ProcessTells DEF TextShape
    <2>3. QED
      BY <2>1, <2>2
  <1>3. TextInOrder(k)' /\ TopicInOrder(k)'
    BY ProcessTells DEF TextInOrder, TopicInOrder
  <1>4. ASSUME NEW j \in Keys \ {k} PROVE TextInOrder(j)' /\ TopicInOrder(j)'
    <2>1. TextInOrder(j) /\ TopicInOrder(j)
      BY DEF ServerInOrder
    <2>2. TextInOrder(j)'
      BY <2>1, ProcessTells DEF TextInOrder
    <2>3. TopicInOrder(j)'
      <3>1. Current(j)' = Current(j) /\ (NotInText(j)' <=> NotInText(j))
        BY ProcessTells
      <3>2. QED
        BY <2>1, <3>1 DEF TopicInOrder
    <2>4. QED
      BY <2>2, <2>3
  <1>5. QED
    BY <1>1, <1>2, <1>3, <1>4 DEF ServerInOrder

\* What the lines say when a block is closed, for a row that they tell.
LEMMA CloseTells ==
    ASSUME BroadcastTypes, ServerInOrder, Server!Close, NEW sent \in SUBSET Entities, Send(sent),
           NEW k \in Keys, k \notin excused'
    PROVE  /\ LastTells(text[k[1]], k[2], next[k]) /\ k \notin Shuffled
           /\ NotInText(k) => next[k] = Current(k) /\ k \notin excused
  <1>0. /\ BlockInOrder /\ TextShape(k[1]) /\ TextInOrder(k) /\ k[1] \in Entities
        /\ open # NoEntity /\ text \in [Entities -> Seq(Line)]
    BY TypesSplit DEF ServerInOrder, ServerTypes, Server!Close, Keys
  <1>1. /\ k \notin Dropped /\ k \notin Shuffled
        /\ k \in excused => k[2] \in TellsNow(k[1])
    BY DEF Send
  <1>2. CASE k[2] \in TellsNow(k[1])
    <2>1. OfThisBlock(text[k[1]]) # {} /\ ~NotInText(k)
      BY <1>0, <1>2, ToldIsInText
    <2>2. open = k[1]
      BY <1>0, <2>1 DEF TextShape
    <2>3. LastTells(text[k[1]], k[2], Current(k))
      BY <1>0, <1>2, <2>2 DEF TextInOrder
    <2>4. Current(k) = next[k]
      BY <1>0, <1>2, <2>2 DEF TextInOrder, Current, BlockInOrder
    <2>5. QED
      BY <1>1, <2>1, <2>3, <2>4
  <1>3. CASE k[2] \notin TellsNow(k[1])
    <2>1. k \notin excused
      BY <1>1, <1>3
    <2>2. LastTells(text[k[1]], k[2], Current(k))
      BY <1>0, <2>1 DEF TextInOrder
    <2>3. next[k] = Current(k)
      <3>1. CASE bulk /\ open = k[1]
        BY <1>0, <1>1, <1>3, <3>1 DEF TextInOrder, Current, Dropped
      <3>2. CASE ~(bulk /\ open = k[1])
        BY <1>0, <3>2 DEF Current, BlockInOrder
      <3>3. QED
        BY <3>1, <3>2
    <2>4. QED
      BY <1>1, <2>1, <2>2, <2>3
  <1>4. QED
    BY <1>2, <1>3

LEMMA StepSend ==
    ASSUME BroadcastTypes, ServerInOrder, Server!Close, NEW sent \in SUBSET Entities, Send(sent)
    PROVE  ServerInOrder'
  <1>0. /\ BlockInOrder /\ text \in [Entities -> Seq(Line)]
        /\ topic \in [Entities -> Seq(Messages)]
        /\ ~connected => \A e \in Entities : topic[e] = <<>>
        /\ NoEntity \notin Entities
    BY TypesSplit, Names DEF ServerInOrder, ServerTypes, LoadTypes, LoadsInOrder
  <1>1. open # NoEntity /\ open' = NoEntity /\ ~bulk' /\ next' = next /\ served' = next
    BY DEF Server!Close
  <1>2. \A e \in Entities : text'[e] = IF e \in sent THEN <<>> ELSE text[e]
    BY DEF Send
  <1>3. BlockInOrder'
    BY <1>1 DEF BlockInOrder
  <1>4. ASSUME NEW e \in Entities PROVE TextShape(e)'
    <2>1. TextShape(e)
      BY DEF ServerInOrder
    <2>2. QED
      BY <1>1, <1>2, <2>1 DEF TextShape
  <1>5. ASSUME NEW k \in Keys PROVE TextInOrder(k)' /\ TopicInOrder(k)'
    <2> DEFINE e == k[1]
               i == k[2]
    <2>1. e \in Entities /\ text[e] \in Seq(Line) /\ text[e] # <<>> /\ text[e][1] = Header
      BY <1>0, <1>1 DEF Keys, ServerInOrder, TextShape
    <2>2. Current(k)' = next[k]
      BY <1>1 DEF Current
    <2>3. e # open'
      BY <1>0, <1>1, <2>1
    <2>4. e \in sent => LinesOf(i, text'[e]) = {}
      BY <1>2, <2>1, EmptySeq DEF LinesOf
    <2>5. ASSUME k \notin excused'
          PROVE  /\ LastTells(text[e], i, next[k]) /\ k \notin Shuffled
                 /\ NotInText(k) => next[k] = Current(k) /\ k \notin excused
      BY <2>5, CloseTells
    <2>6. TextInOrder(k)'
      <3>1. ASSUME k \notin excused' PROVE LastTells(text'[e], i, next[k])
        <4>1. CASE e \in sent
          BY <2>4, <4>1 DEF LastTells
        <4>2. CASE e \notin sent
          BY <1>2, <2>1, <2>5, <3>1, <4>2
        <4>3. QED
          BY <4>1, <4>2
      <3>2. QED
        BY <1>1, <2>2, <2>3, <3>1 DEF TextInOrder
    <2>7. TopicInOrder(k)'
      <3> SUFFICES ASSUME k \notin excused', NotInText(k)', NEW n \in 1..Len(topic'[e]),
                          \A m \in n + 1 .. Len(topic'[e]) : LinesOf(i, topic'[e][m].lines) = {}
                   PROVE  Tells(topic'[e][n].lines, i, next[k])
        BY <2>2 DEF TopicInOrder
      <3>1. TopicInOrder(k) /\ topic[e] \in Seq(Messages)
        BY <1>0, <2>1 DEF ServerInOrder
      <3>2. ASSUME topic'[e] = topic[e], NotInText(k) PROVE Tells(topic'[e][n].lines, i, next[k])
        BY <2>5, <3>1, <3>2 DEF TopicInOrder
      <3>3. CASE e \notin sent
        <4>1. topic'[e] = topic[e] /\ text'[e] = text[e]
          BY <1>2, <2>1, <3>3 DEF Send
        <4>2. QED
          BY <3>2, <4>1 DEF NotInText
      <3>4. CASE e \in sent /\ ~connected
        <4>1. topic'[e] = <<>>
          BY <1>0, <2>1, <3>4 DEF Send
        <4>2. QED
          BY <4>1, EmptySeq
      <3>5. CASE e \in sent /\ connected
        <4> DEFINE message1 == [lines |-> Tail(text[e]), bulk |-> bulkUpdate[e]]
                   len == Len(topic[e])
        <4>1. /\ topic'[e] = Append(topic[e], message1) /\ message1.lines = Tail(text[e])
              /\ message1 \in Messages
          <5>1. Tail(text[e]) \in Seq(Line) /\ bulkUpdate[e] \in BOOLEAN
            BY <2>1, HeadTailProperties, TypesSplit DEF ServerTypes
          <5>2. QED
            BY <2>1, <3>5, <5>1 DEF Send, Messages
        <4> HIDE DEF message1
        <4>2. /\ len \in Nat /\ Len(topic'[e]) = len + 1
              /\ \A m \in 1..len : topic'[e][m] = topic[e][m]
              /\ topic'[e][len + 1] = message1
          BY <3>1, <4>1, AppendProperties, LenProperties
        <4> HIDE DEF len
        <4>3. CASE n = len + 1
          <5>1. Tells(Tail(text[e]), i, next[k])
            <6>1. ~\E m, l \in LinesOf(i, text[e]) :
                        /\ text[e][m].row = Absent
                        /\ text[e][l].row # Absent /\ \A x \in LinesOf(i, text[e]) : x <= l
              BY <2>5 DEF Shuffled
            <6>2. QED
              BY <2>1, <2>5, <6>1, MessageTells
          <5>2. QED
            BY <4>1, <4>2, <4>3, <5>1
        <4>4. CASE n # len + 1
          <5>1. n \in 1..len
            BY <4>2, <4>4
          <5>2. len + 1 \in n + 1 .. Len(topic'[e])
            BY <4>2, <5>1
          <5>3. LinesOf(i, text[e]) = {}
            BY <2>1, <4>1, <4>2, <5>2, MessageTells
          <5>4. \A m \in n + 1 .. len : LinesOf(i, topic[e][m].lines) = {}
            <6>1. \A m \in n + 1 .. len : m \in 1..len /\ m \in n + 1 .. Len(topic'[e])
              BY <4>2, <5>1
            <6>2. QED
              BY <4>2, <6>1
          <5>5. Tells(topic[e][n].lines, i, Current(k))
            BY <2>5, <3>1, <5>1, <5>3, <5>4 DEF TopicInOrder, NotInText, len
          <5>6. QED
            BY <2>5, <4>2, <5>1, <5>3, <5>5 DEF NotInText
        <4>5. QED
          BY <4>3, <4>4
      <3>6. QED
        BY <3>3, <3>4, <3>5
    <2>8. QED
      BY <2>6, <2>7
  <1>6. QED
    BY <1>3, <1>4, <1>5 DEF ServerInOrder

\* A message is taken from its topic.
LEMMA TakenTells ==
    ASSUME BroadcastTypes, ServerInOrder, NEW e \in Entities, Take(e), UNCHANGED excused
    PROVE  /\ ServerInOrder'
           /\ \A k \in Keys :
                 /\ Current(k)' = Current(k) /\ (NotInText(k)' <=> NotInText(k))
                 /\ k[1] # e => (NotInTopic(k)' <=> NotInTopic(k))
                 /\ k[1] = e /\ NotInTopic(k)' /\ k \notin excused /\ NotInText(k) =>
                       /\ Tells(Head(topic[e]).lines, k[2], Current(k))
                       /\ LinesOf(k[2], Head(topic[e]).lines) = {} => NotInTopic(k)
  <1>0. topic \in [Entities -> Seq(Messages)]
    BY TypesSplit DEF LoadTypes
  <1>1. /\ UNCHANGED <<streamVars, text>> /\ topic[e] # <<>>
        /\ topic' = [topic EXCEPT ![e] = Tail(@)]
    BY DEF Take
  <1> DEFINE old == topic[e]
             new == topic'[e]
  <1>2. /\ old \in Seq(Messages) /\ new \in Seq(Messages)
        /\ Len(old) \in Nat \ {0} /\ Len(new) = Len(old) - 1
        /\ \A n \in 1..Len(new) : new[n] = old[n + 1]
        /\ old[1] = Head(old)
    <2>1. old \in Seq(Messages) /\ new = Tail(old)
      BY <1>0, <1>1
    <2>2. Len(old) \in Nat \ {0}
      BY <1>1, <2>1, EmptySeq, LenProperties
    <2>3. old # <<>>
      BY <1>1
    <2>4. new \in Seq(Messages) /\ Len(new) = Len(old) - 1
      BY <2>1, <2>3, HeadTailProperties
    <2>5. \A n \in 1..Len(new) : new[n] = old[n + 1]
      BY <2>1, <2>3, HeadTailProperties
    <2>6. old[1] = Head(old)
      BY <2>1, <2>3
    <2>7. QED
      BY <2>1, <2>2, <2>4, <2>5, <2>6
  <1>3. \A f \in Entities \ {e} : topic'[f] = topic[f]
    BY <1>0, <1>1
  <1> HIDE DEF old, new
  <1>4. \A n \in 2..Len(old) : n - 1 \in 1..Len(new) /\ new[n - 1] = old[n]
    <2>1. \A n \in 2..Len(old) : n - 1 \in 1..Len(new) /\ (n - 1) + 1 = n
      BY <1>2
    <2>2. QED
      BY <1>2, <2>1
  <1>5. ASSUME NEW k \in Keys
        PROVE  Current(k)' = Current(k) /\ (NotInText(k)' <=> NotInText(k))
    BY <1>1 DEF Current, NotInText
  <1>6. ASSUME NEW k \in Keys PROVE TopicInOrder(k)'
    <2>1. TopicInOrder(k) /\ k[1] \in Entities
      BY DEF ServerInOrder, Keys
    <2>2. CASE k[1] # e
      BY <1>3, <1>5, <2>1, <2>2 DEF TopicInOrder
    <2>3. CASE k[1] = e
      <3> SUFFICES ASSUME k \notin excused, NotInText(k), NEW n \in 1..Len(new),
                          \A m \in n + 1 .. Len(new) : LinesOf(k[2], new[m].lines) = {}
                   PROVE  Tells(new[n].lines, k[2], Current(k))
        BY <1>5, <2>3 DEF TopicInOrder, new
      <3>1. n + 1 \in 1..Len(old) /\ new[n] = old[n + 1]
        BY <1>2
      <3>2. ASSUME NEW m \in (n + 1) + 1 .. Len(old) PROVE LinesOf(k[2], old[m].lines) = {}
        <4>1. m \in 2..Len(old) /\ m - 1 \in n + 1 .. Len(new)
          BY <1>2
        <4>2. QED
          BY <1>4, <4>1
      <3>3. QED
        BY <2>1, <2>3, <3>1, <3>2 DEF TopicInOrder, old
    <2>4. QED
      BY <2>2, <2>3
  <1>7. ServerInOrder'
    <2>1. BlockInOrder' /\ \A f \in Entities : TextShape(f)'
      BY <1>1 DEF ServerInOrder, BlockInOrder, TextShape
    <2>2. \A k \in Keys : TextInOrder(k)'
      <3>1. \A f : TellsNow(f)' = TellsNow(f)
        BY <1>1 DEF TellsNow
      <3>2. QED
        BY <1>1, <1>5, <3>1 DEF ServerInOrder, TextInOrder
    <2>3. QED
      BY <1>6, <2>1, <2>2 DEF ServerInOrder
  <1>8. ASSUME NEW k \in Keys
        PROVE  /\ k[1] # e => (NotInTopic(k)' <=> NotInTopic(k))
               /\ k[1] = e /\ NotInTopic(k)' /\ k \notin excused /\ NotInText(k) =>
                     /\ Tells(Head(topic[e]).lines, k[2], Current(k))
                     /\ LinesOf(k[2], Head(topic[e]).lines) = {} => NotInTopic(k)
    <2>1. TopicInOrder(k) /\ k[1] \in Entities
      BY DEF ServerInOrder, Keys
    <2>2. k[1] # e => (NotInTopic(k)' <=> NotInTopic(k))
      BY <1>3, <2>1 DEF NotInTopic
    <2>3. ASSUME k[1] = e, NotInTopic(k)'
          PROVE  \A n \in 2..Len(old) : LinesOf(k[2], old[n].lines) = {}
      BY <1>4, <2>3 DEF NotInTopic, new
    <2>4. ASSUME k[1] = e, NotInTopic(k)', k \notin excused, NotInText(k)
          PROVE  Tells(old[1].lines, k[2], Current(k))
      <3>1. 1 \in 1..Len(old) /\ 1 + 1 = 2
        BY <1>2
      <3>2. \A n \in 1 + 1 .. Len(old) : LinesOf(k[2], old[n].lines) = {}
        BY <2>3, <2>4, <3>1
      <3>3. QED
        BY <2>1, <2>4, <3>1, <3>2 DEF TopicInOrder, old
    <2>5. ASSUME k[1] = e, NotInTopic(k)', LinesOf(k[2], old[1].lines) = {} PROVE NotInTopic(k)
      <3>1. \A n \in 1..Len(old) : n = 1 \/ n \in 2..Len(old)
        BY <1>2
      <3>2. QED
        BY <2>3, <2>5, <3>1 DEF NotInTopic, old
    <2>6. QED
      BY <1>2, <2>2, <2>4, <2>5 DEF old
  <1>9. QED
    BY <1>5, <1>7, <1>8

LEMMA InitServer == Init => ServerInOrder
  <1> SUFFICES ASSUME Init PROVE ServerInOrder
    OBVIOUS
  <1>1. /\ ~bulk /\ next = served /\ open = NoEntity
        /\ \A e \in Entities : text[e] = <<>> /\ topic[e] = <<>>
    BY DEF Init
  <1>2. BlockInOrder /\ \A e \in Entities : TextShape(e)
    BY <1>1 DEF BlockInOrder, TextShape
  <1>3. ASSUME NEW k \in Keys PROVE TextInOrder(k) /\ TopicInOrder(k)
    <2>1. k[1] \in Entities
      BY DEF Keys
    <2>2. LinesOf(k[2], text[k[1]]) = {} /\ Len(topic[k[1]]) = 0
      BY <1>1, <2>1, EmptySeq DEF LinesOf
    <2>3. open # k[1]
      BY <1>1, <2>1, Names
    <2>4. QED
      BY <2>2, <2>3 DEF TextInOrder, TopicInOrder, LastTells
  <1>4. QED
    BY <1>2, <1>3 DEF ServerInOrder

LEMMA StepServer ==
    ASSUME BroadcastTypes, ServerInOrder, [Next]_vars
    PROVE  ServerInOrder'
  <1>1. ASSUME UNCHANGED <<streamVars, text, topic, excused>> PROVE ServerInOrder'
    <2>1. BlockInOrder' /\ \A e \in Entities : TextShape(e)'
      BY <1>1 DEF ServerInOrder, BlockInOrder, TextShape
    <2>2. ASSUME NEW k \in Keys PROVE TextInOrder(k)' /\ TopicInOrder(k)'
      <3>1. /\ Current(k)' = Current(k) /\ (NotInText(k)' <=> NotInText(k))
            /\ TellsNow(k[1])' = TellsNow(k[1])
        BY <1>1 DEF Current, NotInText, TellsNow
      <3>2. TextInOrder(k) /\ TopicInOrder(k)
        BY DEF ServerInOrder
      <3>3. TextInOrder(k)'
        BY <1>1, <3>1, <3>2 DEF TextInOrder
      <3>4. TopicInOrder(k)'
        BY <1>1, <3>1, <3>2 DEF TopicInOrder
      <3>5. QED
        BY <3>3, <3>4
    <2>3. QED
      BY <2>1, <2>2 DEF ServerInOrder
  <1>2. CASE ServerStep
    <2>1. ASSUME NEW sent \in SUBSET Entities, Server!Close, Send(sent) PROVE ServerInOrder'
      BY <2>1, StepSend
    <2>2. QED
      BY <1>2, <2>1, StepStart, StepStartBulk, StepProcess DEF ServerStep, ServerFinish,
                                                               ServerFinishFails
  <1>3. ASSUME NEW e \in Entities, Take(e), UNCHANGED excused PROVE ServerInOrder'
    BY <1>3, TakenTells
  <1>4. CASE \E e \in Entities : Begin(e) \/ Reject(e)
    <2>1. PICK e \in Entities : Take(e)
      BY <1>4 DEF Begin, Reject
    <2>2. UNCHANGED excused
      BY <2>1 DEF Take
    <2>3. QED
      BY <1>3, <2>1, <2>2
  <1>5. ASSUME NEW t \in Threads, Work(t) PROVE ServerInOrder'
    BY <1>1, <1>5 DEF Work, Process, FinishRows, Merge, Clear, Return, Idle
  <1>6. CASE Connect \/ Query \/ (\E e \in Entities : Subscribe(e))
              \/ (\E t \in Threads : ProcessFails(t) \/ FinishFails(t)) \/ UNCHANGED vars
    BY <1>1, <1>6 DEF Connect, Query, Subscribe, ProcessFails, FinishFails, vars
  <1>7. QED
    BY <1>2, <1>4, <1>5, <1>6 DEF Next
-----------------------------------------------------------------------------
(***************************************************************************)
(* The maps of a callback.                                                 *)
(***************************************************************************)

LEMMA RecordedNothing ==
    ASSUME NEW lines \in Seq(Line)
    PROVE  Recorded(NoUpdates, {}, lines, 0)
  <1>1. ASSUME NEW i \in Ids, NEW n \in LinesOf(i, lines) PROVE ~(n <= 0)
    BY LenProperties DEF LinesOf
  <1>2. \A i \in Ids : NoUpdates[i] = Unset
    BY Names DEF NoUpdates
  <1>3. QED
    BY <1>1, <1>2 DEF Recorded, RecordedRow

LEMMA RecordedOneMore ==
    ASSUME NEW lines \in Seq(Line), NEW done \in Nat, done < Len(lines),
           NEW updates \in Updates, NEW removals \in SUBSET Ids,
           Recorded(updates, removals, lines, done)
    PROVE  LET l == lines[done + 1]
           IN  /\ l = Header => \A row :
                     Recorded([updates EXCEPT ![NameId] = row], removals, lines, done + 1)
               /\ l # Header /\ l.row = Absent =>
                     Recorded(updates, removals \union {l.id}, lines, done + 1)
               /\ l # Header /\ l.row # Absent =>
                     Recorded([updates EXCEPT ![l.id] = l.row], removals, lines, done + 1)
  <1> DEFINE l == lines[done + 1]
  <1>1. /\ Len(lines) \in Nat /\ done + 1 \in Nat /\ done + 1 \in 1..Len(lines)
        /\ l \in Line
    BY LenProperties, ElementOfSeq
  <1>2. l # Header => l.id \in Ids /\ l.row \in Content /\ l.row # Unset
    BY <1>1, LineTypes, Names
  <1> HIDE DEF l
  <1>3. ASSUME NEW i \in Ids, NEW n \in LinesOf(i, lines)
        PROVE  /\ n \in Nat /\ (n <= done + 1 <=> n <= done \/ n = done + 1)
               /\ n = done + 1 => l # Header /\ i = l.id /\ lines[n] = l
               /\ ~(n <= done /\ n = done + 1) /\ (n <= done => n < done + 1)
               /\ ~(done + 1 < n /\ n <= done + 1)
    BY <1>1 DEF LinesOf, l
  <1>4. l # Header => done + 1 \in LinesOf(l.id, lines) /\ lines[done + 1] = l
    BY <1>1 DEF LinesOf, l
  <1>5. ASSUME NEW i \in Ids, l = Header \/ i # l.id, NEW x, NEW R, i \in R <=> i \in removals,
               RecordedRow(i, x, removals, lines, done)
        PROVE  RecordedRow(i, x, R, lines, done + 1)
    <2>1. \A n \in LinesOf(i, lines) : n <= done + 1 <=> n <= done
      BY <1>3, <1>5
    <2>2. QED
      BY <1>5, <2>1 DEF RecordedRow
  <1>6. ASSUME l = Header, NEW row
        PROVE  Recorded([updates EXCEPT ![NameId] = row], removals, lines, done + 1)
    <2> DEFINE put == [updates EXCEPT ![NameId] = row]
    <2>1. \A i \in Ids : put[i] = updates[i]
      BY Names DEF Updates
    <2> HIDE DEF put
    <2>2. \A i \in Ids : RecordedRow(i, put[i], removals, lines, done + 1)
      BY <1>5, <1>6, <2>1 DEF Recorded
    <2>3. QED
      BY <2>2 DEF Recorded, put
  <1>7. ASSUME l # Header, l.row = Absent
        PROVE  Recorded(updates, removals \union {l.id}, lines, done + 1)
    <2>1. \A i \in Ids : i # l.id => RecordedRow(i, updates[i], removals \union {l.id}, lines, done + 1)
      BY <1>5 DEF Recorded
    <2>2. RecordedRow(l.id, updates[l.id], removals \union {l.id}, lines, done + 1)
      <3> DEFINE x == updates[l.id]
      <3>1. RecordedRow(l.id, x, removals, lines, done)
        BY <1>2, <1>7 DEF Recorded
      <3> HIDE DEF x
      <3>2. \E n \in LinesOf(l.id, lines) : n <= done + 1 /\ lines[n].row = Absent
        BY <1>1, <1>4, <1>7
      <3>3. x = Unset => \A n \in LinesOf(l.id, lines) : n <= done + 1 => lines[n].row = Absent
        BY <1>2, <1>3, <1>7, <3>1 DEF RecordedRow
      <3>4. ASSUME x # Unset
            PROVE  \E n \in LinesOf(l.id, lines) :
                      /\ n <= done + 1 /\ lines[n].row = x /\ x # Absent
                      /\ \A m \in LinesOf(l.id, lines) :
                            n < m /\ m <= done + 1 => lines[m].row = Absent
        <4>1. PICK n \in LinesOf(l.id, lines) :
                      /\ n <= done /\ lines[n].row = x /\ x # Absent
                      /\ \A m \in LinesOf(l.id, lines) : n < m /\ m <= done => lines[m].row = Absent
          BY <3>1, <3>4 DEF RecordedRow
        <4>2. n <= done + 1
          BY <1>2, <1>3, <1>7, <4>1
        <4>3. \A m \in LinesOf(l.id, lines) : n < m /\ m <= done + 1 => lines[m].row = Absent
          BY <1>2, <1>3, <1>7, <4>1
        <4>4. QED
          BY <4>1, <4>2, <4>3
      <3>5. QED
        BY <3>2, <3>3, <3>4 DEF RecordedRow, x
    <2>3. QED
      BY <2>1, <2>2 DEF Recorded
  <1>8. ASSUME l # Header, l.row # Absent
        PROVE  Recorded([updates EXCEPT ![l.id] = l.row], removals, lines, done + 1)
    <2> DEFINE put == [updates EXCEPT ![l.id] = l.row]
    <2>1. l.id \in Ids /\ put[l.id] = l.row /\ \A i \in Ids : i # l.id => put[i] = updates[i]
      BY <1>2, <1>8, Names DEF Updates
    <2> HIDE DEF put
    <2>2. \A i \in Ids : i # l.id => RecordedRow(i, put[i], removals, lines, done + 1)
      BY <1>5, <2>1 DEF Recorded
    <2>3. RecordedRow(l.id, put[l.id], removals, lines, done + 1)
      <3>1. RecordedRow(l.id, updates[l.id], removals, lines, done)
        BY <2>1 DEF Recorded
      <3>2. l.id \in removals <=>
               \E n \in LinesOf(l.id, lines) : n <= done + 1 /\ lines[n].row = Absent
        BY <1>3, <1>8, <2>1, <3>1 DEF RecordedRow
      <3>3. done + 1 \in LinesOf(l.id, lines) /\ done + 1 <= done + 1 /\ lines[done + 1].row = l.row
        BY <1>1, <1>4, <1>8
      <3>4. \A m \in LinesOf(l.id, lines) : ~(done + 1 < m /\ m <= done + 1)
        BY <1>3, <2>1
      <3>5. QED
        BY <1>2, <1>8, <2>1, <3>2, <3>3, <3>4 DEF RecordedRow
    <2>4. QED
      BY <2>2, <2>3 DEF Recorded, put
  <1>9. QED
    BY <1>6, <1>7, <1>8 DEF l

\* What a callback makes of the maps when the lines of a message are in them.
Merged(update, removals, i, row) ==
    IF i \in removals THEN Absent ELSE IF update # Unset THEN update ELSE row

LEMMA MergedTells ==
    ASSUME NEW lines \in Seq(Line), NEW updates, NEW removals,
           Recorded(updates, removals, lines, Len(lines)), NEW i \in Ids, NEW old
    PROVE  /\ LinesOf(i, lines) = {} => Merged(updates[i], removals, i, old) = old
           /\ \A row : LinesOf(i, lines) # {} /\ Tells(lines, i, row) =>
                          Merged(updates[i], removals, i, old) = row
  <1> DEFINE own == LinesOf(i, lines)
             x == updates[i]
  <1>1. Len(lines) \in Nat /\ own \in SUBSET (1..Len(lines))
    BY LinesWithin
  <1>2. \A n \in own : n \in Nat /\ n <= Len(lines)
    BY <1>1
  <1>3. RecordedRow(i, x, removals, lines, Len(lines))
    BY DEF Recorded
  <1> HIDE DEF own, x
  <1>4. /\ i \in removals <=> \E n \in own : lines[n].row = Absent
        /\ x = Unset => \A n \in own : lines[n].row = Absent
    BY <1>2, <1>3 DEF RecordedRow, own
  <1>5. x # Unset =>
          \E n \in own : /\ lines[n].row = x /\ x # Absent
                         /\ \A m \in own : n < m => lines[m].row = Absent
    BY <1>2, <1>3 DEF RecordedRow, own
  <1>6. own = {} => Merged(x, removals, i, old) = old
    BY <1>4, <1>5 DEF Merged
  <1>7. ASSUME own # {}, NEW row, Tells(lines, i, row)
        PROVE  Merged(x, removals, i, old) = row
    <2>1. PICK last \in own : \A m \in own : m <= last
      BY <1>1, <1>7, LastOne
    <2>2. lines[last].row = row /\ (row # Absent => \A n \in own : lines[n].row # Absent)
      BY <1>7, <2>1 DEF Tells, LastTells, own
    <2>3. CASE i \in removals
      BY <1>4, <2>2, <2>3 DEF Merged
    <2>4. CASE i \notin removals
      <3>1. row # Absent /\ x # Unset
        BY <1>4, <2>1, <2>2, <2>4
      <3>2. PICK n \in own : lines[n].row = x /\ \A m \in own : n < m => lines[m].row = Absent
        BY <1>5, <3>1
      <3>3. ~(n < last)
        BY <2>2, <3>1, <3>2
      <3>4. n = last
        BY <1>2, <2>1, <3>3
      <3>5. QED
        BY <2>2, <2>4, <3>1, <3>2, <3>4 DEF Merged
    <2>5. QED
      BY <2>3, <2>4
  <1>8. QED
    BY <1>6, <1>7 DEF own, x
-----------------------------------------------------------------------------
(***************************************************************************)
(* The client's beans.                                                     *)
(***************************************************************************)

\* At most one thread fills the maps of an entity, unless the entity is broken.
LEMMA OneWorker ==
    ASSUME BroadcastTypes, NEW t \in Threads, at[t] \in {"query", "rows", "finish", "clear"},
           NEW e \in Entities
    PROVE  /\ Worker(e) \in Threads
           /\ e # EntityOf(t) => Worker(e) # t
           /\ e = EntityOf(t) /\ e \notin broken => Worker(e) = t
           /\ t # Loader /\ e # t => at[e] = "idle" /\ (e \notin broken => Worker(e) = e)
  BY TypesSplit, Names, WorkOf DEF EntityOf, Worker, LoadTypes, LoadsInOrder, LockTypes, LockInOrder,
                                   ListenersApart, Loading, Threads

LEMMA SilentSame ==
    ASSUME UNCHANGED <<streamVars, text, topic, excused>>, NEW k \in Keys
    PROVE  (Silent(k)' <=> Silent(k)) /\ Current(k)' = Current(k)
  BY DEF Silent, NotInText, NotInTopic, Current

\* An entity with which a step has nothing to do.
LEMMA Untouched ==
    ASSUME NEW e \in Entities, EntityInOrder(e), broken \subseteq broken',
           e \in subscribed' <=> e \in subscribed,
           \A k \in Keys : k[1] = e => cache'[k] = cache[k],
           e \notin broken' =>
              /\ Worker(e)' = Worker(e)
              /\ Unfinished(e)' <=> Unfinished(e)
              /\ Unmerged(e)' <=> Unmerged(e)
              /\ at'[Worker(e)] = "query" <=> at[Worker(e)] = "query"
              /\ message'[Worker(e)] = message[Worker(e)]
              /\ line'[Worker(e)] = line[Worker(e)]
              /\ updated'[e] = updated[e] /\ deleted'[e] = deleted[e]
              /\ \A k \in Keys :
                    k[1] = e /\ e \in subscribed /\ Silent(k)' =>
                        Silent(k) /\ Current(k)' = Current(k)
    PROVE  EntityInOrder(e)'
  <1>1. e \notin broken' => MapsInOrder(e)'
    BY DEF EntityInOrder, MapsInOrder, Uncleared
  <1>2. ASSUME NEW k \in Keys, k[1] = e, e \in subscribed' \ broken' PROVE CacheInOrder(k)'
    <2>1. CacheInOrder(k) /\ e \in subscribed \ broken
      BY <1>2 DEF EntityInOrder
    <2>2. cache'[k] = cache[k] /\ (Silent(k)' => Silent(k) /\ Current(k)' = Current(k))
      BY <1>2, <2>1
    <2>3. QED
      BY <1>2, <2>1, <2>2 DEF CacheInOrder
  <1>3. QED
    BY <1>1, <1>2 DEF EntityInOrder

LEMMA InitClient == Init => ClientInOrder
  <1> SUFFICES ASSUME Init, NEW e \in Entities PROVE EntityInOrder(e)
    BY DEF ClientInOrder
  <1>1. subscribed = {} /\ ~Uncleared(e) /\ \A k \in Keys : cache[k] = Absent
    BY Names DEF Init, Uncleared
  <1>2. QED
    BY <1>1 DEF EntityInOrder, MapsInOrder

\* A step of the server that makes nothing about a row be on its way has changed nothing
\* about it.
LEMMA ServerSilent ==
    ASSUME BroadcastTypes, ServerInOrder, ServerStep, connected, NEW k \in Keys, Silent(k)'
    PROVE  Silent(k) /\ Current(k)' = Current(k)
  <1>0. /\ text \in [Entities -> Seq(Line)] /\ topic \in [Entities -> Seq(Messages)]
        /\ k[1] \in Entities /\ BlockInOrder
        /\ k \notin excused' /\ NotInText(k)' /\ NotInTopic(k)'
    BY TypesSplit DEF ServerTypes, LoadTypes, Keys, ServerInOrder, Silent
  <1>1. ASSUME UNCHANGED <<topic, excused>>, NotInText(k), Current(k)' = Current(k)
        PROVE  Silent(k) /\ Current(k)' = Current(k)
    BY <1>0, <1>1 DEF Silent, NotInTopic
  <1>2. ASSUME NEW e \in Entities, ServerStart(e), UNCHANGED <<topic, excused>>
        PROVE  Silent(k) /\ Current(k)' = Current(k)
    <2>1. /\ ~bulk /\ UNCHANGED <<next, served, bulk>>
          /\ text'[k[1]] = Append(text[k[1]], Header)
      BY <1>0, <1>2 DEF ServerStart, Server!Open, BlockInOrder
    <2>2. Current(k)' = Current(k)
      BY <2>1 DEF Current
    <2>3. NotInText(k)
      BY <1>0, <2>1, AnotherHeader DEF NotInText
    <2>4. QED
      BY <1>1, <1>2, <2>2, <2>3
  <1>3. ASSUME ServerStartBulkUpdate, UNCHANGED <<topic, excused>>
        PROVE  Silent(k) /\ Current(k)' = Current(k)
    <2>1. /\ ~bulk /\ next = served /\ UNCHANGED <<open, served, text>>
          /\ next' = [j \in Keys |-> IF j[1] = open THEN Absent ELSE next[j]]
      BY <1>0, <1>3 DEF ServerStartBulkUpdate, Server!StartBulkUpdate, Server!EmptyOf, Server!Keys,
                        Keys, BlockInOrder
    <2>2. Current(k)' = Current(k)
      BY <2>1 DEF Current
    <2>3. NotInText(k)
      BY <1>0, <2>1 DEF NotInText
    <2>4. QED
      BY <1>1, <1>3, <2>2, <2>3
  <1>4. ASSUME NEW j \in Keys, NEW row \in Content, ServerProcess(j, row),
               UNCHANGED <<topic, excused>>
        PROVE  Silent(k) /\ Current(k)' = Current(k)
    <2>1. k # j
      BY <1>0, <1>4, ProcessTells
    <2>2. Current(k)' = Current(k) /\ NotInText(k)
      BY <1>0, <1>4, <2>1, ProcessTells
    <2>3. QED
      BY <1>1, <1>4, <2>2
  <1>5. ASSUME NEW sent \in SUBSET Entities, Server!Close, Send(sent)
        PROVE  Silent(k) /\ Current(k)' = Current(k)
    <2> DEFINE e == k[1]
               old == topic[e]
               sent1 == [lines |-> Tail(text[e]), bulk |-> bulkUpdate[e]]
    <2>1. /\ text[e] \in Seq(Line) /\ text[e] # <<>> /\ text[e][1] = Header
          /\ old \in Seq(Messages) /\ Len(old) \in Nat
      BY <1>0, <1>5, LenProperties DEF ServerInOrder, TextShape, Server!Close
    <2>2. /\ topic'[e] = (IF e \in sent THEN Append(old, sent1) ELSE old)
          /\ text'[e] = (IF e \in sent THEN <<>> ELSE text[e])
      BY <1>0, <1>5 DEF Send
    <2>3. sent1 \in Messages /\ sent1.lines = Tail(text[e])
      <3>1. Tail(text[e]) \in Seq(Line) /\ bulkUpdate[e] \in BOOLEAN
        BY <1>0, <2>1, HeadTailProperties, TypesSplit DEF ServerTypes
      <3>2. QED
        BY <3>1 DEF Messages
    <2> HIDE DEF sent1, old
    <2>4. NotInText(k) /\ NotInTopic(k)
      <3>1. CASE e \in sent
        <4>1. /\ Len(topic'[e]) = Len(old) + 1 /\ topic'[e][Len(old) + 1] = sent1
              /\ \A n \in 1..Len(old) : topic'[e][n] = old[n]
          BY <2>1, <2>2, <2>3, <3>1, AppendProperties
        <4>2. Len(old) + 1 \in 1..Len(topic'[e]) /\ \A n \in 1..Len(old) : n \in 1..Len(topic'[e])
          BY <2>1, <4>1
        <4>3. LinesOf(k[2], Tail(text[e])) = {}
          BY <1>0, <2>3, <4>1, <4>2 DEF NotInTopic
        <4>4. LinesOf(k[2], text[e]) = {}
          BY <2>1, <4>3, MessageTells
        <4>5. \A n \in 1..Len(old) : LinesOf(k[2], old[n].lines) = {}
          BY <1>0, <4>1, <4>2 DEF NotInTopic
        <4>6. QED
          BY <4>4, <4>5 DEF NotInText, NotInTopic, old
      <3>2. CASE e \notin sent
        BY <1>0, <2>2, <3>2 DEF NotInText, NotInTopic, old
      <3>3. QED
        BY <3>1, <3>2
    <2>5. next[k] = Current(k) /\ k \notin excused
      BY <1>0, <1>5, <2>4, CloseTells
    <2>6. Current(k)' = next[k]
      BY <1>5 DEF Server!Close, Current
    <2>7. QED
      BY <2>4, <2>5, <2>6 DEF Silent
  <1>6. QED
    BY <1>2, <1>3, <1>4, <1>5 DEF ServerStep, ServerFinish, ServerFinishFails

LEMMA StepServed ==
    ASSUME BroadcastTypes, ServerInOrder, ClientInOrder, ServerStep
    PROVE  ClientInOrder'
  <1> SUFFICES ASSUME NEW e \in Entities PROVE EntityInOrder(e)'
    BY DEF ClientInOrder
  <1>1. EntityInOrder(e)
    BY DEF ClientInOrder
  <1>2. UNCHANGED <<loadVars, lockVars, threadVars, beanVars, broken>>
    BY DEF ServerStep
  <1>3. /\ Worker(e)' = Worker(e) /\ (Unfinished(e)' <=> Unfinished(e))
        /\ (Unmerged(e)' <=> Unmerged(e))
    BY <1>2 DEF Worker, Unfinished, Unmerged
  <1>4. e \in subscribed => connected
    BY TypesSplit DEF LoadTypes, LoadsInOrder
  <1>5. ASSUME NEW k \in Keys, e \in subscribed, Silent(k)' PROVE Silent(k) /\ Current(k)' = Current(k)
    BY <1>4, <1>5, ServerSilent
  <1>6. QED
    BY <1>1, <1>2, <1>3, <1>5, Untouched

LEMMA StepConnect ==
    ASSUME BroadcastTypes, ClientInOrder, Connect
    PROVE  ClientInOrder'
  <1> SUFFICES ASSUME NEW e \in Entities PROVE EntityInOrder(e)'
    BY DEF ClientInOrder
  <1>1. EntityInOrder(e)
    BY DEF ClientInOrder
  <1>2. UNCHANGED <<streamVars, text, topic, excused, subscribed, loading, threadVars, beanVars, broken>>
    BY DEF Connect
  <1>3. /\ Worker(e)' = Worker(e) /\ (Unfinished(e)' <=> Unfinished(e))
        /\ (Unmerged(e)' <=> Unmerged(e))
    BY <1>2 DEF Worker, Unfinished, Unmerged
  <1>4. \A k \in Keys : Silent(k)' => Silent(k) /\ Current(k)' = Current(k)
    BY <1>2, SilentSame
  <1>5. QED
    BY <1>1, <1>2, <1>3, <1>4, Untouched

LEMMA StepSubscribe ==
    ASSUME BroadcastTypes, ClientInOrder, NEW new \in Entities, Subscribe(new)
    PROVE  ClientInOrder'
  <1> SUFFICES ASSUME NEW e \in Entities PROVE EntityInOrder(e)'
    BY DEF ClientInOrder
  <1>0. /\ at \in [Threads -> {"idle", "query", "rows", "finish", "clear"}]
        /\ EntityInOrder(e) /\ loading = NoEntity
    BY TypesSplit DEF ClientInOrder, ThreadTypes, LoadTypes, LoadsInOrder, Subscribe
  <1>1. /\ UNCHANGED <<streamVars, text, topic, excused, message, line, callbacks, clearing,
                       beanVars, broken>>
        /\ new \notin subscribed /\ subscribed' = subscribed \union {new} /\ loading' = new
        /\ at'[Loader] = "query" /\ \A t \in Threads \ {Loader} : at'[t] = at[t]
    BY <1>0, Names DEF Subscribe
  <1>2. CASE e # new
    <2>1. Worker(e) = e /\ Worker(e)' = e /\ at'[e] = at[e]
      BY <1>0, <1>1, <1>2, Names DEF Worker
    <2>2. (Unfinished(e)' <=> Unfinished(e)) /\ (Unmerged(e)' <=> Unmerged(e))
      BY <1>1, <2>1 DEF Unfinished, Unmerged
    <2>3. \A k \in Keys : Silent(k)' => Silent(k) /\ Current(k)' = Current(k)
      BY <1>1, SilentSame
    <2>4. QED
      BY <1>0, <1>1, <1>2, <2>1, <2>2, <2>3, Untouched
  <1>3. CASE e = new
    <2>1. Worker(e)' = Loader /\ ~Unfinished(e)'
      BY <1>1, <1>3 DEF Worker, Unfinished
    <2>2. e \notin broken => MapsInOrder(e)'
      BY <1>0, <1>1, <1>3, <2>1 DEF EntityInOrder, MapsInOrder, Uncleared
    <2>3. ASSUME NEW k \in Keys, k[1] = e PROVE CacheInOrder(k)'
      <3>1. cache'[k] = Absent
        BY <1>0, <1>1, <1>3, <2>3 DEF EntityInOrder
      <3>2. QED
        BY <1>1, <2>1, <2>3, <3>1 DEF CacheInOrder
    <2>4. QED
      BY <1>1, <1>3, <2>2, <2>3 DEF EntityInOrder
  <1>4. QED
    BY <1>2, <1>3

\* A row of which nothing is on its way is what readers see.
LEMMA SilentServed ==
    ASSUME BroadcastTypes, ServerInOrder, NEW k \in Keys, NotInText(k)
    PROVE  Current(k) = served[k]
  BY TypesSplit, ToldIsInText DEF ServerTypes, ServerInOrder, TextInOrder, Current

LEMMA StepQuery ==
    ASSUME BroadcastTypes, ServerInOrder, ClientInOrder, Query
    PROVE  ClientInOrder'
  <1> SUFFICES ASSUME NEW e \in Entities PROVE EntityInOrder(e)'
    BY DEF ClientInOrder
  <1>0. /\ at \in [Threads -> {"idle", "query", "rows", "finish", "clear"}]
        /\ message \in [Threads -> Messages] /\ served \in [Keys -> Content]
        /\ EntityInOrder(e) /\ loading \in Entities /\ loading \in subscribed /\ line[Loader] = 0
        /\ updated \in [Entities -> Updates] /\ deleted \in [Entities -> SUBSET Ids]
    BY TypesSplit, WorkOf, Names DEF ClientInOrder, ThreadTypes, ThreadsInOrder, LoadTypes,
                                     ServerTypes, BeanTypes, Query, EntityOf
  <1>1. /\ UNCHANGED <<streamVars, text, topic, excused, loadVars, line, callbacks, clearing,
                       beanVars, broken>>
        /\ at[Loader] = "query"
        /\ at'[Loader] = "rows" /\ message'[Loader].lines = Answer(loading)
        /\ \A t \in Threads \ {Loader} : at'[t] = at[t] /\ message'[t] = message[t]
    BY <1>0, Names DEF Query, Messages
  <1>same. \A k \in Keys : (Silent(k)' <=> Silent(k)) /\ Current(k)' = Current(k)
    BY <1>1, SilentSame
  <1>2. CASE e # loading
    <2>1. Worker(e) = e /\ Worker(e)' = e /\ at'[e] = at[e] /\ message'[e] = message[e]
      BY <1>1, <1>2, Names DEF Worker
    <2>2. (Unfinished(e)' <=> Unfinished(e)) /\ (Unmerged(e)' <=> Unmerged(e))
      BY <1>1, <2>1 DEF Unfinished, Unmerged
    <2>3. QED
      BY <1>0, <1>1, <1>same, <2>1, <2>2, Untouched
  <1>3. CASE e = loading
    <2>1. /\ Worker(e) = Loader /\ Worker(e)' = Loader
          /\ ~Unfinished(e) /\ Unfinished(e)' /\ Unmerged(e)'
      BY <1>1, <1>3 DEF Worker, Unfinished, Unmerged
    <2>2. /\ Answer(e) \in Seq(Line)
          /\ \A i \in Ids : /\ LinesOf(i, Answer(e)) = {} <=> served[<<e, i>>] = Absent
                            /\ Tells(Answer(e), i, served[<<e, i>>])
      BY <1>0, AnswerTells
    <2>3. ASSUME e \notin broken PROVE MapsInOrder(e)'
      <3>1. updated[e] = NoUpdates /\ deleted[e] = {}
        BY <1>0, <2>1, <2>3 DEF EntityInOrder, MapsInOrder, Uncleared
      <3>2. Recorded(NoUpdates, {}, Answer(e), 0)
        BY <2>2, RecordedNothing
      <3>3. QED
        BY <1>0, <1>1, <1>3, <2>1, <3>1, <3>2 DEF MapsInOrder
    <2>4. ASSUME NEW k \in Keys, k[1] = e, e \notin broken PROVE CacheInOrder(k)'
      <3>1. cache[k] = Absent
        <4>1. CacheInOrder(k)
          BY <1>0, <1>3, <2>4 DEF EntityInOrder
        <4>2. QED
          BY <1>1, <2>1, <2>4, <4>1 DEF CacheInOrder
      <3>2. k[2] \in Ids /\ k = <<e, k[2]>>
        BY <2>4 DEF Keys
      <3>3. LinesOf(k[2], Answer(e)) = {} => served[k] = Absent
        BY <2>2, <3>2
      <3>4. Tells(Answer(e), k[2], served[k])
        BY <2>2, <3>2
      <3>5. Silent(k) => Current(k) = served[k]
        BY SilentServed DEF Silent
      <3>6. QED
        BY <1>1, <1>3, <1>same, <2>1, <2>4, <3>1, <3>3, <3>4, <3>5 DEF CacheInOrder
    <2>5. QED
      BY <1>0, <1>1, <1>3, <2>3, <2>4 DEF EntityInOrder
  <1>4. QED
    BY <1>2, <1>3

\* Entities that are broken, as far as the invariant goes.
LEMMA Broken ==
    ASSUME NEW e \in Entities, EntityInOrder(e), e \in broken',
           e \in subscribed' <=> e \in subscribed,
           \A k \in Keys : k[1] = e /\ e \notin subscribed => cache'[k] = cache[k]
    PROVE  EntityInOrder(e)'
  BY DEF EntityInOrder

LEMMA StepTake ==
    ASSUME BroadcastTypes, ServerInOrder, ClientInOrder, NEW t \in Entities, Begin(t) \/ Reject(t)
    PROVE  ClientInOrder'
  <1> SUFFICES ASSUME NEW e \in Entities PROVE EntityInOrder(e)'
    BY DEF ClientInOrder
  <1>0. /\ at \in [Threads -> {"idle", "query", "rows", "finish", "clear"}]
        /\ message \in [Threads -> Messages] /\ topic \in [Entities -> Seq(Messages)]
        /\ EntityInOrder(e) /\ t \in Threads /\ t # Loader /\ line[t] = 0
    BY TypesSplit, Names DEF ClientInOrder, ThreadTypes, ThreadsInOrder, LoadTypes, Take, Begin,
                             Reject
  <1>1. /\ UNCHANGED <<streamVars, text, excused, loadVars, line, callbacks, clearing, beanVars>>
        /\ Take(t) /\ at[t] = "idle" /\ topic[t] # <<>>
        /\ Loading \subseteq broken' /\ broken \subseteq broken'
    BY DEF Begin, Reject, Take
  <1>2. /\ \A u \in Threads \ {t} : at'[u] = at[u] /\ message'[u] = message[u]
        /\ e \notin broken' => loading # e /\ Worker(e) = e /\ Worker(e)' = e
    <2>1. \A u \in Threads \ {t} : at'[u] = at[u] /\ message'[u] = message[u]
      BY <1>0, <1>1 DEF Begin, Reject
    <2>2. e \notin broken' => loading # e
      BY <1>1, Names DEF Loading
    <2>3. QED
      BY <1>1, <2>1, <2>2 DEF Worker
  <1>tells. /\ \A k \in Keys :
                  /\ Current(k)' = Current(k) /\ (NotInText(k)' <=> NotInText(k))
                  /\ k[1] # t => (NotInTopic(k)' <=> NotInTopic(k))
                  /\ k[1] = t /\ NotInTopic(k)' /\ k \notin excused /\ NotInText(k) =>
                        /\ Tells(Head(topic[t]).lines, k[2], Current(k))
                        /\ LinesOf(k[2], Head(topic[t]).lines) = {} => NotInTopic(k)
    BY <1>1, TakenTells
  <1>3. CASE e # t /\ e \notin broken'
    <2>1. /\ Worker(e)' = Worker(e)
          /\ at'[Worker(e)] = at[Worker(e)] /\ message'[Worker(e)] = message[Worker(e)]
      BY <1>2, <1>3, Names
    <2>2. (Unfinished(e)' <=> Unfinished(e)) /\ (Unmerged(e)' <=> Unmerged(e))
      BY <1>1, <2>1 DEF Unfinished, Unmerged
    <2>3. \A k \in Keys : k[1] = e /\ Silent(k)' => Silent(k) /\ Current(k)' = Current(k)
      BY <1>1, <1>3, <1>tells DEF Silent
    <2>4. QED
      BY <1>0, <1>1, <2>1, <2>2, <2>3, Untouched
  <1>4. CASE e \in broken'
    BY <1>0, <1>1, <1>4, Broken
  <1>5. CASE e = t /\ e \notin broken'
    <2>1. /\ Begin(t) /\ \A f \in subscribed : ~Uncleared(f)
          /\ at'[t] = "rows" /\ message'[t] = Head(topic[t])
      BY <1>0, <1>5 DEF Begin, Reject
    <2>2. ~Unfinished(e) /\ ~Unmerged(e) /\ Unfinished(e)' /\ Unmerged(e)'
      BY <1>1, <1>2, <1>5, <2>1 DEF Unfinished, Unmerged
    <2>3. MapsInOrder(e)'
      <3>1. ~Uncleared(e)
        BY <1>0, <1>1, <1>5, <2>2 DEF EntityInOrder, MapsInOrder
      <3>2. updated[e] = NoUpdates /\ deleted[e] = {}
        BY <3>1 DEF Uncleared
      <3>3. message'[t].lines \in Seq(Line)
        <4>1. topic[t] \in Seq(Messages) /\ topic[t] # <<>>
          BY <1>0, <1>1
        <4>2. Head(topic[t]) \in Messages
          BY <4>1, HeadTailProperties
        <4>3. QED
          BY <2>1, <4>2 DEF Messages
      <3>4. Recorded(NoUpdates, {}, message'[t].lines, 0)
        BY <3>3, RecordedNothing
      <3>5. Worker(e)' = t /\ line'[t] = 0 /\ updated'[e] = NoUpdates /\ deleted'[e] = {}
        BY <1>0, <1>1, <1>2, <1>5, <3>2
      <3>6. QED
        BY <3>4, <3>5 DEF MapsInOrder, Uncleared
    <2>4. ASSUME NEW k \in Keys, k[1] = e, e \in subscribed PROVE CacheInOrder(k)'
      <3>1. CacheInOrder(k)
        BY <1>0, <1>1, <1>5, <2>4 DEF EntityInOrder
      <3>2. Worker(k[1]) = t /\ Worker(k[1])' = t /\ Current(k)' = Current(k) /\ cache'[k] = cache[k]
        BY <1>1, <1>2, <1>5, <1>tells, <2>4
      <3>3. ASSUME Silent(k)', LinesOf(k[2], message'[t].lines) # {}
            PROVE  Tells(message'[t].lines, k[2], Current(k))
        BY <1>1, <1>5, <1>tells, <2>1, <2>4, <3>3 DEF Silent
      <3>4. ASSUME Silent(k)', LinesOf(k[2], message'[t].lines) = {}
            PROVE  cache[k] = Current(k)
        <4>1. Silent(k)
          BY <1>1, <1>5, <1>tells, <2>1, <2>4, <3>4 DEF Silent
        <4>2. QED
          BY <1>1, <2>2, <2>4, <3>1, <3>2, <4>1 DEF CacheInOrder
      <3>5. t # Loader
        BY <1>0
      <3>6. QED
        BY <2>1, <2>2, <2>4, <3>2, <3>3, <3>4, <3>5 DEF CacheInOrder
    <2>5. QED
      BY <1>0, <1>1, <1>5, <2>3, <2>4 DEF EntityInOrder
  <1>6. QED
    BY <1>3, <1>4, <1>5

\* An entity that is not the one whose rows a thread handles.
LEMMA Elsewhere ==
    ASSUME BroadcastTypes, NEW t \in Threads, at[t] \in {"rows", "finish", "clear"},
           UNCHANGED <<streamVars, text, topic, excused, subscribed>>, broken \subseteq broken',
           loading' = loading \/ (t = Loader /\ loading' = NoEntity),
           \A u \in Threads \ {t} :
              /\ at'[u] = at[u] /\ message'[u] = message[u] /\ line'[u] = line[u]
              /\ callbacks'[u] = callbacks[u] /\ clearing'[u] = clearing[u],
           NEW e \in Entities, EntityInOrder(e), e # EntityOf(t),
           e \notin broken' => updated'[e] = updated[e] /\ deleted'[e] = deleted[e],
           \A k \in Keys : k[1] = e => cache'[k] = cache[k]
    PROVE  EntityInOrder(e)'
  <1>1. Worker(e) \in Threads \ {t}
    BY OneWorker
  <1>2. Worker(e)' = Worker(e)
    BY <1>1, Names DEF Worker
  <1>3. (Unfinished(e)' <=> Unfinished(e)) /\ (Unmerged(e)' <=> Unmerged(e))
    BY <1>1, <1>2 DEF Unfinished, Unmerged
  <1>4. \A k \in Keys : Silent(k)' => Silent(k) /\ Current(k)' = Current(k)
    BY SilentSame
  <1>5. QED
    BY <1>1, <1>2, <1>3, <1>4, Untouched

LEMMA StepProcessRow ==
    ASSUME BroadcastTypes, ClientInOrder, NEW t \in Threads, Process(t)
    PROVE  ClientInOrder'
  <1> SUFFICES ASSUME NEW e \in Entities PROVE EntityInOrder(e)'
    BY DEF ClientInOrder
  <1> DEFINE f == EntityOf(t)
             lines == message[t].lines
             done == line[t]
             l == lines[done + 1]
  <1>0. /\ EntityInOrder(e) /\ at[t] = "rows" /\ f \in Entities
        /\ updated \in [Entities -> Updates] /\ deleted \in [Entities -> SUBSET Ids]
        /\ lines \in Seq(Line) /\ line \in [Threads -> Nat] /\ done \in Nat /\ done < Len(lines)
    BY TypesSplit, WorkOf DEF ClientInOrder, Process, BeanTypes, ThreadTypes, ThreadsInOrder, Messages
  <1>1. UNCHANGED <<streamVars, text, topic, loadVars, at, message, callbacks, clearing, cache,
                    excused, broken>>
    BY DEF Process
  <1>2. line'[t] = done + 1 /\ \A u \in Threads \ {t} : line'[u] = line[u]
    BY <1>0 DEF Process
  <1>3. \/ f \notin subscribed /\ UNCHANGED <<updated, deleted>>
        \/ /\ f \in subscribed /\ l = Header /\ UNCHANGED deleted
           /\ updated' \in {[updated EXCEPT ![f][NameId] = 0]} \union
                              (IF Racing(f) THEN {updated} ELSE {})
        \/ /\ f \in subscribed /\ l # Header /\ l.row = Absent
           /\ UNCHANGED updated /\ deleted' = [deleted EXCEPT ![f] = @ \union {l.id}]
        \/ /\ f \in subscribed /\ l # Header /\ l.row # Absent
           /\ UNCHANGED deleted
           /\ updated' \in {[updated EXCEPT ![f][l.id] = l.row]} \union
                              (IF Racing(f) THEN {updated} ELSE {})
    <2>1. CASE l = Header
      <3>1. AsRow(l) = [id |-> NameId, row |-> 0] /\ 0 # Absent
        BY <2>1, ThreadsAssumption DEF AsRow
      <3>2. QED
        BY <2>1, <3>1 DEF Process
    <2>2. CASE l # Header
      <3>1. AsRow(l) = l
        BY <2>2 DEF AsRow
      <3>2. QED
        BY <2>2, <3>1 DEF Process
    <2>3. QED
      BY <2>1, <2>2
  <1> HIDE DEF f, lines, done, l
  <1>4. CASE e # f
    <2>1. updated'[e] = updated[e] /\ deleted'[e] = deleted[e]
      BY <1>0, <1>3, <1>4
    <2>2. QED
      BY <1>0, <1>1, <1>2, <1>4, <2>1, Elsewhere DEF f
  <1>5. CASE e = f /\ e \in broken
    BY <1>0, <1>1, <1>5, Broken
  <1>6. CASE e = f /\ e \notin broken
    <2>1. Worker(e) = t /\ Worker(e)' = t
      BY <1>0, <1>1, <1>6, OneWorker DEF f, Worker
    <2>2. ~Racing(e)
      BY <1>0, <1>6, TypesSplit DEF Racing, LoadTypes, LoadsInOrder, Loading
    <2>3. /\ (Unfinished(e)' <=> Unfinished(e)) /\ (Unmerged(e)' <=> Unmerged(e))
          /\ Unfinished(e)
      BY <1>0, <1>1, <2>1 DEF Unfinished, Unmerged
    <2>4. MapsInOrder(e)'
      <3>1. CASE e \notin subscribed
        BY <1>0, <1>1, <1>3, <1>6, <3>1 DEF EntityInOrder, MapsInOrder, Uncleared
      <3>2. CASE e \in subscribed
        <4>1. Recorded(updated[e], deleted[e], lines, done)
          BY <1>0, <1>6, <2>1, <2>3, <3>2 DEF EntityInOrder, MapsInOrder, lines, done
        <4>2. updated[e] \in Updates /\ deleted[e] \in SUBSET Ids
          BY <1>0
        <4>3. /\ l = Header => \A row :
                    Recorded([updated[e] EXCEPT ![NameId] = row], deleted[e], lines, done + 1)
              /\ l # Header /\ l.row = Absent =>
                    Recorded(updated[e], deleted[e] \union {l.id}, lines, done + 1)
              /\ l # Header /\ l.row # Absent =>
                    Recorded([updated[e] EXCEPT ![l.id] = l.row], deleted[e], lines, done + 1)
          BY <1>0, <4>1, <4>2, RecordedOneMore DEF l
        <4>4. \/ /\ l = Header /\ deleted'[e] = deleted[e]
                 /\ updated'[e] = [updated[e] EXCEPT ![NameId] = 0]
              \/ /\ l # Header /\ l.row = Absent
                 /\ updated'[e] = updated[e] /\ deleted'[e] = deleted[e] \union {l.id}
              \/ /\ l # Header /\ l.row # Absent
                 /\ updated'[e] = [updated[e] EXCEPT ![l.id] = l.row] /\ deleted'[e] = deleted[e]
          BY <1>0, <1>3, <1>6, <2>2, <3>2
        <4>5. Recorded(updated'[e], deleted'[e], lines, done + 1)
          BY <4>3, <4>4
        <4>6. message'[t].lines = lines
          BY <1>1 DEF lines
        <4>7. QED
          BY <1>1, <1>2, <2>1, <2>3, <3>2, <4>5, <4>6 DEF MapsInOrder
      <3>3. QED
        BY <3>1, <3>2
    <2>5. ASSUME NEW k \in Keys, k[1] = e, e \in subscribed PROVE CacheInOrder(k)'
      <3>1. CacheInOrder(k)
        BY <1>0, <1>6, <2>5 DEF EntityInOrder
      <3>2. (Silent(k)' <=> Silent(k)) /\ Current(k)' = Current(k)
        BY <1>1, SilentSame
      <3>3. QED
        BY <1>1, <2>1, <2>3, <2>5, <3>1, <3>2 DEF CacheInOrder
    <2>6. QED
      BY <1>0, <1>1, <2>4, <2>5 DEF EntityInOrder
  <1>7. QED
    BY <1>4, <1>5, <1>6

LEMMA StepProcessFails ==
    ASSUME BroadcastTypes, ClientInOrder, NEW t \in Threads, ProcessFails(t)
    PROVE  ClientInOrder'
  <1> SUFFICES ASSUME NEW e \in Entities PROVE EntityInOrder(e)'
    BY DEF ClientInOrder
  <1>0. /\ EntityInOrder(e) /\ at[t] = "rows"
        /\ at \in [Threads -> {"idle", "query", "rows", "finish", "clear"}]
        /\ message \in [Threads -> Messages] /\ line \in [Threads -> Nat]
    BY TypesSplit DEF ClientInOrder, ProcessFails, ThreadTypes, ThreadsInOrder
  <1>1. /\ UNCHANGED <<streamVars, text, topic, excused, subscribed, callbacks, clearing, beanVars>>
        /\ broken' = broken \union Loading \union {EntityOf(t)}
        /\ loading' = IF t = Loader THEN NoEntity ELSE loading
        /\ \A u \in Threads \ {t} :
              at'[u] = at[u] /\ message'[u] = message[u] /\ line'[u] = line[u]
    BY <1>0 DEF ProcessFails
  <1>2. CASE e # EntityOf(t)
    BY <1>0, <1>1, <1>2, Elsewhere
  <1>3. CASE e = EntityOf(t)
    BY <1>0, <1>1, <1>3, Broken
  <1>4. QED
    BY <1>2, <1>3

LEMMA StepFinishRows ==
    ASSUME BroadcastTypes, ClientInOrder, NEW t \in Threads, FinishRows(t)
    PROVE  ClientInOrder'
  <1> SUFFICES ASSUME NEW e \in Entities PROVE EntityInOrder(e)'
    BY DEF ClientInOrder
  <1>0. /\ EntityInOrder(e) /\ at[t] = "rows"
        /\ at \in [Threads -> {"idle", "query", "rows", "finish", "clear"}]
        /\ callbacks \in [Threads -> SUBSET subscribed]
    BY TypesSplit DEF ClientInOrder, FinishRows, ThreadTypes
  <1>1. /\ UNCHANGED <<streamVars, text, topic, excused, loadVars, message, line, clearing,
                       beanVars, broken>>
        /\ at'[t] = "finish" /\ callbacks'[t] = IF t = Loader THEN {loading} ELSE subscribed
        /\ \A u \in Threads \ {t} : at'[u] = at[u] /\ callbacks'[u] = callbacks[u]
    BY <1>0 DEF FinishRows
  <1>2. CASE e # EntityOf(t)
    BY <1>0, <1>1, <1>2, Elsewhere
  <1>3. CASE e = EntityOf(t) /\ e \in broken
    BY <1>0, <1>1, <1>3, Broken
  <1>4. CASE e = EntityOf(t) /\ e \notin broken
    <2>1. Worker(e) = t /\ Worker(e)' = t
      BY <1>0, <1>1, <1>4, OneWorker DEF Worker
    <2>2. CASE e \in subscribed
      <3>1. e \in callbacks'[t]
        BY <1>1, <1>4, <2>2 DEF EntityOf
      <3>2. Unfinished(e) /\ Unmerged(e) /\ Unfinished(e)' /\ Unmerged(e)'
        BY <1>0, <1>1, <2>1, <3>1 DEF Unfinished, Unmerged
      <3>3. \A k \in Keys : Silent(k)' => Silent(k) /\ Current(k)' = Current(k)
        BY <1>1, SilentSame
      <3>4. QED
        BY <1>0, <1>1, <2>1, <3>2, <3>3, Untouched
    <2>3. CASE e \notin subscribed
      BY <1>0, <1>1, <2>3 DEF EntityInOrder, MapsInOrder, Uncleared
    <2>4. QED
      BY <2>2, <2>3
  <1>5. QED
    BY <1>2, <1>3, <1>4

\* A listener finishes the callbacks of other entities, too: nobody is filling their maps.
LEMMA OthersAtRest ==
    ASSUME BroadcastTypes, ClientInOrder, NEW t \in Threads, at[t] \in {"finish", "clear"},
           NEW f \in callbacks[t], f # EntityOf(t), f \notin broken
    PROVE  /\ Worker(f) = f /\ f # t /\ f \in Entities
           /\ updated[f] = NoUpdates /\ deleted[f] = {}
  <1>0. /\ f \in subscribed /\ f \in Entities /\ MapsInOrder(f)
        /\ t = Loader => callbacks[t] \subseteq Loading
    BY TypesSplit DEF ThreadTypes, ThreadsInOrder, LoadTypes, ClientInOrder, EntityInOrder
  <1>1. t # Loader
    BY <1>0 DEF EntityOf, Loading
  <1>2. f # t /\ at[f] = "idle" /\ Worker(f) = f
    BY <1>0, <1>1, OneWorker DEF EntityOf
  <1>3. ~Unfinished(f)
    BY <1>2 DEF Unfinished
  <1>4. QED
    BY <1>0, <1>2, <1>3 DEF MapsInOrder, Uncleared

LEMMA StepMerge ==
    ASSUME BroadcastTypes, ClientInOrder, NEW t \in Threads, NEW f \in Entities, Merge(t, f)
    PROVE  ClientInOrder'
  <1> SUFFICES ASSUME NEW e \in Entities PROVE EntityInOrder(e)'
    BY DEF ClientInOrder
  <1>0. /\ EntityInOrder(e) /\ at[t] = "finish" /\ f \in callbacks[t] /\ f \in subscribed
        /\ at \in [Threads -> {"idle", "query", "rows", "finish", "clear"}]
        /\ clearing \in [Threads -> Entities \union {NoEntity}]
        /\ cache \in [CacheKeys -> Content]
        /\ line[t] = Len(message[t].lines) /\ message[t].lines \in Seq(Line)
    BY TypesSplit DEF ClientInOrder, Merge, ThreadTypes, ThreadsInOrder, BeanTypes, Messages
  <1>1. /\ UNCHANGED <<streamVars, text, topic, excused, loadVars, message, line, callbacks,
                       updated, deleted, broken>>
        /\ at'[t] = "clear" /\ clearing'[t] = f
        /\ \A u \in Threads \ {t} : at'[u] = at[u] /\ clearing'[u] = clearing[u]
    BY <1>0 DEF Merge
  <1>2. /\ \A k \in Keys : k[1] # f => cache'[k] = cache[k]
        /\ \A k \in Keys :
              k[1] = f => cache'[k] = Merged(updated[f][k[2]], deleted[f], k[2], cache[k])
    BY <1>0, Names DEF Merge, Merged
  <1>3. \A k \in Keys : (Silent(k)' <=> Silent(k)) /\ Current(k)' = Current(k)
    BY <1>1, SilentSame
  <1>4. CASE e \in broken
    BY <1>0, <1>1, <1>2, <1>4, Broken
  <1>5. CASE e # EntityOf(t) /\ e \notin broken
    <2>1. \A k \in Keys : k[1] = e => cache'[k] = cache[k]
      <3>1. CASE e # f
        BY <1>2, <3>1
      <3>2. CASE e = f
        <4>1. updated[f] = NoUpdates /\ deleted[f] = {}
          BY <1>0, <1>5, <3>2, OthersAtRest
        <4>2. \A k \in Keys : k[1] = f => updated[f][k[2]] = Unset
          BY <4>1, Names DEF NoUpdates, Keys
        <4>3. QED
          BY <1>2, <3>2, <4>1, <4>2 DEF Merged
      <3>3. QED
        BY <3>1, <3>2
    <2>2. QED
      BY <1>0, <1>1, <1>5, <2>1, Elsewhere
  <1>6. CASE e = EntityOf(t) /\ e \notin broken
    <2>1. Worker(e) = t /\ Worker(e)' = t
      BY <1>0, <1>1, <1>6, OneWorker DEF Worker
    <2>2. Unfinished(e)' <=> Unfinished(e)
      BY <1>0, <1>1, <2>1 DEF Unfinished
    <2>3. CASE e # f
      <3>1. Unmerged(e)' <=> Unmerged(e)
        BY <1>0, <1>1, <2>1, <2>2, <2>3 DEF Unmerged
      <3>2. QED
        BY <1>0, <1>1, <1>2, <1>3, <2>1, <2>2, <2>3, <3>1, Untouched
    <2>4. CASE e = f
      <3>1. Unfinished(e) /\ Unmerged(e) /\ ~Unmerged(e)'
        BY <1>0, <1>1, <2>1, <2>4 DEF Unfinished, Unmerged
      <3>2. MapsInOrder(e)'
        <4>1. MapsInOrder(e)
          BY <1>0, <1>6 DEF EntityInOrder
        <4>2. QED
          BY <1>1, <2>1, <2>2, <4>1 DEF MapsInOrder, Uncleared
      <3>3. ASSUME NEW k \in Keys, k[1] = e PROVE CacheInOrder(k)'
        <4> DEFINE lines == message[t].lines
        <4>1. CacheInOrder(k) /\ k[2] \in Ids
          BY <1>0, <1>6, <2>4, <3>3 DEF EntityInOrder, Keys
        <4>2. Recorded(updated[e], deleted[e], lines, Len(lines))
          BY <1>0, <1>6, <2>1, <2>4, <3>1 DEF EntityInOrder, MapsInOrder
        <4>3. cache'[k] = Merged(updated[e][k[2]], deleted[e], k[2], cache[k])
          BY <1>2, <2>4, <3>3
        <4>4. lines \in Seq(Line)
          BY <1>0
        <4> HIDE DEF lines
        <4>5. /\ LinesOf(k[2], lines) = {} => cache'[k] = cache[k]
              /\ LinesOf(k[2], lines) # {} /\ Tells(lines, k[2], Current(k)) =>
                    cache'[k] = Current(k)
          <5> DEFINE merged == Merged(updated[e][k[2]], deleted[e], k[2], cache[k])
          <5>1. /\ LinesOf(k[2], lines) = {} => merged = cache[k]
                /\ \A row : LinesOf(k[2], lines) # {} /\ Tells(lines, k[2], row) => merged = row
            BY <4>1, <4>2, <4>4, MergedTells
          <5> HIDE DEF merged
          <5>2. LinesOf(k[2], lines) # {} /\ Tells(lines, k[2], Current(k)) => merged = Current(k)
            BY <5>1
          <5>3. cache'[k] = merged
            BY <4>3 DEF merged
          <5>4. QED
            BY <5>1, <5>2, <5>3
        <4>6. Silent(k) => cache'[k] = Current(k)
          <5>1. Silent(k) => IF LinesOf(k[2], lines) # {} THEN Tells(lines, k[2], Current(k))
                                                          ELSE cache[k] = Current(k)
            BY <1>0, <2>1, <3>1, <3>3, <4>1 DEF CacheInOrder, lines
          <5>2. QED
            BY <4>5, <5>1
        <4>7. QED
          BY <1>1, <1>3, <2>1, <3>1, <3>3, <4>6 DEF CacheInOrder
      <3>4. QED
        BY <1>0, <1>1, <2>4, <3>2, <3>3 DEF EntityInOrder
    <2>5. QED
      BY <2>3, <2>4
  <1>7. QED
    BY <1>4, <1>5, <1>6

LEMMA StepClear ==
    ASSUME BroadcastTypes, ClientInOrder, NEW t \in Threads, Clear(t)
    PROVE  ClientInOrder'
  <1> SUFFICES ASSUME NEW e \in Entities PROVE EntityInOrder(e)'
    BY DEF ClientInOrder
  <1> DEFINE f == clearing[t]
  <1>0. /\ EntityInOrder(e) /\ at[t] = "clear" /\ f \in callbacks[t] /\ f \in subscribed
        /\ f \in Entities
        /\ at \in [Threads -> {"idle", "query", "rows", "finish", "clear"}]
        /\ clearing \in [Threads -> Entities \union {NoEntity}]
        /\ callbacks \in [Threads -> SUBSET subscribed]
        /\ updated \in [Entities -> Updates] /\ deleted \in [Entities -> SUBSET Ids]
    BY TypesSplit DEF ClientInOrder, Clear, ThreadTypes, ThreadsInOrder, LoadTypes, BeanTypes
  <1>1. /\ UNCHANGED <<streamVars, text, topic, excused, loadVars, message, line, cache, broken>>
        /\ at'[t] = "finish" /\ clearing'[t] = NoEntity /\ callbacks'[t] = callbacks[t] \ {f}
        /\ \A u \in Threads \ {t} : /\ at'[u] = at[u] /\ clearing'[u] = clearing[u]
                                    /\ callbacks'[u] = callbacks[u]
    BY <1>0 DEF Clear
  <1>2. /\ updated'[f] = NoUpdates /\ deleted'[f] = {}
        /\ \A g \in Entities : g # f => updated'[g] = updated[g] /\ deleted'[g] = deleted[g]
    BY <1>0 DEF Clear
  <1> HIDE DEF f
  <1>3. \A k \in Keys : (Silent(k)' <=> Silent(k)) /\ Current(k)' = Current(k)
    BY <1>1, SilentSame
  <1>4. CASE e \in broken
    BY <1>0, <1>1, <1>4, Broken
  <1>5. CASE e # EntityOf(t) /\ e \notin broken
    <2>1. updated'[e] = updated[e] /\ deleted'[e] = deleted[e]
      <3>1. CASE e # f
        BY <1>2, <3>1
      <3>2. CASE e = f
        BY <1>0, <1>2, <1>5, <3>2, OthersAtRest
      <3>3. QED
        BY <3>1, <3>2
    <2>2. QED
      BY <1>0, <1>1, <1>5, <2>1, Elsewhere
  <1>6. CASE e = EntityOf(t) /\ e \notin broken
    <2>1. Worker(e) = t /\ Worker(e)' = t /\ e # NoEntity
      BY <1>0, <1>1, <1>6, OneWorker, Names DEF Worker
    <2>2. CASE e # f
      <3>1. Unfinished(e)' <=> Unfinished(e)
        BY <1>0, <1>1, <2>1, <2>2 DEF Unfinished
      <3>2. Unmerged(e)' <=> Unmerged(e)
        BY <1>0, <1>1, <2>1, <2>2, <3>1 DEF Unmerged, f
      <3>3. QED
        BY <1>0, <1>1, <1>2, <1>3, <2>1, <2>2, <3>1, <3>2, Untouched
    <2>3. CASE e = f
      <3>1. ~Unmerged(e) /\ ~Unfinished(e)' /\ ~Unmerged(e)'
        BY <1>0, <1>1, <2>1, <2>3 DEF Unfinished, Unmerged, f
      <3>2. MapsInOrder(e)'
        BY <1>2, <2>3, <3>1 DEF MapsInOrder, Uncleared
      <3>3. ASSUME NEW k \in Keys, k[1] = e PROVE CacheInOrder(k)'
        <4>1. CacheInOrder(k)
          BY <1>0, <1>6, <2>3, <3>3 DEF EntityInOrder
        <4>2. QED
          BY <1>0, <1>1, <1>3, <2>1, <3>1, <3>3, <4>1 DEF CacheInOrder
      <3>4. QED
        BY <1>0, <1>1, <2>3, <3>2, <3>3 DEF EntityInOrder
    <2>4. QED
      BY <2>2, <2>3
  <1>7. QED
    BY <1>4, <1>5, <1>6

LEMMA StepReturn ==
    ASSUME BroadcastTypes, ClientInOrder, NEW t \in Threads, Return(t)
    PROVE  ClientInOrder'
  <1> SUFFICES ASSUME NEW e \in Entities PROVE EntityInOrder(e)'
    BY DEF ClientInOrder
  <1>0. /\ EntityInOrder(e) /\ at[t] = "finish" /\ callbacks[t] = {}
        /\ at \in [Threads -> {"idle", "query", "rows", "finish", "clear"}]
        /\ message \in [Threads -> Messages] /\ line \in [Threads -> Nat]
    BY TypesSplit DEF ClientInOrder, Return, Idle, ThreadTypes, ThreadsInOrder
  <1>1. /\ UNCHANGED <<streamVars, text, topic, excused, subscribed, callbacks, clearing, beanVars,
                       broken>>
        /\ loading' = IF t = Loader THEN NoEntity ELSE loading
        /\ at'[t] = "idle"
        /\ \A u \in Threads \ {t} : at'[u] = at[u] /\ message'[u] = message[u] /\ line'[u] = line[u]
    BY <1>0 DEF Return, Idle
  <1>2. \A k \in Keys : (Silent(k)' <=> Silent(k)) /\ Current(k)' = Current(k)
    BY <1>1, SilentSame
  <1>3. CASE e \in broken
    BY <1>0, <1>1, <1>3, Broken
  <1>4. CASE e # EntityOf(t)
    BY <1>0, <1>1, <1>4, Elsewhere
  <1>5. CASE e = EntityOf(t) /\ e \notin broken
    <2>1. Worker(e) = t /\ ~Unfinished(e) /\ ~Unmerged(e)
      BY <1>0, <1>5, OneWorker DEF Unfinished, Unmerged
    <2>2. Worker(e)' = e /\ at'[e] = "idle" /\ e # Loader
      <3>1. CASE t = Loader
        <4>1. at[e] = "idle"
          BY <1>0, <1>5, <3>1, TypesSplit, Names DEF LoadTypes, LoadsInOrder, EntityOf, Loading
        <4>2. QED
          BY <1>1, <3>1, <4>1, Names DEF Worker
      <3>2. CASE t # Loader
        <4>1. t = e
          BY <1>5, <3>2 DEF EntityOf
        <4>2. QED
          BY <1>1, <2>1, <3>2, <4>1, Names DEF Worker
      <3>3. QED
        BY <3>1, <3>2
    <2>3. ~Unfinished(e)' /\ ~Unmerged(e)'
      BY <2>2 DEF Unfinished, Unmerged
    <2>4. MapsInOrder(e)'
      BY <1>0, <1>1, <1>5, <2>1, <2>3 DEF EntityInOrder, MapsInOrder, Uncleared
    <2>5. ASSUME NEW k \in Keys, k[1] = e, e \in subscribed PROVE CacheInOrder(k)'
      <3>1. CacheInOrder(k)
        BY <1>0, <1>5, <2>5 DEF EntityInOrder
      <3>2. QED
        BY <1>0, <1>1, <1>2, <2>1, <2>2, <2>3, <2>5, <3>1 DEF CacheInOrder
    <2>6. QED
      BY <1>0, <1>1, <2>4, <2>5 DEF EntityInOrder
  <1>6. QED
    BY <1>3, <1>4, <1>5

LEMMA StepFinishFails ==
    ASSUME BroadcastTypes, ClientInOrder, NEW t \in Threads, FinishFails(t)
    PROVE  ClientInOrder'
  <1> SUFFICES ASSUME NEW e \in Entities PROVE EntityInOrder(e)'
    BY DEF ClientInOrder
  <1>0. /\ EntityInOrder(e) /\ at[t] \in {"finish", "clear"}
        /\ at \in [Threads -> {"idle", "query", "rows", "finish", "clear"}]
        /\ message \in [Threads -> Messages] /\ line \in [Threads -> Nat]
        /\ callbacks \in [Threads -> SUBSET subscribed]
        /\ clearing \in [Threads -> Entities \union {NoEntity}]
    BY TypesSplit DEF ClientInOrder, FinishFails, ThreadTypes, ThreadsInOrder
  <1>1. /\ UNCHANGED <<streamVars, text, topic, excused, subscribed, updated, deleted>>
        /\ broken' = broken \union Loading \union callbacks[t]
        /\ loading' = IF t = Loader THEN NoEntity ELSE loading
        /\ at'[t] = "idle"
        /\ \A u \in Threads \ {t} : /\ at'[u] = at[u] /\ message'[u] = message[u]
                                    /\ line'[u] = line[u] /\ callbacks'[u] = callbacks[u]
                                    /\ clearing'[u] = clearing[u]
    BY <1>0 DEF FinishFails
  <1>2. \A k \in Keys : k[1] \notin callbacks[t] => cache'[k] = cache[k]
    BY Names DEF FinishFails
  <1>3. CASE e \in broken'
    BY <1>0, <1>1, <1>2, <1>3, Broken
  <1>4. CASE e \notin broken' /\ e # EntityOf(t)
    BY <1>0, <1>1, <1>2, <1>4, Elsewhere
  <1>5. CASE e \notin broken' /\ e = EntityOf(t)
    <2>1. /\ e \notin broken /\ e \notin callbacks[t] /\ loading # e
          /\ t = e /\ e # Loader /\ e # NoEntity
      BY <1>1, <1>5, Names DEF EntityOf, Loading
    <2>2. /\ Worker(e) = e /\ Worker(e)' = e
          /\ ~Unfinished(e) /\ ~Unmerged(e) /\ ~Unfinished(e)' /\ ~Unmerged(e)'
      BY <1>0, <1>1, <2>1 DEF Worker, Unfinished, Unmerged
    <2>3. MapsInOrder(e)'
      BY <1>0, <1>1, <2>1, <2>2 DEF EntityInOrder, MapsInOrder, Uncleared
    <2>4. ASSUME NEW k \in Keys, k[1] = e PROVE cache'[k] = cache[k]
      BY <1>2, <2>1, <2>4
    <2>5. ASSUME NEW k \in Keys, k[1] = e, e \in subscribed PROVE CacheInOrder(k)'
      <3>1. CacheInOrder(k)
        BY <1>0, <2>1, <2>5 DEF EntityInOrder
      <3>2. (Silent(k)' <=> Silent(k)) /\ Current(k)' = Current(k)
        BY <1>1, SilentSame
      <3>3. QED
        BY <1>0, <1>1, <2>1, <2>2, <2>4, <2>5, <3>1, <3>2 DEF CacheInOrder
    <2>6. QED
      BY <1>0, <1>1, <2>3, <2>4, <2>5 DEF EntityInOrder
  <1>6. QED
    BY <1>3, <1>4, <1>5

LEMMA StepClient ==
    ASSUME BroadcastTypes, ServerInOrder, ClientInOrder, [Next]_vars
    PROVE  ClientInOrder'
  <1>1. CASE UNCHANGED vars
    <2> SUFFICES ASSUME NEW e \in Entities PROVE EntityInOrder(e)'
      BY DEF ClientInOrder
    <2>1. EntityInOrder(e)
      BY DEF ClientInOrder
    <2>2. UNCHANGED <<streamVars, text, topic, excused, loadVars, threadVars, beanVars, broken>>
      BY <1>1 DEF vars
    <2>3. /\ Worker(e)' = Worker(e) /\ (Unfinished(e)' <=> Unfinished(e))
          /\ (Unmerged(e)' <=> Unmerged(e))
      BY <2>2 DEF Worker, Unfinished, Unmerged
    <2>4. \A k \in Keys : Silent(k)' => Silent(k) /\ Current(k)' = Current(k)
      BY <2>2, SilentSame
    <2>5. QED
      BY <2>1, <2>2, <2>3, <2>4, Untouched
  <1>2. ASSUME NEW t \in Threads, Work(t) PROVE ClientInOrder'
    BY <1>2, StepProcessRow, StepFinishRows, StepMerge, StepClear, StepReturn DEF Work
  <1>3. QED
    BY <1>1, <1>2, StepServed, StepConnect, StepSubscribe, StepQuery, StepTake, StepProcessFails,
       StepFinishFails DEF Next

-----------------------------------------------------------------------------
(***************************************************************************)
(* The bean "id".                                                          *)
(***************************************************************************)

\* A message that is made of a buffer has only rows, unless the buffer names the columns
\* twice.
LEMMA OnlyRowsSent ==
    ASSUME NEW lines \in Seq(Line), lines # <<>>, ~\E n \in 2..Len(lines) : lines[n] = Header
    PROVE  OnlyRows(Tail(lines))
  <1>1. /\ Len(lines) \in Nat \ {0} /\ Len(Tail(lines)) = Len(lines) - 1
        /\ \A n \in 1..Len(Tail(lines)) : Tail(lines)[n] = lines[n + 1]
    BY HeadTailProperties, EmptySeq, LenProperties
  <1> DEFINE tail == Tail(lines)
  <1> HIDE DEF tail
  <1>2. Len(tail) = Len(lines) - 1 /\ \A n \in 1..Len(tail) : tail[n] = lines[n + 1]
    BY <1>1 DEF tail
  <1>3. \A n \in 1..Len(tail) : n + 1 \in 2..Len(lines)
    BY <1>1, <1>2
  <1>4. OnlyRows(tail)
    BY <1>2, <1>3 DEF OnlyRows
  <1>5. QED
    BY <1>4 DEF tail

LEMMA InitNames == Init => NamesInOrder
  <1> SUFFICES ASSUME Init PROVE NamesInOrder
    OBVIOUS
  <1>1. /\ \A t \in Threads : OnlyRows(message[t].lines)
        /\ \A e \in Entities : Len(topic[e]) = 0
    BY Names, EmptySeq DEF Init, OnlyRows
  <1>2. \A e \in Entities : updated[e][NameId] = Unset /\ cache[<<e, NameId>>] = Absent
    BY Names DEF Init, NoUpdates, CacheKeys
  <1>3. QED
    BY <1>1, <1>2, Names DEF NamesInOrder, NameInOrder

LEMMA SendNames ==
    ASSUME BroadcastTypes, NamesInOrder, NEW sent \in SUBSET Entities, Send(sent),
           \A e \in Entities : text[e] # <<>>, UNCHANGED <<threadVars, beanVars>>
    PROVE  NamesInOrder'
  <1>0. text \in [Entities -> Seq(Line)] /\ topic \in [Entities -> Seq(Messages)]
    BY TypesSplit DEF ServerTypes, LoadTypes
  <1>1. ASSUME NEW e \in Entities, <<e, NameId>> \notin excused'
        PROVE  /\ <<e, NameId>> \notin excused
               /\ e \in sent => ~\E n \in 2..Len(text[e]) : text[e][n] = Header
    <2>1. text[e] \in Seq(Line) /\ Len(text[e]) \in Nat
      BY <1>0, LenProperties
    <2>2. \A n \in OfThisBlock(text[e]) : text[e][n] # Header /\ text[e][n] \in Line
      BY <2>1, ElementOfSeq DEF OfThisBlock
    <2>3. NameId \notin TellsNow(e)
      BY <2>2, LineTypes, Names DEF TellsNow
    <2>4. QED
      BY <1>1, <2>3 DEF Send, NamedTwice
  <1>2. ASSUME NEW e \in Entities PROVE NameInOrder(e)'
    <2> SUFFICES ASSUME <<e, NameId>> \notin excused'
                 PROVE  \A n \in 1..Len(topic'[e]) : OnlyRows(topic'[e][n].lines)
      BY <1>1 DEF NamesInOrder, NameInOrder
    <2> DEFINE old == topic[e]
               sent1 == [lines |-> Tail(text[e]), bulk |-> bulkUpdate[e]]
    <2>1. old \in Seq(Messages) /\ \A n \in 1..Len(old) : OnlyRows(old[n].lines)
      BY <1>0, <1>1 DEF NamesInOrder, NameInOrder
    <2>2. topic'[e] = (IF e \in sent /\ connected THEN Append(old, sent1) ELSE old)
      BY DEF Send
    <2>3. sent1 \in Messages /\ sent1.lines = Tail(text[e])
      <3>1. Tail(text[e]) \in Seq(Line) /\ bulkUpdate[e] \in BOOLEAN
        BY <1>0, HeadTailProperties, TypesSplit DEF ServerTypes
      <3>2. QED
        BY <3>1 DEF Messages
    <2>4. e \in sent => OnlyRows(sent1.lines)
      BY <1>0, <1>1, <2>3, OnlyRowsSent
    <2> HIDE DEF old, sent1
    <2>5. CASE e \in sent /\ connected
      <3>1. /\ Len(old) \in Nat /\ Len(topic'[e]) = Len(old) + 1
            /\ topic'[e][Len(old) + 1] = sent1
            /\ \A n \in 1..Len(old) : topic'[e][n] = old[n]
        BY <2>1, <2>2, <2>3, <2>5, AppendProperties, LenProperties
      <3>2. \A n \in 1..Len(topic'[e]) : n \in 1..Len(old) \/ n = Len(old) + 1
        BY <3>1
      <3>3. QED
        BY <2>1, <2>4, <2>5, <3>1, <3>2
    <2>6. CASE ~(e \in sent /\ connected)
      BY <2>1, <2>2, <2>6
    <2>7. QED
      BY <2>5, <2>6
  <1>3. QED
    BY <1>2 DEF NamesInOrder

LEMMA TakeNames ==
    ASSUME BroadcastTypes, NamesInOrder, NEW t \in Entities, Begin(t) \/ Reject(t)
    PROVE  NamesInOrder'
  <1>0. /\ message \in [Threads -> Messages] /\ topic \in [Entities -> Seq(Messages)]
        /\ t \in Threads /\ t # Loader
    BY TypesSplit, Names DEF ThreadTypes, LoadTypes
  <1>1. /\ UNCHANGED <<beanVars, excused>> /\ topic[t] # <<>>
        /\ topic' = [topic EXCEPT ![t] = Tail(@)]
        /\ \/ UNCHANGED message
           \/ message' = [message EXCEPT ![t] = Head(topic[t])]
    BY DEF Begin, Reject, Take
  <1>2. \A u \in Threads \ {t} : message'[u] = message[u]
    BY <1>0, <1>1
  <1> DEFINE old == topic[t]
             new == topic'[t]
  <1>3. /\ Len(old) \in Nat \ {0} /\ Len(new) = Len(old) - 1
        /\ \A n \in 1..Len(new) : new[n] = old[n + 1]
        /\ old[1] = Head(old)
    <2>1. old \in Seq(Messages) /\ new = Tail(old) /\ old # <<>>
      BY <1>0, <1>1
    <2>2. Len(old) \in Nat \ {0}
      BY <2>1, EmptySeq, LenProperties
    <2>3. Len(new) = Len(old) - 1 /\ \A n \in 1..Len(new) : new[n] = old[n + 1]
      BY <2>1, HeadTailProperties
    <2>4. old[1] = Head(old)
      BY <2>1
    <2>5. QED
      BY <2>2, <2>3, <2>4
  <1>4. message'[t] = message[t] \/ message'[t] = Head(old)
    BY <1>0, <1>1
  <1> HIDE DEF old, new
  <1>5. NameInOrder(t)'
    <2> SUFFICES ASSUME <<t, NameId>> \notin excused
                 PROVE  /\ \A n \in 1..Len(new) : OnlyRows(new[n].lines)
                        /\ OnlyRows(message'[t].lines)
      BY <1>1 DEF NamesInOrder, NameInOrder, new
    <2>1. /\ \A n \in 1..Len(old) : OnlyRows(old[n].lines)
          /\ OnlyRows(message[t].lines)
      BY DEF NamesInOrder, NameInOrder, old
    <2>2. 1 \in 1..Len(old) /\ \A n \in 1..Len(new) : n + 1 \in 1..Len(old)
      BY <1>3
    <2>3. QED
      BY <1>3, <1>4, <2>1, <2>2
  <1>6. ASSUME NEW e \in Entities, e # t PROVE NameInOrder(e)'
    <2>1. topic'[e] = topic[e] /\ message'[e] = message[e]
      BY <1>0, <1>1, <1>2, <1>6, Names
    <2>2. QED
      BY <1>1, <2>1 DEF NamesInOrder, NameInOrder
  <1>7. OnlyRows(message'[Loader].lines)
    BY <1>0, <1>2, Names DEF NamesInOrder
  <1>8. QED
    BY <1>5, <1>6, <1>7 DEF NamesInOrder

LEMMA WorkNames ==
    ASSUME BroadcastTypes, NamesInOrder, NEW t \in Threads,
           Work(t) \/ ProcessFails(t) \/ FinishFails(t)
    PROVE  NamesInOrder'
  <1>0. /\ message \in [Threads -> Messages] /\ line \in [Threads -> Nat]
        /\ updated \in [Entities -> Updates] /\ deleted \in [Entities -> SUBSET Ids]
        /\ cache \in [CacheKeys -> Content]
        /\ NameId \in CacheIds \ Ids /\ \A e \in Entities : <<e, NameId>> \in CacheKeys
    BY TypesSplit, Names DEF ThreadTypes, ThreadsInOrder, BeanTypes, CacheKeys
  <1>1. UNCHANGED <<topic, excused>>
    BY DEF Work, Process, FinishRows, Merge, Clear, Return, Idle, ProcessFails, FinishFails
  <1>2. /\ \A u \in Threads : message'[u] = message[u] \/ message'[u] = NoMessage
    BY <1>0 DEF Work, Process, FinishRows, Merge, Clear, Return, Idle, ProcessFails, FinishFails
  <1>3. OnlyRows(NoMessage.lines)
    BY Names DEF OnlyRows
  <1>4. OnlyRows(message'[Loader].lines)
    BY <1>2, <1>3, Names DEF NamesInOrder
  <1>5. ASSUME NEW e \in Entities, <<e, NameId>> \notin excused
        PROVE  updated'[e][NameId] = Unset /\ cache'[<<e, NameId>>] = Absent
    <2>0. /\ updated[e][NameId] = Unset /\ cache[<<e, NameId>>] = Absent
          /\ OnlyRows(message[e].lines) /\ OnlyRows(message[Loader].lines)
          /\ NameId \notin deleted[e]
      BY <1>0, <1>5 DEF NamesInOrder, NameInOrder
    <2>1. CASE Process(t)
      <3> DEFINE l == message[t].lines[line[t] + 1]
                 f == EntityOf(t)
      <3>1. UNCHANGED cache
        BY <2>1 DEF Process
      <3>2. CASE f # e
        <4>1. updated'[e] = updated[e]
          BY <1>0, <2>1, <3>2 DEF Process
        <4>2. QED
          BY <2>0, <3>1, <4>1
      <3>3. CASE f = e
        <4>1. OnlyRows(message[t].lines)
          BY <2>0, <3>3 DEF EntityOf
        <4>2. message[t].lines \in Seq(Line) /\ line[t] \in Nat /\ line[t] < Len(message[t].lines)
          BY <1>0, <2>1 DEF Messages, Process
        <4>3. line[t] + 1 \in 1..Len(message[t].lines)
          BY <4>2, LenProperties
        <4>4. l # Header /\ l \in Line
          BY <4>1, <4>2, <4>3, ElementOfSeq DEF OnlyRows
        <4>5. AsRow(l) = l /\ l.id \in Ids
          BY <4>4, RowOfLine, LineTypes
        <4>6. updated'[e] = updated[e] \/ updated'[e] = [updated[e] EXCEPT ![l.id] = l.row]
          BY <1>0, <2>1, <3>3, <4>5 DEF Process
        <4>7. updated'[e][NameId] = updated[e][NameId]
          BY <1>0, <4>5, <4>6 DEF Updates
        <4>8. QED
          BY <2>0, <3>1, <4>7
      <3>4. QED
        BY <3>2, <3>3
    <2>2. ASSUME NEW f \in Entities, Merge(t, f)
          PROVE  updated'[e][NameId] = Unset /\ cache'[<<e, NameId>>] = Absent
      BY <1>0, <2>0, <2>2 DEF Merge
    <2>3. CASE Clear(t)
      BY <1>0, <2>0, <2>3 DEF Clear, NoUpdates
    <2>4. CASE FinishFails(t)
      BY <1>0, <2>0, <2>4 DEF FinishFails
    <2>5. CASE FinishRows(t) \/ Return(t) \/ ProcessFails(t)
      BY <2>0, <2>5 DEF FinishRows, Return, Idle, ProcessFails
    <2>6. QED
      BY <2>1, <2>2, <2>3, <2>4, <2>5 DEF Work
  <1>6. ASSUME NEW e \in Entities PROVE NameInOrder(e)'
    BY <1>1, <1>2, <1>3, <1>5, Names DEF NamesInOrder, NameInOrder
  <1>7. QED
    BY <1>4, <1>6 DEF NamesInOrder

LEMMA StepNames ==
    ASSUME BroadcastTypes, ServerInOrder, NamesInOrder, [Next]_vars
    PROVE  NamesInOrder'
  <1>1. ASSUME UNCHANGED <<topic, excused, message, updated, cache>> PROVE NamesInOrder'
    BY <1>1 DEF NamesInOrder, NameInOrder
  <1>2. CASE ServerStep
    <2>1. UNCHANGED <<threadVars, beanVars>>
      BY <1>2 DEF ServerStep
    <2>2. ASSUME NEW sent \in SUBSET Entities, Server!Close, Send(sent) PROVE NamesInOrder'
      <3>1. \A e \in Entities : text[e] # <<>>
        BY <2>2 DEF ServerInOrder, TextShape, Server!Close
      <3>2. QED
        BY <2>1, <2>2, <3>1, SendNames
    <2>3. QED
      BY <1>1, <1>2, <2>1, <2>2 DEF ServerStep, ServerFinish, ServerFinishFails
  <1>3. CASE Query
    <2>1. loading \in Entities /\ served \in [Keys -> Content] /\ message \in [Threads -> Messages]
      BY <1>3, TypesSplit, WorkOf, Names DEF Query, ServerTypes, ThreadTypes, EntityOf
    <2>2. /\ message'[Loader].lines = Answer(loading) /\ UNCHANGED <<topic, excused, beanVars>>
          /\ \A e \in Entities : message'[e] = message[e]
      BY <1>3, <2>1, Names DEF Query, Messages
    <2>3. OnlyRows(Answer(loading))
      BY <2>1, AnswerTells
    <2>4. QED
      BY <2>2, <2>3 DEF NamesInOrder, NameInOrder
  <1>4. CASE Connect \/ (\E e \in Entities : Subscribe(e)) \/ UNCHANGED vars
    BY <1>1, <1>4 DEF Connect, Subscribe, vars
  <1>5. QED
    BY <1>2, <1>3, <1>4, TakeNames, WorkNames DEF Next

-----------------------------------------------------------------------------
(***************************************************************************)
(* The theorems.                                                           *)
(***************************************************************************)

\* Whatever the threads do, the invariant holds.
THEOREM Invariant == Spec => []BroadcastInv
  <1>1. Init => BroadcastInv
    BY InitTypes, InitServer, InitClient, InitNames DEF BroadcastInv
  <1>2. BroadcastInv /\ [Next]_vars => BroadcastInv'
    <2> SUFFICES ASSUME BroadcastInv, [Next]_vars PROVE BroadcastInv'
      OBVIOUS
    <2>1. /\ BroadcastTypes /\ ServerInOrder /\ ClientInOrder /\ NamesInOrder
          /\ \A e \in Entities : TextShape(e)
      BY DEF BroadcastInv, ServerInOrder
    <2>2. BroadcastTypes' /\ ServerInOrder' /\ ClientInOrder' /\ NamesInOrder'
      BY <2>1, StepTypes, StepServer, StepClient, StepNames
    <2>3. QED
      BY <2>2 DEF BroadcastInv
  <1>3. QED
    BY <1>1, <1>2, PTL DEF Spec

\* The variables of server, topics and client have their types in every reachable state:
\* callbacks are only asked to finish when they are subscribed, and a thread never gets
\* beyond the lines of its message.
THEOREM TypeCorrect == Spec => []TypeOK
  <1>1. BroadcastInv => TypeOK
    BY DEF BroadcastInv, BroadcastTypes
  <1>2. QED
    BY <1>1, Invariant, PTL

\* A listener that is working owns the lock of the client's composite, so that the blocks
\* of two listeners never overlap, even while a BeanCache is being loaded without the lock,
\* and after exceptions that leave the lock held.
THEOREM ListenersStayApart == Spec => []ListenersApart
  <1>1. BroadcastInv => ListenersApart
    BY DEF BroadcastInv, BroadcastTypes, LockInOrder
  <1>2. QED
    BY <1>1, Invariant, PTL

\* Whenever nothing about a loaded entity is on its way, its beans are the rows that the
\* server serves and no others, however the load, the messages and the server's blocks
\* interleave; except for rows that a message cannot express, for the bean "id" after a
\* message with two lines of names, and for entities that were loaded during a block of a
\* listener or hit by an exception.
THEOREM BeansConverge == Spec => []Converged
  <1>1. ASSUME BroadcastInv, NEW k \in Keys, k[1] \in loaded, Quiet(k[1]),
               k \notin excused, k[1] \notin broken
        PROVE  cache[k] = served[k]
    <2>1. /\ BroadcastTypes /\ ServerInOrder /\ k[1] \in Entities /\ EntityInOrder(k[1])
          /\ k[1] \in subscribed /\ k[1] \notin Loading
      BY <1>1, TypesSplit DEF BroadcastInv, ClientInOrder, LoadTypes, LoadsInOrder, Keys
    <2>2. NotInText(k) /\ NotInTopic(k)
      BY <1>1, EmptySeq DEF Quiet, NotInText, NotInTopic, LinesOf
    <2>3. Worker(k[1]) = k[1] /\ at[k[1]] = "idle"
      BY <1>1, <2>1, Names DEF Worker, Loading, Quiet
    <2>4. ~Unmerged(k[1])
      BY <2>3 DEF Unmerged, Unfinished
    <2>5. CacheInOrder(k)
      BY <1>1, <2>1 DEF EntityInOrder
    <2>6. cache[k] = Current(k)
      BY <1>1, <2>2, <2>3, <2>4, <2>5 DEF CacheInOrder, Silent
    <2>7. QED
      BY <2>1, <2>2, <2>6, SilentServed
  <1>2. BroadcastInv => Converged
    <2> SUFFICES ASSUME BroadcastInv, NEW k \in CacheKeys, k[1] \in loaded, Quiet(k[1]),
                        k \notin excused, k[1] \notin broken
                 PROVE  cache[k] = RowOf(k)
      BY DEF Converged
    <2>1. CASE k[2] # NameId
      <3>1. k \in Keys
        BY <2>1, Names
      <3>2. QED
        BY <1>1, <2>1, <3>1 DEF RowOf
    <2>2. CASE k[2] = NameId
      <3>1. k = <<k[1], NameId>> /\ k[1] \in Entities
        BY <2>2 DEF CacheKeys
      <3>2. cache[<<k[1], NameId>>] = Absent
        BY <3>1 DEF BroadcastInv, NamesInOrder, NameInOrder
      <3>3. QED
        BY <2>2, <3>1, <3>2 DEF RowOf
    <2>3. QED
      BY <2>1, <2>2
  <1>3. QED
    BY <1>2, Invariant, PTL
=============================================================================
