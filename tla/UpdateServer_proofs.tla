------------------------ MODULE UpdateServer_proofs ------------------------
(***************************************************************************)
(* Coherence of the update path, for any number of entities, rows,         *)
(* operator threads, messages, restarts and exceptions.  What readers of   *)
(* the server see: served rows move forward, and the server implements the *)
(* stream of blocks of BlockStream as long as nobody throws.               *)
(***************************************************************************)
EXTENDS UpdateServer, TLAPS

USE DEF Threads, Row, Note, Jobs

-----------------------------------------------------------------------------
(***************************************************************************)
(* Types and the lock.                                                     *)
(***************************************************************************)

\* A thread goes on to its next block, or becomes idle, within its types.
LEMMA TakeUpTypes ==
    ASSUME TypeOK, NEW t \in Threads, NEW notes, TakeUp(t, notes)
    PROVE  /\ pc' \in [Threads -> {"idle", "waiting", "opened", "bulk", "rows"}]
           /\ job' \in [Threads -> Jobs]
           /\ block' \in [Threads -> Entities \union {NoEntity}]
           /\ pc'[t] # "idle" => block'[t] \in Entities
           /\ pc'[t] = "idle" => EntitiesIn(notes) = {}
           /\ job'[t] \in {job[t], "lookup", "apply"}
           /\ ~InBlock(t)'
           /\ \A u \in Threads \ {t} : pc'[u] = pc[u] /\ block'[u] = block[u] /\ job'[u] = job[u]
  <1> USE DEF TypeOK, InBlock
  <1>1. CASE EntitiesIn(notes) = {} /\ UNCHANGED job
             /\ pc' = [pc EXCEPT ![t] = "idle"] /\ block' = [block EXCEPT ![t] = NoEntity]
    BY <1>1
  <1>2. CASE \E e \in EntitiesIn(notes) :
               /\ pc' = [pc EXCEPT ![t] = "waiting"]
               /\ block' = [block EXCEPT ![t] = e]
               /\ job' = [job EXCEPT ![t] =
                    IF \E k \in RowsOf(e) : notes[k] = IdOnly THEN "lookup" ELSE "apply"]
    <2>1. EntitiesIn(notes) \subseteq Entities
      BY DEF EntitiesIn
    <2>2. QED
      BY <1>2, <2>1
  <1>3. QED
    BY <1>1, <1>2 DEF TakeUp

\* Notes about no entity say nothing.
LEMMA NoEntityNothing ==
    ASSUME NEW notes \in [Keys -> Note], EntitiesIn(notes) = {}
    PROVE  notes = Nothing
  <1>1. ASSUME NEW k \in Keys PROVE notes[k] = Silent
    <2>1. k[1] \in Entities /\ k \in RowsOf(k[1])
      BY DEF Keys, RowsOf
    <2>2. QED
      BY <2>1 DEF EntitiesIn
  <1>2. notes = [k \in Keys |-> notes[k]]
    OBVIOUS
  <1>3. [k \in Keys |-> notes[k]] = [k \in Keys |-> Silent]
    BY <1>1, Zenon
  <1>4. QED
    BY <1>2, <1>3, Zenon DEF Nothing

\* The types and the lock at the start.
LEMMA InitTypes == Init => TypeOK /\ BlocksDoNotOverlap
  <1> SUFFICES ASSUME Init PROVE TypeOK /\ BlocksDoNotOverlap
    OBVIOUS
  <1>1. db \in [Keys -> Row]
    BY DEF Init
  <1>2. Nothing \in [Keys -> Note] /\ NoRow \in Row
    BY DEF Nothing, NoRow
  <1>3. queue \in Seq([Keys -> Note])
    BY DEF Init
  <1>4. TypeOK
    BY <1>1, <1>2, <1>3 DEF Init, TypeOK
  <1>5. BlocksDoNotOverlap
    BY ThreadsAssumption DEF Init, BlocksDoNotOverlap, InBlock
  <1>6. QED
    BY <1>4, <1>5

\* Every step keeps the types, keeps blocks apart, and counts the lock rightly.
LEMMA StepTypes ==
    ASSUME TypeOK, BlocksDoNotOverlap, [Next]_vars
    PROVE  TypeOK' /\ BlocksDoNotOverlap'
  <1> USE DEF TypeOK, BlocksDoNotOverlap, InBlock,
              vars, appVars, cacheVars, lockVars, threadVars, faultVars
  <1>0. Nothing \in [Keys -> Note] /\ NoRow \in Row
    BY DEF Nothing, NoRow
  <1>1. ASSUME NEW k \in Keys, Write(k) PROVE TypeOK' /\ BlocksDoNotOverlap'
    <2>1. PICK b \in BOOLEAN : db' = [db EXCEPT ![k] = [ver |-> @.ver + 1, there |-> b]]
      BY <1>1 DEF Write
    <2>2. [ver |-> db[k].ver + 1, there |-> b] \in Row
      OBVIOUS
    <2>3. QED
      BY <1>1, <2>1, <2>2 DEF Write
  <1>2. ASSUME NEW K \in SUBSET Keys, NEW trusted \in SUBSET Entities, SendUpdate(K, trusted)
        PROVE  TypeOK' /\ BlocksDoNotOverlap'
    <2>1. [k \in Keys |-> IF k \notin K THEN Silent
                          ELSE IF k[1] \in trusted THEN db[k] ELSE IdOnly] \in [Keys -> Note]
      OBVIOUS
    <2>2. QED
      BY <1>2, <2>1 DEF SendUpdate
  <1>3. ASSUME NEW e \in Entities, LoadEntity(e) PROVE TypeOK' /\ BlocksDoNotOverlap'
    BY <1>3 DEF LoadEntity
  <1>4. CASE Crash
    BY <1>0, <1>4, ThreadsAssumption DEF Crash
  <1>5. CASE Receive
    <2>1. Head(queue) \in [Keys -> Note] /\ Tail(queue) \in Seq([Keys -> Note])
      BY <1>5 DEF Receive
    <2>2. TakeUp(Listener, Head(queue))
      BY <1>5 DEF Receive
    <2>3. QED
      BY <1>5, <2>1, <2>2, TakeUpTypes DEF Receive
  <1>6. ASSUME NEW t \in Operators, NEW k \in Keys, Poke(t, k)
        PROVE  TypeOK' /\ BlocksDoNotOverlap'
    BY <1>0, <1>6 DEF Poke, Keys
  <1>7. ASSUME NEW t \in Operators, NEW e \in Entities, Reload(t, e)
        PROVE  TypeOK' /\ BlocksDoNotOverlap'
    BY <1>7 DEF Reload
  <1>8. ASSUME NEW t \in Threads, Start(t) PROVE TypeOK' /\ BlocksDoNotOverlap'
    BY <1>8, ThreadsAssumption DEF Start
  <1>9. ASSUME NEW t \in Threads, StartBulk(t) PROVE TypeOK' /\ BlocksDoNotOverlap'
    BY <1>0, <1>9 DEF StartBulk
  <1>10. ASSUME NEW t \in Threads, QueryAll(t) PROVE TypeOK' /\ BlocksDoNotOverlap'
    BY <1>10 DEF QueryAll
  <1>11. ASSUME NEW t \in Threads, NEW k \in Keys, Lookup(t, k)
         PROVE  TypeOK' /\ BlocksDoNotOverlap'
    BY <1>11 DEF Lookup
  <1>12. ASSUME NEW t \in Threads, NEW k \in Keys, Deliver(t, k)
         PROVE  TypeOK' /\ BlocksDoNotOverlap'
    <2>1. todo[t][k] \in Row
      BY <1>12 DEF Deliver, InHand
    <2>2. QED
      BY <1>12, <2>1 DEF Deliver, PutRow
  <1>13. ASSUME NEW t \in Threads, Finish(t) PROVE TypeOK' /\ BlocksDoNotOverlap'
    <2>1. lockOwner = t /\ holds # 0 /\ t # NoThread
      BY <1>13, ThreadsAssumption DEF Finish, AtEnd
    <2>2. TakeUp(t, todo[t])
      BY <1>13 DEF Finish
    <2>3. holds' \in Nat /\ (lockOwner' = NoThread <=> holds' = 0)
      BY <1>13, <2>1 DEF Finish
    <2>4. QED
      BY <1>13, <2>1, <2>2, <2>3, TakeUpTypes DEF Finish, SwapIn
  <1>14. ASSUME NEW t \in Threads, Abort(t) PROVE TypeOK' /\ BlocksDoNotOverlap'
    BY <1>0, <1>14 DEF Abort, Fail, GivenUp, RowsOf
  <1>15. ASSUME NEW t \in Threads, FinishFails(t) PROVE TypeOK' /\ BlocksDoNotOverlap'
    BY <1>0, <1>15 DEF FinishFails, Fail, GivenUp, SwapIn, RowsOf
  <1>16. ASSUME NEW t \in Threads, NEW k \in Keys, Refuse(t, k)
         PROVE  TypeOK' /\ BlocksDoNotOverlap'
    <2>1. todo[t][k] \in Row
      BY <1>16 DEF Refuse, InHand
    <2>2. QED
      BY <1>16, <2>1 DEF Refuse, PutRow, RowsOf
  <1>17. CASE UNCHANGED vars
    BY <1>17
  <1>18. QED
    BY <1>1, <1>2, <1>3, <1>4, <1>5, <1>6, <1>7, <1>8, <1>9, <1>10, <1>11, <1>12, <1>13,
       <1>14, <1>15, <1>16, <1>17 DEF Next, Step

\* Type correctness of every behaviour.
THEOREM TypeCorrect == Spec => []TypeOK
  <1>1. TypeOK /\ BlocksDoNotOverlap /\ [Next]_vars => (TypeOK /\ BlocksDoNotOverlap)'
    BY StepTypes
  <1>2. QED
    BY <1>1, InitTypes, PTL DEF Spec

\* The blocks of different threads never overlap: the lock that start() takes
\* is owned by the one thread that is inside a block, however many exceptions
\* have left it held.
THEOREM BlocksApart == Spec => []BlocksDoNotOverlap
  <1>1. TypeOK /\ BlocksDoNotOverlap /\ [Next]_vars => (TypeOK /\ BlocksDoNotOverlap)'
    BY StepTypes
  <1>2. QED
    BY <1>1, InitTypes, PTL DEF Spec

-----------------------------------------------------------------------------
(***************************************************************************)
(* Coherence: one lemma per action, one step per conjunct it can disturb.  *)
(***************************************************************************)

\* A thread that is busy finds the server up, and leaves it so.
LEMMA UpStays ==
    ASSUME IInv, UNCHANGED loaded, NEW t \in Threads, pc[t] # "idle"
    PROVE  Up /\ Up' /\ LoadIsCurrent'
  BY DEF IInv, CoherenceInv, ThreadsInOrder, Up, LoadIsCurrent

\* A write makes its own row pending and touches no other.
LEMMA WriteKeepsInv ==
    ASSUME IInv, TypeOK', NEW w \in Keys, Write(w)
    PROVE  CoherenceInv'
  <1> USE DEF IInv, CoherenceInv, Write, TypeOK, cacheVars, lockVars, threadVars, faultVars
  <1>1. /\ w \in unsent' /\ unsent \subseteq unsent'
        /\ \A k \in Keys : k # w => db'[k] = db[k]
    OBVIOUS
  <1>2. \A k \in Keys : /\ Queued(k)' <=> Queued(k)
                        /\ Pending(k) => Pending(k)'
    BY <1>1 DEF Queued, Pending
  <1>3. ThreadsInOrder'
    BY DEF ThreadsInOrder, Up, Nothing
  <1>4. QueueIsCurrent'
    BY <1>1 DEF QueueIsCurrent
  <1>5. InHandIsCurrent'
    BY <1>1, <1>2 DEF InHandIsCurrent, Renewed
  <1>6. LocalIsLive'
    BY DEF LocalIsLive, Reloading, RowsOf, Up
  <1>7. ReloadIsComplete'
    BY <1>1, <1>2 DEF ReloadIsComplete, Pending
  <1>8. Coherent' /\ LoadIsCurrent'
    BY <1>1, <1>2 DEF Coherent, LoadIsCurrent, Up, Pending
  <1>9. QED
    BY <1>3, <1>4, <1>5, <1>6, <1>7, <1>8

\* A message takes the rows it is about from `unsent` to the end of the queue.
LEMMA SendKeepsInv ==
    ASSUME IInv, TypeOK', NEW K \in SUBSET Keys, NEW trusted \in SUBSET Entities,
           SendUpdate(K, trusted)
    PROVE  CoherenceInv'
  <1> DEFINE msg == [k \in Keys |-> IF k \notin K THEN Silent
                        ELSE IF k[1] \in trusted THEN db[k] ELSE IdOnly]
  <1> USE DEF IInv, CoherenceInv, TypeOK, cacheVars, lockVars, threadVars, faultVars
  <1>1. /\ queue' = Append(queue, msg) /\ unsent' = unsent \ K
        /\ UNCHANGED <<db, cacheVars, lockVars, threadVars, faultVars>>
    BY DEF SendUpdate
  <1>2. /\ \A k \in K : msg[k] # Silent
        /\ \A k \in Keys : msg[k] \in Row => msg[k] = db[k]
    BY NotesAssumption
  <1>3. msg \in [Keys -> Note]
    OBVIOUS
  <1> HIDE DEF msg
  <1>4. /\ Len(queue) \in Nat /\ Len(queue') = Len(queue) + 1
        /\ \A i \in 1..Len(queue) : queue'[i] = queue[i]
        /\ queue'[Len(queue) + 1] = msg
    BY <1>1, <1>3
  <1>5. \A k \in Keys : Queued(k) \/ k \in K => Queued(k)'
    <2> TAKE k \in Keys
    <2>1. ASSUME NEW i \in 1..Len(queue), queue[i][k] # Silent PROVE Queued(k)'
      <3>1. i \in 1..Len(queue') /\ queue'[i][k] # Silent
        BY <1>4, <2>1
      <3>2. QED
        BY <3>1 DEF Queued
    <2>2. ASSUME k \in K PROVE Queued(k)'
      <3>1. Len(queue) + 1 \in 1..Len(queue') /\ queue'[Len(queue) + 1][k] # Silent
        BY <1>2, <1>4, <2>2
      <3>2. QED
        BY <3>1 DEF Queued
    <2>3. QED
      BY <2>1, <2>2 DEF Queued
  <1>6. \A k \in Keys : Pending(k) => Pending(k)'
    BY <1>1, <1>5 DEF Pending
  <1>7. ThreadsInOrder'
    BY <1>1 DEF ThreadsInOrder, Up, Nothing
  <1>8. QueueIsCurrent'
    <2> SUFFICES ASSUME NEW i \in 1..Len(queue'), NEW k \in Keys,
                        queue'[i][k] \in Row, queue'[i][k] # db'[k], k \notin unsent'
                 PROVE  \E j \in (i + 1)..Len(queue') : queue'[j][k] # Silent
      BY DEF QueueIsCurrent
    <2>1. i \in 1..Len(queue)
      <3>1. CASE i = Len(queue) + 1
        <4>1. queue'[i] = msg
          BY <1>4, <3>1
        <4>2. QED
          BY <1>1, <1>2, <4>1
      <3>2. QED
        BY <1>4, <3>1
    <2>2. CASE k \in K
      <3>1. Len(queue) + 1 \in (i + 1)..Len(queue') /\ queue'[Len(queue) + 1][k] # Silent
        BY <1>2, <1>4, <2>1, <2>2
      <3>2. QED
        BY <3>1
    <2>3. CASE k \notin K
      <3>1. PICK j \in (i + 1)..Len(queue) : queue[j][k] # Silent
        BY <1>1, <1>4, <2>1, <2>3 DEF QueueIsCurrent
      <3>2. QED
        BY <1>4, <3>1, <2>1
    <2>4. QED
      BY <2>2, <2>3
  <1>9. InHandIsCurrent'
    BY <1>1, <1>5 DEF InHandIsCurrent, Renewed
  <1>10. LocalIsLive'
    BY <1>1 DEF LocalIsLive, Reloading, RowsOf, Up
  <1>11. ReloadIsComplete'
    BY <1>1, <1>6 DEF ReloadIsComplete
  <1>12. Coherent' /\ LoadIsCurrent'
    BY <1>1, <1>6 DEF Coherent, LoadIsCurrent, Up
  <1>13. QED
    BY <1>7, <1>8, <1>9, <1>10, <1>11, <1>12

\* While entities are being loaded every thread is idle.
LEMMA LoadKeepsInv ==
    ASSUME IInv, TypeOK', NEW e \in Entities, LoadEntity(e)
    PROVE  CoherenceInv'
  <1> USE DEF IInv, CoherenceInv, TypeOK, LoadEntity, appVars, lockVars, threadVars, faultVars
  <1>1. \A t \in Threads : pc[t] = "idle"
    BY DEF ThreadsInOrder, Up
  <1>2. ThreadsInOrder'
    BY <1>1 DEF ThreadsInOrder, Nothing
  <1>3. QueueIsCurrent'
    BY DEF QueueIsCurrent
  <1>4. InHandIsCurrent'
    BY DEF InHandIsCurrent, Renewed, Queued
  <1>5. LocalIsLive'
    BY <1>1 DEF LocalIsLive, Reloading, RowsOf, Up
  <1>6. ReloadIsComplete'
    BY <1>1 DEF ReloadIsComplete
  <1>7. \A k \in Keys : k[1] \in loaded' => local'[k] = db[k] \/ Pending(k)'
    BY DEF LoadIsCurrent, Up, Pending, Queued
  <1>8. Coherent' /\ LoadIsCurrent'
    BY <1>7 DEF Coherent, LoadIsCurrent, Up, Keys
  <1>9. QED
    BY <1>2, <1>3, <1>4, <1>5, <1>6, <1>8

\* A restart forgets everything that could be out of date.
LEMMA CrashKeepsInv ==
    ASSUME IInv, TypeOK', Crash
    PROVE  CoherenceInv'
  <1> USE DEF IInv, CoherenceInv, TypeOK, Crash, appVars
  <1>1. \A t \in Threads : pc'[t] = "idle" /\ job'[t] = "lookup" /\ todo'[t] = Nothing
    OBVIOUS
  <1>2. \A t \in Threads, k \in Keys : todo'[t][k] \notin Row
    BY <1>1, NotesAssumption DEF Nothing
  <1>3. ThreadsInOrder'
    BY <1>1, <1>2 DEF ThreadsInOrder, Nothing
  <1>4. QueueIsCurrent'
    BY DEF QueueIsCurrent
  <1>5. InHandIsCurrent'
    BY <1>2 DEF InHandIsCurrent
  <1>6. LocalIsLive' /\ Coherent' /\ LoadIsCurrent'
    BY <1>1 DEF LocalIsLive, Reloading, Coherent, LoadIsCurrent, Up, Keys
  <1>7. ReloadIsComplete'
    BY <1>1 DEF ReloadIsComplete
  <1>8. QED
    BY <1>3, <1>4, <1>5, <1>6, <1>7

\* A message passes from the head of the queue to the listener.
LEMMA ReceiveKeepsInv ==
    ASSUME IInv, TypeOK', Receive
    PROVE  CoherenceInv'
  <1> DEFINE msg == Head(queue)
  <1> USE DEF IInv, CoherenceInv, TypeOK
  <1>1. /\ queue # <<>> /\ queue' = Tail(queue) /\ Up
        /\ pc[Listener] = "idle"
        /\ todo' = [todo EXCEPT ![Listener] = msg]
        /\ TakeUp(Listener, msg)
        /\ UNCHANGED <<db, unsent, loaded, live, local, bulk, lockVars, lost>>
    BY DEF Receive, cacheVars, faultVars
  <1>2. /\ msg = queue[1] /\ msg \in [Keys -> Note]
        /\ Len(queue) \in Nat /\ Len(queue) >= 1 /\ Len(queue') = Len(queue) - 1
        /\ \A i \in 1..Len(queue') : queue'[i] = queue[i + 1]
    BY <1>1
  <1> HIDE DEF msg
  <1>3. todo[Listener] = Nothing /\ todo'[Listener] = msg
    BY <1>1 DEF ThreadsInOrder
  <1>4. \A t \in Operators : /\ todo'[t] = todo[t] /\ pc'[t] = pc[t]
                            /\ job'[t] = job[t] /\ block'[t] = block[t]
    BY <1>1, TakeUpTypes, ThreadsAssumption
  <1>5. \A k \in Keys : Queued(k) => msg[k] # Silent \/ Queued(k)'
    <2> SUFFICES ASSUME NEW k \in Keys, NEW i \in 1..Len(queue), queue[i][k] # Silent, i # 1
                 PROVE  Queued(k)'
      BY <1>2 DEF Queued
    <2>1. i - 1 \in 1..Len(queue') /\ queue'[i - 1] = queue[i]
      BY <1>2
    <2>2. QED
      BY <2>1 DEF Queued
  <1>6. \A k \in Keys : Pending(k) => Pending(k)'
    BY <1>1, <1>3, <1>5 DEF Pending, Nothing
  <1>7. ThreadsInOrder'
    <2>1. pc'[Listener] = "idle" => msg = Nothing
      BY <1>1, <1>2, TakeUpTypes, NoEntityNothing
    <2>2. job'[Listener] # "reload"
      BY <1>1, TakeUpTypes DEF ThreadsInOrder
    <2>3. pc'[Listener] \notin {"opened", "bulk"}
      BY <1>1, TakeUpTypes DEF InBlock
    <2>4. QED
      BY <1>1, <1>3, <1>4, <2>1, <2>2, <2>3 DEF ThreadsInOrder, Up, Nothing
  <1>8. QueueIsCurrent'
    <2> SUFFICES ASSUME NEW i \in 1..Len(queue'), NEW k \in Keys,
                        queue'[i][k] \in Row, queue'[i][k] # db[k], k \notin unsent
                 PROVE  \E j \in (i + 1)..Len(queue') : queue'[j][k] # Silent
      BY <1>1 DEF QueueIsCurrent
    <2>1. i + 1 \in 1..Len(queue)
      BY <1>2
    <2>2. queue'[i] = queue[i + 1]
      BY <1>2
    <2>3. PICK j \in ((i + 1) + 1)..Len(queue) : queue[j][k] # Silent
      BY <2>1, <2>2 DEF QueueIsCurrent
    <2>4. j - 1 \in (i + 1)..Len(queue') /\ queue'[j - 1] = queue[j]
      BY <1>2, <2>3
    <2>5. QED
      BY <2>3, <2>4
  <1>9. InHandIsCurrent'
    <2>1. ASSUME NEW k \in Keys, msg[k] \in Row, msg[k] # db[k], k \notin unsent
          PROVE  Queued(k)'
      <3>1. PICK j \in 2..Len(queue) : queue[j][k] # Silent
        BY <1>2, <2>1 DEF QueueIsCurrent
      <3>2. j - 1 \in 1..Len(queue') /\ queue'[j - 1] = queue[j]
        BY <1>2
      <3>3. QED
        BY <3>1, <3>2 DEF Queued
    <2>2. \A t \in Operators, k \in Keys : Renewed(t, k) => Renewed(t, k)'
      BY <1>1, <1>3, <1>5, ThreadsAssumption DEF Renewed, Nothing
    <2>3. QED
      BY <1>1, <1>3, <1>4, <2>1, <2>2 DEF InHandIsCurrent, Renewed
  <1>10. \A t \in Threads, e \in Entities : Reloading(t, e)' <=> Reloading(t, e)
    <2>1. ~InBlock(Listener)' /\ ~InBlock(Listener)
      BY <1>1, TakeUpTypes DEF InBlock
    <2>2. QED
      BY <1>4, <2>1 DEF Reloading, InBlock
  <1>up. Up' /\ LoadIsCurrent'
    BY <1>1 DEF Up, LoadIsCurrent
  <1>11. LocalIsLive'
    BY <1>1, <1>up, <1>10 DEF LocalIsLive, RowsOf
  <1>12. ReloadIsComplete'
    <2>1. ~InBlock(Listener)'
      BY <1>1, TakeUpTypes
    <2>2. QED
      BY <1>1, <1>4, <1>6, <2>1 DEF ReloadIsComplete, InBlock
  <1>13. Coherent'
    BY <1>1, <1>up, <1>6 DEF Coherent
  <1>14. QED
    BY <1>up, <1>7, <1>8, <1>9, <1>11, <1>12, <1>13

\* A thread inside a block is alone: no other is inside one, and no operator
\* but it has a row in hand.
LEMMA Alone ==
    ASSUME IInv, NEW t \in Threads, InBlock(t)
    PROVE  /\ \A u \in Threads \ {t} : ~InBlock(u)
           /\ \A u \in Operators \ {t}, k \in Keys : todo[u][k] \notin Row
           /\ \A u \in Threads, e \in Entities : Reloading(u, e) => u = t
  BY ThreadsAssumption
     DEF IInv, CoherenceInv, BlocksDoNotOverlap, ThreadsInOrder, InBlock, Reloading

\* Only operators reload.
LEMMA ListenerDoesNotReload ==
    ASSUME IInv, NEW e \in Entities
    PROVE  ~Reloading(Listener, e)
  BY DEF IInv, CoherenceInv, ThreadsInOrder, Reloading

\* As long as the listener's notes, the queue and the owed rows stay, so does
\* everything that is pending.
LEMMA PendingStays ==
    ASSUME UNCHANGED <<unsent, queue>>, todo'[Listener] = todo[Listener]
    PROVE  /\ \A k \in Keys : Pending(k)' <=> Pending(k)
           /\ \A t \in Threads, k \in Keys : Renewed(t, k)' <=> Renewed(t, k)
  BY DEF Pending, Renewed, Queued

\* An operator asks for a block.
LEMMA RequestKeepsInv ==
    ASSUME IInv, TypeOK', NEW t \in Operators,
           \/ \E k \in Keys : Poke(t, k)
           \/ \E e \in Entities : Reload(t, e)
    PROVE  CoherenceInv'
  <1> USE DEF IInv, CoherenceInv
  <1>1. /\ UNCHANGED <<db, unsent, queue, loaded, live, local, bulk, lost>> /\ Up
        /\ pc[t] = "idle" /\ pc'[t] = "waiting"
        /\ \A u \in Threads \ {t} : /\ pc'[u] = pc[u] /\ job'[u] = job[u]
                                   /\ block'[u] = block[u] /\ todo'[u] = todo[u]
    <2> USE DEF appVars, cacheVars, faultVars, TypeOK
    <2>1. CASE \E k \in Keys : Poke(t, k)
      BY <2>1 DEF Poke
    <2>2. CASE \E e \in Entities : Reload(t, e)
      BY <2>2 DEF Reload
    <2>3. QED
      BY <2>1, <2>2
  <1>2. t # Listener /\ todo'[Listener] = todo[Listener]
    BY <1>1, ThreadsAssumption
  <1>3. \A k \in Keys : todo'[t][k] \notin Row
    <2>1. ASSUME NEW k \in Keys, Poke(t, k), NEW j \in Keys PROVE todo'[t][j] \notin Row
      <3>1. todo'[t] = [Nothing EXCEPT ![k] = IdOnly]
        BY <2>1 DEF Poke, TypeOK
      <3>2. QED
        BY <3>1, NotesAssumption DEF Nothing
    <2>2. ASSUME NEW e \in Entities, Reload(t, e), NEW j \in Keys PROVE todo'[t][j] \notin Row
      BY <1>1, <2>2, NotesAssumption DEF Reload, ThreadsInOrder, Nothing
    <2>3. QED
      BY <2>1, <2>2
  <1>4. ThreadsInOrder'
    BY <1>1, <1>2, <1>3 DEF ThreadsInOrder, Up, Nothing
  <1>5. QueueIsCurrent'
    BY <1>1 DEF QueueIsCurrent
  <1>6. InHandIsCurrent'
    <2>1. \A u \in Threads, k \in Keys : Renewed(u, k)' <=> Renewed(u, k)
      BY <1>1, <1>2, PendingStays
    <2>2. ASSUME NEW u \in Threads, NEW k \in Keys, todo'[u][k] \in Row
          PROVE  todo'[u][k] = db'[k] \/ Renewed(u, k)'
      <3>1. u # t
        BY <1>3, <2>2
      <3>2. todo'[u] = todo[u] /\ db' = db
        BY <1>1, <3>1
      <3>3. QED
        BY <2>1, <2>2, <3>2 DEF InHandIsCurrent
    <2>3. QED
      BY <2>2 DEF InHandIsCurrent
  <1>7. \A u \in Threads, e \in Entities : Reloading(u, e)' <=> Reloading(u, e)
    BY <1>1 DEF Reloading
  <1>up. Up' /\ LoadIsCurrent'
    BY <1>1 DEF Up, LoadIsCurrent
  <1>8. LocalIsLive'
    BY <1>1, <1>up, <1>7 DEF LocalIsLive, RowsOf, TypeOK
  <1>9. ReloadIsComplete'
    BY <1>1, <1>2, PendingStays DEF ReloadIsComplete
  <1>10. Coherent'
    BY <1>1, <1>up, <1>2, PendingStays DEF Coherent
  <1>11. QED
    BY <1>up, <1>4, <1>5, <1>6, <1>8, <1>9, <1>10

\* A block begins.
LEMMA StartKeepsInv ==
    ASSUME IInv, TypeOK', NEW t \in Threads, Start(t)
    PROVE  CoherenceInv'
  <1> USE DEF IInv, CoherenceInv, TypeOK, appVars, cacheVars, faultVars
  <1>1. /\ UNCHANGED <<db, unsent, queue, loaded, live, local, bulk, lost, job, block, todo>>
        /\ pc[t] = "waiting"
        /\ pc' = [pc EXCEPT ![t] = IF job[t] = "reload" THEN "opened" ELSE "rows"]
    BY DEF Start
  <1>2. ThreadsInOrder'
    BY <1>1 DEF ThreadsInOrder, Up, Nothing
  <1>3. QueueIsCurrent'
    BY <1>1 DEF QueueIsCurrent
  <1>4. InHandIsCurrent'
    BY <1>1, PendingStays DEF InHandIsCurrent
  <1>5. \A u \in Threads, e \in Entities : Reloading(u, e)' <=> Reloading(u, e)
    BY <1>1 DEF Reloading
  <1>up. Up /\ Up' /\ LoadIsCurrent'
    BY <1>1, UpStays
  <1>6. LocalIsLive'
    BY <1>1, <1>up, <1>5 DEF LocalIsLive, RowsOf
  <1>7. ReloadIsComplete'
    BY <1>1, PendingStays DEF ReloadIsComplete
  <1>8. Coherent'
    BY <1>1, <1>up, PendingStays DEF Coherent
  <1>9. QED
    BY <1>up, <1>2, <1>3, <1>4, <1>6, <1>7, <1>8

\* A reload starts over with an empty local cache.
LEMMA StartBulkKeepsInv ==
    ASSUME IInv, TypeOK', NEW t \in Threads, StartBulk(t)
    PROVE  CoherenceInv'
  <1> USE DEF IInv, CoherenceInv, TypeOK, appVars, lockVars, faultVars
  <1>1. /\ UNCHANGED <<db, unsent, queue, loaded, live, lost, job, block, todo>>
        /\ pc[t] = "opened" /\ pc' = [pc EXCEPT ![t] = "bulk"]
        /\ local' = [k \in Keys |-> IF k[1] = block[t] THEN NoRow ELSE local[k]]
        /\ bulk' = bulk \union {block[t]}
    BY DEF StartBulk
  <1>2. \A u \in Threads \ {t} : ~InBlock(u)
    BY <1>1, Alone DEF InBlock
  <1>3. ThreadsInOrder'
    BY <1>1 DEF ThreadsInOrder, Up, Nothing
  <1>4. QueueIsCurrent'
    BY <1>1 DEF QueueIsCurrent
  <1>5. InHandIsCurrent'
    BY <1>1, PendingStays DEF InHandIsCurrent
  <1>6. \A u \in Threads, e \in Entities :
            Reloading(u, e)' <=> (u = t /\ e = block[t])
    BY <1>1, <1>2 DEF Reloading, InBlock
  <1>7. \A e \in bulk : RowsOf(e) \subseteq lost
    BY <1>1, <1>2 DEF LocalIsLive, Reloading, InBlock
  <1>up. Up /\ Up' /\ LoadIsCurrent'
    BY <1>1, UpStays
  <1>8. LocalIsLive'
    BY <1>1, <1>up, <1>6, <1>7 DEF LocalIsLive, RowsOf
  <1>9. ReloadIsComplete'
    BY <1>1, <1>2 DEF ReloadIsComplete, InBlock
  <1>10. Coherent'
    BY <1>1, <1>up, PendingStays DEF Coherent
  <1>11. QED
    BY <1>up, <1>3, <1>4, <1>5, <1>8, <1>9, <1>10

\* The query of a reload puts every row that is there in hand and notes the
\* others as absent.
LEMMA QueryAllKeepsInv ==
    ASSUME IInv, TypeOK', NEW t \in Threads, QueryAll(t)
    PROVE  CoherenceInv'
  <1> USE DEF IInv, CoherenceInv, TypeOK, appVars, lockVars, faultVars
  <1>1. /\ UNCHANGED <<db, unsent, queue, loaded, live, bulk, lost, job, block>>
        /\ pc[t] = "bulk" /\ pc' = [pc EXCEPT ![t] = "rows"]
        /\ todo' = [todo EXCEPT ![t] = [k \in Keys |->
                        IF k[1] = block[t] /\ db[k].there THEN db[k] ELSE Silent]]
        /\ local' = [k \in Keys |->
                        IF k[1] = block[t] /\ ~(k[1] = block[t] /\ db[k].there)
                        THEN db[k] ELSE local[k]]
    BY DEF QueryAll
  <1>2. \A u \in Threads \ {t} : ~InBlock(u) /\ todo'[u] = todo[u]
    BY <1>1, Alone DEF InBlock
  <1>3. job[t] = "reload" /\ t # Listener /\ Reloading(t, block[t])
    BY <1>1 DEF ThreadsInOrder, Reloading
  <1>4. \A k \in Keys : /\ todo'[t][k] \in Row <=> k[1] = block[t] /\ db[k].there
                        /\ todo'[t][k] \in Row => todo'[t][k] = db[k]
    BY <1>1, NotesAssumption
  <1>5. ThreadsInOrder'
    <2>1. \A k \in Keys : todo'[t][k] \in Row => pc'[t] = "rows" /\ block'[t] = k[1]
      BY <1>1, <1>4
    <2>2. QED
      BY <1>1, <1>2, <1>3, <2>1 DEF ThreadsInOrder, Up, Nothing
  <1>6. QueueIsCurrent'
    BY <1>1 DEF QueueIsCurrent
  <1>7. \A k \in Keys : /\ Pending(k)' <=> Pending(k)
                        /\ \A u \in Threads : Renewed(u, k)' <=> Renewed(u, k)
    BY <1>1, <1>2, <1>3, PendingStays
  <1>8. InHandIsCurrent'
    BY <1>1, <1>2, <1>4, <1>7 DEF InHandIsCurrent
  <1>9. \A u \in Threads, e \in Entities : Reloading(u, e)' <=> Reloading(u, e)
    BY <1>1, <1>3 DEF Reloading
  <1>up. Up /\ Up' /\ LoadIsCurrent'
    BY <1>1, UpStays
  <1>10. LocalIsLive'
    <2>1. block[t] \in bulk
      BY <1>1, <1>3 DEF LocalIsLive
    <2>2. QED
      BY <1>1, <1>up, <1>9, <2>1 DEF LocalIsLive, RowsOf
  <1>11. ReloadIsComplete'
    BY <1>1, <1>2, <1>4, <1>7 DEF ReloadIsComplete, InBlock
  <1>12. Coherent'
    BY <1>1, <1>up, <1>7 DEF Coherent
  <1>13. QED
    BY <1>up, <1>5, <1>6, <1>8, <1>10, <1>11, <1>12

\* A row looked up is, at that moment, the database's.
LEMMA LookupKeepsInv ==
    ASSUME IInv, TypeOK', NEW t \in Threads, NEW r \in Keys, Lookup(t, r)
    PROVE  CoherenceInv'
  <1> USE DEF IInv, CoherenceInv, TypeOK, appVars, cacheVars, lockVars, faultVars
  <1>1. /\ UNCHANGED <<db, unsent, queue, loaded, live, local, bulk, lost, pc, job, block>>
        /\ pc[t] = "rows" /\ r[1] = block[t] /\ todo[t][r] = IdOnly
        /\ todo' = [todo EXCEPT ![t][r] = db[r]]
    BY DEF Lookup
  <1>2. /\ todo'[t][r] = db[r] /\ db[r] \in Row
        /\ \A u \in Threads, k \in Keys : u # t \/ k # r => todo'[u][k] = todo[u][k]
        /\ \A u \in Threads \ {t} : todo'[u] = todo[u]
    BY <1>1
  <1>3. \A u \in Threads, k \in Keys : todo'[u][k] # Silent <=> todo[u][k] # Silent
    BY <1>1, <1>2, NotesAssumption
  <1>4. \A k \in Keys : /\ Pending(k)' <=> Pending(k)
                        /\ \A u \in Threads : Renewed(u, k)' <=> Renewed(u, k)
    BY <1>1, <1>3 DEF Pending, Renewed, Queued
  <1>5. ThreadsInOrder'
    BY <1>1, <1>2 DEF ThreadsInOrder, Up, Nothing
  <1>6. QueueIsCurrent'
    BY <1>1 DEF QueueIsCurrent
  <1>7. InHandIsCurrent'
    BY <1>1, <1>2, <1>4 DEF InHandIsCurrent
  <1>up. Up /\ Up' /\ LoadIsCurrent'
    BY <1>1, UpStays
  <1>8. LocalIsLive'
    BY <1>1, <1>up DEF LocalIsLive, Reloading, RowsOf
  <1>9. ReloadIsComplete'
    BY <1>1, <1>2, <1>4 DEF ReloadIsComplete
  <1>10. Coherent'
    BY <1>1, <1>up, <1>4 DEF Coherent
  <1>11. QED
    BY <1>up, <1>5, <1>6, <1>7, <1>8, <1>9, <1>10

\* Thread t passes on row r of its block, and drops the rows `dropped`.
RowPassed(t, r, dropped) ==
    /\ InBlock(t) /\ pc[t] = "rows" /\ r \in InHand(t, block[t])
    /\ PutRow(r, todo[t][r])
    /\ todo' \in [Threads -> [Keys -> Note]]
    /\ \A u \in Threads \ {t} : todo'[u] = todo[u]
    /\ \A k \in Keys : todo'[t][k] = IF k = r \/ k \in dropped THEN Silent ELSE todo[t][k]
    /\ dropped = {} \/ job[t] # "reload"
    /\ lost' = (IF r[1] \in bulk THEN lost ELSE lost \ {r}) \union dropped
    /\ UNCHANGED <<db, unsent, queue, loaded, bulk, pc, job, block>>

\* What is still pending after that.
LEMMA RowDelivered ==
    ASSUME IInv, TypeOK', NEW t \in Threads, NEW r \in Keys, NEW dropped \in SUBSET Keys,
           RowPassed(t, r, dropped)
    PROVE  CoherenceInv'
  <1> USE DEF RowPassed
  <1> USE DEF IInv, CoherenceInv, TypeOK
  <1>1. todo[t][r] \in Row /\ r[1] = block[t]
    BY DEF InHand, RowsOf
  <1>2. /\ \A u \in Threads \ {t} : ~InBlock(u)
        /\ \A u \in Operators \ {t}, k \in Keys : todo[u][k] \notin Row
        /\ \A u \in Threads, e \in Entities : Reloading(u, e) => u = t
    BY Alone
  <1>3. /\ local'[r] = todo[t][r]
        /\ r[1] \notin bulk => live'[r] = todo[t][r]
        /\ r[1] \in bulk => live'[r] = live[r]
        /\ \A k \in Keys \ {r} : local'[k] = local[k] /\ live'[k] = live[k]
    BY DEF PutRow
  <1>4. \A k \in Keys : /\ Pending(k) => Pending(k)' \/ k \in dropped \/ (k = r /\ t = Listener)
                        /\ Renewed(t, k)' <=> Renewed(t, k)
                        /\ t # Listener => (Pending(k)' <=> Pending(k))
    BY DEF Pending, Renewed, Queued
  <1>5. todo[t][r] = db[r] \/ Pending(r)'
    <2>1. todo[t][r] = db[r] \/ Renewed(t, r)
      BY <1>1 DEF InHandIsCurrent
    <2>2. Renewed(t, r) => Pending(r)'
      BY DEF Renewed, Pending, Queued
    <2>3. QED
      BY <2>1, <2>2
  <1>6. ThreadsInOrder'
    <2>1. \A u \in Threads, k \in Keys : todo'[u][k] \in Row => todo[u][k] \in Row
      BY NotesAssumption
    <2>2. \A u \in Threads : pc[u] = "idle" => todo'[u] = Nothing
      BY DEF ThreadsInOrder
    <2>3. Nothing' = Nothing /\ (Up' <=> Up)
      BY DEF Nothing, Up
    <2>4. QED
      BY <2>1, <2>2, <2>3 DEF ThreadsInOrder
  <1>7. QueueIsCurrent'
    BY DEF QueueIsCurrent
  <1>8. InHandIsCurrent'
    <2> SUFFICES ASSUME NEW u \in Threads, NEW k \in Keys, todo'[u][k] \in Row
                 PROVE  todo'[u][k] = db[k] \/ Renewed(u, k)'
      BY DEF InHandIsCurrent
    <2>1. CASE u = t
      BY <1>4, <2>1, NotesAssumption DEF InHandIsCurrent
    <2>2. CASE u # t
      <3>1. u = Listener /\ todo'[u][k] = todo[u][k]
        BY <1>2, <2>2
      <3>2. QED
        BY <3>1 DEF InHandIsCurrent, Renewed, Queued
    <2>3. QED
      BY <2>1, <2>2
  <1>9. \A u \in Threads, e \in Entities : Reloading(u, e)' <=> Reloading(u, e)
    BY DEF Reloading
  <1>up. Up /\ Up' /\ LoadIsCurrent'
    BY UpStays
  <1>10. LocalIsLive'
    <2>1. ASSUME NEW k \in Keys, k[1] \notin bulk PROVE local'[k] = live'[k]
      BY <1>3, <1>up, <2>1 DEF LocalIsLive
    <2>2. ASSUME NEW e \in bulk, RowsOf(e) \subseteq lost, NEW k \in RowsOf(e)
          PROVE  k \in lost'
      <3>1. k[1] = e /\ k \in lost
        BY <2>2 DEF RowsOf
      <3>2. CASE r[1] \in bulk
        BY <3>1, <3>2
      <3>3. CASE r[1] \notin bulk
        <4>1. k # r
          BY <2>2, <3>1, <3>3
        <4>2. QED
          BY <3>1, <3>3, <4>1
      <3>4. QED
        BY <3>2, <3>3
    <2>3. ASSUME NEW e \in bulk
          PROVE  RowsOf(e)' \subseteq lost' \/ \E u \in Threads : Reloading(u, e)'
      <3>1. RowsOf(e)' = RowsOf(e) /\ e \in Entities
        BY DEF RowsOf
      <3>2. CASE RowsOf(e) \subseteq lost
        BY <2>2, <3>1, <3>2
      <3>3. CASE \E u \in Threads : Reloading(u, e)
        BY <1>9, <3>1, <3>3
      <3>4. QED
        BY <3>2, <3>3 DEF LocalIsLive
    <2>4. \A u \in Threads, e \in Entities : Reloading(u, e)' => e \in bulk'
      BY <1>9 DEF LocalIsLive
    <2>5. QED
      BY <1>up, <2>1, <2>3, <2>4 DEF LocalIsLive
  <1>11. ReloadIsComplete'
    <2> SUFFICES ASSUME NEW k \in Keys, pc[t] = "rows", job[t] = "reload", block[t] = k[1]
                 PROVE  local'[k] = db[k] \/ todo'[t][k] \in Row \/ Pending(k)'
      BY <1>2 DEF ReloadIsComplete, InBlock
    <2>1. t # Listener /\ dropped = {}
      BY DEF ThreadsInOrder
    <2>2. CASE k = r
      BY <1>3, <1>5, <2>2
    <2>3. CASE k # r
      BY <1>3, <1>4, <2>1, <2>3 DEF ReloadIsComplete
    <2>4. QED
      BY <2>2, <2>3
  <1>12. Coherent'
    <2> SUFFICES ASSUME NEW k \in Keys
                 PROVE  live'[k] = db[k] \/ Pending(k)' \/ k \in lost'
      BY DEF Coherent
    <2>1. CASE k # r
      BY <1>3, <1>4, <1>up, <2>1 DEF Coherent
    <2>2. CASE k = r /\ r[1] \notin bulk
      BY <1>3, <1>5, <2>2
    <2>3. CASE k = r /\ r[1] \in bulk /\ t # Listener
      BY <1>3, <1>4, <1>up, <2>3 DEF Coherent
    <2>4. CASE k = r /\ r[1] \in bulk /\ t = Listener
      <3>1. RowsOf(r[1]) \subseteq lost
        <4>1. r[1] \in Entities /\ \A u \in Threads : ~Reloading(u, r[1])
          BY <1>2, <2>4, ListenerDoesNotReload
        <4>2. QED
          BY <2>4, <4>1 DEF LocalIsLive
      <3>2. QED
        BY <2>4, <3>1 DEF RowsOf
    <2>5. QED
      BY <2>1, <2>2, <2>3, <2>4
  <1>13. QED
    BY <1>up, <1>6, <1>7, <1>8, <1>10, <1>11, <1>12

\* A delivered row is passed on, and nothing dropped.
LEMMA DeliverPasses ==
    ASSUME TypeOK, NEW t \in Threads, NEW r \in Keys, Deliver(t, r)
    PROVE  RowPassed(t, r, {})
  <1>1. /\ UNCHANGED <<db, unsent, queue, loaded, bulk, pc, job, block>>
        /\ pc[t] = "rows" /\ r \in InHand(t, block[t]) /\ PutRow(r, todo[t][r])
        /\ todo' = [todo EXCEPT ![t][r] = Silent]
        /\ lost' = (IF r[1] \in bulk THEN lost ELSE lost \ {r}) \union {}
        /\ InBlock(t)
    BY DEF Deliver, InBlock, appVars
  <1>2. /\ todo' \in [Threads -> [Keys -> Note]]
        /\ \A u \in Threads \ {t} : todo'[u] = todo[u]
        /\ \A k \in Keys : todo'[t][k] = IF k = r \/ k \in {} THEN Silent ELSE todo[t][k]
    BY <1>1 DEF TypeOK
  <1>3. QED
    BY <1>1, <1>2 DEF RowPassed

LEMMA DeliverKeepsInv ==
    ASSUME IInv, TypeOK', NEW t \in Threads, NEW r \in Keys, Deliver(t, r)
    PROVE  CoherenceInv'
  <1>1. {} \in SUBSET Keys /\ RowPassed(t, r, {})
    BY DeliverPasses DEF IInv
  <1>2. QED
    BY <1>1, RowDelivered

\* The rows dropped along with a refused one are lost.
LEMMA RefusePasses ==
    ASSUME TypeOK, NEW t \in Threads, NEW r \in Keys, Refuse(t, r)
    PROVE  \E dropped \in SUBSET Keys : RowPassed(t, r, dropped)
  <1> DEFINE dropped == {j \in RowsOf(block[t]) \ {r} : todo[t][j] # Silent}
  <1>1. /\ UNCHANGED <<db, unsent, queue, loaded, bulk, pc, job, block>>
        /\ pc[t] = "rows" /\ job[t] # "reload"
        /\ r \in InHand(t, block[t]) /\ PutRow(r, todo[t][r])
        /\ todo' = [todo EXCEPT ![t] =
                        [j \in Keys |-> IF j[1] = block[t] THEN Silent ELSE todo[t][j]]]
        /\ lost' = (IF r[1] \in bulk THEN lost ELSE lost \ {r}) \union dropped
        /\ InBlock(t)
    BY DEF Refuse, InBlock, appVars
  <1>2. /\ todo' \in [Threads -> [Keys -> Note]]
        /\ \A u \in Threads \ {t} : todo'[u] = todo[u]
        /\ \A k \in Keys : todo'[t][k] = IF k = r \/ k \in dropped THEN Silent ELSE todo[t][k]
    BY <1>1 DEF TypeOK, InHand, RowsOf
  <1>3. dropped \in SUBSET Keys
    BY DEF RowsOf
  <1> HIDE DEF dropped
  <1>4. RowPassed(t, r, dropped)
    BY <1>1, <1>2 DEF RowPassed
  <1>5. QED
    BY <1>3, <1>4

LEMMA RefuseKeepsInv ==
    ASSUME IInv, TypeOK', NEW t \in Threads, NEW r \in Keys, Refuse(t, r)
    PROVE  CoherenceInv'
  <1>1. \E dropped \in SUBSET Keys : RowPassed(t, r, dropped)
    BY RefusePasses DEF IInv
  <1>2. QED
    BY <1>1, RowDelivered

\* The caches at a finish(): of what is served after the swap, a row that
\* differs from the database is pending, or was lost and not recovered now.
LEMMA SwapServes ==
    ASSUME IInv, NEW t \in Threads, AtEnd(t), SwapIn, UNCHANGED <<db, loaded>>,
           NEW k \in Keys
    PROVE  /\ live'[k] = local[k]
           /\ live'[k] = db[k] \/ Pending(k) \/ k \in lost \ Recovered(t)
  <1> USE DEF IInv, CoherenceInv, TypeOK, SwapIn
  <1>1. pc[t] = "rows" /\ InBlock(t) /\ Up
    BY DEF AtEnd, InBlock, ThreadsInOrder
  <1>2. k[1] \in Entities /\ k \in RowsOf(k[1])
    BY DEF Keys, RowsOf
  <1>3. CASE k[1] \notin bulk
    <2>1. live'[k] = live[k] /\ local[k] = live[k]
      BY <1>1, <1>3 DEF LocalIsLive
    <2>2. k \notin Recovered(t)
      BY <1>1, <1>2, <1>3 DEF Recovered, RowsOf, LocalIsLive, Reloading
    <2>3. QED
      BY <1>1, <2>1, <2>2 DEF Coherent
  <1>4. CASE k[1] \in bulk /\ Reloading(t, k[1])
    <2>1. todo[t][k] = Silent /\ job[t] = "reload" /\ block[t] = k[1]
      BY <1>1, <1>2, <1>4 DEF Reloading, AtEnd
    <2>2. local[k] = db[k] \/ Pending(k)
      BY <1>1, <2>1, NotesAssumption DEF ReloadIsComplete
    <2>3. QED
      BY <1>4, <2>2
  <1>5. CASE k[1] \in bulk /\ ~Reloading(t, k[1])
    <2>1. RowsOf(k[1]) \subseteq lost
      <3>1. \A u \in Threads : Reloading(u, k[1]) => u = t
        BY <1>1, <1>2, Alone
      <3>2. QED
        BY <1>5, <3>1 DEF LocalIsLive
    <2>2. k \notin Recovered(t)
      BY <1>1, <1>5 DEF Recovered, RowsOf, Reloading
    <2>3. QED
      BY <1>2, <1>5, <2>1, <2>2
  <1>6. QED
    BY <1>3, <1>4, <1>5

\* A thread at the end of its block has no row in hand if it is an operator.
LEMMA NothingInHand ==
    ASSUME IInv, NEW t \in Threads, InBlock(t), AtEnd(t), NEW u \in Operators, NEW k \in Keys
    PROVE  todo[u][k] \notin Row
  <1> USE DEF IInv, CoherenceInv
  <1>1. CASE u # t
    BY <1>1, Alone
  <1>2. CASE u = t
    BY <1>2, NotesAssumption DEF ThreadsInOrder, AtEnd, RowsOf
  <1>3. QED
    BY <1>1, <1>2

\* A block that finishes.
LEMMA FinishKeepsInv ==
    ASSUME IInv, TypeOK', NEW t \in Threads, Finish(t)
    PROVE  CoherenceInv'
  <1> USE DEF IInv, CoherenceInv
  <1>1. /\ UNCHANGED <<db, unsent, queue, loaded, local, todo>>
        /\ AtEnd(t) /\ SwapIn /\ bulk' = {} /\ TakeUp(t, todo[t])
        /\ lost' = lost \ Recovered(t) /\ pc[t] = "rows"
    BY DEF Finish, appVars, SwapIn, AtEnd
  <1>2. InBlock(t)
    BY <1>1 DEF InBlock
  <1>3. \A u \in Threads \ {t} : ~InBlock(u) /\ ~InBlock(u)'
    BY <1>1, <1>2, Alone, TakeUpTypes DEF InBlock
  <1>4. ~InBlock(t)'
    BY <1>1, TakeUpTypes
  <1>5. \A k \in Keys : /\ Pending(k)' <=> Pending(k)
                        /\ \A u \in Threads : Renewed(u, k)' <=> Renewed(u, k)
    BY <1>1, PendingStays
  <1>6. ThreadsInOrder'
    <2>1. pc'[t] = "idle" => todo[t] = Nothing
      BY <1>1, TakeUpTypes, NoEntityNothing DEF TypeOK
    <2>2. job'[Listener] # "reload"
      BY <1>1, TakeUpTypes DEF ThreadsInOrder
    <2>3. \A u \in Operators, k \in Keys : todo'[u][k] \notin Row
      BY <1>1, <1>2, NothingInHand
    <2>4. \A u \in Threads : pc'[u] # "idle" => Up'
      BY <1>1, TakeUpTypes DEF ThreadsInOrder, Up
    <2>5. \A u \in Threads : pc'[u] = "idle" => todo'[u] = Nothing'
      BY <1>1, <2>1, TakeUpTypes DEF ThreadsInOrder, Nothing
    <2>6. \A u \in Threads : pc'[u] \notin {"opened", "bulk"}
      BY <1>3, <1>4 DEF InBlock
    <2>7. QED
      BY <2>2, <2>3, <2>4, <2>5, <2>6 DEF ThreadsInOrder
  <1>7. QueueIsCurrent'
    BY <1>1 DEF QueueIsCurrent
  <1>8. InHandIsCurrent'
    BY <1>1, <1>5 DEF InHandIsCurrent
  <1>up. Up /\ Up' /\ LoadIsCurrent'
    BY <1>1, UpStays
  <1>9. LocalIsLive'
    <2>1. \A u \in Threads, e \in Entities : ~Reloading(u, e)'
      BY <1>3, <1>4 DEF Reloading, InBlock
    <2>2. \A k \in Keys : local[k] = live'[k]
      BY <1>1, SwapServes
    <2>3. QED
      BY <1>1, <2>1, <2>2 DEF LocalIsLive
  <1>10. ReloadIsComplete'
    BY <1>3, <1>4 DEF ReloadIsComplete, InBlock
  <1>11. Coherent'
    BY <1>1, <1>5, SwapServes DEF Coherent
  <1>12. QED
    BY <1>up, <1>6, <1>7, <1>8, <1>9, <1>10, <1>11

\* What a thread that throws leaves to the others.
LEMMA FailLeaves ==
    ASSUME IInv, TypeOK', NEW t \in Threads, InBlock(t), Fail(t), UNCHANGED <<db, unsent, queue, loaded>>
    PROVE  /\ ThreadsInOrder' /\ QueueIsCurrent' /\ InHandIsCurrent' /\ ReloadIsComplete'
           /\ Up /\ Up' /\ LoadIsCurrent'
           /\ \A u \in Threads, e \in Entities : ~Reloading(u, e)'
           /\ \A k \in Keys : Pending(k) => Pending(k)' \/ k \in GivenUp(t)
  <1> USE DEF IInv, CoherenceInv, TypeOK
  <1>1. /\ pc'[t] = "idle" /\ todo'[t] = Nothing /\ job' = job
        /\ \A u \in Threads \ {t} : pc'[u] = pc[u] /\ block'[u] = block[u] /\ todo'[u] = todo[u]
    BY DEF Fail
  <1>2. \A u \in Threads : ~InBlock(u)'
    BY <1>1, Alone DEF InBlock
  <1>3. Nothing' = Nothing /\ (Up' <=> Up) /\ \A k \in Keys : Nothing[k] \notin Row
    BY NotesAssumption DEF Nothing, Up
  <1>4. ThreadsInOrder'
    <2>1. \A u \in Threads : pc'[u] \notin {"opened", "bulk"}
      BY <1>2 DEF InBlock
    <2>2. \A u \in Operators, k \in Keys : todo'[u][k] \notin Row
      BY <1>1, <1>3, Alone
    <2>3. QED
      BY <1>1, <1>3, <2>1, <2>2 DEF ThreadsInOrder
  <1>5. QueueIsCurrent'
    BY DEF QueueIsCurrent
  <1>6. InHandIsCurrent'
    <2> SUFFICES ASSUME NEW u \in Threads, NEW k \in Keys, todo'[u][k] \in Row
                 PROVE  todo'[u][k] = db[k] \/ Renewed(u, k)'
      BY DEF InHandIsCurrent
    <2>1. u = Listener /\ u # t
      BY <1>1, <1>3, Alone
    <2>2. QED
      BY <1>1, <2>1 DEF InHandIsCurrent, Renewed, Queued
  <1>7. ReloadIsComplete'
    BY <1>2 DEF ReloadIsComplete, InBlock
  <1>8. \A u \in Threads, e \in Entities : ~Reloading(u, e)'
    BY <1>2 DEF Reloading, InBlock
  <1>9. \A k \in Keys : Pending(k) => Pending(k)' \/ k \in GivenUp(t)
    BY <1>1 DEF Pending, Queued, GivenUp
  <1>up. Up /\ Up' /\ LoadIsCurrent'
    BY UpStays DEF InBlock
  <1>10. QED
    BY <1>up, <1>4, <1>5, <1>6, <1>7, <1>8, <1>9

\* A block that is abandoned.
LEMMA AbortKeepsInv ==
    ASSUME IInv, TypeOK', NEW t \in Threads, Abort(t)
    PROVE  CoherenceInv'
  <1> USE DEF IInv, CoherenceInv
  <1>1. /\ UNCHANGED <<db, unsent, queue, loaded, live, local, bulk>>
        /\ InBlock(t) /\ Fail(t)
        /\ lost' = lost \union GivenUp(t) \union
                (IF block[t] \in bulk THEN RowsOf(block[t]) ELSE {})
    BY DEF Abort, appVars, cacheVars
  <1>2. LocalIsLive'
    <2>1. ASSUME NEW e \in bulk PROVE RowsOf(e)' \subseteq lost'
      <3>1. RowsOf(e)' = RowsOf(e) /\ e \in Entities
        BY DEF RowsOf, TypeOK
      <3>2. CASE RowsOf(e) \subseteq lost
        BY <1>1, <3>1, <3>2
      <3>3. CASE \E u \in Threads : Reloading(u, e)
        <4>1. e = block[t]
          BY <1>1, <3>1, <3>3, Alone DEF Reloading
        <4>2. QED
          BY <1>1, <3>1, <4>1
      <3>4. QED
        BY <3>2, <3>3 DEF LocalIsLive
    <2>2. QED
      BY <1>1, <2>1, FailLeaves DEF LocalIsLive
  <1>3. Coherent'
    BY <1>1, FailLeaves DEF Coherent
  <1>4. QED
    BY <1>1, <1>2, <1>3, FailLeaves

\* A block whose finish() throws.
LEMMA FinishFailsKeepsInv ==
    ASSUME IInv, TypeOK', NEW t \in Threads, FinishFails(t)
    PROVE  CoherenceInv'
  <1> USE DEF IInv, CoherenceInv
  <1>1. /\ UNCHANGED <<db, unsent, queue, loaded, local>>
        /\ AtEnd(t) /\ SwapIn /\ bulk' = {} /\ Fail(t) /\ InBlock(t)
        /\ lost' = (lost \ Recovered(t)) \union GivenUp(t)
    BY DEF FinishFails, appVars, SwapIn, AtEnd, InBlock
  <1>2. LocalIsLive'
    <2>1. \A k \in Keys : local[k] = live'[k]
      BY <1>1, SwapServes
    <2>2. QED
      BY <1>1, <2>1, FailLeaves DEF LocalIsLive
  <1>3. Coherent'
    BY <1>1, SwapServes, FailLeaves DEF Coherent
  <1>4. QED
    BY <1>1, <1>2, <1>3, FailLeaves

-----------------------------------------------------------------------------
\* At first nothing is loaded, queued or in hand.
LEMMA InitCoherenceInv == Init => CoherenceInv
  <1> SUFFICES ASSUME Init PROVE CoherenceInv
    OBVIOUS
  <1>1. \A t \in Threads, k \in Keys : todo[t][k] \notin Row
    BY NotesAssumption DEF Init, Nothing
  <1>2. ThreadsInOrder
    BY <1>1 DEF Init, ThreadsInOrder
  <1>3. QueueIsCurrent /\ InHandIsCurrent
    BY <1>1 DEF Init, QueueIsCurrent, InHandIsCurrent
  <1>4. LocalIsLive /\ ReloadIsComplete /\ Coherent
    BY DEF Init, LocalIsLive, Reloading, ReloadIsComplete, Coherent, Up, Keys
  <1>5. LoadIsCurrent
    BY DEF Init, LoadIsCurrent
  <1>6. QED
    BY <1>2, <1>3, <1>4, <1>5 DEF CoherenceInv

\* The invariant is inductive: every action of the specification keeps it.
LEMMA StepKeepsInv == IInv /\ [Next]_vars => IInv'
  <1> SUFFICES ASSUME IInv, [Next]_vars PROVE IInv'
    OBVIOUS
  <1>0. TypeOK' /\ BlocksDoNotOverlap'
    BY StepTypes DEF IInv
  <1> SUFFICES CoherenceInv'
    BY <1>0 DEF IInv
  <1>1. CASE \E k \in Keys : Write(k)
    BY <1>0, <1>1, WriteKeepsInv
  <1>2. CASE \E K \in SUBSET Keys, trusted \in SUBSET Entities : SendUpdate(K, trusted)
    BY <1>0, <1>2, SendKeepsInv
  <1>3. CASE \E e \in Entities : LoadEntity(e)
    BY <1>0, <1>3, LoadKeepsInv
  <1>4. CASE Crash
    BY <1>0, <1>4, CrashKeepsInv
  <1>5. CASE Receive
    BY <1>0, <1>5, ReceiveKeepsInv
  <1>6. CASE \E t \in Operators : (\E k \in Keys : Poke(t, k)) \/ (\E e \in Entities : Reload(t, e))
    BY <1>0, <1>6, RequestKeepsInv
  <1>7. CASE \E t \in Threads : Start(t)
    BY <1>0, <1>7, StartKeepsInv
  <1>8. CASE \E t \in Threads : StartBulk(t)
    BY <1>0, <1>8, StartBulkKeepsInv
  <1>9. CASE \E t \in Threads : QueryAll(t)
    BY <1>0, <1>9, QueryAllKeepsInv
  <1>10. CASE \E t \in Threads, k \in Keys : Lookup(t, k)
    BY <1>0, <1>10, LookupKeepsInv
  <1>11. CASE \E t \in Threads, k \in Keys : Deliver(t, k)
    BY <1>0, <1>11, DeliverKeepsInv
  <1>12. CASE \E t \in Threads : Finish(t)
    BY <1>0, <1>12, FinishKeepsInv
  <1>13. CASE \E t \in Threads : Abort(t)
    BY <1>0, <1>13, AbortKeepsInv
  <1>14. CASE \E t \in Threads : FinishFails(t)
    BY <1>0, <1>14, FinishFailsKeepsInv
  <1>15. CASE \E t \in Threads, k \in Keys : Refuse(t, k)
    BY <1>0, <1>15, RefuseKeepsInv
  <1>16. CASE UNCHANGED vars
    <2> USE DEF vars, appVars, cacheVars, lockVars, threadVars, faultVars
    <2>1. \A k \in Keys : /\ Pending(k)' <=> Pending(k)
                          /\ \A u \in Threads : Renewed(u, k)' <=> Renewed(u, k)
      BY <1>16, PendingStays
    <2>2. ThreadsInOrder' /\ QueueIsCurrent'
      BY <1>16 DEF IInv, CoherenceInv, ThreadsInOrder, Up, Nothing, QueueIsCurrent
    <2>3. InHandIsCurrent' /\ ReloadIsComplete' /\ Coherent' /\ LoadIsCurrent'
      BY <1>16, <2>1 DEF IInv, CoherenceInv, InHandIsCurrent, ReloadIsComplete, Coherent,
                         LoadIsCurrent, Up
    <2>4. LocalIsLive'
      BY <1>16 DEF IInv, CoherenceInv, LocalIsLive, Reloading, RowsOf, Up
    <2>5. QED
      BY <2>2, <2>3, <2>4 DEF CoherenceInv
  <1>17. QED
    BY <1>1, <1>2, <1>3, <1>4, <1>5, <1>6, <1>7, <1>8, <1>9, <1>10, <1>11, <1>12, <1>13,
       <1>14, <1>15, <1>16 DEF Next, Step

\* The inductive invariant holds throughout.
THEOREM InvariantHolds == Spec => []IInv
  <1>1. Init => IInv
    BY InitTypes, InitCoherenceInv DEF IInv
  <1>2. QED
    BY <1>1, StepKeepsInv, PTL DEF Spec

\* Coherence of every behaviour: whatever the threads' interleaving, restarts
\* and exceptions, a row that is served and differs from the database
\* has a notification on its way or one that an exception swallowed.
THEOREM Coherence == Spec => []Coherent
  <1>1. IInv => Coherent
    BY DEF IInv, CoherenceInv
  <1>2. QED
    BY <1>1, InvariantHolds, PTL

-----------------------------------------------------------------------------
(***************************************************************************)
(* Versions.                                                               *)
(***************************************************************************)

\* Every copy of a row is one the database has held.
VersionsBounded ==
    \A k \in Keys :
        /\ live[k].ver <= db[k].ver
        /\ local[k].ver <= db[k].ver
        /\ \A t \in Threads : todo[t][k] \in Row => todo[t][k].ver <= db[k].ver
        /\ \A i \in 1..Len(queue) : queue[i][k] \in Row => queue[i][k].ver <= db[k].ver

NothingServedEarly == ~Up => \A k \in Keys : live[k].ver = 0

\* A message has rows or ids of an entity, not both; a block that looks ids up has
\* both, while it runs.
Pure(notes, e) == \A j, k \in RowsOf(e) : notes[j] \in Row => notes[k] # IdOnly

NotesPure ==
    /\ \A i \in 1..Len(queue), e \in Entities : Pure(queue[i], e)
    /\ \A e \in Entities :
        (pc[Listener] = "rows" /\ block[Listener] = e) \/ Pure(todo[Listener], e)

\* What a block has read itself is not older than what is served meanwhile: it holds
\* the lock from before the read on.
ReadsAreNew ==
    \A t \in Threads, k \in Keys :
        pc[t] # "idle" /\ block[t] = k[1] /\ job[t] # "apply" /\ todo[t][k] \in Row =>
            pc[t] = "rows" /\ live[k].ver <= todo[t][k].ver

\* Nor is what a reload has in the new cache, where the row is no longer in hand.
ReloadIsNew ==
    \A t \in Threads, k \in Keys :
        pc[t] = "rows" /\ job[t] = "reload" /\ block[t] = k[1] =>
            todo[t][k] \in Row \/ live[k].ver <= local[k].ver

VersionsInv ==
    VersionsBounded /\ NothingServedEarly /\ NotesPure /\ ReadsAreNew /\ ReloadIsNew

\* At the start nothing is served, and nothing read.
LEMMA InitVersions == Init => VersionsInv
  <1> SUFFICES ASSUME Init PROVE VersionsInv
    OBVIOUS
  <1>1. \A t \in Threads, k \in Keys : todo[t][k] \notin Row
    BY NotesAssumption DEF Init, Nothing
  <1>2. VersionsBounded /\ NothingServedEarly
    BY <1>1 DEF Init, VersionsBounded, NothingServedEarly, NoRow
  <1>3. NotesPure
    BY <1>1, ThreadsAssumption DEF Init, NotesPure, Pure, RowsOf
  <1>4. ReadsAreNew /\ ReloadIsNew
    BY <1>1 DEF Init, ReadsAreNew, ReloadIsNew
  <1>5. QED
    BY <1>2, <1>3, <1>4 DEF VersionsInv

\* A write only raises the bound.
LEMMA WriteKeepsVersions ==
    ASSUME IInv, VersionsInv, NEW w \in Keys, Write(w)
    PROVE  VersionsInv'
  <1> USE DEF VersionsInv, Write, cacheVars, lockVars, threadVars, faultVars
  <1>1. \A k \in Keys : db[k].ver <= db'[k].ver /\ db[k].ver \in Nat /\ db'[k].ver \in Nat
    BY DEF IInv, TypeOK
  <1>2. VersionsBounded'
    <2> SUFFICES ASSUME NEW k \in Keys
                 PROVE  /\ live[k].ver <= db'[k].ver
                        /\ local[k].ver <= db'[k].ver
                        /\ \A t \in Threads : todo[t][k] \in Row => todo[t][k].ver <= db'[k].ver
                        /\ \A i \in 1..Len(queue) :
                            queue[i][k] \in Row => queue[i][k].ver <= db'[k].ver
      BY DEF VersionsBounded
    <2>1. live[k].ver \in Nat /\ local[k].ver \in Nat
      BY DEF IInv, TypeOK
    <2>2. QED
      BY <1>1, <2>1 DEF VersionsBounded
  <1>3. NothingServedEarly' /\ NotesPure' /\ ReadsAreNew' /\ ReloadIsNew'
    BY DEF NothingServedEarly, NotesPure, Pure, ReadsAreNew, ReloadIsNew, Up
  <1>4. QED
    BY <1>2, <1>3

\* A message tells of each entity in one way.
LEMMA SendKeepsVersions ==
    ASSUME IInv, VersionsInv, NEW K \in SUBSET Keys, NEW trusted \in SUBSET Entities,
           SendUpdate(K, trusted)
    PROVE  VersionsInv'
  <1> DEFINE msg == [k \in Keys |-> IF k \notin K THEN Silent
                        ELSE IF k[1] \in trusted THEN db[k] ELSE IdOnly]
  <1> USE DEF VersionsInv
  <1>1. /\ queue' = Append(queue, msg)
        /\ UNCHANGED <<db, cacheVars, lockVars, threadVars, faultVars>>
    BY DEF SendUpdate
  <1>2. /\ \A k \in Keys : msg[k] \in Row => msg[k] = db[k]
        /\ \A e \in Entities : Pure(msg, e)
    BY NotesAssumption DEF Pure, RowsOf, IInv, TypeOK
  <1>3. msg \in [Keys -> Note]
    BY DEF IInv, TypeOK
  <1> HIDE DEF msg
  <1>4. /\ Len(queue) \in Nat /\ Len(queue') = Len(queue) + 1
        /\ \A i \in 1..Len(queue) : queue'[i] = queue[i]
        /\ queue'[Len(queue) + 1] = msg
    BY <1>1, <1>3 DEF IInv, TypeOK
  <1>5. \A i \in 1..Len(queue') : i \in 1..Len(queue) \/ queue'[i] = msg
    BY <1>4
  <1>6. VersionsBounded'
    <2>1. \A k \in Keys : db[k].ver \in Nat
      BY DEF IInv, TypeOK
    <2>2. \A i \in 1..Len(queue'), k \in Keys :
            queue'[i][k] \in Row => queue'[i][k].ver <= db[k].ver
      BY <1>2, <1>4, <1>5, <2>1 DEF VersionsBounded
    <2>3. QED
      BY <1>1, <2>2 DEF VersionsBounded, cacheVars, threadVars
  <1>7. NotesPure'
    BY <1>1, <1>2, <1>4, <1>5 DEF NotesPure, Pure, threadVars
  <1>8. NothingServedEarly' /\ ReadsAreNew' /\ ReloadIsNew'
    BY <1>1 DEF NothingServedEarly, ReadsAreNew, ReloadIsNew, Up, cacheVars, threadVars
  <1>9. QED
    BY <1>6, <1>7, <1>8

\* While entities are being loaded nothing is served and no block runs.
LEMMA LoadKeepsVersions ==
    ASSUME IInv, VersionsInv, NEW e \in Entities, LoadEntity(e)
    PROVE  /\ VersionsInv'
           /\ \A k \in Keys : live[k].ver <= live'[k].ver
  <1> USE DEF VersionsInv, LoadEntity, appVars, lockVars, threadVars, faultVars
  <1>1. \A k \in Keys : /\ db[k].ver \in Nat /\ live[k].ver \in Nat /\ local[k].ver \in Nat
                        /\ db[k].ver <= db[k].ver
    BY DEF IInv, TypeOK
  <1>2. \A t \in Threads : pc[t] = "idle"
    BY DEF IInv, CoherenceInv, ThreadsInOrder, Up
  <1>3. \A k \in Keys : /\ local'[k] \in {db[k], local[k]}
                        /\ live'[k] \in {live[k], local'[k]}
    BY DEF IInv, TypeOK
  <1>4. VersionsBounded'
    BY <1>1, <1>3 DEF VersionsBounded
  <1>5. NothingServedEarly'
    BY DEF NothingServedEarly, Up
  <1>6. \A k \in Keys : live[k].ver <= live'[k].ver
    <2>1. \A k \in Keys : live[k].ver = 0
      BY DEF NothingServedEarly, Up
    <2>2. QED
      BY <1>1, <1>3, <2>1
  <1>7. NotesPure' /\ ReadsAreNew' /\ ReloadIsNew'
    BY <1>2 DEF NotesPure, Pure, ReadsAreNew, ReloadIsNew
  <1>8. QED
    BY <1>4, <1>5, <1>6, <1>7

\* A restart forgets every copy.
LEMMA CrashKeepsVersions ==
    ASSUME IInv, VersionsInv, Crash
    PROVE  VersionsInv'
  <1> USE DEF VersionsInv, Crash, appVars
  <1>1. \A t \in Threads : pc'[t] = "idle" /\ todo'[t] = Nothing
    OBVIOUS
  <1>2. \A t \in Threads, k \in Keys : todo'[t][k] \notin Row
    BY <1>1, NotesAssumption DEF Nothing
  <1>3. VersionsBounded' /\ NothingServedEarly'
    BY <1>2 DEF VersionsBounded, NothingServedEarly, NoRow, IInv, TypeOK
  <1>4. NotesPure' /\ ReadsAreNew' /\ ReloadIsNew'
    BY <1>1, <1>2, ThreadsAssumption DEF NotesPure, Pure, RowsOf, ReadsAreNew, ReloadIsNew
  <1>5. QED
    BY <1>3, <1>4

\* A thread that goes on to look up ids of an entity has no row of it in hand.
LEMMA TakeUpReadsNothing ==
    ASSUME TypeOK, NEW t \in Threads, NEW notes \in [Keys -> Note], TakeUp(t, notes),
           \A e \in Entities : Pure(notes, e),
           NEW k \in Keys, pc'[t] # "idle", block'[t] = k[1], job'[t] # "apply"
    PROVE  notes[k] \notin Row
  <1>1. PICK e \in EntitiesIn(notes) :
            /\ block' = [block EXCEPT ![t] = e]
            /\ job' = [job EXCEPT ![t] =
                 IF \E j \in RowsOf(e) : notes[j] = IdOnly THEN "lookup" ELSE "apply"]
    BY DEF TakeUp, TypeOK
  <1>2. e = k[1] /\ e \in Entities /\ k \in RowsOf(e)
    BY <1>1 DEF TypeOK, EntitiesIn, RowsOf
  <1>3. PICK j \in RowsOf(e) : notes[j] = IdOnly
    BY <1>1 DEF TypeOK
  <1>4. QED
    BY <1>2, <1>3 DEF Pure

\* The listener takes a message off the queue.
LEMMA ReceiveKeepsVersions ==
    ASSUME IInv, VersionsInv, Receive
    PROVE  VersionsInv'
  <1> DEFINE msg == Head(queue)
  <1>1. /\ queue # <<>> /\ queue' = Tail(queue) /\ pc[Listener] = "idle"
        /\ todo' = [todo EXCEPT ![Listener] = msg]
        /\ TakeUp(Listener, msg) /\ Up
        /\ UNCHANGED <<db, live, local, loaded>>
    BY DEF Receive, cacheVars
  <1>2. /\ msg = queue[1] /\ 1 \in 1..Len(queue)
        /\ \A i \in 1..Len(queue') : i + 1 \in 1..Len(queue) /\ queue'[i] = queue[i + 1]
    BY <1>1 DEF IInv, TypeOK
  <1>3. msg \in [Keys -> Note]
    BY <1>2 DEF IInv, TypeOK
  <1> HIDE DEF msg
  <1>4. /\ todo'[Listener] = msg
        /\ \A u \in Threads \ {Listener} :
            todo'[u] = todo[u] /\ pc'[u] = pc[u] /\ block'[u] = block[u] /\ job'[u] = job[u]
    BY <1>1, TakeUpTypes DEF IInv, TypeOK
  <1>5. VersionsBounded'
    BY <1>1, <1>2, <1>4 DEF VersionsInv, VersionsBounded
  <1>6. NothingServedEarly'
    BY <1>1 DEF NothingServedEarly, Up
  <1>7. NotesPure'
    BY <1>1, <1>2, <1>4 DEF VersionsInv, NotesPure, Pure
  <1>8. \A e \in Entities : Pure(msg, e)
    BY <1>2 DEF VersionsInv, NotesPure
  <1>9. ReadsAreNew'
    <2> SUFFICES ASSUME NEW t \in Threads, NEW k \in Keys, pc'[t] # "idle", block'[t] = k[1],
                        job'[t] # "apply", todo'[t][k] \in Row
                 PROVE  pc'[t] = "rows" /\ live'[k].ver <= todo'[t][k].ver
      BY DEF ReadsAreNew
    <2>1. t # Listener
      BY <1>1, <1>3, <1>4, <1>8, TakeUpReadsNothing DEF IInv
    <2>2. QED
      BY <1>1, <1>4, <2>1 DEF VersionsInv, ReadsAreNew
  <1>10. ReloadIsNew'
    <2>1. pc'[Listener] # "rows"
      BY <1>1, TakeUpTypes DEF IInv, InBlock
    <2>2. QED
      BY <1>1, <1>4, <2>1 DEF VersionsInv, ReloadIsNew
  <1>11. QED
    BY <1>5, <1>6, <1>7, <1>9, <1>10 DEF VersionsInv

\* An operator asks for a block: it has at most one id in hand.
LEMMA RequestKeepsVersions ==
    ASSUME IInv, VersionsInv, NEW t \in Operators,
           (\E k \in Keys : Poke(t, k)) \/ (\E e \in Entities : Reload(t, e))
    PROVE  VersionsInv'
  <1>1. /\ pc[t] = "idle" /\ pc' = [pc EXCEPT ![t] = "waiting"] /\ t # Listener
        /\ UNCHANGED <<db, queue, live, local, loaded>>
        /\ \A u \in Threads \ {t} :
            todo'[u] = todo[u] /\ pc'[u] = pc[u] /\ block'[u] = block[u] /\ job'[u] = job[u]
    BY ThreadsAssumption DEF Poke, Reload, appVars, cacheVars, IInv, TypeOK
  <1>2. \A k \in Keys : todo'[t][k] \notin Row
    <2>1. ASSUME NEW w \in Keys, Poke(t, w) PROVE \A k \in Keys : todo'[t][k] \notin Row
      BY <2>1, NotesAssumption DEF Poke, Nothing, IInv, TypeOK
    <2>2. ASSUME NEW e \in Entities, Reload(t, e) PROVE \A k \in Keys : todo'[t][k] \notin Row
      BY <1>1, <2>2, NotesAssumption
         DEF Reload, Nothing, IInv, TypeOK, CoherenceInv, ThreadsInOrder
    <2>3. QED
      BY <2>1, <2>2
  <1>3. VersionsBounded' /\ NothingServedEarly'
    BY <1>1, <1>2 DEF VersionsInv, VersionsBounded, NothingServedEarly, Up
  <1>4. NotesPure'
    BY <1>1 DEF VersionsInv, NotesPure, Pure
  <1>5. ReadsAreNew'
    BY <1>1, <1>2 DEF VersionsInv, ReadsAreNew
  <1>6. ReloadIsNew'
    BY <1>1 DEF VersionsInv, ReloadIsNew, IInv, TypeOK
  <1>7. QED
    BY <1>3, <1>4, <1>5, <1>6 DEF VersionsInv

\* A block starts; one that is not a reload finds rows in hand only if it applies them.
LEMMA StartKeepsVersions ==
    ASSUME IInv, VersionsInv, NEW t \in Threads, Start(t)
    PROVE  VersionsInv'
  <1>1. /\ pc[t] = "waiting" /\ pc'[t] = IF job[t] = "reload" THEN "opened" ELSE "rows"
        /\ \A u \in Threads \ {t} : pc'[u] = pc[u]
        /\ UNCHANGED <<db, queue, live, local, loaded, todo, job, block>>
    BY DEF Start, appVars, cacheVars, IInv, TypeOK
  <1>2. VersionsBounded' /\ NothingServedEarly'
    BY <1>1 DEF VersionsInv, VersionsBounded, NothingServedEarly, Up
  <1>3. NotesPure'
    BY <1>1 DEF VersionsInv, NotesPure, Pure
  <1>4. ReadsAreNew'
    BY <1>1 DEF VersionsInv, ReadsAreNew
  <1>5. ReloadIsNew'
    BY <1>1 DEF VersionsInv, ReloadIsNew
  <1>6. QED
    BY <1>2, <1>3, <1>4, <1>5 DEF VersionsInv

\* The new cache of a reload is empty at first.
LEMMA StartBulkKeepsVersions ==
    ASSUME IInv, VersionsInv, NEW t \in Threads, StartBulk(t)
    PROVE  VersionsInv'
  <1>1. /\ pc[t] = "opened" /\ pc'[t] = "bulk"
        /\ \A u \in Threads \ {t} : pc'[u] = pc[u]
        /\ UNCHANGED <<db, queue, live, loaded, todo, job, block>>
        /\ \A k \in Keys : local'[k] = IF k[1] = block[t] THEN NoRow ELSE local[k]
    BY DEF StartBulk, appVars, IInv, TypeOK
  <1>2. InBlock(t)
    BY <1>1 DEF InBlock
  <1>3. \A u \in Threads \ {t} : pc[u] # "rows"
    BY <1>2, Alone DEF InBlock
  <1>4. VersionsBounded' /\ NothingServedEarly'
    <2>1. \A k \in Keys : db[k].ver \in Nat /\ NoRow.ver = 0
      BY DEF NoRow, IInv, TypeOK
    <2>2. QED
      BY <1>1, <2>1 DEF VersionsInv, VersionsBounded, NothingServedEarly, Up
  <1>5. NotesPure'
    BY <1>1 DEF VersionsInv, NotesPure, Pure
  <1>6. ReadsAreNew'
    BY <1>1 DEF VersionsInv, ReadsAreNew
  <1>7. ReloadIsNew'
    BY <1>1, <1>3 DEF ReloadIsNew
  <1>8. QED
    BY <1>4, <1>5, <1>6, <1>7 DEF VersionsInv

\* A reload reads the database as it is now.
LEMMA QueryAllKeepsVersions ==
    ASSUME IInv, VersionsInv, NEW t \in Threads, QueryAll(t)
    PROVE  VersionsInv'
  <1> DEFINE found(k) == k[1] = block[t] /\ db[k].there
  <1>1. /\ pc[t] = "bulk" /\ pc'[t] = "rows"
        /\ \A u \in Threads \ {t} : pc'[u] = pc[u] /\ todo'[u] = todo[u]
        /\ UNCHANGED <<db, queue, live, loaded, job, block>>
        /\ \A k \in Keys :
            /\ todo'[t][k] = IF found(k) THEN db[k] ELSE Silent
            /\ local'[k] = IF k[1] = block[t] /\ ~found(k) THEN db[k] ELSE local[k]
    BY DEF QueryAll, appVars, IInv, TypeOK
  <1>2. job[t] = "reload" /\ t # Listener /\ InBlock(t)
    BY <1>1 DEF IInv, CoherenceInv, ThreadsInOrder, InBlock
  <1>3. \A u \in Threads \ {t} : pc[u] # "rows"
    BY <1>2, Alone DEF InBlock
  <1>4. \A k \in Keys : /\ db[k] \in Row /\ db[k].ver <= db[k].ver
                        /\ live[k].ver <= db[k].ver
    BY DEF VersionsInv, VersionsBounded, IInv, TypeOK
  <1> HIDE DEF found
  <1>5. VersionsBounded' /\ NothingServedEarly'
    BY <1>1, <1>4, NotesAssumption DEF VersionsInv, VersionsBounded, NothingServedEarly, Up
  <1>6. NotesPure'
    BY <1>1, <1>2, ThreadsAssumption DEF VersionsInv, NotesPure, Pure
  <1>7. ReadsAreNew'
    BY <1>1, <1>3, <1>4, NotesAssumption DEF VersionsInv, ReadsAreNew
  <1>8. ReloadIsNew'
    <2>1. ASSUME NEW k \in Keys, block[t] = k[1]
          PROVE  todo'[t][k] \in Row \/ live[k].ver <= local'[k].ver
      BY <1>1, <1>4, <2>1
    <2>2. QED
      BY <1>1, <1>3, <2>1 DEF ReloadIsNew
  <1>9. QED
    BY <1>5, <1>6, <1>7, <1>8 DEF VersionsInv

\* So does a look-up.
LEMMA LookupKeepsVersions ==
    ASSUME IInv, VersionsInv, NEW t \in Threads, NEW r \in Keys, Lookup(t, r)
    PROVE  VersionsInv'
  <1>1. /\ pc[t] = "rows" /\ block[t] = r[1] /\ todo[t][r] = IdOnly
        /\ \A u \in Threads \ {t} : todo'[u] = todo[u]
        /\ todo'[t][r] = db[r]
        /\ \A k \in Keys \ {r} : todo'[t][k] = todo[t][k]
        /\ UNCHANGED <<db, queue, live, local, loaded, pc, job, block>>
    BY DEF Lookup, appVars, cacheVars, IInv, TypeOK
  <1>2. \A k \in Keys : /\ db[k] \in Row /\ db[k].ver <= db[k].ver
                        /\ live[k].ver <= db[k].ver
    BY DEF VersionsInv, VersionsBounded, IInv, TypeOK
  <1>3. VersionsBounded' /\ NothingServedEarly'
    BY <1>1, <1>2 DEF VersionsInv, VersionsBounded, NothingServedEarly, Up
  <1>4. NotesPure'
    <2>1. \A k \in Keys : k[1] # block[t] => todo'[t][k] = todo[t][k]
      BY <1>1
    <2>2. QED
      BY <1>1, <2>1 DEF VersionsInv, NotesPure, Pure, RowsOf
  <1>5. ReadsAreNew'
    BY <1>1, <1>2 DEF VersionsInv, ReadsAreNew
  <1>6. ReloadIsNew'
    BY <1>1, <1>2 DEF VersionsInv, ReloadIsNew
  <1>7. QED
    BY <1>3, <1>4, <1>5, <1>6 DEF VersionsInv

\* A row passes from a thread to the caches: an older one only from a message.
LEMMA PassKeepsVersions ==
    ASSUME IInv, VersionsInv, NEW t \in Threads, NEW r \in Keys, NEW dropped \in SUBSET Keys,
           RowPassed(t, r, dropped)
    PROVE  /\ VersionsInv'
           /\ job[t] # "apply" => \A k \in Keys : live[k].ver <= live'[k].ver
  <1> USE DEF RowPassed
  <1>1. todo[t][r] \in Row /\ r[1] = block[t] /\ pc[t] = "rows"
    BY DEF InHand, RowsOf
  <1>2. \A u \in Threads \ {t} : pc[u] # "rows"
    BY Alone DEF InBlock
  <1>3. /\ local'[r] = todo[t][r]
        /\ live'[r] \in {live[r], todo[t][r]}
        /\ \A k \in Keys \ {r} : local'[k] = local[k] /\ live'[k] = live[k]
    BY DEF PutRow, IInv, TypeOK
  <1>4. \A u \in Threads, k \in Keys : todo'[u][k] \in {todo[u][k], Silent}
    OBVIOUS
  <1>5. \A k \in Keys : db[k].ver \in Nat /\ live[k].ver \in Nat /\ live[k].ver <= live[k].ver
    BY DEF IInv, TypeOK
  <1>6. VersionsBounded'
    BY <1>1, <1>3, <1>4, NotesAssumption DEF VersionsInv, VersionsBounded
  <1>7. NothingServedEarly'
    BY <1>1 DEF IInv, CoherenceInv, ThreadsInOrder, NothingServedEarly, Up
  <1>8. NotesPure'
    <2>1. \A e \in Entities : Pure(todo[Listener], e) => Pure(todo'[Listener], e)
      BY <1>4, NotesAssumption DEF Pure, RowsOf
    <2>2. QED
      BY <2>1 DEF VersionsInv, NotesPure, Pure
  <1>9. ASSUME job[t] # "apply" PROVE live[r].ver <= todo[t][r].ver
    BY <1>1, <1>9 DEF VersionsInv, ReadsAreNew
  <1>10. ReadsAreNew'
    <2> SUFFICES ASSUME NEW u \in Threads, NEW k \in Keys, pc[u] # "idle", block[u] = k[1],
                        job[u] # "apply", todo'[u][k] \in Row
                 PROVE  pc[u] = "rows" /\ live'[k].ver <= todo'[u][k].ver
      BY DEF ReadsAreNew
    <2>1. todo'[u][k] = todo[u][k]
      BY <1>4, NotesAssumption
    <2>2. pc[u] = "rows" /\ live[k].ver <= todo[u][k].ver
      BY <2>1 DEF VersionsInv, ReadsAreNew
    <2>3. u = t /\ k # r
      BY <1>2, <2>2, NotesAssumption
    <2>4. QED
      BY <1>3, <2>1, <2>2, <2>3
  <1>11. ReloadIsNew'
    <2> SUFFICES ASSUME NEW u \in Threads, NEW k \in Keys, pc[u] = "rows", job[u] = "reload",
                        block[u] = k[1]
                 PROVE  todo'[u][k] \in Row \/ live'[k].ver <= local'[k].ver
      BY DEF ReloadIsNew
    <2>1. u = t /\ dropped = {}
      BY <1>2
    <2>2. CASE k # r
      BY <1>3, <2>1, <2>2 DEF VersionsInv, ReloadIsNew
    <2>3. CASE k = r
      <3>1. todo[t][r].ver <= todo[t][r].ver
        BY <1>1
      <3>2. QED
        BY <1>3, <1>9, <2>1, <2>3, <3>1
    <2>4. QED
      BY <2>2, <2>3
  <1>12. job[t] # "apply" => \A k \in Keys : live[k].ver <= live'[k].ver
    BY <1>3, <1>5, <1>9
  <1>13. QED
    BY <1>6, <1>7, <1>8, <1>10, <1>11, <1>12 DEF VersionsInv

\* A swap serves nothing older, except from a half-filled cache.
LEMMA SwapMovesForward ==
    ASSUME IInv, VersionsInv, NEW t \in Threads, AtEnd(t), SwapIn, NEW k \in Keys
    PROVE  live[k].ver <= live'[k].ver \/ (k[1] \in bulk /\ k \in lost)
  <1>1. pc[t] = "rows" /\ InBlock(t) /\ k[1] \in Entities /\ k \in RowsOf(k[1])
    BY DEF AtEnd, InBlock, Keys, RowsOf
  <1>2. live[k].ver <= live[k].ver
    BY DEF IInv, TypeOK
  <1>3. CASE k[1] \notin bulk
    BY <1>2, <1>3 DEF SwapIn
  <1>4. CASE k[1] \in bulk /\ RowsOf(k[1]) \subseteq lost
    BY <1>1, <1>4
  <1>5. ASSUME k[1] \in bulk, NEW u \in Threads, Reloading(u, k[1])
        PROVE  live[k].ver <= live'[k].ver
    <2>1. u = t
      BY <1>1, <1>5, Alone
    <2>2. job[t] = "reload" /\ block[t] = k[1]
      BY <1>1, <1>5, <2>1 DEF Reloading
    <2>3. todo[t][k] \notin Row
      BY <1>1, <2>2, NotesAssumption DEF AtEnd
    <2>4. live[k].ver <= local[k].ver
      BY <1>1, <2>2, <2>3 DEF VersionsInv, ReloadIsNew
    <2>5. QED
      BY <1>5, <2>4 DEF SwapIn
  <1>6. QED
    BY <1>1, <1>3, <1>4, <1>5 DEF IInv, CoherenceInv, LocalIsLive

\* What a block leaves behind that ends, by finish() or by an exception.
LEMMA EndKeepsVersions ==
    ASSUME IInv, VersionsInv, NEW t \in Threads, InBlock(t),
           UNCHANGED <<db, queue, loaded>>,
           \A k \in Keys : local'[k] = local[k] /\ live'[k] \in {live[k], local[k]},
           \A u \in Threads \ {t} :
               pc'[u] = pc[u] /\ block'[u] = block[u] /\ job'[u] = job[u] /\ todo'[u] = todo[u],
           \A k \in Keys : todo'[t][k] \in {todo[t][k], Silent},
           t = Listener => \A e \in Entities : Pure(todo'[t], e),
           pc'[t] # "rows",
           \A k \in Keys :
               pc'[t] # "idle" /\ block'[t] = k[1] /\ job'[t] # "apply" => todo'[t][k] \notin Row
    PROVE  VersionsInv'
  <1>1. Up
    BY DEF IInv, CoherenceInv, ThreadsInOrder, InBlock
  <1>2. \A u \in Threads \ {t} : pc[u] # "rows"
    BY Alone DEF InBlock
  <1>3. VersionsBounded'
    BY NotesAssumption DEF VersionsInv, VersionsBounded
  <1>4. NothingServedEarly'
    BY <1>1 DEF NothingServedEarly, Up
  <1>5. NotesPure'
    BY DEF VersionsInv, NotesPure, Pure
  <1>6. ReadsAreNew'
    BY <1>2 DEF VersionsInv, ReadsAreNew
  <1>7. ReloadIsNew'
    BY <1>2 DEF ReloadIsNew
  <1>8. QED
    BY <1>3, <1>4, <1>5, <1>6, <1>7 DEF VersionsInv

\* At the end of a block nothing is left of it to be handled.
LEMMA AtEndPure ==
    ASSUME IInv, VersionsInv, NEW t \in Threads, AtEnd(t)
    PROVE  \A e \in Entities : Pure(todo[t], e)
  <1>1. pc[t] = "rows" /\ InBlock(t)
    BY DEF AtEnd, InBlock
  <1>2. Pure(todo[t], block[t])
    BY NotesAssumption DEF AtEnd, Pure, RowsOf
  <1>3. CASE t = Listener
    BY <1>2, <1>3 DEF VersionsInv, NotesPure
  <1>4. CASE t # Listener
    <2>1. \A k \in Keys : todo[t][k] \notin Row
      BY <1>1, <1>4, NothingInHand
    <2>2. QED
      BY <2>1 DEF Pure, RowsOf
  <1>5. QED
    BY <1>3, <1>4

LEMMA FinishKeepsVersions ==
    ASSUME IInv, VersionsInv, NEW t \in Threads, Finish(t)
    PROVE  VersionsInv'
  <1>1. /\ UNCHANGED <<db, queue, loaded, local, todo>>
        /\ AtEnd(t) /\ SwapIn /\ TakeUp(t, todo[t]) /\ InBlock(t)
    BY DEF Finish, appVars, AtEnd, InBlock
  <1>2. /\ pc'[t] # "rows"
        /\ \A u \in Threads \ {t} :
            pc'[u] = pc[u] /\ block'[u] = block[u] /\ job'[u] = job[u]
    BY <1>1, TakeUpTypes DEF IInv, InBlock
  <1>3. \A e \in Entities : Pure(todo[t], e)
    BY <1>1, AtEndPure
  <1>4. \A k \in Keys :
            pc'[t] # "idle" /\ block'[t] = k[1] /\ job'[t] # "apply" => todo[t][k] \notin Row
    BY <1>1, <1>3, TakeUpReadsNothing DEF IInv, TypeOK
  <1>5. \A k \in Keys : live'[k] \in {live[k], local[k]}
    BY <1>1 DEF SwapIn
  <1>6. QED
    BY <1>1, <1>2, <1>3, <1>4, <1>5, EndKeepsVersions DEF Pure

LEMMA FailKeepsVersions ==
    ASSUME IInv, VersionsInv, NEW t \in Threads, Abort(t) \/ FinishFails(t)
    PROVE  VersionsInv'
  <1>1. /\ UNCHANGED <<db, queue, loaded, local>> /\ InBlock(t) /\ Fail(t)
        /\ \A k \in Keys : live'[k] \in {live[k], local[k]}
    BY DEF Abort, FinishFails, AtEnd, InBlock, SwapIn, appVars, cacheVars
  <1>2. /\ pc'[t] = "idle" /\ todo'[t] = Nothing
        /\ \A u \in Threads \ {t} :
            pc'[u] = pc[u] /\ block'[u] = block[u] /\ job'[u] = job[u] /\ todo'[u] = todo[u]
    BY <1>1 DEF Fail, IInv, TypeOK
  <1>3. \A e \in Entities : Pure(todo'[t], e)
    BY <1>2, NotesAssumption DEF Pure, Nothing, RowsOf
  <1>4. \A k \in Keys : todo'[t][k] \in {todo[t][k], Silent}
    BY <1>2 DEF Nothing
  <1>5. QED
    BY <1>1, <1>2, <1>3, <1>4, EndKeepsVersions

\* Every step keeps the versions in order.
LEMMA StepKeepsVersions ==
    ASSUME IInv, VersionsInv, [Next]_vars
    PROVE  VersionsInv'
  <1>1. CASE UNCHANGED vars
    BY <1>1 DEF vars, appVars, cacheVars, lockVars, threadVars, faultVars, VersionsInv,
                VersionsBounded, NothingServedEarly, NotesPure, Pure, ReadsAreNew, ReloadIsNew, Up
  <1>2. CASE \E k \in Keys : Write(k)
    BY <1>2, WriteKeepsVersions
  <1>3. CASE \E K \in SUBSET Keys, trusted \in SUBSET Entities : SendUpdate(K, trusted)
    BY <1>3, SendKeepsVersions
  <1>4. CASE \E e \in Entities : LoadEntity(e)
    BY <1>4, LoadKeepsVersions
  <1>5. CASE Crash
    BY <1>5, CrashKeepsVersions
  <1>6. CASE Receive
    BY <1>6, ReceiveKeepsVersions
  <1>7. CASE \E t \in Operators : (\E k \in Keys : Poke(t, k)) \/ (\E e \in Entities : Reload(t, e))
    BY <1>7, RequestKeepsVersions
  <1>8. CASE \E t \in Threads : Start(t)
    BY <1>8, StartKeepsVersions
  <1>9. CASE \E t \in Threads : StartBulk(t)
    BY <1>9, StartBulkKeepsVersions
  <1>10. CASE \E t \in Threads : QueryAll(t)
    BY <1>10, QueryAllKeepsVersions
  <1>11. CASE \E t \in Threads, k \in Keys : Lookup(t, k)
    BY <1>11, LookupKeepsVersions
  <1>12. CASE \E t \in Threads, k \in Keys : Deliver(t, k) \/ Refuse(t, k)
    BY <1>12, DeliverPasses, RefusePasses, PassKeepsVersions DEF IInv
  <1>13. CASE \E t \in Threads : Finish(t)
    BY <1>13, FinishKeepsVersions
  <1>14. CASE \E t \in Threads : Abort(t) \/ FinishFails(t)
    BY <1>14, FailKeepsVersions
  <1>15. QED
    BY <1>1, <1>2, <1>3, <1>4, <1>5, <1>6, <1>7, <1>8, <1>9, <1>10, <1>11, <1>12, <1>13,
       <1>14 DEF Next, Step

\* A row passed on that is older than the one served stems from a message.
LEMMA PassMovesForward ==
    ASSUME IInv, VersionsInv, NEW t \in Threads, NEW r \in Keys, NEW dropped \in SUBSET Keys,
           RowPassed(t, r, dropped), NEW k \in Keys, live'[k].ver < live[k].ver
    PROVE  job[t] = "apply" /\ pc[t] = "rows" /\ block[t] = k[1]
  <1>1. live[k].ver \in Nat /\ live'[k].ver \in Nat
    BY DEF IInv, TypeOK, RowPassed, PutRow, InHand
  <1>2. k = r
    BY <1>1 DEF RowPassed, PutRow, IInv, TypeOK
  <1>3. pc[t] = "rows" /\ block[t] = r[1]
    BY DEF RowPassed, InHand, RowsOf
  <1>4. QED
    BY <1>1, <1>2, <1>3, PassKeepsVersions

LEMMA StepMovesForward ==
    ASSUME IInv, VersionsInv, [Next]_vars, NEW k \in Keys, live'[k].ver < live[k].ver
    PROVE  \/ crashes' # crashes
           \/ \E t \in Threads : job[t] = "apply" /\ pc[t] = "rows" /\ block[t] = k[1]
           \/ k[1] \in bulk /\ k \in lost
  <1>1. live[k].ver \in Nat
    BY DEF IInv, TypeOK
  <1>2. live' # live
    BY <1>1
  <1>3. ~(UNCHANGED vars)
    BY <1>2 DEF vars, cacheVars
  <1>4. ASSUME NEW w \in Keys, Write(w) PROVE FALSE
    BY <1>2, <1>4 DEF Write, cacheVars
  <1>5. ASSUME NEW K \in SUBSET Keys, NEW trusted \in SUBSET Entities, SendUpdate(K, trusted)
        PROVE  FALSE
    BY <1>2, <1>5 DEF SendUpdate, cacheVars
  <1>6. ASSUME NEW e \in Entities, LoadEntity(e) PROVE FALSE
    <2>1. live[k].ver <= live'[k].ver /\ live'[k].ver \in Nat
      BY <1>6, LoadKeepsVersions DEF LoadEntity, IInv, TypeOK
    <2>2. QED
      BY <1>1, <2>1
  <1>7. CASE Crash
    BY <1>7 DEF Crash, IInv, TypeOK
  <1>8. ~Receive
    BY <1>2 DEF Receive, cacheVars
  <1>9. ASSUME NEW t \in Operators, (\E w \in Keys : Poke(t, w)) \/ (\E e \in Entities : Reload(t, e))
        PROVE  FALSE
    BY <1>2, <1>9 DEF Poke, Reload, cacheVars
  <1>10. ASSUME NEW t \in Threads,
                \/ Start(t) \/ StartBulk(t) \/ QueryAll(t) \/ Abort(t)
                \/ \E w \in Keys : Lookup(t, w)
         PROVE  FALSE
    BY <1>2, <1>10 DEF Start, StartBulk, QueryAll, Abort, Lookup, cacheVars
  <1>11. ASSUME NEW t \in Threads, NEW r \in Keys, Deliver(t, r) \/ Refuse(t, r)
         PROVE  job[t] = "apply" /\ pc[t] = "rows" /\ block[t] = k[1]
    BY <1>11, DeliverPasses, RefusePasses, PassMovesForward DEF IInv
  <1>12. ASSUME NEW t \in Threads, Finish(t) \/ FinishFails(t)
         PROVE  k[1] \in bulk /\ k \in lost
    <2>1. AtEnd(t) /\ SwapIn
      BY <1>12 DEF Finish, FinishFails
    <2>2. live'[k].ver \in Nat
      BY <2>1 DEF SwapIn, IInv, TypeOK
    <2>3. QED
      BY <1>1, <2>1, <2>2, SwapMovesForward
  <1>13. QED
    BY <1>3, <1>4, <1>5, <1>6, <1>7, <1>8, <1>9, <1>10, <1>11, <1>12 DEF Next, Step

\* Served rows never go back to an older write of the database, except through a
\* trusted update, a restart, or a cache that an exception left half-filled: of the
\* listener, pokes and reloads, whoever reads and then serves holds the lock meanwhile.
THEOREM RowsMoveForward == Spec => ServedRowsMoveForward
  <1>1. Init => VersionsInv
    BY InitVersions
  <1>2. IInv /\ VersionsInv /\ [Next]_vars => VersionsInv'
    BY StepKeepsVersions
  <1>3. IInv /\ VersionsInv /\ [Next]_vars
            => [\A k \in Keys :
                  live'[k].ver < live[k].ver =>
                    \/ crashes' # crashes
                    \/ \E t \in Threads : job[t] = "apply" /\ pc[t] = "rows" /\ block[t] = k[1]
                    \/ k[1] \in bulk /\ k \in lost]_vars
    BY StepMovesForward
  <1>4. QED
    BY <1>1, <1>2, <1>3, InvariantHolds, PTL DEF Spec, ServedRowsMoveForward

-----------------------------------------------------------------------------
(***************************************************************************)
(* Blocks, while nobody throws.                                            *)
(***************************************************************************)

\* The owner of the lock is inside a block and has taken the lock once; a cache is
\* being replaced only by the block that is open, which has emptied it first.
Undisturbed ==
    /\ failures = 0
    /\ lockOwner # NoThread => InBlock(lockOwner) /\ holds = 1
    /\ \A e \in bulk : \E t \in Threads : Reloading(t, e)
    /\ \A t \in Threads, k \in Keys : pc[t] = "bulk" /\ block[t] = k[1] => ~local[k].there
    /\ \A k \in Keys : db[k].ver <= MaxVersion

LEMMA InitUndisturbed == Init => Undisturbed
  BY BoundsAssumption DEF Init, Undisturbed, InBlock

\* Nobody else holds the lock when a thread outside a block acts.
LEMMA OutsideBlock ==
    ASSUME IInv, Undisturbed, NEW t \in Threads, ~InBlock(t)
    PROVE  lockOwner # t
  BY ThreadsAssumption DEF Undisturbed

\* Every step but an exception keeps blocks undisturbed.
LEMMA StepUndisturbed ==
    ASSUME MaxFailures = 0, IInv, Undisturbed, [Next]_vars
    PROVE  Undisturbed'
  <1> USE DEF Undisturbed
  <1>0. /\ \A k \in Keys : db[k] \in Row
        /\ MaxVersion \in Nat /\ failures = 0 /\ lockOwner \in Threads \union {NoThread}
        /\ NoThread \notin Threads
    BY BoundsAssumption, ThreadsAssumption DEF IInv, TypeOK
  <1>1. CASE UNCHANGED vars
    BY <1>1 DEF vars, appVars, cacheVars, lockVars, threadVars, faultVars, InBlock, Reloading
  <1>2. ASSUME NEW w \in Keys, Write(w) PROVE Undisturbed'
    <2>1. \A k \in Keys : db'[k].ver <= MaxVersion
      BY <1>0, <1>2 DEF Write, IInv, TypeOK
    <2>2. QED
      BY <1>2, <2>1 DEF Write, cacheVars, lockVars, threadVars, faultVars, InBlock, Reloading
  <1>3. ASSUME NEW K \in SUBSET Keys, NEW trusted \in SUBSET Entities, SendUpdate(K, trusted)
        PROVE  Undisturbed'
    BY <1>3 DEF SendUpdate, cacheVars, lockVars, threadVars, faultVars, InBlock, Reloading
  <1>4. ASSUME NEW e \in Entities, LoadEntity(e) PROVE Undisturbed'
    <2>1. \A t \in Threads : pc[t] = "idle"
      BY <1>4 DEF LoadEntity, IInv, CoherenceInv, ThreadsInOrder, Up
    <2>2. QED
      BY <1>4, <2>1 DEF LoadEntity, appVars, lockVars, threadVars, faultVars, InBlock, Reloading
  <1>5. CASE Crash
    BY <1>5, <1>0 DEF Crash, appVars
  <1>6. CASE Receive
    <2>1. /\ pc[Listener] = "idle" /\ TakeUp(Listener, Head(queue))
          /\ UNCHANGED <<db, cacheVars, lockVars, faultVars>>
      BY <1>6 DEF Receive
    <2>2. /\ ~InBlock(Listener)'
          /\ \A u \in Threads \ {Listener} : pc'[u] = pc[u] /\ block'[u] = block[u] /\ job'[u] = job[u]
      BY <2>1, TakeUpTypes DEF IInv
    <2>3. QED
      BY <1>0, <2>1, <2>2 DEF InBlock, Reloading, cacheVars, lockVars, faultVars
  <1>7. ASSUME NEW t \in Operators,
               (\E k \in Keys : Poke(t, k)) \/ (\E e \in Entities : Reload(t, e))
        PROVE  Undisturbed'
    <2>1. /\ pc[t] = "idle" /\ pc'[t] = "waiting"
          /\ UNCHANGED <<db, cacheVars, lockVars, faultVars>>
          /\ \A u \in Threads \ {t} : pc'[u] = pc[u] /\ block'[u] = block[u] /\ job'[u] = job[u]
      BY <1>7 DEF Poke, Reload, appVars, IInv, TypeOK
    <2>2. QED
      BY <1>0, <2>1 DEF InBlock, Reloading, cacheVars, lockVars, faultVars
  <1>8. ASSUME NEW t \in Threads, Start(t) PROVE Undisturbed'
    <2>1. lockOwner = NoThread /\ holds = 0
      BY <1>8 DEF Start, InBlock, IInv, BlocksDoNotOverlap
    <2>2. /\ lockOwner' = t /\ holds' = 1 /\ InBlock(t)' /\ pc'[t] # "bulk"
          /\ \A u \in Threads \ {t} : pc'[u] = pc[u]
          /\ UNCHANGED <<db, cacheVars, job, block, faultVars>>
      BY <1>8, <2>1 DEF Start, InBlock, appVars, IInv, TypeOK
    <2>3. \A u \in Threads, e \in Entities : Reloading(u, e) => Reloading(u, e)'
      BY <1>8, <2>2 DEF Start, Reloading
    <2>4. bulk \subseteq Entities
      BY DEF IInv, TypeOK
    <2>5. QED
      BY <2>2, <2>3, <2>4 DEF cacheVars, faultVars
  <1>9. ASSUME NEW t \in Threads, StartBulk(t) PROVE Undisturbed'
    <2>1. /\ pc[t] = "opened" /\ pc'[t] = "bulk" /\ bulk' = bulk \union {block[t]}
          /\ UNCHANGED <<db, lockVars, job, block, faultVars>>
          /\ \A u \in Threads \ {t} : pc'[u] = pc[u]
          /\ \A k \in Keys : local'[k] = IF k[1] = block[t] THEN NoRow ELSE local[k]
      BY <1>9 DEF StartBulk, appVars, IInv, TypeOK
    <2>2. /\ lockOwner = t /\ InBlock(t)'
          /\ \A u \in Threads \ {t} : ~InBlock(u)
      BY <2>1, Alone DEF InBlock, IInv, BlocksDoNotOverlap
    <2>3. QED
      BY <2>1, <2>2 DEF InBlock, Reloading, lockVars, faultVars, NoRow
  <1>10. ASSUME NEW t \in Threads, QueryAll(t) PROVE Undisturbed'
    <2>1. /\ pc[t] = "bulk" /\ pc'[t] = "rows" /\ job[t] = "reload"
          /\ UNCHANGED <<db, bulk, lockVars, job, block, faultVars>>
          /\ \A u \in Threads \ {t} : pc'[u] = pc[u]
      BY <1>10 DEF QueryAll, appVars, IInv, TypeOK, CoherenceInv, ThreadsInOrder
    <2>2. /\ lockOwner = t /\ InBlock(t)'
          /\ \A u \in Threads \ {t} : ~InBlock(u)
      BY <2>1, Alone DEF InBlock, IInv, BlocksDoNotOverlap
    <2>3. QED
      BY <2>1, <2>2 DEF InBlock, Reloading, lockVars, faultVars
  <1>11. ASSUME NEW t \in Threads, NEW r \in Keys, Lookup(t, r) PROVE Undisturbed'
    BY <1>11 DEF Lookup, appVars, cacheVars, lockVars, faultVars, InBlock, Reloading
  <1>12. ASSUME NEW t \in Threads, NEW r \in Keys, Deliver(t, r) PROVE Undisturbed'
    <2>1. /\ pc[t] = "rows" /\ UNCHANGED <<db, bulk, lockVars, pc, job, block, failures>>
      BY <1>12 DEF Deliver, appVars
    <2>2. \A u \in Threads : pc[u] # "bulk"
      BY <2>1, Alone DEF InBlock
    <2>3. QED
      BY <2>1, <2>2 DEF lockVars, InBlock, Reloading
  <1>13. ASSUME NEW t \in Threads, Finish(t) PROVE Undisturbed'
    <2>1. AtEnd(t) /\ bulk' = {} /\ InBlock(t) /\ TakeUp(t, todo[t]) /\ UNCHANGED <<db, failures>>
      BY <1>13 DEF Finish, SwapIn, AtEnd, InBlock, appVars
    <2>2. \A u \in Threads : ~InBlock(u)'
      BY <2>1, Alone, TakeUpTypes DEF IInv, InBlock
    <2>3. lockOwner = t /\ holds = 1
      BY <1>0, <2>1 DEF IInv, BlocksDoNotOverlap
    <2>4. lockOwner' = NoThread
      BY <1>13, <2>3 DEF Finish
    <2>5. QED
      BY <2>1, <2>2, <2>4 DEF InBlock
  <1>14. ASSUME NEW t \in Threads, Abort(t) \/ FinishFails(t) \/ \E k \in Keys : Refuse(t, k)
         PROVE  FALSE
    BY <1>0, <1>14 DEF Abort, FinishFails, Refuse, Fail
  <1>15. QED
    BY <1>1, <1>2, <1>3, <1>4, <1>5, <1>6, <1>7, <1>8, <1>9, <1>10, <1>11, <1>12, <1>13,
       <1>14 DEF Next, Step

-----------------------------------------------------------------------------
(***************************************************************************)
(* The refinement: every step is one of the stream's, or none.             *)
(***************************************************************************)
RowContent == [ver : 0..MaxVersion, there : BOOLEAN]

\* What is seen of a table is content of the stream.
LEMMA SeenContent ==
    ASSUME NEW table \in [Keys -> Row], \A k \in Keys : table[k].ver <= MaxVersion
    PROVE  Seen(table) \in [Keys -> RowContent]
  <1>1. NoRow \in RowContent
    BY BoundsAssumption DEF NoRow, RowContent
  <1>2. \A k \in Keys : table[k] \in RowContent
    BY BoundsAssumption DEF RowContent
  <1>3. QED
    BY <1>1, <1>2 DEF Seen

\* A step that touches neither what is served nor the open block does not show.
LEMMA Unseen ==
    ASSUME UNCHANGED <<loaded, live, bulk>>, Seen(local)' = Seen(local),
           OpenBlock' = OpenBlock
    PROVE  UNCHANGED Stream!vars
  BY DEF Stream!vars, Seen

\* The first load of an entity.
LEMMA LoadIsLoad ==
    ASSUME IInv, IInv', VersionsInv', Undisturbed, Undisturbed', NEW e \in Entities, LoadEntity(e)
    PROVE  Stream!Load(e)
  <1> USE DEF LoadEntity, IInv, TypeOK
  <1>1. OpenBlock = NoEntity /\ UNCHANGED <<OpenBlock, bulk>>
    <2>1. \A t \in Threads : ~InBlock(t)
      BY DEF InBlock, CoherenceInv, ThreadsInOrder, Up
    <2>2. lockOwner = NoThread
      BY <2>1 DEF Undisturbed
    <2>3. QED
      BY <2>2 DEF OpenBlock, lockVars, threadVars
  <1> DEFINE table == Seen(local)'
  <1>2. table \in [Keys -> RowContent]
    <2>1. \A k \in Keys : local'[k].ver <= MaxVersion
      BY BoundsAssumption DEF VersionsInv, VersionsBounded, Undisturbed
    <2>2. Seen(local') \in [Keys -> RowContent]
      BY <2>1, SeenContent
    <2>3. QED
      BY <2>2 DEF Seen
  <1>3. \A k \in Keys : k[1] # e => table[k] = Seen(local)[k]
    BY DEF Seen
  <1>4. Seen(live)' = IF loaded' = Entities THEN table ELSE Seen(live)
    BY DEF Seen
  <1> HIDE DEF table
  <1>5. table \in Stream!Tables
    BY <1>2 DEF Stream!Tables, Stream!Keys, Keys, RowContent
  <1>6. QED
    BY <1>1, <1>3, <1>4, <1>5 DEF Stream!Load, Stream!Keys, Keys, table

\* A restart.
LEMMA CrashIsRestart == Crash => Stream!Restart
  BY DEF Crash, Stream!Restart, Stream!Keys, Keys, Seen, NoRow, OpenBlock

\* A block opens with start().
LEMMA StartIsOpen ==
    ASSUME IInv, Undisturbed, NEW t \in Threads, Start(t)
    PROVE  \E e \in Entities : Stream!Open(e)
  <1>1. pc[t] = "waiting" /\ lockOwner' = t /\ block' = block
        /\ UNCHANGED <<loaded, live, local, bulk>>
    BY DEF Start, cacheVars
  <1>2. lockOwner = NoThread
    BY <1>1, OutsideBlock DEF Start, InBlock
  <1>3. t # NoThread /\ block[t] \in Entities /\ Up
    BY <1>1, ThreadsAssumption DEF IInv, TypeOK, CoherenceInv, ThreadsInOrder
  <1>4. OpenBlock = NoEntity /\ OpenBlock' = block[t]
    BY <1>1, <1>2, <1>3 DEF OpenBlock
  <1>5. Stream!Open(block[t])
    BY <1>1, <1>3, <1>4 DEF Stream!Open, Up, Seen
  <1>6. QED
    BY <1>3, <1>5

\* The open block is the one of the thread in a block.
LEMMA OpenIs ==
    ASSUME IInv, NEW t \in Threads, InBlock(t)
    PROVE  OpenBlock = block[t] /\ OpenBlock \in Entities /\ OpenBlock # NoEntity /\ Up
           /\ lockOwner = t
  <1>1. lockOwner = t /\ t # NoThread /\ pc[t] # "idle"
    BY ThreadsAssumption DEF InBlock, IInv, BlocksDoNotOverlap
  <1>2. QED
    BY <1>1, ThreadsAssumption DEF OpenBlock, IInv, TypeOK, CoherenceInv, ThreadsInOrder

\* Outside a bulk update what is served is what is worked on.
LEMMA BulkIsOpen ==
    ASSUME IInv, Undisturbed, NEW t \in Threads, InBlock(t)
    PROVE  /\ \A e \in bulk : e = block[t] /\ Reloading(t, e)
           /\ \A k \in Keys : k[1] \notin bulk => local[k] = live[k]
  <1>1. \A u \in Threads, e \in Entities : Reloading(u, e) => u = t
    BY Alone
  <1>2. bulk \subseteq Entities
    BY DEF IInv, TypeOK
  <1>3. QED
    BY <1>1, <1>2, OpenIs DEF Undisturbed, Reloading, IInv, CoherenceInv, LocalIsLive

LEMMA StartBulkIsBulk ==
    ASSUME IInv, Undisturbed, NEW t \in Threads, StartBulk(t)
    PROVE  Stream!StartBulkUpdate
  <1>1. /\ pc[t] = "opened" /\ bulk' = bulk \union {block[t]} /\ InBlock(t)
        /\ local' = [k \in Keys |-> IF k[1] = block[t] THEN NoRow ELSE local[k]]
        /\ UNCHANGED <<loaded, live, lockOwner, block>>
    BY DEF StartBulk, InBlock, lockVars
  <1>2. bulk = {}
    BY <1>1, BulkIsOpen DEF Reloading
  <1>3. Seen(local)' = Stream!EmptyOf(OpenBlock, Seen(local))
    BY <1>1, OpenIs DEF Seen, Stream!EmptyOf, Stream!Keys, Keys, NoRow
  <1>4. UNCHANGED <<Seen(live), OpenBlock>>
    BY <1>1 DEF Seen, OpenBlock
  <1>5. QED
    BY <1>1, <1>2, <1>3, <1>4, OpenIs DEF Stream!StartBulkUpdate

\* The query of a bulk update: its rows are on their way, no table has changed.
LEMMA QueryAllUnseen ==
    ASSUME IInv, Undisturbed, NEW t \in Threads, QueryAll(t)
    PROVE  UNCHANGED Stream!vars
  <1>1. /\ pc[t] = "bulk" /\ UNCHANGED <<loaded, live, bulk, lockOwner, block>>
        /\ local' = [k \in Keys |-> IF k[1] = block[t] /\ ~(k[1] = block[t] /\ db[k].there)
                                    THEN db[k] ELSE local[k]]
    BY DEF QueryAll, lockVars
  <1>2. \A k \in Keys : k[1] = block[t] => ~local[k].there
    BY <1>1 DEF Undisturbed
  <1>3. Seen(local)' = Seen(local)
    <2>1. \A k \in Keys : local'[k].there <=> local[k].there
      BY <1>1, <1>2
    <2>2. \A k \in Keys : local[k].there => local'[k] = local[k]
      BY <1>1, <1>2
    <2>3. QED
      BY <2>1, <2>2 DEF Seen
  <1>4. QED
    BY <1>1, <1>3, Unseen DEF OpenBlock

\* A row of the open block.
LEMMA DeliverIsProcess ==
    ASSUME IInv, VersionsInv, Undisturbed, NEW t \in Threads, NEW r \in Keys, Deliver(t, r)
    PROVE  \E row \in RowContent : Stream!Process(r, row)
  <1>1. /\ InBlock(t) /\ r[1] = block[t] /\ todo[t][r] \in Row
        /\ local' = [local EXCEPT ![r] = todo[t][r]]
        /\ live' = IF r[1] \in bulk THEN live ELSE [live EXCEPT ![r] = todo[t][r]]
        /\ UNCHANGED <<loaded, bulk, lockOwner, block>>
    BY DEF Deliver, PutRow, InHand, RowsOf, InBlock, lockVars
  <1> DEFINE row == IF todo[t][r].there THEN todo[t][r] ELSE NoRow
  <1>2. row \in RowContent
    <2>1. todo[t][r].ver <= db[r].ver /\ db[r].ver <= MaxVersion /\ db[r].ver \in Nat
      BY <1>1 DEF VersionsInv, VersionsBounded, Undisturbed, IInv, TypeOK
    <2>2. QED
      BY <1>1, <2>1, BoundsAssumption DEF RowContent, NoRow
  <1>3. Seen(local)' = [Seen(local) EXCEPT ![r] = row]
    BY <1>1 DEF Seen, IInv, TypeOK
  <1>4. Seen(live)' = IF bulk # {} THEN Seen(live) ELSE Seen(local)'
    <2>1. CASE bulk = {}
      <3>1. \A k \in Keys : local'[k] = live'[k]
        BY <1>1, <2>1, BulkIsOpen DEF IInv, TypeOK
      <3>2. QED
        BY <2>1, <3>1 DEF Seen
    <2>2. CASE bulk # {}
      <3>1. r[1] \in bulk
        BY <1>1, <2>2, BulkIsOpen
      <3>2. QED
        BY <1>1, <2>2, <3>1 DEF Seen
    <2>3. QED
      BY <2>1, <2>2
  <1> HIDE DEF row
  <1>5. OpenBlock = r[1] /\ UNCHANGED OpenBlock
    BY <1>1, OpenIs DEF OpenBlock
  <1>6. Stream!Process(r, row)
    BY <1>1, <1>3, <1>4, <1>5 DEF Stream!Process
  <1>7. QED
    BY <1>2, <1>6

\* A block closes with finish(), and what was worked on is served.
LEMMA FinishIsClose ==
    ASSUME IInv, Undisturbed, NEW t \in Threads, Finish(t)
    PROVE  Stream!Close
  <1>1. /\ InBlock(t) /\ SwapIn /\ UNCHANGED <<loaded, local>> /\ bulk' = {}
    BY DEF Finish, AtEnd, InBlock, SwapIn
  <1>2. \A k \in Keys : live'[k] = local[k]
    BY <1>1, BulkIsOpen DEF SwapIn
  <1>3. lockOwner' = NoThread
    BY <1>1, OpenIs, ThreadsAssumption DEF Finish, Undisturbed
  <1>4. Seen(live)' = Seen(local)
    BY <1>2 DEF Seen
  <1>5. QED
    BY <1>1, <1>3, <1>4, OpenIs DEF Stream!Close, OpenBlock, Seen

\* Threads that take up work are not those in the open block.
LEMMA TakingUpUnseen ==
    ASSUME IInv, Undisturbed,
           \/ Receive
           \/ \E t \in Operators, k \in Keys : Poke(t, k)
           \/ \E t \in Operators, e \in Entities : Reload(t, e)
    PROVE  UNCHANGED Stream!vars
  <1>1. PICK t \in Threads :
            /\ pc[t] = "idle" /\ UNCHANGED <<cacheVars, lockVars>>
            /\ \A u \in Threads \ {t} : block'[u] = block[u]
    <2>1. ASSUME Receive
          PROVE  /\ pc[Listener] = "idle" /\ UNCHANGED <<cacheVars, lockVars>>
                 /\ \A u \in Threads \ {Listener} : block'[u] = block[u]
      BY <2>1, TakeUpTypes DEF Receive, IInv
    <2>2. ASSUME NEW t \in Operators, (\E k \in Keys : Poke(t, k)) \/ (\E e \in Entities : Reload(t, e))
          PROVE  /\ pc[t] = "idle" /\ UNCHANGED <<cacheVars, lockVars>>
                 /\ \A u \in Threads \ {t} : block'[u] = block[u]
      BY <2>2 DEF Poke, Reload, IInv, TypeOK
    <2>3. QED
      BY <2>1, <2>2
  <1>2. lockOwner # t
    BY <1>1, OutsideBlock DEF InBlock
  <1>3. OpenBlock' = OpenBlock
    BY <1>1, <1>2 DEF OpenBlock, lockVars, IInv, TypeOK
  <1>4. QED
    BY <1>1, <1>3, Unseen DEF cacheVars, Seen

LEMMA StepIsStream ==
    ASSUME MaxFailures = 0, IInv, IInv', VersionsInv, VersionsInv', Undisturbed, Undisturbed',
           [Next]_vars
    PROVE  [Stream!Next]_(Stream!vars)
  <1>1. ASSUME UNCHANGED <<cacheVars, lockVars, threadVars>> PROVE UNCHANGED Stream!vars
    BY <1>1, Unseen DEF cacheVars, lockVars, threadVars, OpenBlock, Seen
  <1>2. CASE \/ UNCHANGED vars
             \/ \E k \in Keys : Write(k)
             \/ \E K \in SUBSET Keys, trusted \in SUBSET Entities : SendUpdate(K, trusted)
    BY <1>1, <1>2 DEF vars, Write, SendUpdate
  <1>3. CASE \E e \in Entities : LoadEntity(e)
    BY <1>3, LoadIsLoad DEF Stream!Next
  <1>4. CASE Crash
    BY <1>4, CrashIsRestart DEF Stream!Next
  <1>5. CASE \/ Receive
             \/ \E t \in Operators, k \in Keys : Poke(t, k)
             \/ \E t \in Operators, e \in Entities : Reload(t, e)
    BY <1>5, TakingUpUnseen
  <1>6. CASE \E t \in Threads : Start(t)
    BY <1>6, StartIsOpen DEF Stream!Next
  <1>7. CASE \E t \in Threads : StartBulk(t)
    BY <1>7, StartBulkIsBulk DEF Stream!Next
  <1>8. CASE \E t \in Threads : QueryAll(t)
    BY <1>8, QueryAllUnseen
  <1>9. ASSUME NEW t \in Threads, NEW k \in Keys, Lookup(t, k) PROVE UNCHANGED Stream!vars
    BY <1>9, Unseen DEF Lookup, cacheVars, lockVars, OpenBlock, Seen
  <1>10. ASSUME NEW t \in Threads, NEW k \in Keys, Deliver(t, k) PROVE Stream!Next
    BY <1>10, DeliverIsProcess DEF Stream!Next, Stream!Keys, Keys, RowContent
  <1>11. CASE \E t \in Threads : Finish(t)
    BY <1>11, FinishIsClose DEF Stream!Next
  <1>12. ASSUME NEW t \in Threads, Abort(t) \/ FinishFails(t) \/ \E k \in Keys : Refuse(t, k)
         PROVE  FALSE
    BY <1>12 DEF Abort, FinishFails, Refuse, Fail, Undisturbed
  <1>13. QED
    BY <1>2, <1>3, <1>4, <1>5, <1>6, <1>7, <1>8, <1>9, <1>10, <1>11, <1>12 DEF Next, Step

\* As long as nobody throws, the server is a stream of blocks: one block at a time,
\* whose rows go into what is served one by one, or all at once at the end of a bulk
\* update.
THEOREM ImplementsStream ==
    ASSUME MaxFailures = 0
    PROVE  Spec => ServesBlocks
  <1>1. Init => Stream!Init
    BY DEF Init, Stream!Init, Stream!Keys, Keys, Seen, NoRow, OpenBlock
  <1>2. Init => VersionsInv /\ Undisturbed
    BY InitVersions, InitUndisturbed
  <1>3. IInv /\ VersionsInv /\ Undisturbed /\ [Next]_vars => VersionsInv' /\ Undisturbed'
    BY StepKeepsVersions, StepUndisturbed
  <1>4. IInv /\ IInv' /\ VersionsInv /\ VersionsInv' /\ Undisturbed /\ Undisturbed' /\ [Next]_vars
            => [Stream!Next]_(Stream!vars)
    BY StepIsStream
  <1>5. QED
    BY <1>1, <1>2, <1>3, <1>4, InvariantHolds, PTL DEF Spec, ServesBlocks, Stream!Spec
=============================================================================
