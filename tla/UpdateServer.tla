---------------------------- MODULE UpdateServer ----------------------------
(***************************************************************************)
(* The update path of a CommaCQ server.  An application changes rows of    *)
(* the database and then notifies the server on a JMS queue.  One listener *)
(* thread (UpdateInboundHandler) turns each message into update blocks;    *)
(* operator threads (JMX: reload, reloadAll, pokeCsvEntry) run blocks of   *)
(* their own.  A block takes the lock of CsvLineCallbackComposite, reads   *)
(* rows from the database, hands them one by one to the CacheLayer, and    *)
(* releases the lock when it finishes.  A bulk block fills a new CsvCache  *)
(* that replaces the one being served when the block finishes.             *)
(*                                                                         *)
(* A row is a version number and whether the row exists.  Only the second  *)
(* is data of the program: the cache has an entry for exactly the rows     *)
(* that are "there".  The version says which write of the database a copy  *)
(* stems from, so that properties can tell an old copy from a new one.     *)
(***************************************************************************)
EXTENDS Naturals, Sequences

CONSTANTS
    Entities,     \* entity ids, one CsvDataSource and one cache each
    Ids,          \* ids of the rows of an entity
    Operators,    \* the threads of JMX calls
    Listener,     \* the one thread of the update queue's listener container
    NoThread,
    NoEntity,
    Silent,       \* a message says nothing of this row
    IdOnly,       \* a message lists the row's id: look the row up
    MaxVersion,   \* bound: writes of one row
    MaxQueue,     \* bound: messages waiting on the update queue
    MaxCrashes,   \* bound: restarts of the server
    MaxFailures   \* bound: exceptions thrown inside a block

Keys == Entities \X Ids
Threads == Operators \union {Listener}
Row == [ver : Nat, there : BOOLEAN]
Note == Row \union {Silent, IdOnly}

\* What a new CsvCache holds for every id: no entry.
NoRow == [ver |-> 0, there |-> FALSE]

ASSUME ThreadsAssumption ==
    /\ Listener \notin Operators
    /\ NoThread \notin Threads
    /\ NoEntity \notin Entities

ASSUME NotesAssumption ==
    /\ Silent \notin Row
    /\ IdOnly \notin Row
    /\ Silent # IdOnly

ASSUME BoundsAssumption ==
    /\ MaxVersion \in Nat
    /\ MaxQueue \in Nat
    /\ MaxCrashes \in Nat
    /\ MaxFailures \in Nat

VARIABLES
    db,         \* [Keys -> Row], the database
    unsent,     \* rows written whose notification the application owes
    queue,      \* the update queue: each message maps a key to a Note
    loaded,     \* entities the CacheLayer constructor has read so far
    live,       \* CsvDataSourceCache.csvCache of every entity: what is served
                \* (no entry anywhere for the null before the first swap)
    local,      \* CsvCacheFactoryInitialLoad.localCsvCache
    bulk,       \* entities whose localCsvCache is not the csvCache object
    lockOwner,  \* owner of the composite's ReentrantLock
    holds,      \* its hold count
    pc,         \* where each thread stands
    job,        \* what a thread's current block does (see Jobs)
    block,      \* the entity of a thread's current block
    todo,       \* [Threads -> [Keys -> Note]]: what a thread has yet to do
    lost,       \* history: rows whose notification an exception swallowed
    crashes,    \* history: restarts so far
    failures    \* history: exceptions so far

appVars == <<db, unsent, queue>>
cacheVars == <<loaded, live, local, bulk>>
lockVars == <<lockOwner, holds>>
threadVars == <<pc, job, block, todo>>
faultVars == <<lost, crashes, failures>>
vars == <<appVars, cacheVars, lockVars, threadVars, faultVars>>

-----------------------------------------------------------------------------
RowsOf(e) == {k \in Keys : k[1] = e}
Nothing == [k \in Keys |-> Silent]
Up == loaded = Entities

\* The entities a thread still has notes about.
EntitiesIn(notes) == {e \in Entities : \E k \in RowsOf(e) : notes[k] # Silent}

\* The rows a thread has in hand: known, not yet passed on.
InHand(t, e) == {k \in RowsOf(e) : todo[t][k] \in Row}

\* A block looks listed ids up in the database (an untrusted update), applies
\* the rows of its message (a trusted update), or reloads its entity.
Jobs == {"lookup", "apply", "reload"}

InBlock(t) == pc[t] \in {"opened", "bulk", "rows"}

TypeOK ==
    /\ db \in [Keys -> Row]
    /\ unsent \subseteq Keys
    /\ queue \in Seq([Keys -> Note])
    /\ loaded \subseteq Entities
    /\ live \in [Keys -> Row]
    /\ local \in [Keys -> Row]
    /\ bulk \subseteq Entities
    /\ lockOwner \in Threads \union {NoThread}
    /\ holds \in Nat
    /\ pc \in [Threads -> {"idle", "waiting", "opened", "bulk", "rows"}]
    /\ job \in [Threads -> Jobs]
    /\ block \in [Threads -> Entities \union {NoEntity}]
    /\ \A t \in Threads : pc[t] # "idle" => block[t] \in Entities
    /\ todo \in [Threads -> [Keys -> Note]]
    /\ lost \subseteq Keys
    /\ crashes \in Nat
    /\ failures \in Nat

Init ==
    /\ db \in [Keys -> {[ver |-> 0, there |-> b] : b \in BOOLEAN}]
    /\ unsent = {}
    /\ queue = <<>>
    /\ loaded = {}
    /\ live = [k \in Keys |-> NoRow]
    /\ local = [k \in Keys |-> NoRow]
    /\ bulk = {}
    /\ lockOwner = NoThread
    /\ holds = 0
    /\ pc = [t \in Threads |-> "idle"]
    /\ job = [t \in Threads |-> "lookup"]
    /\ block = [t \in Threads |-> NoEntity]
    /\ todo = [t \in Threads |-> Nothing]
    /\ lost = {}
    /\ crashes = 0
    /\ failures = 0

-----------------------------------------------------------------------------
(***************************************************************************)
(* The application (not part of the repository).  It changes a row, and    *)
(* the notification is due from then on.                                   *)
(***************************************************************************)
Write(k) ==
    /\ db[k].ver < MaxVersion
    /\ \E b \in BOOLEAN : db' = [db EXCEPT ![k] = [ver |-> @.ver + 1, there |-> b]]
    /\ unsent' = unsent \union {k}
    /\ UNCHANGED <<queue, cacheVars, lockVars, threadVars, faultVars>>

\* UpdateManager.sendUpdate, or another sender of update messages: a message
\* about the rows K.  For the entities in `trusted` it carries whole rows, as
\* the sender has just written them, for the others it lists ids.
SendUpdate(K, trusted) ==
    /\ K # {}
    /\ Len(queue) < MaxQueue
    /\ queue' = Append(queue, [k \in Keys |->
                    IF k \notin K THEN Silent
                    ELSE IF k[1] \in trusted THEN db[k] ELSE IdOnly])
    /\ unsent' = unsent \ K
    /\ UNCHANGED <<db, cacheVars, lockVars, threadVars, faultVars>>

-----------------------------------------------------------------------------
(***************************************************************************)
(* Start-up: the CacheLayer's constructor subscribes to the source layer   *)
(* and reads one entity after the other into the local caches, which are   *)
(* all swapped in at the end.  The listener and the JMX operations start   *)
(* once it has returned.                                                   *)
(***************************************************************************)
LoadEntity(e) ==
    /\ e \in Entities \ loaded
    /\ loaded' = loaded \union {e}
    /\ local' = [k \in Keys |-> IF k[1] = e THEN db[k] ELSE local[k]]
    /\ live' = IF loaded' = Entities THEN local' ELSE live
    /\ UNCHANGED <<appVars, bulk, lockVars, threadVars, faultVars>>

\* The process dies and is started again: the queue is the broker's and
\* survives, a message taken off it does not.
Crash ==
    /\ crashes < MaxCrashes
    /\ crashes' = crashes + 1
    /\ loaded' = {}
    /\ live' = [k \in Keys |-> NoRow]
    /\ local' = [k \in Keys |-> NoRow]
    /\ bulk' = {}
    /\ lockOwner' = NoThread
    /\ holds' = 0
    /\ pc' = [t \in Threads |-> "idle"]
    /\ job' = [t \in Threads |-> "lookup"]
    /\ block' = [t \in Threads |-> NoEntity]
    /\ todo' = [t \in Threads |-> Nothing]
    /\ lost' = {}
    /\ UNCHANGED <<appVars, failures>>

-----------------------------------------------------------------------------
(***************************************************************************)
(* Taking up work.                                                         *)
(***************************************************************************)

\* Mutant: only the first entity of a map message is handled.
TakeUpOnce(t, notes) ==
    \/ /\ pc[t] # "idle" \/ EntitiesIn(notes) = {}
       /\ pc' = [pc EXCEPT ![t] = "idle"]
       /\ block' = [block EXCEPT ![t] = NoEntity]
       /\ UNCHANGED job
    \/ \E e \in EntitiesIn(notes) :
       /\ pc[t] = "idle"
       /\ pc' = [pc EXCEPT ![t] = "waiting"]
       /\ block' = [block EXCEPT ![t] = e]
       /\ job' = [job EXCEPT ![t] = "lookup"]

\* The thread goes on to a block for one of the entities it has notes about,
\* in any order (getMapNames), or has nothing left to do.
TakeUp(t, notes) ==
    \/ /\ EntitiesIn(notes) = {}
       /\ pc' = [pc EXCEPT ![t] = "idle"]
       /\ block' = [block EXCEPT ![t] = NoEntity]
       /\ UNCHANGED job
    \/ \E e \in EntitiesIn(notes) :
       /\ pc' = [pc EXCEPT ![t] = "waiting"]
       /\ block' = [block EXCEPT ![t] = e]
       /\ job' = [job EXCEPT ![t] =
                    IF \E k \in RowsOf(e) : notes[k] = IdOnly THEN "lookup" ELSE "apply"]

\* UpdateInboundHandler.onMessage with the next message of the queue.
Receive ==
    /\ Up
    /\ pc[Listener] = "idle"
    /\ queue # <<>>
    /\ queue' = Tail(queue)
    /\ todo' = [todo EXCEPT ![Listener] = Head(queue)]
    /\ TakeUp(Listener, Head(queue))
    /\ UNCHANGED <<db, unsent, cacheVars, lockVars, faultVars>>

\* JMX pokeCsvEntry(entityId, id).
Poke(t, k) ==
    /\ Up
    /\ pc[t] = "idle"
    /\ pc' = [pc EXCEPT ![t] = "waiting"]
    /\ job' = [job EXCEPT ![t] = "lookup"]
    /\ block' = [block EXCEPT ![t] = k[1]]
    /\ todo' = [todo EXCEPT ![t] = [Nothing EXCEPT ![k] = IdOnly]]
    /\ UNCHANGED <<appVars, cacheVars, lockVars, faultVars>>

\* JMX reload(entityId); reloadAll is one such call per entity.
Reload(t, e) ==
    /\ Up
    /\ pc[t] = "idle"
    /\ pc' = [pc EXCEPT ![t] = "waiting"]
    /\ job' = [job EXCEPT ![t] = "reload"]
    /\ block' = [block EXCEPT ![t] = e]
    /\ UNCHANGED <<appVars, cacheVars, lockVars, todo, faultVars>>

-----------------------------------------------------------------------------
(***************************************************************************)
(* A block: start, its rows, finish.                                       *)
(***************************************************************************)

\* Mutant: start() does not wait for the lock.
StartUnlocked(t) ==
    /\ pc[t] = "waiting"
    /\ lockOwner' = t
    /\ holds' = holds + 1
    /\ pc' = [pc EXCEPT ![t] = IF job[t] = "reload" THEN "opened" ELSE "rows"]
    /\ UNCHANGED <<appVars, cacheVars, job, block, todo, faultVars>>

\* start(): lock.lock(), reentrant.
Start(t) ==
    /\ pc[t] = "waiting"
    /\ lockOwner \in {NoThread, t}
    /\ lockOwner' = t
    /\ holds' = holds + 1
    /\ pc' = [pc EXCEPT ![t] = IF job[t] = "reload" THEN "opened" ELSE "rows"]
    /\ UNCHANGED <<appVars, cacheVars, job, block, todo, faultVars>>

\* Mutant: startBulkUpdate() empties the CsvCache that is being served.
StartBulkInPlace(t) ==
    LET emptied(table) == [k \in Keys |-> IF k[1] = block[t] THEN NoRow ELSE table[k]]
    IN  /\ pc[t] = "opened"
        /\ local' = emptied(local) /\ live' = emptied(live)
        /\ pc' = [pc EXCEPT ![t] = "bulk"]
        /\ UNCHANGED <<appVars, loaded, bulk, lockVars, job, block, todo, faultVars>>

\* startBulkUpdate(): a new, empty CsvCache becomes the local one.
StartBulk(t) ==
    /\ pc[t] = "opened"
    /\ local' = [k \in Keys |-> IF k[1] = block[t] THEN NoRow ELSE local[k]]
    /\ bulk' = bulk \union {block[t]}
    /\ pc' = [pc EXCEPT ![t] = "bulk"]
    /\ UNCHANGED <<appVars, loaded, live, lockVars, job, block, todo, faultVars>>

\* getAllCsvLines(): one query, whose result set is delivered row by row.  A
\* row that is not there yields nothing: only its history is noted in `local`.
QueryAll(t) ==
    LET found(k) == k[1] = block[t] /\ db[k].there
    IN  /\ pc[t] = "bulk"
        /\ todo' = [todo EXCEPT ![t] = [k \in Keys |-> IF found(k) THEN db[k] ELSE Silent]]
        /\ local' = [k \in Keys |->
                        IF k[1] = block[t] /\ ~found(k) THEN db[k] ELSE local[k]]
        /\ pc' = [pc EXCEPT ![t] = "rows"]
        /\ UNCHANGED <<appVars, loaded, live, bulk, lockVars, job, block, faultVars>>

\* Mutant: the row is queried before start() has taken the lock.
LookupBeforeStart(t, k) ==
    /\ pc[t] = "waiting" \/ pc[t] = "rows"
    /\ k[1] = block[t]
    /\ todo[t][k] = IdOnly
    /\ InHand(t, block[t]) = {}
    /\ todo' = [todo EXCEPT ![t][k] = db[k]]
    /\ UNCHANGED <<appVars, cacheVars, lockVars, pc, job, block, faultVars>>

\* updateUntrusted(): getCsvLine() queries one row ...
Lookup(t, k) ==
    /\ pc[t] = "rows"
    /\ k[1] = block[t]
    /\ todo[t][k] = IdOnly
    /\ InHand(t, block[t]) = {}
    /\ todo' = [todo EXCEPT ![t][k] = db[k]]
    /\ UNCHANGED <<appVars, cacheVars, lockVars, pc, job, block, faultVars>>

\* ... and processUpdate() or processRemove() puts a row into localCsvCache,
\* which outside a bulk update is the CsvCache being served.
PutRow(k, row) ==
    /\ local' = [local EXCEPT ![k] = row]
    /\ live' = IF k[1] \in bulk THEN live ELSE [live EXCEPT ![k] = row]

\* Mutant: an id stays on the list although its row has been delivered.
DeliverAgain(t, k) ==
    /\ pc[t] = "rows"
    /\ k \in InHand(t, block[t])
    /\ PutRow(k, todo[t][k])
    /\ todo' = [todo EXCEPT ![t][k] = IF job[t] = "lookup" THEN IdOnly ELSE Silent]
    /\ lost' = IF k[1] \in bulk THEN lost ELSE lost \ {k}
    /\ UNCHANGED <<appVars, loaded, bulk, lockVars, pc, job, block, crashes, failures>>

Deliver(t, k) ==
    /\ pc[t] = "rows"
    /\ k \in InHand(t, block[t])
    /\ PutRow(k, todo[t][k])
    /\ todo' = [todo EXCEPT ![t][k] = Silent]
    /\ lost' = IF k[1] \in bulk THEN lost ELSE lost \ {k}
    /\ UNCHANGED <<appVars, loaded, bulk, lockVars, pc, job, block, crashes, failures>>

\* Mutant: finish() forgets the new cache instead of serving it.
NoSwap ==
    /\ bulk' = {}
    /\ UNCHANGED live

\* CacheLayer's finish(): every local cache that is not the one being served
\* takes its place.
SwapIn ==
    /\ live' = [k \in Keys |-> IF k[1] \in bulk THEN local[k] ELSE live[k]]
    /\ bulk' = {}

\* A reload that reaches its finish() makes up for what was lost before.
Recovered(t) == IF job[t] = "reload" THEN RowsOf(block[t]) ELSE {}

AtEnd(t) == pc[t] = "rows" /\ \A k \in RowsOf(block[t]) : todo[t][k] = Silent

\* Mutant: finish() releases the lock once more than start() took it.
FinishUnlocksTwice(t) ==
    /\ AtEnd(t)
    /\ SwapIn
    /\ lost' = lost \ Recovered(t)
    /\ holds' = holds - 2
    /\ lockOwner' = NoThread
    /\ TakeUp(t, todo[t])
    /\ UNCHANGED <<appVars, loaded, local, todo, crashes, failures>>

\* Mutant: finish() does not release the lock.
FinishKeepsLock(t) ==
    /\ AtEnd(t)
    /\ SwapIn
    /\ lost' = lost \ Recovered(t)
    /\ TakeUp(t, todo[t])
    /\ UNCHANGED <<appVars, loaded, local, lockVars, todo, crashes, failures>>

Finish(t) ==
    /\ AtEnd(t)
    /\ SwapIn
    /\ lost' = lost \ Recovered(t)
    /\ holds' = holds - 1
    /\ lockOwner' = IF holds = 1 THEN NoThread ELSE lockOwner
    /\ TakeUp(t, todo[t])
    /\ UNCHANGED <<appVars, loaded, local, todo, crashes, failures>>

-----------------------------------------------------------------------------
(***************************************************************************)
(* Exceptions.  Nobody calls cancel(): the lock stays held, and a listener *)
(* goes on with the next message; this one is not delivered again.         *)
(***************************************************************************)
Fail(t) ==
    /\ failures < MaxFailures
    /\ failures' = failures + 1
    /\ pc' = [pc EXCEPT ![t] = "idle"]
    /\ block' = [block EXCEPT ![t] = NoEntity]
    /\ todo' = [todo EXCEPT ![t] = Nothing]
    /\ UNCHANGED <<lockVars, job, crashes>>

\* The rows of a message that its listener gives up.
GivenUp(t) == IF t = Listener THEN {k \in Keys : todo[t][k] # Silent} ELSE {}

\* start(), a query or a subscriber throws: the thread abandons the block.  A
\* bulk update leaves its half-filled cache behind as the local one.
Abort(t) ==
    /\ InBlock(t)
    /\ Fail(t)
    /\ lost' = lost \union GivenUp(t) \union
                (IF block[t] \in bulk THEN RowsOf(block[t]) ELSE {})
    /\ UNCHANGED <<appVars, cacheVars>>

\* Mutant: finish() tells its subscribers before it swaps the caches.
FinishFailsBeforeSwap(t) ==
    /\ AtEnd(t)
    /\ Fail(t)
    /\ lost' = (lost \ Recovered(t)) \union GivenUp(t)
    /\ UNCHANGED <<appVars, cacheVars>>

\* A subscriber throws from finish(), after the caches were swapped.
FinishFails(t) ==
    /\ AtEnd(t)
    /\ SwapIn
    /\ Fail(t)
    /\ lost' = (lost \ Recovered(t)) \union GivenUp(t)
    /\ UNCHANGED <<appVars, loaded, local>>

\* A subscriber refuses a row of a trusted update with CsvUpdateBlockException:
\* CsvTextBlockToCallback logs it, drops the rest of the block's rows, and the
\* block is finished as if nothing had happened.
Refuse(t, k) ==
    LET dropped == {j \in RowsOf(block[t]) \ {k} : todo[t][j] # Silent}
    IN  /\ pc[t] = "rows"
        /\ job[t] = "apply"
        /\ k \in InHand(t, block[t])
        /\ failures < MaxFailures
        /\ failures' = failures + 1
        /\ PutRow(k, todo[t][k])
        /\ todo' = [todo EXCEPT ![t] =
                        [j \in Keys |-> IF j[1] = block[t] THEN Silent ELSE todo[t][j]]]
        /\ lost' = (IF k[1] \in bulk THEN lost ELSE lost \ {k}) \union dropped
        /\ UNCHANGED <<appVars, loaded, bulk, lockVars, pc, job, block, crashes>>

-----------------------------------------------------------------------------
Step(t) ==
    \/ StartBulk(t)
    \/ QueryAll(t)
    \/ \E k \in Keys : Lookup(t, k) \/ Deliver(t, k)
    \/ Finish(t)

Next ==
    \/ \E k \in Keys : Write(k)
    \/ \E K \in SUBSET Keys, trusted \in SUBSET Entities : SendUpdate(K, trusted)
    \/ \E e \in Entities : LoadEntity(e)
    \/ Crash
    \/ Receive
    \/ \E t \in Operators, k \in Keys : Poke(t, k)
    \/ \E t \in Operators, e \in Entities : Reload(t, e)
    \/ \E t \in Threads : Start(t)
    \/ \E t \in Threads : Step(t)
    \/ \E t \in Threads : Abort(t)
    \/ \E t \in Threads : FinishFails(t)
    \/ \E t \in Threads, k \in Keys : Refuse(t, k)

Spec == Init /\ [][Next]_vars

\* Threads that can run do run, and whoever waits for the lock gets it if it is
\* free again and again: ReentrantLock queues its waiters, and a block is far
\* longer than the moment in which another thread could barge in.  The
\* application and the operators may stop at any time.
Fairness ==
    /\ \A e \in Entities : WF_vars(LoadEntity(e))
    /\ WF_vars(Receive)
    /\ \A t \in Threads : SF_vars(Start(t)) /\ WF_vars(Step(t))

FairSpec == Spec /\ Fairness

-----------------------------------------------------------------------------
(***************************************************************************)
(* What the server promises.                                               *)
(***************************************************************************)
Queued(k) == \E i \in 1..Len(queue) : queue[i][k] # Silent

\* A notification of the row is still on its way to the cache: the application
\* owes it, it waits on the queue, or the listener has not handled it yet.
Pending(k) == k \in unsent \/ Queued(k) \/ todo[Listener][k] # Silent

\* Coherence: once the server is up, a row is served exactly as it is in the
\* database unless a notification of it is still on its way, or was lost to an
\* exception.  Listener, pokes and reloads run on different threads and
\* read the database and write the cache in different steps; only the lock held
\* from start() to finish() keeps an old read from overwriting a newer one, and
\* only the swap in CacheLayer.finish() keeps a half-filled cache from view.
Coherent ==
    Up => \A k \in Keys : live[k] = db[k] \/ Pending(k) \/ k \in lost

\* Blocks do not overlap: a thread between start() and finish() owns the lock,
\* which is counted once for every block begun and not finished.
BlocksDoNotOverlap ==
    /\ \A t \in Threads : InBlock(t) => lockOwner = t
    /\ (lockOwner = NoThread) <=> (holds = 0)

\* A served row never goes back to an older write of the database, in whatever
\* order listener, pokes and reloads overlap, except through a trusted update,
\* whose rows may be older than a look-up made meanwhile, a restart, or a new
\* cache that an exception left half-filled and that a later finish() swaps in.
ServedRowsMoveForward ==
    [][\A k \in Keys :
        live'[k].ver < live[k].ver =>
            \/ crashes' # crashes
            \/ \E t \in Threads : job[t] = "apply" /\ pc[t] = "rows" /\ block[t] = k[1]
            \/ k[1] \in bulk /\ k \in lost
      ]_vars

\* The server is a stream of blocks, one at a time, of which a bulk one replaces
\* what is served at its end and in one step.  Versions of absent rows are history,
\* not content.
Seen(table) == [k \in Keys |-> IF table[k].there THEN table[k] ELSE NoRow]
OpenBlock == IF lockOwner = NoThread THEN NoEntity ELSE block[lockOwner]

Stream == INSTANCE BlockStream WITH
    Content <- [ver : 0..MaxVersion, there : BOOLEAN],
    Absent <- NoRow,
    ready <- loaded,
    served <- Seen(live),
    next <- Seen(local),
    open <- OpenBlock,
    bulk <- bulk # {}

ServesBlocks == Stream!Spec

\* Liveness: every block comes to an end.
BlocksEnd == Stream!BlocksEnd

\* Liveness: a row whose notification has been sent is eventually served as it
\* is in the database, or written again.
NotifiedIsServed ==
    \A k \in Keys :
        k \notin unsent ~> (k \in unsent \/ (Up /\ live[k] = db[k]))

\* What CsvLineCallbackComposite says of finish(): "Finishing an update block
\* causes the lock to be released."
FinishReleasesLock == [][\A t \in Threads : Finish(t) => lockOwner' = NoThread]_vars

-----------------------------------------------------------------------------
(***************************************************************************)
(* Why Coherent holds: an inductive invariant.                             *)
(***************************************************************************)

\* A message that carries a row carries the newest one, unless a later message
\* about the row follows or is still owed.
QueueIsCurrent ==
    \A i \in 1..Len(queue), k \in Keys :
        queue[i][k] \in Row =>
            \/ queue[i][k] = db[k]
            \/ k \in unsent
            \/ \E j \in (i + 1)..Len(queue) : queue[j][k] # Silent

\* So does a thread: what it has in hand is current, or the row will be handled
\* once more after this thread's block.
Renewed(t, k) ==
    \/ k \in unsent
    \/ Queued(k)
    \/ t # Listener /\ todo[Listener][k] # Silent

InHandIsCurrent ==
    \A t \in Threads, k \in Keys :
        todo[t][k] \in Row => todo[t][k] = db[k] \/ Renewed(t, k)

\* Threads run once the caches are loaded; an idle one has nothing to do; only
\* operators reload, and they have rows in hand only inside a block.
ThreadsInOrder ==
    /\ \A t \in Threads :
        /\ pc[t] # "idle" => Up
        /\ pc[t] = "idle" => todo[t] = Nothing
        /\ pc[t] \in {"opened", "bulk"} => job[t] = "reload"
    /\ job[Listener] # "reload"
    /\ \A t \in Operators, k \in Keys :
        todo[t][k] \in Row => pc[t] = "rows" /\ block[t] = k[1]

Reloading(t, e) ==
    /\ pc[t] = "bulk" \/ (pc[t] = "rows" /\ job[t] = "reload")
    /\ block[t] = e

\* A row written while the server starts up is owed or queued when it is up.
LoadIsCurrent ==
    \A k \in Keys : k[1] \in loaded /\ ~Up => local[k] = db[k] \/ Pending(k)

\* localCsvCache is the CsvCache served, except for an entity in a bulk update:
\* one that is being reloaded, or whose reload failed half-way.
LocalIsLive ==
    /\ Up => \A k \in Keys : k[1] \notin bulk => local[k] = live[k]
    /\ \A t \in Threads, e \in Entities : Reloading(t, e) => e \in bulk
    /\ \A e \in bulk : RowsOf(e) \subseteq lost \/ \E t \in Threads : Reloading(t, e)

\* A reload that has queried the database has every row in the new cache, in
\* hand, or pending.
ReloadIsComplete ==
    \A t \in Threads, k \in Keys :
        pc[t] = "rows" /\ job[t] = "reload" /\ block[t] = k[1] =>
            local[k] = db[k] \/ todo[t][k] \in Row \/ Pending(k)

CoherenceInv ==
    /\ ThreadsInOrder
    /\ QueueIsCurrent
    /\ InHandIsCurrent
    /\ LoadIsCurrent
    /\ LocalIsLive
    /\ ReloadIsComplete
    /\ Coherent

IInv == TypeOK /\ BlocksDoNotOverlap /\ CoherenceInv
=============================================================================
