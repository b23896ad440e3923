----------------------------- MODULE Broadcast -----------------------------
(***************************************************************************)
(* From the blocks of a server to the beans of a client.                   *)
(*                                                                         *)
(* The server's layer is a BlockStream (UpdateServer implements it).  Each *)
(* entity has a JmsOutboundHandler, which collects the lines of a block    *)
(* and sends them to the entity's topic when the block finishes.  The      *)
(* client has a listener thread per topic (JmsBroadcastClient) that runs a *)
(* block of its own for every message, and a thread that creates the       *)
(* BeanCaches one after the other: each adds its callback to the client's  *)
(* layer, then queries the server for all rows.  All callbacks of the      *)
(* layer are started and finished by every block, whatever its entity, and *)
(* the loading thread takes no lock.                                       *)
(*                                                                         *)
(* The content of a row is the number of the block that wrote it.          *)
(***************************************************************************)
EXTENDS Naturals, Sequences, FiniteSets, SequencesExt

CONSTANTS
    Entities,
    Ids,
    Loader,       \* the client thread that creates the BeanCaches
    NoThread,
    NoEntity,
    Absent,       \* content of a row that does not exist
    Unset,        \* no update of the row in BeanCsvLineCallback.updated
    Header,       \* a message's line of column names
    NameId,       \* "id", the name of the first column
    MaxBlocks,    \* bound: blocks of the server
    MaxLines,     \* bound: lines in a handler's buffer
    MaxReloads,   \* bound: bulk blocks
    MaxFailures   \* bound: exceptions

\* A listener thread is named by the entity of its topic.
Threads == Entities \union {Loader}
Content == {Absent} \union 0..MaxBlocks

ASSUME ThreadsAssumption ==
    /\ Loader \notin Entities
    /\ NoThread \notin Threads
    /\ NoEntity \notin Entities
    /\ Absent \notin Nat
    /\ Unset \notin Nat \union {Absent}

ASSUME IdsAssumption ==
    IsFiniteSet(Ids) /\ NameId \notin Ids /\ Header \notin [id : Ids, row : Content]

ASSUME BoundsAssumption ==
    /\ MaxBlocks \in Nat /\ MaxLines \in Nat /\ MaxReloads \in Nat /\ MaxFailures \in Nat

VARIABLES
    ready, served, next, open, bulk,   \* the server's BlockStream
    blocks,      \* blocks opened so far
    reloads,     \* bulk blocks so far
    text,        \* JmsOutboundHandler.currentText of each entity
    bulkUpdate,  \* JmsOutboundHandler.bulkUpdate of each entity
    topic,       \* messages sent to each topic and not yet taken
    connected,   \* the client has its proxy layer and listens
    subscribed,  \* entities whose BeanCache callback is in the client's composite
    loaded,      \* entities whose BeanCache has been constructed
    loading,     \* the entity whose BeanCache is being constructed
    lockOwner,   \* owner of the client composite's lock
    holds,       \* its hold count
    at,          \* where each client thread stands
    message,     \* the message, or the query's reply, a thread is working on
    line,        \* the number of lines of it that are done
    callbacks,   \* the callbacks a thread has yet to finish
    clearing,    \* the callback whose finish() the thread is in the middle of
    updated,     \* BeanCsvLineCallback.updated of each entity
    deleted,     \* BeanCsvLineCallback.deleted of each entity
    cache,       \* BeanCache.cache: the beans the client sees
    failures,    \* history: exceptions so far
    excused,     \* history: rows of which a message tells less than was done
    broken       \* history: entities loaded during a block, or hit by an exception

streamVars == <<ready, served, next, open, bulk>>
handlerVars == <<blocks, reloads, text, bulkUpdate>>
lockVars == <<lockOwner, holds>>
threadVars == <<at, message, line, callbacks, clearing>>
beanVars == <<updated, deleted, cache>>
loadVars == <<connected, subscribed, loaded, loading>>
vars == <<streamVars, handlerVars, topic, loadVars, lockVars, threadVars, beanVars,
          failures, excused, broken>>

Server == INSTANCE BlockStream

-----------------------------------------------------------------------------
Keys == Entities \X Ids
Line == [id : Ids, row : Content] \union {Header}
NoMessage == [lines |-> <<>>, bulk |-> FALSE]

\* A line of column names that is not the first of its message passes for a row whose id
\* is "id"; what the row contains does not matter.
CacheIds == Ids \union {NameId}
CacheKeys == Entities \X CacheIds
AsRow(l) == IF l = Header THEN [id |-> NameId, row |-> 0] ELSE l

NoUpdates == [i \in CacheIds |-> Unset]

Mentioned(lines) == {lines[n].id : n \in {m \in 1..Len(lines) : lines[m] # Header}}
LinesOf(i, lines) == {n \in 1..Len(lines) : lines[n] # Header /\ lines[n].id = i}

\* The rows of the open block are those behind the last line of column names.
OfThisBlock(lines) == {n \in 1..Len(lines) : \A m \in n..Len(lines) : lines[m] # Header}
TellsNow(e) == {text[e][n].id : n \in OfThisBlock(text[e])}

\* BeanCsvLineCallback's maps are not empty.
Uncleared(e) == updated[e] # NoUpdates \/ deleted[e] # {}

TypeOK ==
    /\ served \in [Keys -> Content] /\ next \in [Keys -> Content]
    /\ open \in Entities \union {NoEntity} /\ bulk \in BOOLEAN
    /\ blocks \in 0..MaxBlocks /\ reloads \in 0..MaxReloads
    /\ text \in [Entities -> Seq(Line)] /\ bulkUpdate \in [Entities -> BOOLEAN]
    /\ topic \in [Entities -> Seq([lines : Seq(Line), bulk : BOOLEAN])]
    /\ loaded \subseteq subscribed /\ subscribed \subseteq Entities
    /\ loading \in Entities \union {NoEntity}
    /\ lockOwner \in Entities \union {NoThread} /\ holds \in Nat
    /\ at \in [Threads -> {"idle", "query", "rows", "finish", "clear"}]
    /\ message \in [Threads -> [lines : Seq(Line), bulk : BOOLEAN]]
    /\ \A t \in Threads : line[t] \in 0..Len(message[t].lines)
    /\ callbacks \in [Threads -> SUBSET subscribed]
    /\ clearing \in [Threads -> Entities \union {NoEntity}]
    /\ updated \in [Entities -> [CacheIds -> Content \union {Unset}]]
    /\ deleted \in [Entities -> SUBSET Ids]
    /\ cache \in [CacheKeys -> Content]

Init ==
    /\ ready = Entities
    /\ served \in [Keys -> {Absent, 0}]
    /\ next = served
    /\ open = NoEntity /\ bulk = FALSE
    /\ blocks = 0 /\ reloads = 0
    /\ text = [e \in Entities |-> <<>>] /\ bulkUpdate = [e \in Entities |-> FALSE]
    /\ topic = [e \in Entities |-> <<>>]
    /\ connected = FALSE
    /\ subscribed = {} /\ loaded = {} /\ loading = NoEntity
    /\ lockOwner = NoThread /\ holds = 0
    /\ at = [t \in Threads |-> "idle"]
    /\ message = [t \in Threads |-> NoMessage]
    /\ line = [t \in Threads |-> 0]
    /\ callbacks = [t \in Threads |-> {}]
    /\ clearing = [t \in Threads |-> NoEntity]
    /\ updated = [e \in Entities |-> NoUpdates]
    /\ deleted = [e \in Entities |-> {}]
    /\ cache = [k \in CacheKeys |-> Absent]
    /\ failures = 0 /\ excused = {} /\ broken = {}

-----------------------------------------------------------------------------
(***************************************************************************)
(* The server's blocks, as its JmsOutboundHandlers see them.               *)
(***************************************************************************)

\* start() of a block of entity e: every handler prints the column names.
ServerStart(e) ==
    /\ blocks < MaxBlocks
    /\ Server!Open(e)
    /\ blocks' = blocks + 1
    /\ text' = [f \in Entities |-> Append(text[f], Header)]
    /\ UNCHANGED <<reloads, bulkUpdate>>

\* reload() turns the block it has just started into a bulk one.
ServerStartBulkUpdate ==
    /\ reloads < MaxReloads
    /\ open # NoEntity
    /\ OfThisBlock(text[open]) = {}
    /\ Server!StartBulkUpdate
    /\ reloads' = reloads + 1
    /\ bulkUpdate' = [bulkUpdate EXCEPT ![open] = TRUE]
    /\ UNCHANGED <<blocks, text>>

\* processUpdate or processRemove: the row as this block finds it, written or
\* not since it was last served.  A query of all rows yields each row that is
\* there, once.
ServerProcess(k, row) ==
    /\ row \in {Absent, served[k], blocks}
    /\ bulk => row # Absent /\ next[k] = Absent
    /\ Len(text[k[1]]) < MaxLines
    /\ Server!Process(k, row)
    /\ text' = [text EXCEPT ![k[1]] = Append(@, [id |-> k[2], row |-> row])]
    /\ UNCHANGED <<blocks, reloads, bulkUpdate>>

\* What no message tells: which rows a bulk update dropped, in which order the lines of a
\* message removed and updated a row, and that a line of names is no row.
Dropped == {k \in Keys : bulk /\ k[1] = open /\ next[k] = Absent /\ served[k] # Absent}
Shuffled ==
    {k \in Keys :
        LET lines == text[k[1]]
            own == LinesOf(k[2], lines)
        IN  \E m, n \in own :
                /\ lines[m].row = Absent
                /\ lines[n].row # Absent /\ \A l \in own : l <= n}
NamedTwice(sent) ==
    {<<e, NameId>> : e \in {f \in sent : \E n \in 2..Len(text[f]) : text[f][n] = Header}}

\* Mutant: the buffers are reset although their messages were not sent.
SendAndResetAll(sent) ==
    /\ topic' = [e \in Entities |->
                    IF e \in sent /\ connected
                    THEN Append(topic[e], [lines |-> Tail(text[e]), bulk |-> bulkUpdate[e]])
                    ELSE topic[e]]
    /\ text' = [e \in Entities |-> <<>>]
    /\ bulkUpdate' = [e \in Entities |-> FALSE]
    /\ excused' = {k \in excused : k[2] \notin TellsNow(k[1])}
                    \union Dropped \union Shuffled \union NamedTwice(sent)

\* finish(): a message to the topic of each entity in `sent`.  A consumer that
\* is not yet connected does not get it.
Send(sent) ==
    /\ topic' = [e \in Entities |->
                    IF e \in sent /\ connected
                    THEN Append(topic[e], [lines |-> Tail(text[e]), bulk |-> bulkUpdate[e]])
                    ELSE topic[e]]
    /\ text' = [e \in Entities |-> IF e \in sent THEN <<>> ELSE text[e]]
    /\ bulkUpdate' = [e \in Entities |-> e \notin sent /\ bulkUpdate[e]]
    /\ excused' = {k \in excused : k[2] \notin TellsNow(k[1])}
                    \union Dropped \union Shuffled \union NamedTwice(sent)

ServerFinish ==
    /\ Server!Close
    /\ Send(Entities)
    /\ UNCHANGED <<blocks, reloads, failures>>

\* The broker refuses one message: the handlers that come later in the
\* composite are not asked, and keep their text for the next block, as does the
\* one that threw.
ServerFinishFails(sent) ==
    /\ failures < MaxFailures
    /\ failures' = failures + 1
    /\ Server!Close
    /\ Send(sent)
    /\ UNCHANGED <<blocks, reloads>>

ServerStep ==
    /\ \/ /\ \/ \E e \in Entities : ServerStart(e)
             \/ ServerStartBulkUpdate
             \/ \E k \in Keys, row \in Content : ServerProcess(k, row)
          /\ UNCHANGED <<topic, failures, excused>>
       \/ ServerFinish
       \/ \E sent \in SUBSET Entities : sent # Entities /\ ServerFinishFails(sent)
    /\ UNCHANGED <<loadVars, lockVars, threadVars, beanVars, broken>>

-----------------------------------------------------------------------------
(***************************************************************************)
(* Start-up of the client.                                                 *)
(***************************************************************************)

\* createLayer(): the client knows the entities and listens to their topics.
Connect ==
    /\ ~connected
    /\ connected' = TRUE
    /\ UNCHANGED <<streamVars, handlerVars, topic, subscribed, loaded, loading, lockVars,
                   threadVars, beanVars, failures, excused, broken>>

\* new BeanCache(): getAllCsvLinesAndSubscribe() adds the callback, for which it
\* needs the lock, ...
Subscribe(e) ==
    /\ connected
    /\ at[Loader] = "idle"
    /\ e \notin subscribed
    /\ lockOwner = NoThread
    /\ subscribed' = subscribed \union {e}
    /\ loading' = e
    /\ at' = [at EXCEPT ![Loader] = "query"]
    /\ UNCHANGED <<streamVars, handlerVars, topic, connected, loaded, lockVars, message,
                   line, callbacks, clearing, beanVars, failures, excused, broken>>

\* QueryInboundHandler answers with the rows served at the time, whatever block
\* is open.
Answer(e) ==
    SetToSeq({[id |-> i, row |-> served[<<e, i>>]] : i \in {j \in Ids : served[<<e, j>>] # Absent}})

\* ... and then queries the server.
Query ==
    /\ at[Loader] = "query"
    /\ at' = [at EXCEPT ![Loader] = "rows"]
    /\ message' = [message EXCEPT ![Loader].lines = Answer(loading)]
    /\ UNCHANGED <<streamVars, handlerVars, topic, loadVars, lockVars, line, callbacks,
                   clearing, beanVars, failures, excused, broken>>

-----------------------------------------------------------------------------
(***************************************************************************)
(* Blocks of the client.                                                   *)
(***************************************************************************)
Loading == IF loading = NoEntity THEN {} ELSE {loading}

\* Mutant: a listener's block does not wait for the lock.
TakeUnlocked(e) ==
    /\ at[e] = "idle"
    /\ topic[e] # <<>>
    /\ lockOwner' = e
    /\ holds' = holds + 1
    /\ topic' = [topic EXCEPT ![e] = Tail(@)]
    /\ UNCHANGED <<streamVars, handlerVars, loadVars, line, callbacks, clearing, beanVars, excused>>

\* JmsBroadcastClient.onMessage: start() takes the composite's lock ...
Take(e) ==
    /\ at[e] = "idle"
    /\ topic[e] # <<>>
    /\ lockOwner \in {NoThread, e}
    /\ lockOwner' = e
    /\ holds' = holds + 1
    /\ topic' = [topic EXCEPT ![e] = Tail(@)]
    /\ UNCHANGED <<streamVars, handlerVars, loadVars, line, callbacks, clearing, beanVars, excused>>

\* ... and starts every callback.
Begin(e) ==
    /\ Take(e)
    /\ \A f \in subscribed : ~Uncleared(f)
    /\ message' = [message EXCEPT ![e] = Head(topic[e])]
    /\ at' = [at EXCEPT ![e] = "rows"]
    /\ broken' = broken \union Loading
    /\ UNCHANGED failures

\* A callback finds rows in its maps that no finish() has cleared, and throws.
\* The message is gone and the lock is kept.
Reject(e) ==
    /\ Take(e)
    /\ \E f \in subscribed : Uncleared(f)
    /\ broken' = broken \union Loading \union {e}
    /\ UNCHANGED <<message, at, failures>>

EntityOf(t) == IF t = Loader THEN loading ELSE t

\* Loader and listener fill the same unsynchronised map.
Racing(e) == loading = e /\ at[Loader] = "rows" /\ at[e] = "rows"

\* processUpdate and processRemove of BeanCsvLineCallback.
Process(t) ==
    LET e == EntityOf(t)
        l == AsRow(message[t].lines[line[t] + 1])
        put == [updated EXCEPT ![e][l.id] = l.row]
    IN  /\ at[t] = "rows"
        /\ line[t] < Len(message[t].lines)
        /\ line' = [line EXCEPT ![t] = @ + 1]
        /\ IF e \notin subscribed
           THEN UNCHANGED <<updated, deleted>>
           ELSE IF l.row = Absent
           THEN deleted' = [deleted EXCEPT ![e] = @ \union {l.id}] /\ UNCHANGED updated
           ELSE updated' \in {put} \union (IF Racing(e) THEN {updated} ELSE {}) /\ UNCHANGED deleted
        /\ UNCHANGED <<streamVars, handlerVars, topic, loadVars, lockVars, at, message,
                       callbacks, clearing, cache, failures, excused, broken>>

\* A row, or a line of names, cannot be converted to a bean: the listener drops its
\* message, the constructor gives up, and neither the lock nor the callback's maps are
\* tidied.
ProcessFails(t) ==
    /\ at[t] = "rows"
    /\ line[t] < Len(message[t].lines)
    /\ EntityOf(t) \in subscribed
    /\ IF message[t].lines[line[t] + 1] = Header
       THEN UNCHANGED failures
       ELSE failures < MaxFailures /\ failures' = failures + 1
    /\ at' = [at EXCEPT ![t] = "idle"]
    /\ message' = [message EXCEPT ![t] = NoMessage]
    /\ line' = [line EXCEPT ![t] = 0]
    /\ loading' = IF t = Loader THEN NoEntity ELSE loading
    /\ broken' = broken \union Loading \union {EntityOf(t)}
    /\ UNCHANGED <<streamVars, handlerVars, topic, connected, subscribed, loaded, lockVars,
                   callbacks, clearing, beanVars, excused>>

\* finish(): a listener's block finishes the callbacks of all entities, the
\* constructor its own.
FinishRows(t) ==
    /\ at[t] = "rows"
    /\ line[t] = Len(message[t].lines)
    /\ at' = [at EXCEPT ![t] = "finish"]
    /\ callbacks' = [callbacks EXCEPT ![t] = IF t = Loader THEN {loading} ELSE subscribed]
    /\ UNCHANGED <<streamVars, handlerVars, topic, loadVars, lockVars, message, line,
                   clearing, beanVars, failures, excused, broken>>

\* Mutant: the removals are merged before the updates.
MergeRemovalsFirst(t, f) ==
    /\ at[t] = "finish"
    /\ f \in callbacks[t]
    /\ cache' = [k \in CacheKeys |->
                    IF k[1] # f THEN cache[k]
                    ELSE IF updated[f][k[2]] # Unset THEN updated[f][k[2]]
                    ELSE IF k[2] \in deleted[f] THEN Absent
                    ELSE cache[k]]
    /\ at' = [at EXCEPT ![t] = "clear"]
    /\ clearing' = [clearing EXCEPT ![t] = f]
    /\ UNCHANGED <<streamVars, handlerVars, topic, loadVars, lockVars, message, line,
                   callbacks, updated, deleted, failures, excused, broken>>

\* BeanCsvLineCallback.finish(): the updates are merged into the cache, then the
\* removals ...
Merge(t, f) ==
    /\ at[t] = "finish"
    /\ f \in callbacks[t]
    /\ cache' = [k \in CacheKeys |->
                    IF k[1] # f THEN cache[k]
                    ELSE IF k[2] \in deleted[f] THEN Absent
                    ELSE IF updated[f][k[2]] # Unset THEN updated[f][k[2]]
                    ELSE cache[k]]
    /\ at' = [at EXCEPT ![t] = "clear"]
    /\ clearing' = [clearing EXCEPT ![t] = f]
    /\ UNCHANGED <<streamVars, handlerVars, topic, loadVars, lockVars, message, line,
                   callbacks, updated, deleted, failures, excused, broken>>

\* ... and the maps are cleared.
Clear(t) ==
    /\ at[t] = "clear"
    /\ updated' = [updated EXCEPT ![clearing[t]] = NoUpdates]
    /\ deleted' = [deleted EXCEPT ![clearing[t]] = {}]
    /\ at' = [at EXCEPT ![t] = "finish"]
    /\ callbacks' = [callbacks EXCEPT ![t] = @ \ {clearing[t]}]
    /\ clearing' = [clearing EXCEPT ![t] = NoEntity]
    /\ UNCHANGED <<streamVars, handlerVars, topic, loadVars, lockVars, message, line, cache,
                   failures, excused, broken>>

\* finish() throws: out of putAll, which another thread's put may meet, or out of an
\* observer.  The callbacks that come later are not finished, the maps are not cleared, and
\* a listener keeps the lock.
FinishFails(t) ==
    /\ failures < MaxFailures
    /\ failures' = failures + 1
    /\ \/ at[t] = "clear" /\ UNCHANGED cache
       \/ /\ at[t] = "finish"
          /\ \E f \in callbacks[t], some \in SUBSET CacheIds :
                cache' = [k \in CacheKeys |->
                            IF k[1] = f /\ k[2] \in some /\ updated[f][k[2]] # Unset
                            THEN updated[f][k[2]] ELSE cache[k]]
    /\ at' = [at EXCEPT ![t] = "idle"]
    /\ message' = [message EXCEPT ![t] = NoMessage]
    /\ line' = [line EXCEPT ![t] = 0]
    /\ callbacks' = [callbacks EXCEPT ![t] = {}]
    /\ clearing' = [clearing EXCEPT ![t] = NoEntity]
    /\ loading' = IF t = Loader THEN NoEntity ELSE loading
    /\ broken' = broken \union Loading \union callbacks[t]
    /\ UNCHANGED <<streamVars, handlerVars, topic, connected, subscribed, loaded, lockVars,
                   updated, deleted, excused>>

Idle(t) ==
    /\ at[t] = "finish"
    /\ callbacks[t] = {}
    /\ at' = [at EXCEPT ![t] = "idle"]
    /\ message' = [message EXCEPT ![t] = NoMessage]
    /\ line' = [line EXCEPT ![t] = 0]
    /\ loaded' = IF t = Loader THEN loaded \union {loading} ELSE loaded
    /\ loading' = IF t = Loader THEN NoEntity ELSE loading
    /\ UNCHANGED <<streamVars, handlerVars, topic, connected, subscribed, callbacks, clearing,
                   beanVars, failures, excused, broken>>

\* Mutant: the constructor releases a lock it has not taken.
ReturnUnlocks(t) ==
    /\ Idle(t)
    /\ holds' = holds - 1
    /\ lockOwner' = IF holds = 1 THEN NoThread ELSE lockOwner

\* Mutant: the last callback's finish() does not release the lock.
ReturnKeepsLock(t) == Idle(t) /\ UNCHANGED lockVars

\* The last callback is finished: a listener releases the lock, the constructor
\* returns.
Return(t) ==
    /\ Idle(t)
    /\ holds' = IF t = Loader THEN holds ELSE holds - 1
    /\ lockOwner' = IF t # Loader /\ holds = 1 THEN NoThread ELSE lockOwner

-----------------------------------------------------------------------------
Work(t) ==
    \/ Process(t)
    \/ FinishRows(t)
    \/ \E f \in Entities : Merge(t, f)
    \/ Clear(t)
    \/ Return(t)

Next ==
    \/ ServerStep
    \/ Connect
    \/ \E e \in Entities : Subscribe(e)
    \/ Query
    \/ \E e \in Entities : Begin(e)
    \/ \E e \in Entities : Reject(e)
    \/ \E t \in Threads : Work(t)
    \/ \E t \in Threads : ProcessFails(t) \/ FinishFails(t)

Spec == Init /\ [][Next]_vars

\* Threads that can run do run, and whoever waits for the lock gets it if it is
\* free again and again; a block that the server opened is closed.
Fairness ==
    /\ WF_vars(ServerFinish /\ UNCHANGED <<loadVars, lockVars, threadVars, beanVars, broken>>)
    /\ WF_vars(Query)
    /\ \A e \in Entities : SF_vars(Begin(e)) /\ WF_vars(Reject(e)) /\ SF_vars(Subscribe(e))
    /\ \A t \in Threads : WF_vars(Work(t))

FairSpec == Spec /\ Fairness

-----------------------------------------------------------------------------
(***************************************************************************)
(* What the client gets.                                                   *)
(***************************************************************************)

\* Nothing about the entity is on its way: no block is open or unsent at the
\* server, no message is in the topic or in work.
Quiet(e) == text[e] = <<>> /\ topic[e] = <<>> /\ at[e] = "idle"

\* The row that a bean is of; none has the id "id".
RowOf(k) == IF k[2] = NameId THEN Absent ELSE served[k]

\* Convergence: whenever nothing about a loaded entity is on its way, its beans
\* are the rows the server serves and no others, except rows that a message cannot
\* express, the bean "id" after a message with two lines of names, and entities loaded
\* during a block or hit by an exception.  The query's reply is not ordered with the
\* messages of the topic: what the reply misses must come after the callback was added,
\* and what comes before it must not matter.
Converged ==
    \A k \in CacheKeys :
        k[1] \in loaded /\ Quiet(k[1]) =>
            cache[k] = RowOf(k) \/ k \in excused \/ k[1] \in broken

\* The blocks of different listeners never overlap in a callback, even when a
\* BeanCache is being loaded or a lock was never released.
ListenersApart ==
    \A e \in Entities : at[e] # "idle" => lockOwner = e /\ holds > 0

\* Liveness: a client that is started comes to rest with all its BeanCaches
\* loaded and with the rows of the server.
Converges ==
    <>[](\/ ~connected
         \/ broken # {}
         \/ \A k \in CacheKeys : /\ k[1] \in loaded
                                /\ \/ cache[k] = RowOf(k)
                                   \/ k \in excused
                                   \/ text[k[1]] # <<>>)

\* JmsBroadcastClient's comment: "Once the initial load is successfully
\* completed, merges the broadcast updates in".  So the load never puts an older row in
\* place of one that a broadcast has brought.
MergedAfterLoad ==
    [][\A k \in Keys :
        LET before == updated[k[1]][k[2]]
            after == updated'[k[1]][k[2]]
        IN  Process(Loader) /\ before \in Nat /\ after \in Nat => before <= after]_vars

\* BlockCallback's comment on bulk updates: "Callback should respond by throwing
\* away any identifiers not mentioned between the start and finish".  So a loaded
\* cache has none of the rows it had when a bulk update that does not mention them is
\* merged.
BulkReplaces ==
    [][\A e \in loaded \ broken :
        Merge(e, e) /\ message[e].bulk =>
            \A i \in Ids \ Mentioned(message[e].lines) :
                cache[<<e, i>>] # Absent => cache'[<<e, i>>] = Absent]_vars

\* BeanCache's assertion: "Map of updated beans should have been cleared down
\* after the last update block".
ClearedDown == [][\A e \in Entities : ~Reject(e)]_vars
=============================================================================
