# CommaCQ in TLA+

CommaCQ is a continuous query engine: a server reads entities from a database
as CSV rows, serves them, and pushes changes of rows to its clients over JMS
topics and web sockets. Clients keep the rows as beans. These modules model how
a change travels from the database to a client's beans, check that on small
instances with TLC, and prove with TLAPS what holds for instances of any size.

## The system

| Part | State | Operations | Interacts with |
|---|---|---|---|
| `UpdateManager` and other senders | none | `sendUpdate` | puts messages on the update queue |
| `UpdateInboundHandler` | none (one listener thread) | `onMessage` for text and map messages | runs one block per entity on the source layer |
| `DataSourceCollectionLayer` | the entities' sources | `pokeCsvEntry`, `reload`, `reloadAll` (JMX), `updateUntrusted` | reads the sources, drives the composite |
| `CsvLineCallbackComposite` | subscribers, a `ReentrantLock` | `start`, `startBulkUpdate`, `processUpdate`, `processRemove`, `finish`, `cancel`, `addCallback`, `removeCallback` | calls every subscriber; lock held from `start` to `finish` |
| `CacheLayer`, `CsvDataSourceCache`, `CsvCache` | the served and the local cache of each entity | initial load, block callbacks, queries | subscriber of the source layer, source of all outward parts |
| `JmsOutboundHandler` (one per entity) | text buffer, `bulkUpdate` flag | block callbacks | subscriber of the cache layer, sends to the entity's topic |
| `QueryInboundHandler` | none | `onMessage` | reads the cache layer, answers on a reply queue |
| `CsvWebSocketHandler` | a row count and a message per socket | connect, close, block callbacks | subscriber of the cache layer, sends to pages |
| pages: jquery.csv, dgrid | the rows of an entity; those in the document | a message, scrolling, sorting | read the web socket's messages |
| HTTP handlers | none | `handle` | read the cache layer |
| `CsvDataSourceBroadcastFactory`, `JmsBroadcastClient` | none (a listener thread per topic) | `createLayer`, `onMessage` | run blocks on the client's layer |
| `CsvDataSourceJmsQuery` | a reply queue | `getAllCsvLines`, ... | request and reply with `QueryInboundHandler` |
| `BeanCache` | the beans; updates and removals of the open block | constructor, block callbacks | subscriber of the client's layer |
| database and text file sources | none | `getAllCsvLines`, `getCsvLine(s)` | hand rows to a callback |
| `CsvToBeanStrategySpringConstructor`, `CsvListReaderUtil` | a pipe and the arguments of a constructor call, shared by all bean caches | `getBeans` | called by every `BeanCache` |
| `BeanCacheUniqueIndex`, `BeanCacheCollectionIndex` | keys and ids | constructor, `update`, `delete` | told by a `CacheObserver` of a `BeanCache` |
| `CompositeIdEncodingEscaped`, `...Simple`, `DataSourceAccess`, `RowFactoryCsv`, `CsvTextBlockToCallback` | none | write and read ids, queries and lines | every part that handles rows |
| union layer, republishing handler | see `PROJECT.json` | | |

What is hard: operator threads and the listener share the caches and read the
database long before they write a row; a block is several calls of which any
may throw, and nobody calls `cancel()`; bulk updates replace a cache that is
being read; the initial query of a client is not ordered with the topic it
listens to; all subscribers of a layer take part in every block, whatever its
entity, and an exception of one is everybody's; a load sends its rows without the
lock that blocks hold; ids travel as text through several encodings. `PROJECT.json` lists
each of these hazards at its line.

What must hold, part by part:

* update path: blocks do not overlap; what is served agrees with the database
  up to notifications on their way; rows never go back in time; a half-filled
  cache is never served in place of a full one; notified rows are served at last;
* outbound handlers and broadcast client: a client at rest has the server's rows;
* bean cache: a block's changes are merged whole, and a load and the blocks
  that overlap it do not disturb each other;
* JMS queries: a call that has its source to itself gets the answer to its own
  request, and every call returns;
* cache storage: a query sees every row that was there throughout it;
* web sockets: a page shows what is served; closed sockets are unsubscribed; loads
  end;
* bean conversion: a bean is made of its own row, and a thread that converts alone does
  not wait for ever, whatever failed before;
* indexes: a lookup does not find a bean under a key it does not have, and finds those
  that have a key, at any step of a block;
* pages: rows are in the document once, the viewport is never empty;
* pure parts (ids, result-set loop, text): equal to a reference definition, or
  exactly the inputs for which they are not.

## Modules

* `UpdateServer` - the update path of a server. `BlockStream` - what it
  promises: rows come in blocks, one at a time, and a bulk block takes effect
  when it closes. `UpdateServer!Stream` is the refinement mapping.
* `Broadcast` - the way from a server's blocks to a client's beans. Its server
  *is* a `BlockStream` (`Server == INSTANCE BlockStream`): the two large modules
  meet at the abstract one.
* `JmsQuery` - calls of `CsvDataSourceJmsQuery`, with timeouts and crashes of the
  server, and the iteration over a cache by which an answer is collected. It looks
  into what is one step in `Broadcast`: the query by which a `BeanCache` is loaded.
* `Sockets` - the way from a server's blocks to the pages of web sockets, the second
  module that is built on `BlockStream`.
* `CompositeIds`, `RowQueries` (extends it), `CsvText` - functions without state: ids
  of composite keys, queries by id, and the text of rows and messages. `TextInputs` -
  the inputs they are given, and what is true of each of them.
* `PageGrid` - the grid in which a page shows its rows.
* `BeanConversion` - rows become beans, by several threads. `BeanIndexes` - the
  indexes of a bean cache. Both look into what is one step in `Broadcast`.
* `MCUpdateServer`, `MCBroadcast`, `MCJmsQuery` - instances for TLC, with symmetry
  sets; the `.cfg` files give the constants. `MCClient` checks `Broadcast`,
  `BeanConversion` and `BeanIndexes` in one run, `MCSockets` checks `Sockets`,
  `PageGrid` and `TextInputs`: these parts do not act on each other, so a behaviour
  is one of one part, and the others stay as they begin.
* `UpdateServer_proofs`, `Broadcast_proofs`, `JmsQuery_proofs`, `Sockets_proofs`,
  `BeanConversion_proofs`, `BeanIndexes_proofs`, `RowQueries_proofs` (with `CompositeIds`),
  `TextInputs_proofs` (with `CsvText`, extends `RowQueries_proofs`) - the theorems about
  the modules they are named for.

Operators marked "Mutant" in the modules are no part of a specification. Each is
an action with a plausible mistake, kept to show that the property of the same
run can fail.

### UpdateServer

| Model | Code |
|---|---|
| `db`, `unsent`, `Write` | the database and the application that owes a notification (not in the repository) |
| `queue`, `SendUpdate`, `Receive`, `TakeUp` | update queue; `UpdateManager.sendUpdate`; `UpdateInboundHandler.onMessage`, one block after the other for each entity of a map message |
| `live`, `local`, `bulk` | `CsvDataSourceCache.csvCache`; `localCsvCache`; the entities for which the two are different objects |
| `loaded`, `LoadEntity` | progress of the `CacheLayer` constructor, whose `finish()` serves all entities at once |
| `lockOwner`, `holds`, `Start`, `Finish` | the composite's `ReentrantLock` with its hold count |
| `Poke`, `Reload` | JMX operations on operator threads; `reloadAll` is one reload after the other |
| `StartBulk`, `QueryAll`, `Lookup`, `Deliver` | the calls of a block, each a step of its own: what was read waits in `todo` until it is delivered |
| `Abort`, `FinishFails`, `Refuse` | an exception from `start`, a query or a subscriber; from `finish` after the swap; a `CsvUpdateBlockException` that `CsvTextBlockToCallback` logs and swallows |
| `Crash` | the server dies and starts again; the queue is the broker's |

A row is a version and a flag: the flag is the row's presence, the version says
from which write of the database a copy stems, so that the properties can tell
old from new. `lost`, `crashes` and `failures` are history. The query of a whole
table, and of a row, is one database statement and so one step. Messages that
cannot be parsed, or of which the map's value cannot be read, are left out.

### Broadcast

| Model | Code |
|---|---|
| `ServerStart`, `ServerProcess`, `ServerStartBulkUpdate`, `Send` | the callbacks of `JmsOutboundHandler` and its buffer |
| `ServerFinishFails` | a send that throws: the handlers that follow are not asked |
| `Connect`, `Subscribe`, `Query`, `Answer` | `createLayer()`; `getAllCsvLinesAndSubscribe()`: add the callback, query, use the answer |
| `AsRow`, `NameId` | the second line of column names in a message, which `CsvTextBlockToCallback` passes on as the update of a row with the id "id" |
| `Begin`, `Reject`, `Process`, `FinishRows`, `Merge`, `Clear`, `Return` | a message in `JmsBroadcastClient.onMessage`, and the load of a `BeanCache`, on their threads |
| `ProcessFails` | a row that cannot be converted to a bean; a line of names need not be one either |
| `FinishFails` | `finish()` throws, out of `putAll` after some of the rows, or out of an observer: maps and lock stay as they are |
| `Racing` | loader and listener put into one unsynchronised `HashMap`: the put may be lost |

The content of a row is the number of the block that wrote it. `excused` and
`broken` are history: the rows of which a message cannot tell what was done, among
them the bean "id" of a message with two lines of names, and the entities whose load
overlapped a block or an exception. `Converged` says of all other ids, "id" included,
that the cache has what the server serves: after a failed send a client has a bean for
"id" only where the message had the second line of names.

`Answer` reads the cache in one step; `JmsQuery` has the iteration that it stands for.

### JmsQuery

| Model | Code |
|---|---|
| `Request`, `Receive`, `TimeOut` | the send and the receive of `makeRequest()`; the exception "timed out" |
| `queries`, `replies` | the query queue; the temporary queue of one `CsvDataSourceJmsQuery`, for all its threads |
| `Accept`, `AnswerColumns` | the listener container takes and acknowledges a message; `QueryInboundHandler.onMessage` replies with a header |
| `VisitAll`, `VisitRow`, `Answer` | `CsvCache.visitAll` iterates over its `TreeMap` into the handler's writer; the reply |
| `UpdateLine`, `RemoveId`, `Swap` | what blocks do to the rows that are served, meanwhile; a bulk update puts another map in place of the one that is iterated over |
| `ConcurrentModification` | the iterator notices; the exception leaves `onMessage`, and nobody replies |
| `Crash`, `Restart` | the server dies with the message it is working on and starts again; the queues are the broker's |

A text is the set of its rows, an id and the number of the change that wrote it. An
iterator that is overtaken by a put of a new key or a removal throws or, as no lock
is taken, misses it: then the rows to come are the later ones of the changed map or
an end of them. `seen`, `disturbed` and `lost` are history. The client process does not
crash: its temporary queue and its calls would end with it.

### Sockets

| Model | Code |
|---|---|
| `Start`, `AddCallback`, `SendRow`, `FinishLoad` | `onWebSocketConnect`: the callback's `start()`; subscription under the lock; the initial rows, sent without it; `finish()` |
| `StartFails`, `ConnectFails` | a session that is closed by then; an entity that does not exist |
| `OpenBlock`, `StartBulkUpdate`, `Process`, `CloseBlock` | the calls of a block, which the composite passes on |
| `TellStart`, `TellRow`, `TellFinish` | the call of one socket's callback: sockets are told one after the other |
| `GiveUp`, `Refuse` | a callback that throws: the block ends without `finish()`, and its lock stays with its thread; the blocks of others wait, those of the owner throw in `start()` |
| `Lose`, `Close`, `Unsubscribe` | the connection breaks; the session is closed; `onWebSocketClose` removes the callback, for which it waits for the block's lock |
| `page` | the page's store, as `grid-view/websocket.ftl` fills it |

`message` is the text that a socket has been sent since its last `finish()`, whoever
sent it. `unclear` and `dropped` are history: pages whose message was written by a load
and a block, and rows that bulk updates dropped, which the socket is not told.

### CompositeIds, RowQueries, CsvText, TextInputs

Functions, named for the methods they translate, and one definition for each thing
they promise. A string is a sequence of characters or, in `CsvText`, of the tokens
that jquery.csv's regular expression finds. `CsvText` has the readers of both ends: a
page's jquery.csv (`ToArrays`, `SplitLines`, `ParseEntry`, `ToObjects`), and the super-csv
parser of a client (`CsvRows`, external), with which `TextBlock`
(`CsvTextBlockToCallback`) takes a message apart and `SplitCsv` a row. Where a method does
not do what its callers expect, the definition says for which inputs: `KeySurvives` (components that
end with an escape character or contain two in a row do not survive some
encodings), `RowFound` (a component that is empty is looked for as `'null'`, and an
apostrophe ends the literal that a component is put in: `Garbled`),
`RemovalArrives` and `RemovalReachesClient` (ids are sent unescaped when their row is
removed; for a client the removal of an empty id is a blank line, which its parser
skips), `RowReachesClient` (`Kept`: line ends become newlines, an empty value null,
although `CsvMarshaller` quotes the empty one to tell them apart). `IdDistinct`,
`EachIdReported`, `RowArrives` and `ReadersAgree` hold for all inputs or say when not.
A removal with a comma reaches a client as an update of another row with as many
columns as the id has parts; if these are fewer than the entity's, its conversion to a bean then
throws, which is `ProcessFails` of `Broadcast`.
The variable of `TextInputs` is one input, which stays, so that runs and theorems speak
of the functions in the same words.

### PageGrid

`grid` holds the rows in the document, the counts and heights of the two preload nodes,
the scroll position and the size of the store. `ProcessScroll` is `_processScroll`
whole: rows far away are removed on both sides, then rows are loaded next to the
preload nodes that come into view. `Debounced` is the call of it when the delay
after a scroll event is over; `Message`, `Sort` and `Resize` are what a page does in
one turn. Heights are pixels, and the constants have the values of the code and its
style sheets, except that a row is 25 pixels high, so that averages are integers.
The layout of a browser is external.

### BeanConversion

| Model | Code |
|---|---|
| `GetBean`, `EndNames`, `ReadNames`, `WriteValues`, `EndValues`, `ReadValues` | `splitCsv`, first of the column names, then of the row: the line and its end are two writes into the pipe, then it is read from there |
| `AddId`, `AddOther`, `AddFails` | `addGenericArgumentValue`, for each column, into arguments that all threads share |
| `RegisterBean`, `Construct`, `ConstructFails`, `RemoveBean`, `RemoveFails`, `ClearArguments` | `registerBeanDefinition`, `getBean`, `removeBeanDefinition`, `cav.clear()`: four calls, and an exception of one leaves out the rest |
| `NamesRefused`, `WriteRefused`, `ReadBroken`, `WaitForLine` | `PipedReader` and `PipedWriter`: writing is refused once the thread that has read last has ended, reading once the one that has written last has; a reader waits otherwise |
| `EndThread` | the thread that created the bean caches is done, or a listener container replaces its thread |
| `owner`, `held` | the lock of the client's layer, within which a listener converts, but the loading thread does not |

The converter says of itself "NOT THREADSAFE", and the configuration of a
client (`client-spring-test.xml`) gives one to all bean caches. `together` is history:
the threads of which another one took part in the conversion; what they get is left open
as far as the pipe and the arguments allow. Two lines may run together, and the end that
is then left over makes a blank line, which the parser skips: one of the two threads waits for
a line that does not come. And two threads may repair what one cannot: `cav.clear()` of the
one clears what the other has just mixed. So `StaysBroken` and `GoesOnAlone` speak of
threads that convert alone.

### BeanIndexes

| Model | Code |
|---|---|
| `Build`, `AddCacheObserver` | an application builds the indexes of `getAllMappings()` and observes the cache afterwards |
| `ProcessBean`, `ProcessRemoval`, `BulkUpdate` | the callbacks of a `BeanCache` within a block |
| `MergeBlock`, `NotifyCacheObservers`, `ClearBlock` | its `finish()` |
| `UpdateIndexes`, `DeleteFromIndexes` | `update` and `delete` of the indexes, for one bean |

A bean is its key. `untold` and `shared` are history: ids whose change came between
`Build` and `AddCacheObserver` or by the `clear()` of a bulk update, of which observers
are not told; and ids of which another bean has had the key, so that the unique
index has given it away. A bean without a key (`Null`) is put into the indexes like any
other, although the comment on `getKeyForValue` (`BeanCacheIndexDefinition.java:34-43`)
excludes such beans. The properties side with neither: they require that beans with a
key are found, and that nothing is found under a key it does not have.

## Runs

| Run | Shows | Bounds |
|---|---|---|
| `update_restart` | blocks do not overlap, `Coherent`, `ServedRowsMoveForward` | 2 entities, 1 row each, listener and 1 operator, 1 write per row, queue of 1, 1 restart |
| `update_failures` | the proof's invariant `IInv`, of which `Coherent` is a part, with 1 exception | 1 entity, 2 rows, listener and 1 operator |
| `update_blocks` | `ServesBlocks`, the refinement of `BlockStream`; `BlocksEnd` and `NotifiedIsServed` under fairness | 1 row, listener and 2 operators, 1 restart |
| `broadcast_fair` | `Converged`; `Converges` under fairness | 1 topic, 2 blocks of up to 3 lines, 1 bulk update, 1 failure |
| `client` | `Converged`, `ListenersApart`; `OwnRow`, `StaysBroken`, `GoesOnAlone`; `UniqueAgrees`, `CollectionAgrees` | 2 topics, 2 blocks of up to 2 lines, 1 failure; 3 rows of 2 entities by a listener and the loading thread, 1 thread that ends; 2 beans, 3 keys of which one is null, any number of blocks |
| `query_calls` | `Accounted`, `OwnReply`, `CallsReturn` under fairness | 2 threads, 2 calls, 2 ids, 2 changes, 1 timeout, 1 crash |
| `sockets` | `Shown`, `Silenced`, `Unsubscribed`, `LoadsEnd` under fairness; `EachRowOnce`, `Covered`, `FewRows`, `Settles` of a grid; `KeysSurvive`, `IdsDistinct`, `RowsFound`, `EachIdOnce`, `RowsArrive`, `RemovalsArrive`, `RowsReachClients`, `RemovalsReachClients`, `ReadsAgree` on inputs | 2 sockets of which 1 may lose its connection, 2 entities, 1 row each, 2 blocks of 1 line; stores of 0, 1, 60 and 400 rows, 4 moves of a user between messages; inputs see below |
| `update_lock` | violated: `finish()` "causes the lock to be released" | 1 failure |
| `broadcast_load` | violated: updates are merged "once the initial load is successfully completed" | 1 block |
| `broadcast_bulk` | violated: a bulk update drops rows that are not mentioned | 1 bulk block |
| `broadcast_start` | violated: the maps "should have been cleared down" at `start()` | 2 entities, 1 block |
| `query_late` | violated: `getAllCsvLines` "pushes all lines" | 1 thread, 2 calls, 1 timeout |

Two threads make every race on the lock, three the contention of the liveness
run. Two entities are needed for map messages, for a swap that serves another
entity's local cache, and for two topics; two rows for a refused row that takes
others with it and for a reload abandoned half-way. One write per row suffices to tell an old
copy from a new one, and two blocks a broadcast that overtakes another; more of
either repeats the same situations. A queue of one message holds the
listener's and one waiting message apart; the sender may send again as often as
there is room. `Broadcast` allows TLC to stop (`CHECK_DEADLOCK FALSE`): its
blocks are bounded and its threads end; so do `JmsQuery`, whose calls are
bounded, `Sockets`, and the parts of `MCClient` and `MCSockets` that stay as they
begin. Two calls are enough for a late reply and for the call that takes it, two rows
for an iterator that stands between them, two changes for a row that comes and goes
while it does.

Two sockets suffice for one whose exception the other one suffers from, and two
blocks for a page that is told nothing after the first. A grid's store is empty,
fits into the first page, or is some pages or many times `farOffRemoval` long; the
places to scroll to are near the top, in the middle, far away and the end, so that
rows are loaded and removed on both sides, together and alone. Three rows to convert, of
which the first fails and the second is too long for the pipe, let a
row come after each mistake and after a thread that ended; two beans and three keys let them
exchange keys, share one and move to a free one.

The inputs of the functions: keys of up to 2 components with up to 2 characters out
of an apostrophe, `null`, the separator and the escape character; requests of up to 3 ids
over 2, with every result; rows with an id of up to 2 tokens and two values of one or none;
texts of up to 5 tokens. The encodings look at no more than two
neighbouring characters at a time, and a parser goes by the token before and by
whether a quote is open.

The five violations are disagreements between code and comments, and
`PROJECT.json` quotes the lines. In `broadcast_load` the listener puts a newer row
into the map of a callback, and the load's older row is put over it. In
`broadcast_bulk` a cache is loaded, and the message of a bulk update that does not
mention its row is merged. In `broadcast_start` the block begins while the load's rows are
in the map: the broadcast is refused and lost. The passing runs say what does hold beside them: the
exception that leaks the lock makes nothing incoherent but the rows it
swallowed, a client that is not loaded during a block converges, and requests and
replies stay in balance, so that a source without timeouts and with one thread
never mixes them up. Some passing properties say what is lost instead, and would
fail if the code were mended: `Silenced` (after a block that was given up no page is told
anything), `StaysBroken` (a pipe whose reader ended is never written to again, and
arguments of two entities that have met are not cleared by any thread that converts
alone), and the exceptions in `KeysSurvive`, `RowsFound`, `RemovalsArrive` and
`RemovalsReachClients`.

## Fairness

A thread that can take a step takes it (weak fairness of its steps); a waiting
thread gets the lock if it is free again and again (strong fairness of `Start`,
`Begin`, `Subscribe`). The lock is a `ReentrantLock` without the fairness flag. It
still queues its waiters, and barging past the queue succeeds only in the moment
of a release, so that losing for ever is excluded in practice; it is an
assumption all the same. The application and the operators are not fair: they may
stop at any time. In `Broadcast` a block that the server opened is closed, which
is `BlockStream`'s `BlocksEnd`, checked for `UpdateServer` in `update_blocks`.
In `JmsQuery` the server handles its queue and is started again after a crash, and a
waiting call takes a reply that is there; a timeout is never relied on, since
`JmsTemplate` waits indefinitely unless told otherwise. `Sockets` has weak fairness of each
thread that accepts a socket, of the thread that closes one, and of the thread of a
block; as its blocks are bounded, weak fairness of `AddCallback` and `Unsubscribe`
is enough for the queue of the lock. In `PageGrid` delays end (`DelaysEnd`,
written without `ENABLED`, as TLC's evaluation of it is slow here). `GoesOnAlone`
is a state predicate and needs no fairness.
No liveness run of `UpdateServer` allows exceptions: after one, the leaked lock
refutes every liveness property.

## Proofs

Eight modules prove, for all values of the constants, the following theorems. Where a
property is the subject of a run, the run came first.

| Module | Theorem | States |
|---|---|---|
| `UpdateServer_proofs` | `TypeCorrect`, `BlocksApart`, `Coherence` | `[]TypeOK`, `[]BlocksDoNotOverlap`, `[]Coherent` |
| | `InvariantHolds` | `[]IInv`, on which the three rest |
| | `RowsMoveForward` | `ServedRowsMoveForward` |
| | `ImplementsStream` | `ServesBlocks`: the server implements `BlockStream`, unless someone throws |
| `Broadcast_proofs` | `Invariant` | `[]BroadcastInv`, on which the next three rest |
| | `TypeCorrect`, `ListenersStayApart`, `BeansConverge` | `[]TypeOK`, `[]ListenersApart`, `[]Converged` |
| `JmsQuery_proofs` | `TypeCorrect`, `RequestsAccounted`, `AnswersOwnRequest` | `[]TypeOK`, `[]Accounted`, `OwnReply` |
| `Sockets_proofs` | `TypeCorrect`, `PagesShow`, `SilencedForGood` | `[]TypeOK`, `[]Shown`, `Silenced` |
| `BeanConversion_proofs` | `BeansOfOwnRows`, `NeverRepairedAlone` | `OwnRow`, `StaysBroken` |
| `BeanIndexes_proofs` | `UniqueIndexAgrees`, `CollectionIndexAgrees` | `[]UniqueAgrees`, `[]CollectionAgrees` |
| `RowQueries_proofs` | `EveryIdIsReported` | `EachIdReported`, for any ids |
| `TextInputs_proofs` | `KeysAlwaysSurvive`, `IdsAlwaysDistinct`, `RowsAlwaysFound`, `EachIdAlwaysOnce` | `[]KeysSurvive`, `[]IdsDistinct`, `[]RowsFound`, `[]EachIdOnce` |
| | `RowsAlwaysArrive`, `RemovalsAlwaysArrive`, `ReadsAlwaysAgree` | `[]RowsArrive`, `[]RemovalsArrive`, `[]ReadsAgree` (pages) |
| | `EveryRowArrives`, `OnlyPlainRemovalsArrive`, `EveryTextIsReadAlike` | `RowArrives`, `RemovalArrives`, `ReadersAgree`, for any columns, values, ids and texts |

The assumptions are those that the modules state of their constants: names are distinct
from what they are not (a header from a row, `Absent` from a block's number), bounds are
natural numbers. Two ask for more: `Broadcast` for finitely many ids, as the reply to
the initial query lists them all, and `JmsQuery` for finitely many callers, as their
requests are counted. Only `ImplementsStream` has a hypothesis of its own:
`MaxFailures = 0`.

### UpdateServer

`BlocksDoNotOverlap` is inductive with `TypeOK`; `StepTypes` has a step per action.

`Coherent` is not inductive: a reload that finishes is coherent only if the local cache
was, and a delivery only if the row in hand is current. `IInv` adds, from the outside
in: `QueueIsCurrent` (a message carries the newest row, or a later notification
follows), `InHandIsCurrent` (so does a thread), `LoadIsCurrent` (so does the initial
load), `ReloadIsComplete` (after a reload's query each row is in the local cache, in
hand or pending), `LocalIsLive` (the local cache is the served one, except for a reload
that is running, or one that failed and whose rows are `lost`) and `ThreadsInOrder`.
Each action has a lemma `...KeepsInv` with a step per conjunct. `Alone` is the fact they
turn on: by `BlocksDoNotOverlap` no other thread is inside a block, so what this thread
has read cannot be overtaken.

`ServedRowsMoveForward` compares two steps, a read of the database and the delivery of
what was read. `VersionsInv` links them: what a thread has read itself, under the lock,
is not older than what is served (`ReadsAreNew`), nor is what a reload has put into the
new cache (`ReloadIsNew`); no copy is newer than the database (`VersionsBounded`), and a
message has rows or ids of an entity, not both (`NotesPure`), so that a look-up is never
mixed with rows from the queue. The proof attempt corrected the property: a later
`finish()` swaps in the new cache that an exception left half-filled, and rows go back
to what it has. The runs of that property allow no exceptions.

For `ImplementsStream` the refinement mapping is `Stream`: a row that is served, the
rows of the new cache once the block has emptied it, and the entity of the block that is
open. Each action has a lemma that says which action of `BlockStream` it is, or that it
is a stutter. They need `IInv`, `VersionsInv` and `Undisturbed`: the lock is held once,
by a thread inside a block, and a cache is being replaced only by the block that is
open. An exception breaks all of this for good (the block is never finished and the lock
never released, see `update_lock`), so the hypothesis `MaxFailures = 0` is where the
code stops keeping the promise.

### Broadcast

`Converged` speaks of a client at rest, and nothing of what it says holds on the way.
The invariant follows each row from the block to the bean. `Current` is what the row
will be when all has arrived, and

* `TextInOrder`: the last line of the handler's buffer about a row tells `Current`;
* `TopicInOrder`: if the buffer does not mention the row, the last message of the topic
  that does `Tells` it, in the order in which a client applies it, removals last;
* `MapsInOrder`: the maps of a callback hold what the lines that are done say
  (`Recorded`);
* `CacheInOrder`: once nothing about the row is in the buffer or the topic, the message
  that is being worked on tells it or, if it has been merged or does not mention it, the
  cache has it.

`CacheIds` has the id "id" besides those of rows; `NameInOrder` says that no map and
no cache has it before a message with two lines of names was sent (`excused`).
`ServerInOrder` (the first two) does not depend on the client, and `ClientInOrder` uses
it only where a message is taken or the initial query answered, so each has its own
lemma per action. The maps of an entity are filled by one thread, its `Worker`: the
loader until the load returns, the listener after. That is so only for an entity that is
not in `broken`: the loader does not hold the lock, and a row delivered by another
listener's block would be a second writer; `LoadsInOrder` says that such a block makes
the entity `broken`. `ListenersApart` holds with `LockInOrder` alone.

### JmsQuery

`Accounted` is inductive with the types: each action moves a request, an answer or a
debt from one place to the next. `OwnReply` needs to know where the request of an
undisturbed call is (`OnItsOwn`: the only one under way, wherever it is) and that what
the handler has written for it was served during the call (`Collected`, `Fits`);
`VisitsInOrder` says of the iterator that, unless it was raced, it has written the rows
before its position and stands before the others.

### Sockets

`Shown` speaks of pages between blocks. `Follows` says what their messages amount to
meanwhile: a page that connects has been sent the rows that the load has visited, and
those it has yet to visit are as the load has read them (`Connecting`); and a page that
has loaded, with the message it is being sent, has each row that was told as the block
leaves it and the others as they are served (`Following`). Whether it has been told is
known per socket, since they are told one after the other (`InMessage`, `Awaits`).
Nothing of this is claimed after an exception has leaked the lock. Then `NobodyTold`
takes over: if the lock's owner stays with a subscriber that throws in `start()`, each
of its later blocks ends there, at the latest with that subscriber, which needs the lock
to be unsubscribed and a `finish()` to recover; nobody is told a row, and `Silenced`
follows.

### BeanConversion and BeanIndexes

Whatever the threads do, there are no more lines in the pipe than threads about to read
one (`PipeKept`); a failed conversion leaves its arguments behind and, where its write was
refused, the beginning of a line, but no whole line. So a thread that finds nobody else
converting finds the pipe empty, and reads either its own line or one with something before it,
whose names are none (`ByItself`). `StaysBroken` needs no more than the types: alone, a
thread gets to `cav.clear()` only by a bean whose arguments fit, and nobody but a
thread that has ended was the pipe's last reader.

`IndexesFollow` knows the entries of each id at each point of a block (`Followed`,
`KeyOf`): an id that a block both updates and deletes is put into the indexes and taken
out again, and in between an index has a bean that the cache does not. The lemmas about
`UniqueUpdate` and its relatives say what one call leaves of every other id's entries.

### CompositeIds, RowQueries and CsvText

The functions are folds over sequences (`FoldLeft`, `FlattenSeq`, `FoldLeftDomain`), and
what a fold computes for every input is an induction over data. The library's induction
theorems take an operator, which no prover here instantiates. `RowQueries_proofs` therefore
starts from sets: `Induction`, on numbers, says that a set with 0 and the successor of each
of its members has all of them, from the well-foundedness of `<`; `FoldExists` and
`FoldRun` turn the recursive function in `Folds` into `Run`, the loop of a transition
function over a sequence, which is one more step for one more element (`RunSteps`); and
`AppendInduction` and `FrontInduction` prove a set of sequences to be all of them. A lemma
`...IsRun` brings each function of the code into that form. It is then reasoned about as an
action is: by what one more character or token changes.

* Ids: the escaping of components is undone from the front, a character at a time, and no
  unescaped separator can be mistaken for an escaped one of another key's id
  (`EscapedSame`, `EscapedIdsDiffer`); an id that is not escaped has no escaped twin.
  `EscapedSolid` says that an escaped component is one part of an id, and `PartsRead` that
  the parts of an id are the components, save where one before the last ends with an
  escape: there two parts become one, so that there are too few of them (`IdReadBack`).
  `RowsFound` follows from that: the id is read as the key, as too few components, or as
  components that no row with this id has; and a component without an apostrophe denotes
  itself (`QuotedSteps`, `LiteralSteps`).
* Requests: `TimesLeft` counts what `RemoveFirst` leaves of each id.
* Texts: `Alike` relates the readers after each token: the same state and the same value
  in hand, and lines that parse to the entries (`ReadingsAlike`). For a row it is enough to
  know what the reader has after each of its values (`ValuesRead`), and a value that is
  escaped is read back token by token between its quotes (`DoubledRead`). For a removal,
  `Knows` says what the reader still can make of a line of one value, which is too short
  where anything special was dropped from it, and `Divides` that a line in which a comma was
  has several values, of which the first has no comma, so that it is not the id.

Here too a proof attempt corrected a property. `RemovalArrives` said that an id with a
comma and without quotes arrives as another row. Ids of two tokens do; an id with a return
between two runs is refused by a page's reader, and the property now says so.

The assumptions are those of the modules: runs of ordinary characters and the null value
are distinct from the special characters, separator and escape are no letters, and what
is written for null is. Ids and values of a row have maximal runs (`IsText`), as the
reader's regular expression makes them. The bounds of `TextInputs` bound its runs only:
the last three theorems, `EveryIdIsReported` and the lemmas on ids have none.

### Only model-checked

* Liveness: `Converges`, `CallsReturn`, `Unsubscribed`, `LoadsEnd`, `Settles`,
  `BlocksEnd`, `NotifiedIsServed`. The prover does not do fairness. `GoesOnAlone` is
  a state predicate, but is about which actions are enabled.
* `RowsReachClients` and `RemovalsReachClients`: super-csv's reader is a fold like the
  others, of which the theorems are not written yet.
* `PageGrid`: `ProcessScroll` loads pages until the viewport is full, which is a
  `RECURSIVE` operator, so that `EachRowOnce`, `Covered` and `FewRows` stay with TLC.

## Not modelled

* Spring and Jetty wiring, JMX export, logging: no logic of their own.
* The stateless HTTP handlers and the line collectors: they render a layer's
  content for one request.
* Text file sources: to the update path they are a source like the database. A
  file that vanishes between listing and reading is listed as a hazard.
* The union layer and the republishing handler. The latter is constructed with a null
  layer and can handle no message today.
* Groups: `startBulkUpdateForGroup` is unsupported everywhere, and nothing fills a
  cache's map of groups. `getCsvLines` and its `visitIds`, which no production code calls.
  `cancel()`, which nothing calls.
* Column names and their changes; value formatting; SQL other than the where clause of
  a composite id.
* Of a converter that two threads use at once, the interleaving within one read of the
  parser, whose list of columns they share, and within the text of one long row.
* `JaxbAttributeWriterStrategy`, beyond the pipe that it shares the code of.
* Of the vendored web assets all that lays out and styles a page, and what the pages do
  not call: jquery.csv's writers, dgrid's keyboard, selection, touch, tree and column
  extensions, put-selector, xstyle and their loaders.

Met on the way and left to a reader, as no run covers them: `removeCacheObserver` of
`BeanCache` adds the observer (`BeanCache.java:52`); `getCsvLines` of an entity with a
composite id asks for a column `id` that its subquery need not have
(`DataSourceAccess.java:144`); `CsvCache.visitIds` passes over ids that it does not have.

## Plan

1. Done: `UpdateServer`, `BlockStream` and the proofs; `Broadcast`; `JmsQuery` with the
   iteration over a cache; `Sockets`; ids, queries, texts; `PageGrid`; `BeanConversion`
   and `BeanIndexes`.
2. Theorems done: all safety properties of `UpdateServer`, `Broadcast`, `JmsQuery`, `Sockets`,
   `BeanConversion` (but `GoesOnAlone`), `BeanIndexes` and `TextInputs` (but those about
   clients). Left: these, by the loop of super-csv's reader, and `EachRowOnce`
   of `PageGrid`, with `ProcessScroll` as a recursive function over the pages it loads.
3. `Broadcast` with restarts of the server and with the republishing handler's
   second server; the column names of a chained server, which its source loses.
4. The union layer and the text file sources.
