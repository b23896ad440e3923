------------------------------ MODULE Sockets ------------------------------
(***************************************************************************)
(* From the blocks of a server to the pages that watch an entity over a    *)
(* web socket.                                                             *)
(*                                                                         *)
(* The server's layer is a BlockStream (UpdateServer implements it).  A    *)
(* CsvLineCallbackWebSocket sends the lines of a block as parts of one     *)
(* message, which its finish() ends.  Every subscribed socket takes part   *)
(* in every block, and subscribers come and go only while no block is      *)
(* open.  The thread that accepts a socket sends it all rows when it is    *)
(* subscribed already, without the lock: its parts and those of a block    *)
(* end up in one message.                                                  *)
(*                                                                         *)
(* A call of a socket's callback throws when the session is closed.  An    *)
(* exception leaves the block without finish() and its lock held; only the *)
(* thread that owns the lock can open another block.                       *)
(*                                                                         *)
(* The content of a row is the number of the block that wrote it.          *)
(***************************************************************************)
EXTENDS Naturals, Sequences, FiniteSets

CONSTANTS
    Entities,
    Ids,
    Sockets,
    Requests,    \* the entities that the sockets ask for, each a choice
    NoEntity,
    Absent,      \* content of a row that does not exist
    Blank,       \* a row in a page whose fields are undefined, save the id
    Header,      \* a message's line of column names
    MaxBlocks,   \* bound: blocks of the server
    MaxRows,     \* bound: rows of a block
    Leaving      \* bound: sockets whose connection may be lost

Content == {Absent} \union 0..MaxBlocks
Keys == Entities \X Ids

ASSUME NamesAssumption ==
    /\ NoEntity \notin Entities
    /\ {Absent, Blank} \intersect Nat = {} /\ Blank # Absent
    /\ Header \notin [id : Ids, row : Content]

ASSUME RequestsAssumption == Requests \subseteq [Sockets -> Entities \union {NoEntity}]

ASSUME BoundsAssumption == MaxBlocks \in Nat /\ MaxRows \in Nat /\ Leaving \subseteq Sockets

VARIABLES
    ready, served, next, open, bulk,   \* the server's BlockStream
    blocks,       \* blocks opened so far
    rows,         \* rows of the open block so far
    call,         \* the call that the composite is passing on, or "none"
    line,         \* the row's line, if it is about a row, else Header
    untold,       \* subscribers that it has not been passed on to
    leaked,       \* an exception has left the lock held
    subscribed,   \* sockets whose callback is in the composite
    entity,       \* the entity a socket asks for, or NoEntity for an unknown one
    at,           \* how far onWebSocketConnect has come for a socket
    todo,         \* rows that it has found and has yet to send
    counted,      \* CsvLineCallbackWebSocket.rowCount is not 0
    gone,         \* sockets whose connection is lost
    closed,       \* sockets whose session is closed
    closing,      \* onWebSocketClose or onWebSocketError waits for the lock
    message,      \* the lines sent since the last end of a message
    page,         \* the rows of a page's store
    unclear,      \* pages whose rows are not followed any more: a block came during the
                  \* load, or a call did not reach them
    dropped,      \* history: rows of pages that a bulk update has dropped
    silent        \* history: a block was given up with a subscriber stuck

streamVars == <<ready, served, next, open, bulk>>
callVars == <<call, line, untold, leaked>>
threadVars == <<at, todo, subscribed>>
sessionVars == <<gone, closed, closing>>
pageVars == <<counted, message, page, unclear>>
historyVars == <<dropped, silent>>
vars == <<streamVars, blocks, rows, callVars, entity, threadVars, sessionVars, pageVars,
          historyVars>>

Server == INSTANCE BlockStream

Line == [id : Ids, row : Content] \union {Header}

TypeOK ==
    /\ served \in [Keys -> Content] /\ next \in [Keys -> Content]
    /\ open \in Entities \union {NoEntity} /\ bulk \in BOOLEAN
    /\ blocks \in 0..MaxBlocks /\ rows \in 0..MaxRows
    /\ call \in {"none", "start", "row", "finish"} /\ line \in Line
    /\ untold \subseteq subscribed /\ subscribed \subseteq Sockets
    /\ call = "none" => untold = {}
    /\ leaked \in BOOLEAN /\ silent \in BOOLEAN
    /\ entity \in [Sockets -> Entities \union {NoEntity}]
    /\ \A s \in subscribed : entity[s] # NoEntity
    /\ at \in [Sockets -> {"new", "started", "rows", "open", "failed"}]
    /\ todo \in [Sockets -> [Ids -> Content]]
    /\ counted \in [Sockets -> BOOLEAN]
    /\ closing \subseteq closed /\ closed \subseteq gone /\ gone \subseteq Sockets
    /\ message \in [Sockets -> Seq(Line)]
    /\ page \in [Sockets -> [Ids -> Content \union {Blank}]]
    /\ unclear \subseteq Sockets
    /\ dropped \subseteq Sockets \X Ids

Init ==
    /\ ready = Entities
    /\ served \in [Keys -> {Absent, 0}]
    /\ next = served
    /\ open = NoEntity /\ bulk = FALSE /\ blocks = 0 /\ rows = 0
    /\ call = "none" /\ line = Header /\ untold = {} /\ leaked = FALSE
    /\ subscribed = {}
    /\ entity \in Requests
    /\ at = [s \in Sockets |-> "new"]
    /\ todo = [s \in Sockets |-> [i \in Ids |-> Absent]]
    /\ counted = [s \in Sockets |-> FALSE]
    /\ gone = {} /\ closed = {} /\ closing = {}
    /\ message = [s \in Sockets |-> <<>>]
    /\ page = [s \in Sockets |-> [i \in Ids |-> Absent]]
    /\ unclear = {} /\ dropped = {} /\ silent = FALSE

-----------------------------------------------------------------------------
(***************************************************************************)
(* The message of a socket, and the page that reads it.                    *)
(***************************************************************************)

\* The parts of a message that two threads send at once can come in any order, a line
\* without its end, and the page makes of them what it can: the model does not follow it.
Lost(S) ==
    /\ message' = [s \in Sockets |-> IF s \in S THEN <<>> ELSE message[s]]
    /\ page' = [s \in Sockets |-> IF s \in S THEN [i \in Ids |-> Absent] ELSE page[s]]

Sent(s, l) ==
    message' = IF s \in gone \union unclear THEN message
               ELSE [message EXCEPT ![s] = Append(@, l)]

\* The first line of a message is taken for the column names, the others for rows;
\* a removal is a line with an id alone, whose other fields are undefined.
Cell(row) == IF row = Absent THEN Blank ELSE row

Reading(sent, store) ==
    [i \in Ids |->
        LET own == {n \in 2..Len(sent) : sent[n] # Header /\ sent[n].id = i}
        IN  IF own = {} THEN store[i]
            ELSE Cell(sent[CHOOSE n \in own : \A m \in own : m <= n].row)]

\* finish(): the last part of the message, and the page's onmessage.
Finished(s) ==
    /\ counted' = [counted EXCEPT ![s] = FALSE]
    /\ message' = [message EXCEPT ![s] = <<>>]
    /\ page' = [page EXCEPT ![s] = Reading(message[s], @)]
    /\ UNCHANGED unclear

-----------------------------------------------------------------------------
(***************************************************************************)
(* The sessions.                                                           *)
(***************************************************************************)

\* Nobody is between start() and finish(), where the lock is held.
LockFree == open = NoEntity /\ call = "none" /\ ~leaked

\* The page goes away, and with it what it has received of a message and its store.
Lose(s) ==
    /\ s \in Leaving \ gone
    /\ gone' = gone \union {s}
    /\ Lost({s})
    /\ UNCHANGED <<streamVars, blocks, rows, callVars, entity, threadVars, closed, closing,
                   counted, unclear, historyVars>>

\* The container notices, closes the session and calls onWebSocketClose.
Close(s) ==
    /\ s \in gone \ closed
    /\ closed' = closed \union {s} /\ closing' = closing \union {s}
    /\ UNCHANGED <<streamVars, blocks, rows, callVars, entity, threadVars, gone, pageVars,
                   historyVars>>

\* Mutant: onWebSocketClose does not wait for the lock.
UnsubscribeUnlocked(s) ==
    /\ s \in closing
    /\ subscribed' = subscribed \ {s} /\ closing' = closing \ {s}
    /\ UNCHANGED <<streamVars, blocks, rows, callVars, entity, at, todo, gone, closed,
                   pageVars, historyVars>>

\* unsubscribe(), for which a callback that was never set is no subscriber.
Unsubscribe(s) ==
    /\ s \in closing /\ LockFree
    /\ subscribed' = subscribed \ {s} /\ closing' = closing \ {s}
    /\ UNCHANGED <<streamVars, blocks, rows, callVars, entity, at, todo, gone, closed,
                   pageVars, historyVars>>

\* onWebSocketConnect: start() of the new callback.
Start(s) ==
    /\ at[s] = "new" /\ s \notin closed
    /\ entity[s] # NoEntity
    /\ at' = [at EXCEPT ![s] = "started"]
    /\ Sent(s, Header)
    /\ UNCHANGED <<streamVars, blocks, rows, callVars, entity, todo, subscribed, sessionVars,
                   counted, page, unclear, historyVars>>

\* An unknown entity, of which the page gets a message without rows, or an IOException,
\* which is logged: the socket stays as it is, and is never subscribed.
StartFails(s) ==
    /\ at[s] = "new" /\ s \notin closed
    /\ entity[s] = NoEntity \/ s \in gone
    /\ at' = [at EXCEPT ![s] = "failed"]
    /\ UNCHANGED <<streamVars, blocks, rows, callVars, entity, todo, subscribed, sessionVars,
                   pageVars, historyVars>>

\* addCallback(), in getAllCsvLinesAndSubscribe.
AddCallback(s) ==
    /\ at[s] = "started" /\ LockFree
    /\ subscribed' = subscribed \union {s}
    /\ at' = [at EXCEPT ![s] = "rows"]
    /\ todo' = [todo EXCEPT ![s] = [i \in Ids |-> served[<<entity[s], i>>]]]
    /\ UNCHANGED <<streamVars, blocks, rows, callVars, entity, sessionVars, pageVars,
                   historyVars>>

\* getAllCsvLines(): the rows that were there, one by one.  If a block has changed some
\* meanwhile, the page is unclear.
SendRow(s, i) ==
    /\ at[s] = "rows" /\ s \notin closed
    /\ todo[s][i] # Absent
    /\ todo' = [todo EXCEPT ![s][i] = Absent]
    /\ Sent(s, [id |-> i, row |-> todo[s][i]])
    /\ counted' = [counted EXCEPT ![s] = TRUE]
    /\ UNCHANGED <<streamVars, blocks, rows, callVars, entity, at, subscribed, sessionVars, page,
                   unclear, historyVars>>

AllSent(s) == \A i \in Ids : todo[s][i] = Absent

FinishLoad(s) ==
    /\ at[s] = "rows" /\ s \notin closed
    /\ AllSent(s)
    /\ at' = [at EXCEPT ![s] = "open"]
    /\ Finished(s)
    /\ UNCHANGED <<streamVars, blocks, rows, callVars, entity, todo, subscribed, sessionVars,
                   historyVars>>

\* getRemote() throws, getAllCsvLines makes a RuntimeException of an IOException, or a
\* block has changed the cache under the iterator.
ConnectThrows(s) ==
    \/ at[s] \in {"new", "rows"} /\ s \in closed
    \/ at[s] = "rows" /\ ~AllSent(s) /\ s \in gone \union unclear

\* Mutant: the exception is only logged.
ConnectFailsQuietly(s) ==
    /\ ConnectThrows(s)
    /\ at' = [at EXCEPT ![s] = "failed"]
    /\ UNCHANGED <<streamVars, blocks, rows, callVars, entity, todo, subscribed, sessionVars,
                   pageVars, historyVars>>

\* A RuntimeException leaves onWebSocketConnect: the container closes the session and
\* calls onWebSocketError.
ConnectFails(s) ==
    /\ ConnectThrows(s)
    /\ at' = [at EXCEPT ![s] = "failed"]
    /\ gone' = gone \union {s} /\ closed' = closed \union {s} /\ closing' = closing \union {s}
    /\ UNCHANGED <<streamVars, blocks, rows, callVars, entity, todo, subscribed, pageVars,
                   historyVars>>

-----------------------------------------------------------------------------
(***************************************************************************)
(* The blocks, which the composite passes on to its subscribers.           *)
(***************************************************************************)

\* Mutant: the composite waits for one more subscriber.
PassedOnForever(kind, l, subscribers) == call' = kind /\ line' = l /\ untold' = subscribers

PassedOn(kind, l, subscribers) ==
    /\ untold' = subscribers
    /\ call' = IF subscribers = {} THEN "none" ELSE kind
    /\ line' = IF subscribers = {} THEN Header ELSE l

\* start(), by a thread that has the lock or gets it.  It goes to all subscribers,
\* whatever their entities.  (What follows a bulk update that was given up, with its
\* half-filled cache, is left to UpdateServer.)
OpenBlock(e) ==
    /\ blocks < MaxBlocks
    /\ call = "none" /\ ~bulk
    /\ Server!Open(e)
    /\ blocks' = blocks + 1
    /\ rows' = 0
    /\ PassedOn("start", Header, subscribed)
    /\ unclear' = unclear \union {s \in Sockets : at[s] = "rows"}
    /\ Lost(unclear')
    /\ UNCHANGED <<leaked, entity, threadVars, sessionVars, counted, historyVars>>

\* startBulkUpdate(): a web socket logs an error and ignores it.
StartBulkUpdate ==
    /\ call = "none" /\ rows = 0
    /\ Server!StartBulkUpdate
    /\ UNCHANGED <<blocks, rows, callVars, entity, threadVars, sessionVars, pageVars,
                   historyVars>>

\* Mutant: rows go to all subscribers.
Everybody(e) == subscribed

Interested(e) == {s \in subscribed : entity[s] = e}

\* processUpdate() or processRemove().  A query of all rows yields each row that is there,
\* once.
Process(i, row) ==
    LET k == <<open, i>>
    IN  /\ call = "none" /\ open # NoEntity
        /\ rows < MaxRows
        /\ rows' = rows + 1
        /\ row \in {blocks, Absent}
        /\ bulk => row # Absent /\ next[k] = Absent
        /\ Server!Process(k, row)
        /\ PassedOn("row", [id |-> i, row |-> row], Interested(open))
        /\ UNCHANGED <<blocks, leaked, entity, threadVars, sessionVars, pageVars, historyVars>>

\* finish(): the caches are swapped first.
CloseBlock ==
    /\ call = "none"
    /\ Server!Close
    /\ PassedOn("finish", Header, subscribed)
    /\ LET left == {i \in Ids : served[<<open, i>>] # Absent /\ served'[<<open, i>>] = Absent}
       IN  dropped' = dropped \union (Interested(open) \X left)
    /\ UNCHANGED <<blocks, rows, leaked, entity, threadVars, sessionVars, pageVars, silent>>

\* Mutant: start() does not look at rowCount.
StartsAnyway(s) == FALSE

\* start() throws if the block before has had no end.
StartRefused(s) == counted[s]

TellStart(s) ==
    /\ call = "start" /\ s \in untold \ closed
    /\ ~StartRefused(s)
    /\ Sent(s, Header)
    /\ PassedOn(call, line, untold \ {s})
    /\ UNCHANGED <<streamVars, blocks, rows, leaked, entity, threadVars, sessionVars, counted,
                   page, unclear, historyVars>>

TellRow(s) ==
    /\ call = "row" /\ s \in untold \ closed
    /\ Sent(s, line)
    /\ counted' = [counted EXCEPT ![s] = TRUE]
    /\ dropped' = dropped \ {<<s, line.id>>}
    /\ PassedOn(call, line, untold \ {s})
    /\ UNCHANGED <<streamVars, blocks, rows, leaked, entity, threadVars, sessionVars, page,
                   unclear, silent>>

TellFinish(s) ==
    /\ call = "finish" /\ s \in untold \ closed
    /\ Finished(s)
    /\ PassedOn(call, line, untold \ {s})
    /\ UNCHANGED <<streamVars, blocks, rows, leaked, entity, threadVars, sessionVars,
                   historyVars>>

\* A subscriber throws: its session is closed, or the connection lost, or another thread
\* is sending.
CallThrows(s) == s \in gone \/ at[s] = "rows" \/ (call = "start" /\ StartRefused(s))

\* A subscriber that will throw from the next start().
Stuck(s) == s \in closed \/ (at[s] = "open" /\ counted[s])

\* The block is given up.  Nobody calls cancel(), and the lock stays held.
GiveUp(s) ==
    /\ s \in untold /\ CallThrows(s)
    /\ call' = "none" /\ untold' = {}
    /\ leaked' = TRUE
    /\ open' = NoEntity /\ line' = Header
    /\ counted' = IF call = "finish" THEN [counted EXCEPT ![s] = FALSE] ELSE counted
    /\ UNCHANGED <<ready, served, next, bulk, blocks, rows, entity, threadVars, sessionVars,
                   message, page, unclear, dropped>>
    /\ silent' = (silent \/ (\E other \in subscribed : Stuck(other))')

\* CsvTextBlockToCallback logs the CsvUpdateBlockException of a row of a trusted update,
\* drops the rest of the rows, and the block is finished.
Refuse(s) ==
    /\ call = "row" /\ ~bulk
    /\ s \in (untold \intersect gone) \ closed
    /\ Server!Close
    /\ PassedOn("finish", Header, subscribed)
    /\ unclear' = unclear \union untold
    /\ Lost(untold)
    /\ UNCHANGED <<blocks, rows, leaked, entity, threadVars, sessionVars, counted, historyVars>>

Tell(s) == TellStart(s) \/ TellRow(s) \/ TellFinish(s) \/ GiveUp(s) \/ Refuse(s)

\* A step of the thread in onWebSocketConnect that does not wait for the lock.
Load(s) == (\E i \in Ids : SendRow(s, i)) \/ FinishLoad(s) \/ ConnectFails(s)

Next ==
    \/ \E s \in Sockets :
        \/ Lose(s) \/ Close(s) \/ Unsubscribe(s)
        \/ Start(s) \/ StartFails(s) \/ AddCallback(s)
        \/ Load(s)
        \/ Tell(s)
    \/ \E e \in Entities : OpenBlock(e)
    \/ StartBulkUpdate
    \/ \E i \in Ids, row \in Content : Process(i, row)
    \/ CloseBlock

Spec == Init /\ [][Next]_vars

\* Threads that can run do run, and blocks come to an end.  Whoever waits for the lock gets
\* it in the end (ReentrantLock queues its waiters): with a bounded number of blocks weak
\* fairness says so.
Fairness ==
    /\ \A s \in Sockets :
        WF_vars(AddCallback(s)) /\ WF_vars(Unsubscribe(s)) /\ WF_vars(Load(s))
    /\ WF_vars(CloseBlock \/ \E s \in Sockets : Tell(s))

FairSpec == Spec /\ Fairness

-----------------------------------------------------------------------------
(***************************************************************************)
(* What a page shows.                                                      *)
(***************************************************************************)

\* Between blocks, a page that has loaded shows every row of its entity as the server
\* serves it, and nothing else: for a row that does not exist nothing, or a blank row,
\* or the row that a bulk update has dropped.  It holds although the load takes no lock,
\* unless a block came in between or a subscriber threw.
Shown ==
    \A s \in Sockets :
        at[s] = "open" /\ s \notin gone \union unclear /\ LockFree =>
            \A i \in Ids :
                LET row == served[<<entity[s], i>>]
                IN  \/ page[s][i] = row
                    \/ row = Absent /\ (page[s][i] = Blank \/ <<s, i>> \in dropped)

\* Once a block has been given up with a subscriber whose session is closed, or with rows
\* in an open page's message, no loaded page is told anything any more: the blocks that
\* the lock's owner goes on to open all end in start().
Silenced ==
    [][silent => \A s \in Sockets \ (gone' \union unclear') :
            at[s] = "open" => page'[s] = page[s]]_vars

\* A socket whose session is closed is unsubscribed at last, and not subscribed again,
\* even if it is closed before or while onWebSocketConnect subscribes it, unless a
\* subscriber threw from a block before.
Unsubscribed ==
    \A s \in Sockets :
        s \in closed ~> (leaked \/ (s \notin subscribed /\ at[s] \notin {"started", "rows"}))

\* A page that connects comes to the end of its load, however many blocks run meanwhile,
\* unless a subscriber threw from a block before.
LoadsEnd ==
    \A s \in Sockets :
        at[s] \in {"started", "rows"} ~> (leaked \/ at[s] \in {"open", "failed"})
=============================================================================
