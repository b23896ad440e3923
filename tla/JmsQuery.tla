------------------------------ MODULE JmsQuery ------------------------------
(***************************************************************************)
(* Queries over JMS.  A CsvDataSourceJmsQuery has one reply queue for all  *)
(* its requests and all threads that use it.  A call puts a request on the *)
(* query queue and takes the next reply, whichever request it answers, or  *)
(* gives up when its timeout expires.  QueryInboundHandler, one thread of  *)
(* the server, answers a request for the column names with a header, and   *)
(* every other one with all rows, whatever ids it asks for.                *)
(*                                                                         *)
(* To collect the rows it iterates over the TreeMap of a CsvCache while    *)
(* blocks change it: visitAll does not take the monitor of updateLine and  *)
(* removeId.  The iterator throws when it notices that a row was added or  *)
(* removed; without a lock it may not notice, and then goes on over the    *)
(* tree as it finds it.                                                    *)
(*                                                                         *)
(* A row's content is the number of the change that wrote it.  A text is   *)
(* the set of its rows: what a call passes to its callback.  The header    *)
(* alone passes nothing.                                                   *)
(***************************************************************************)
EXTENDS Naturals, Sequences, FiniteSets

CONSTANTS
    Ids,           \* numbers, as the TreeMap keeps its ids in order
    Callers,       \* threads that use one CsvDataSourceJmsQuery
    Absent,        \* content of a row that does not exist
    MaxRequests,   \* bound: calls
    MaxChanges,    \* bound: changes of the rows served
    MaxTimeouts,   \* bound: timeouts
    MaxCrashes     \* bound: restarts of the server

ASSUME IdsAssumption == Ids \subseteq Nat /\ Absent \notin Nat

ASSUME CallersAssumption == IsFiniteSet(Callers)

ASSUME BoundsAssumption ==
    /\ MaxRequests \in Nat /\ MaxChanges \in Nat /\ MaxTimeouts \in Nat /\ MaxCrashes \in Nat

\* getAllCsvLines, and with it getCsvLine, getCsvLines and getCsvLinesForGroup, whose
\* requests are answered in the same way; getColumnNamesCsv.
Kinds == {"all", "columns"}

Content == {Absent} \union 0..MaxChanges
Tables == [Ids -> Content]
Text == SUBSET (Ids \X (0..MaxChanges))
Reply == [rows : Text, raced : BOOLEAN]

IdsOf(table) == {i \in Ids : table[i] # Absent}

\* The iterator stands before the rows of `next`.  `entries` are the rows of the
\* map it iterates over; a removed one keeps its content as long as the iterator
\* may refer to it.
Iterator == [next : SUBSET Ids, entries : Tables, current : BOOLEAN, raced : BOOLEAN]

VARIABLES
    served,     \* the rows the server serves
    up,         \* the server is running
    queries,    \* the query queue
    serving,    \* the requests the server is working on, at most one
    iterators,  \* the iterator of visitAll, at most one
    writer,     \* the rows in the handler's CsvLineCallbackStringWriter
    replies,    \* the reply queue
    call,       \* the calls the threads wait in, at most one each
    seen,       \* history: what has been served since a thread's call began
    disturbed,  \* history: calls that did not have the source to themselves
    requests, changes, timeouts, crashes,   \* history
    lost        \* history: requests that died with the server or by an exception

cacheVars == <<served, changes>>
handlerVars == <<serving, iterators, writer>>
callVars == <<call, disturbed, requests, timeouts>>
vars == <<cacheVars, up, crashes, queries, handlerVars, replies, callVars, seen, lost>>

TypeOK ==
    /\ served \in Tables /\ up \in BOOLEAN
    /\ queries \in Seq(Kinds) /\ serving \in Seq(Kinds) /\ Len(serving) <= 1
    /\ iterators \in Seq(Iterator) /\ Len(iterators) <= Len(serving)
    /\ writer \in Text
    /\ replies \in Seq(Reply)
    /\ call \in [Callers -> Seq(Kinds)] /\ \A c \in Callers : Len(call[c]) <= 1
    /\ seen \in [Callers -> SUBSET Tables]
    /\ disturbed \in SUBSET Callers
    /\ requests \in Nat /\ changes \in 0..MaxChanges
    /\ timeouts \in Nat /\ crashes \in Nat /\ lost \in Nat

Init ==
    /\ served \in [Ids -> {Absent, 0}]
    /\ up = TRUE
    /\ queries = <<>> /\ serving = <<>> /\ iterators = <<>> /\ writer = {} /\ replies = <<>>
    /\ call = [c \in Callers |-> <<>>]
    /\ seen = [c \in Callers |-> {}]
    /\ disturbed = {}
    /\ requests = 0 /\ changes = 0 /\ timeouts = 0 /\ crashes = 0 /\ lost = 0

-----------------------------------------------------------------------------
(***************************************************************************)
(* The blocks that change a CsvCache.                                      *)
(***************************************************************************)
Waiting == {c \in Callers : call[c] # <<>>}

\* The server serves `table`.
Serve(table) ==
    /\ up
    /\ changes < MaxChanges
    /\ changes' = changes + 1
    /\ served' = table
    /\ seen' = [c \in Callers |-> IF c \in Waiting THEN seen[c] \union {table} ELSE seen[c]]
    /\ UNCHANGED <<up, crashes, queries, serving, writer, replies, callVars, lost>>

\* A row is put into the map.  Only a new key is a structural modification.
UpdateLine(i) ==
    /\ Serve([served EXCEPT ![i] = changes + 1])
    /\ iterators' = [n \in DOMAIN iterators |->
          IF iterators[n].current
          THEN [iterators[n] EXCEPT !.entries[i] = changes + 1,
                                    !.raced = @ \/ served[i] = Absent]
          ELSE iterators[n]]

RemoveId(i) ==
    /\ served[i] # Absent
    /\ Serve([served EXCEPT ![i] = Absent])
    /\ iterators' = [n \in DOMAIN iterators |->
          IF iterators[n].current THEN [iterators[n] EXCEPT !.raced = TRUE] ELSE iterators[n]]

\* A bulk update is finished: another CsvCache is served, with lines of its own.
Swap(ids) ==
    /\ Serve([i \in Ids |-> IF i \in ids THEN changes + 1 ELSE Absent])
    /\ iterators' = [n \in DOMAIN iterators |-> [iterators[n] EXCEPT !.current = FALSE]]

-----------------------------------------------------------------------------
(***************************************************************************)
(* CsvDataSourceJmsQuery                                                   *)
(***************************************************************************)

\* Requests that no call has taken a reply for.
Unanswered == Len(queries) + Len(serving) + Len(replies)

\* Another thread waits, or a call has timed out whose request did not die.
Disturbing == Waiting # {} \/ timeouts > lost

\* makeRequest() sends its request, ...
Request(c, kind) ==
    /\ call[c] = <<>>
    /\ requests < MaxRequests
    /\ requests' = requests + 1
    /\ queries' = Append(queries, kind)
    /\ call' = [call EXCEPT ![c] = <<kind>>]
    /\ seen' = [seen EXCEPT ![c] = {served}]
    /\ disturbed' = (disturbed \ {c}) \union Waiting \union (IF Disturbing THEN {c} ELSE {})
    /\ UNCHANGED <<cacheVars, up, crashes, handlerVars, replies, timeouts, lost>>

\* The history of a call ends with it.
Returned(c) ==
    /\ seen' = [seen EXCEPT ![c] = {}]
    /\ disturbed' = disturbed \ {c}

\* ... receives a reply and passes its rows to the callback, ...
Receive(c) ==
    /\ call[c] # <<>>
    /\ replies # <<>>
    /\ replies' = Tail(replies)
    /\ call' = [call EXCEPT ![c] = <<>>]
    /\ Returned(c)
    /\ UNCHANGED <<cacheVars, up, crashes, queries, handlerVars, requests, timeouts, lost>>

\* ... or gives up: "No data returned from server (timed out)".
TimeOut(c) ==
    /\ call[c] # <<>>
    /\ timeouts < MaxTimeouts
    /\ timeouts' = timeouts + 1
    /\ call' = [call EXCEPT ![c] = <<>>]
    /\ Returned(c)
    /\ UNCHANGED <<cacheVars, up, crashes, queries, handlerVars, replies, requests, lost>>

-----------------------------------------------------------------------------
(***************************************************************************)
(* QueryInboundHandler, and CsvCache.visitAll                              *)
(***************************************************************************)

\* Mutant: two messages may be on the handler at a time.
AcceptMore ==
    /\ up
    /\ Len(serving) <= 1
    /\ queries # <<>>
    /\ serving' = Append(serving, Head(queries))
    /\ queries' = Tail(queries)
    /\ UNCHANGED <<cacheVars, up, crashes, iterators, writer, replies, callVars, seen, lost>>

\* onMessage takes a request, which its listener container has acknowledged before.
Accept ==
    /\ up
    /\ serving = <<>>
    /\ queries # <<>>
    /\ serving' = <<Head(queries)>>
    /\ queries' = Tail(queries)
    /\ UNCHANGED <<cacheVars, up, crashes, iterators, writer, replies, callVars, seen, lost>>

\* The column names are a reply without rows.
AnswerColumns ==
    /\ up
    /\ serving = <<"columns">>
    /\ replies' = Append(replies, [rows |-> {}, raced |-> FALSE])
    /\ serving' = <<>>
    /\ UNCHANGED <<cacheVars, up, crashes, queries, iterators, writer, callVars, seen, lost>>

Opened(table) == [next |-> IdsOf(table), entries |-> table, current |-> TRUE, raced |-> FALSE]

\* Mutant: the writer of an answer that was given up is used again as it is.
ReuseWriter ==
    /\ up
    /\ serving # <<>> /\ serving # <<"columns">>
    /\ iterators = <<>>
    /\ iterators' = <<Opened(served)>>
    /\ UNCHANGED <<cacheVars, up, crashes, queries, serving, writer, replies, callVars, seen, lost>>

\* Any other request: the thread's writer is cleared and the iteration begins.
VisitAll ==
    /\ up
    /\ serving # <<>> /\ serving # <<"columns">>
    /\ iterators = <<>>
    /\ iterators' = <<Opened(served)>>
    /\ writer' = {}
    /\ UNCHANGED <<cacheVars, up, crashes, queries, serving, replies, callVars, seen, lost>>

\* The rows that an iterator can find once it stands behind row i: those of the
\* map, or, if rows came and went meanwhile, what the race leaves of them.
Behind(it, i) ==
    LET later == {j \in Ids : j > i /\ it.entries[j] # Absent}
    IN  IF it.raced THEN {{j \in later : j >= first} : first \in later} \union {{}}
        ELSE {later}

\* The next row, with the content it has now.
VisitRow(i) ==
    /\ up
    /\ iterators # <<>>
    /\ LET it == iterators[1]
       IN  /\ i \in it.next
           /\ \A j \in it.next : i <= j
           /\ \E next \in Behind(it, i) : iterators' = <<[it EXCEPT !.next = next]>>
           /\ writer' = writer \union {<<i, it.entries[i]>>}
    /\ UNCHANGED <<cacheVars, up, crashes, queries, serving, replies, callVars, seen, lost>>

\* The iterator notices that rows were added or removed: the exception leaves
\* onMessage, and nobody answers.
ConcurrentModification ==
    /\ up
    /\ iterators # <<>>
    /\ iterators[1].raced /\ iterators[1].next # {}
    /\ iterators' = <<>>
    /\ serving' = <<>>
    /\ lost' = lost + Len(serving)
    /\ UNCHANGED <<cacheVars, up, crashes, queries, writer, replies, callVars, seen>>

\* Mutant: an answer without rows is not sent.
AnswerRows ==
    /\ up
    /\ iterators # <<>> /\ iterators[1].next = {}
    /\ replies' = IF writer = {} THEN replies
                  ELSE Append(replies, [rows |-> writer, raced |-> iterators[1].raced])
    /\ serving' = <<>> /\ iterators' = <<>>
    /\ UNCHANGED <<cacheVars, up, crashes, queries, writer, callVars, seen, lost>>

\* No more rows: the reply is sent.
Answer ==
    /\ up
    /\ iterators # <<>> /\ iterators[1].next = {}
    /\ replies' = Append(replies, [rows |-> writer, raced |-> iterators[1].raced])
    /\ serving' = <<>> /\ iterators' = <<>>
    /\ UNCHANGED <<cacheVars, up, crashes, queries, writer, callVars, seen, lost>>

\* The server dies with the request it is working on; requests on the queue wait
\* for the next one.
Crash ==
    /\ up
    /\ crashes < MaxCrashes
    /\ crashes' = crashes + 1
    /\ up' = FALSE
    /\ lost' = lost + Len(serving)
    /\ serving' = <<>> /\ iterators' = <<>> /\ writer' = {}
    /\ UNCHANGED <<cacheVars, queries, replies, callVars, seen>>

Restart ==
    /\ ~up
    /\ up' = TRUE
    /\ UNCHANGED <<cacheVars, crashes, queries, handlerVars, replies, callVars, seen, lost>>

Next ==
    \/ \E i \in Ids : UpdateLine(i) \/ RemoveId(i)
    \/ \E ids \in SUBSET Ids : Swap(ids)
    \/ \E c \in Callers, kind \in Kinds : Request(c, kind)
    \/ \E c \in Callers : Receive(c)
    \/ \E c \in Callers : TimeOut(c)
    \/ Accept
    \/ AnswerColumns
    \/ VisitAll
    \/ \E i \in Ids : VisitRow(i)
    \/ ConcurrentModification
    \/ Answer
    \/ Crash
    \/ Restart

Spec == Init /\ [][Next]_vars

\* The server runs again after a crash and handles its queue; a call that waits
\* takes a reply that is there.  No call need ever time out: JmsTemplate waits
\* indefinitely unless told otherwise.
Fairness ==
    /\ WF_vars(Accept) /\ WF_vars(AnswerColumns)
    /\ WF_vars(VisitAll) /\ WF_vars(\E i \in Ids : VisitRow(i)) /\ WF_vars(Answer)
    /\ WF_vars(Restart)
    /\ \A c \in Callers : WF_vars(Receive(c))

FairSpec == Spec /\ Fairness

-----------------------------------------------------------------------------
\* Every request is accounted for: those under way on the query queue, in the
\* server and on the reply queue, and those that died with the server or in an
\* iteration, are as many as the calls that wait and the calls that timed out.  So
\* the reply to a call that timed out stays for ever: a later call takes it and
\* leaves its own behind.
Accounted == Unanswered + lost = Cardinality(Waiting) + timeouts

\* The rows are all rows of one moment, though not all with the content they had
\* at that moment.
IsAnswer(rows, tables, complete) ==
    /\ \A row \in rows : \E table \in tables : table[row[1]] = row[2]
    /\ complete => \E table \in tables : IdsOf(table) = {row[1] : row \in rows}

\* Replies are not correlated with requests, and an answer is collected while
\* blocks change the cache.  Still, a call that has the source to itself (no other
\* thread waits, and no earlier call timed out whose request is still answered)
\* passes on only rows that were served during the call, each as it was at some
\* moment of the call; and unless a row was added or removed during the
\* iteration, they are all the rows of one moment.  It passes on nothing if it
\* asked for the column names.
OwnReply ==
    [][\A c \in Callers :
        Receive(c) /\ c \notin disturbed =>
            IF call[c] = <<"columns">> THEN Head(replies).rows = {}
            ELSE IsAnswer(Head(replies).rows, seen[c], ~Head(replies).raced)]_vars

\* Liveness: a call returns, whoever else calls or times out, unless a request
\* died with the server or in an iteration.
CallsReturn == \A c \in Callers : call[c] # <<>> ~> call[c] = <<>> \/ lost > 0

\* CsvDataSource's comment on getAllCsvLines: "Pushes all lines through the
\* callback".  Refuted: after a timeout, the call takes the reply to the call before.
PushesAllLines ==
    [][\A c \in Callers :
        Receive(c) /\ call[c] = <<"all">> => IsAnswer(Head(replies).rows, seen[c], TRUE)]_vars
=============================================================================
