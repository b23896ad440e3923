--------------------------- MODULE BeanConversion ---------------------------
(***************************************************************************)
(* The conversion of rows to beans by a CsvToBeanStrategySpringConstructor *)
(* that all bean caches of a client share.                                 *)
(*                                                                         *)
(* A row is split by writing its column names and its values as two lines  *)
(* into a pipe and reading them from there; a line and its end are two     *)
(* writes.  The bean comes out of a Spring context, as the one definition  *)
(* that is registered there for each row.  The listener of an entity's     *)
(* topic converts a row within the lock of the client's layer; the thread  *)
(* that loads bean caches converts without it.  Threads end: the one that  *)
(* started the client when it is done, a listener's when its connection    *)
(* fails or its pool lets it go; another one then takes its place.         *)
(*                                                                         *)
(* An entity has two columns, "id" and one that has the entity's name.     *)
(***************************************************************************)
EXTENDS Naturals, Sequences, FiniteSets

CONSTANTS
    BeanTypes,      \* the entities
    Changing,       \* those that are changed; the listener of one is named for it
    LoadThread,     \* the thread that loads bean caches
    Nobody, Ended,  \* no thread, and one that has ended
    Qualities,      \* bound: for each row to convert, what it may be like
    MaxEnded        \* bound: threads that end

ASSUME QualitiesAssumption == Qualities \in Seq(SUBSET {"good", "bad", "long"})

ASSUME ThreadNames == Changing \subseteq BeanTypes \ {LoadThread} /\ Nobody # Ended

VARIABLES
    pipe,       \* the lines in the pipe, each what was written without an end between
    unended,    \* what is behind the last of them
    readSide,   \* the thread that has read last from the pipe
    writeSide,  \* the thread that has written last to it
    cav,        \* the values for constructor arguments, by name
    beanClass,  \* the entity whose bean type beanDef has
    definition, \* of the context's bean: "none", "registered", or "made" with its bean
    step,       \* where a thread is in getBeans
    row,        \* the row it converts
    names,      \* the line it has read as column names
    values,     \* the line it has read as values
    owner, held,             \* the layer's lock: the listener that has it, and how often
    together,   \* history: threads in whose conversion another one took part
    rowsRead, threadsEnded    \* history

pipeVars == <<pipe, unended, readSide, writeSide>>
contextVars == <<cav, beanClass, definition>>
lockedVars == <<owner, held>>
readVars == <<row, names, values>>
historyVars == <<together, rowsRead, threadsEnded>>
conversionVars == <<pipeVars, contextVars, step, readVars, lockedVars, historyVars>>

Readers == Changing \union {LoadThread}

\* A value of a "bad" row cannot be converted; a "long" row does not fit into the pipe.
Row(e, n, quality) == [entity |-> e, number |-> n, quality |-> quality]
NoRow == Row(Nobody, 0, "good")

Names(r) == [of |-> r, kind |-> "names"]
Values(r) == [of |-> r, kind |-> "values"]

\* What runs together on one line, and what is taken for names without being some, names
\* arguments that no constructor has.
IsNames(text) == Len(text) = 1 /\ Head(text).kind = "names"
IsValues(text) == Len(text) = 1 /\ Head(text).kind = "values"
FirstName(text) == IF IsNames(text) THEN "id" ELSE "none"
OtherName(text) == IF IsNames(text) THEN Head(text).of.entity ELSE "none"

ConversionInit ==
    /\ pipe = <<>> /\ unended = <<>> /\ readSide = Nobody /\ writeSide = Nobody
    /\ cav = <<>> /\ beanClass = Nobody /\ definition = "none"
    /\ step = [t \in Readers |-> "idle"]
    /\ row = [t \in Readers |-> NoRow]
    /\ names = [t \in Readers |-> <<>>] /\ values = [t \in Readers |-> <<>>]
    /\ owner = Nobody /\ held = 0
    /\ together = {} /\ rowsRead = 0 /\ threadsEnded = 0

-----------------------------------------------------------------------------
Converting == {t \in Readers : step[t] # "idle"}
Reading == {t \in Readers : step[t] \in {"read names", "read values"}}

Go(t, from, to) == step[t] = from /\ step' = [step EXCEPT ![t] = to]

\* getBeans returns or throws; what it has read is forgotten.
Leave(t) ==
    /\ step' = [step EXCEPT ![t] = "idle"]
    /\ row' = [row EXCEPT ![t] = NoRow]
    /\ names' = [names EXCEPT ![t] = <<>>]
    /\ values' = [values EXCEPT ![t] = <<>>]
    /\ together' = together \ {t}
    /\ UNCHANGED <<rowsRead, threadsEnded>>

\* getBeans throws before it has a bean: a listener keeps the lock, as finish() is not
\* called.
GiveUp(t) == Leave(t) /\ UNCHANGED <<pipeVars, contextVars, lockedVars>>

-----------------------------------------------------------------------------
(***************************************************************************)
(* The pipe.  It refuses to be written to when the thread that has read    *)
(* last has ended.                                                         *)
(***************************************************************************)

Append1(t, text) ==
    /\ readSide # Ended
    /\ unended' = Append(unended, text)
    /\ writeSide' = t
    /\ UNCHANGED <<pipe, readSide>>

\* The end of a line with nothing on it makes a blank one, which the parser skips.
EndLine(t) ==
    /\ readSide # Ended
    /\ pipe' = IF unended = <<>> THEN pipe ELSE Append(pipe, unended)
    /\ unended' = <<>>
    /\ writeSide' = t
    /\ UNCHANGED readSide

\* A line is read.  One that another thread's read has fetched as well is in the parser's
\* buffer, and the pipe does not see who takes it.
PipeRead(t) ==
    /\ pipe # <<>>
    /\ pipe' = Tail(pipe)
    /\ readSide' \in {t} \union (IF t \in together THEN {readSide} ELSE {})
    /\ UNCHANGED <<unended, writeSide>>

-----------------------------------------------------------------------------
(***************************************************************************)
(* The steps of getBeans.                                                  *)
(***************************************************************************)

\* A listener begins a block; the loader goes on with the rows of a query.
TakeRow(t) ==
    /\ rowsRead < Len(Qualities) /\ rowsRead' = rowsRead + 1
    /\ t # LoadThread => owner \in {Nobody, t}
    /\ owner' = IF t = LoadThread THEN owner ELSE t
    /\ held' = IF t = LoadThread THEN held ELSE held + 1

\* A row of e is taken, and its column names are written.
GetBean(t, e) ==
    /\ TakeRow(t)
    /\ Go(t, "idle", "end names")
    /\ \E quality \in Qualities[rowsRead + 1] :
          LET r == Row(e, rowsRead + 1, quality)
          IN  row' = [row EXCEPT ![t] = r] /\ Append1(t, Names(r))
    /\ together' = IF Converting = {} THEN together ELSE together \union Converting \union {t}
    /\ UNCHANGED <<contextVars, names, values, threadsEnded>>

\* A row is taken, and the pipe refuses its column names.
NamesRefused(t) ==
    /\ TakeRow(t)
    /\ step[t] = "idle"
    /\ readSide = Ended
    /\ UNCHANGED <<pipeVars, contextVars, step, readVars, together, threadsEnded>>

\* Mutant: the line has no end yet.
EndNamesLater(t) ==
    /\ Go(t, "end names", "read names")
    /\ UNCHANGED <<pipeVars, contextVars, readVars, lockedVars, historyVars>>

EndNames(t) ==
    /\ Go(t, "end names", "read names")
    /\ EndLine(t)
    /\ UNCHANGED <<contextVars, readVars, lockedVars, historyVars>>

ReadNames(t) ==
    /\ Go(t, "read names", "write values")
    /\ PipeRead(t)
    /\ names' = [names EXCEPT ![t] = Head(pipe)]
    /\ beanClass' = row[t].entity
    /\ UNCHANGED <<cav, definition, row, values, lockedVars, historyVars>>

\* A long row has its writer wait for a reader; only another thread can be one.
WriteValues(t) ==
    /\ Go(t, "write values", "end values")
    /\ row[t].quality = "long" => Reading \ {t} # {}
    /\ Append1(t, Values(row[t]))
    /\ UNCHANGED <<contextVars, readVars, lockedVars, historyVars>>

EndValues(t) ==
    /\ Go(t, "end values", "read values")
    /\ EndLine(t)
    /\ UNCHANGED <<contextVars, readVars, lockedVars, historyVars>>

ReadValues(t) ==
    /\ Go(t, "read values", "add id")
    /\ PipeRead(t)
    /\ values' = [values EXCEPT ![t] = Head(pipe)]
    /\ UNCHANGED <<contextVars, row, names, lockedVars, historyVars>>

\* What is refused is not written; what is on the line already stays.
WriteRefused(t) ==
    /\ step[t] \in {"end names", "write values", "end values"}
    /\ readSide = Ended
    /\ GiveUp(t)

\* The pipe is broken when the thread that has written last has ended.
ReadBroken(t) ==
    /\ t \in Reading
    /\ pipe = <<>>
    /\ writeSide = Ended
    /\ GiveUp(t)

\* Mutant: the value that a failed conversion has left stays.
KeepArgument(c, text) == [d \in DOMAIN cav \union {c} |-> IF d \in DOMAIN cav THEN cav[d] ELSE text]

\* addGenericArgumentValue: a value replaces the one of the same name.
Argument(c, text) == [d \in DOMAIN cav \union {c} |-> IF d = c THEN text ELSE cav[d]]

AddId(t) ==
    /\ Go(t, "add id", "add other")
    /\ cav' = Argument(FirstName(names[t]), values[t])
    /\ UNCHANGED <<pipeVars, beanClass, definition, readVars, lockedVars, historyVars>>

AddOther(t) ==
    /\ Go(t, "add other", "register")
    /\ Len(names[t]) <= Len(values[t])
    /\ cav' = Argument(OtherName(names[t]), values[t])
    /\ UNCHANGED <<pipeVars, beanClass, definition, readVars, lockedVars, historyVars>>

\* There are more names than values, or two threads meet in the list of arguments.
AddFails(t) ==
    /\ \/ step[t] = "add other" /\ Len(names[t]) > Len(values[t])
       \/ step[t] \in {"add id", "add other"} /\ t \in together
    /\ GiveUp(t)

\* registerBeanDefinition: it replaces one that is there, and destroys its bean.
RegisterBean(t) ==
    /\ Go(t, "register", "construct")
    /\ definition' = "registered"
    /\ UNCHANGED <<pipeVars, cav, beanClass, readVars, lockedVars, historyVars>>

\* The constructor of the bean type takes exactly these arguments.
Constructible ==
    /\ DOMAIN cav = {"id", beanClass}
    /\ \A c \in DOMAIN cav : IsValues(cav[c]) => Head(cav[c]).of.quality # "bad"

\* getBean: the bean is constructed, or is there.
Construct(t) ==
    /\ Go(t, "construct", "remove")
    /\ definition = "made" \/ (definition = "registered" /\ Constructible)
    /\ definition' = "made"
    /\ UNCHANGED <<pipeVars, cav, beanClass, readVars, lockedVars, historyVars>>

\* getBean cannot succeed; or it need not, as a value may be no value, and the context may
\* have kept what another thread's getBean saw.
CannotConstruct(t) ==
    \/ definition = "none"
    \/ definition = "registered" /\ ~Constructible
    \/ definition = "registered" /\ (t \in together \/ \E c \in DOMAIN cav : ~IsValues(cav[c]))

\* Mutant: the arguments are cleared whatever happens.
ConstructFailsClean(t) ==
    /\ step[t] = "construct"
    /\ CannotConstruct(t)
    /\ Leave(t)
    /\ cav' = <<>>
    /\ UNCHANGED <<pipeVars, beanClass, definition, lockedVars>>

\* getBean throws, and the arguments stay.
ConstructFails(t) ==
    /\ step[t] = "construct"
    /\ CannotConstruct(t)
    /\ GiveUp(t)

RemoveBean(t) ==
    /\ Go(t, "remove", "clear")
    /\ definition # "none"
    /\ definition' = "none"
    /\ UNCHANGED <<pipeVars, cav, beanClass, readVars, lockedVars, historyVars>>

\* Another thread has removed it.
RemoveFails(t) ==
    /\ step[t] = "remove"
    /\ definition = "none"
    /\ GiveUp(t)

\* The arguments are cleared, and getBeans returns; a listener's block is finished.
ClearArguments(t) ==
    /\ step[t] = "clear"
    /\ Leave(t)
    /\ cav' = <<>>
    /\ held' = IF t = LoadThread THEN held ELSE held - 1
    /\ owner' = IF t # LoadThread /\ held = 1 THEN Nobody ELSE owner
    /\ UNCHANGED <<pipeVars, beanClass, definition>>

-----------------------------------------------------------------------------
\* A thread waits for a line.
WaitForLine(t) ==
    /\ t \in Reading
    /\ pipe = <<>>
    /\ readSide' = t
    /\ UNCHANGED <<pipe, unended, writeSide, contextVars, step, readVars, lockedVars, historyVars>>

\* A thread ends between two rows; the lock stays with it.
EndThread(t) ==
    /\ step[t] = "idle"
    /\ threadsEnded < MaxEnded
    /\ threadsEnded' = threadsEnded + 1
    /\ readSide' = IF readSide = t THEN Ended ELSE readSide
    /\ writeSide' = IF writeSide = t THEN Ended ELSE writeSide
    /\ owner' = IF owner = t THEN Ended ELSE owner
    /\ UNCHANGED <<pipe, unended, contextVars, step, readVars, held, together, rowsRead>>

Convert(t) ==
    \/ EndNames(t) \/ ReadNames(t)
    \/ WriteValues(t) \/ EndValues(t) \/ ReadValues(t)
    \/ WriteRefused(t) \/ ReadBroken(t)
    \/ AddId(t) \/ AddOther(t) \/ AddFails(t)
    \/ RegisterBean(t)
    \/ Construct(t) \/ ConstructFails(t)
    \/ RemoveBean(t) \/ RemoveFails(t)
    \/ ClearArguments(t)

ConversionNext ==
    \E t \in Readers :
        \/ \E e \in IF t = LoadThread THEN BeanTypes ELSE {t} : GetBean(t, e)
        \/ NamesRefused(t)
        \/ Convert(t)
        \/ WaitForLine(t)
        \/ EndThread(t)

ConversionSpec == ConversionInit /\ [][ConversionNext]_conversionVars

-----------------------------------------------------------------------------
\* A bean is constructed from its own row unless another thread converted meanwhile,
\* although the pipe, the arguments and the context outlive conversions that failed.
OwnRow ==
    [][\A t \in Readers :
        Construct(t) /\ t \notin together =>
            \A c \in DOMAIN cav : cav[c] = <<Values(row[t])>>]_conversionVars

\* Once the last reader of the pipe has ended, and nobody is reading, no row is ever
\* written again.  And once there are arguments of two entities, as when a row of one
\* fails and then one of another is tried, no thread that converts alone clears them: it
\* takes two that get in each other's way.
Deaf == readSide = Ended /\ Reading = {}
Cluttered == \A e \in BeanTypes : ~(DOMAIN cav \subseteq {"id", e})

StaysBroken ==
    [][/\ Deaf => Deaf'
       /\ Cluttered /\ together = {} => Cluttered']_conversionVars

\* A thread that converts alone can go on until it returns or throws, whatever has been
\* refused, thrown or mixed up before: none of it takes away a line that the thread waits
\* for.  Two threads' lines may run together, and one of them may wait for ever.  So may
\* one whose row is too long for the pipe: only another thread could read meanwhile.
GoesOnAlone ==
    \A t \in Converting \ together :
        \/ ENABLED Convert(t)
        \/ step[t] = "write values" /\ row[t].quality = "long"
=============================================================================
