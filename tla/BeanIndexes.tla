----------------------------- MODULE BeanIndexes -----------------------------
(***************************************************************************)
(* The indexes of a BeanCache: a BeanCacheUniqueIndex and a                *)
(* BeanCacheCollectionIndex, built from getAllMappings() and kept up to    *)
(* date by a CacheObserver that the application adds afterwards.           *)
(*                                                                         *)
(* A bean is its key in the indexes, null if it has none.  A block's       *)
(* changes are collected, merged into the cache, and told to the observer, *)
(* which the indexes take in one bean after the other.  A bulk update      *)
(* empties the cache when it begins.                                       *)
(***************************************************************************)
EXTENDS FiniteSets

CONSTANTS
    BeanIds,
    IndexKeys,  \* what getKeyForValue returns,
    Null,       \* null included: such a bean is in the indexes all the same
    NoBean      \* no bean, or no id

ASSUME NullAssumption == Null \in IndexKeys

ASSUME NoBeanAssumption == NoBean \notin BeanIds \union IndexKeys

VARIABLES
    beans,      \* cache of the BeanCache
    updatedBeans, deletedBeans,   \* the changes of the block
    unique,     \* the BiMap of the unique index
    multi,      \* the SetMultimap of the collection index
    observer,   \* how far the application is: "none", "built", "added"
    phase,      \* where BeanCache is with a block
    told,       \* the ids the indexes have taken in
    untold,     \* history: ids whose last change the indexes were not told
    shared      \* history: ids that were left with the key of another bean

blockVars == <<updatedBeans, deletedBeans>>
indexVars == <<unique, multi>>
allIndexVars == <<beans, blockVars, indexVars, observer, phase, told, untold, shared>>

Existing == {i \in BeanIds : beans[i] # NoBean}
None == [i \in BeanIds |-> NoBean]

IndexInit ==
    /\ beans = None
    /\ updatedBeans = None /\ deletedBeans = {}
    /\ unique = [k \in IndexKeys |-> NoBean]
    /\ multi = {}
    /\ observer = "none"
    /\ phase = "block" /\ told = {}
    /\ untold = {} /\ shared = {}

-----------------------------------------------------------------------------
(***************************************************************************)
(* The indexes, one id at a time.                                          *)
(***************************************************************************)

\* index.inverse().remove(id)
RemovedFrom(index, i) == [k \in IndexKeys |-> IF index[k] = i THEN NoBean ELSE index[k]]

\* Mutant: the key a bean had is left to the bean.
UniquePut(index, i, key) == [index EXCEPT ![key] = i]

UniqueUpdate(index, i, key) == [RemovedFrom(index, i) EXCEPT ![key] = i]

\* removeId looks for one entry of the id.
MultiRemoved(index, i) == {entry \in index : entry[2] # i}

\* Mutant: an entry is added beside the one the bean had.
MultiPut(index, i, key) == index \union {<<key, i>>}

MultiUpdate(index, i, key) == MultiRemoved(index, i) \union {<<key, i>>}

-----------------------------------------------------------------------------
(***************************************************************************)
(* The application                                                         *)
(***************************************************************************)

\* The constructors: of beans with the same key the unique index keeps one.
Build ==
    /\ observer = "none"
    /\ observer' = "built"
    /\ unique' \in {index \in [IndexKeys -> BeanIds \union {NoBean}] :
                       \A k \in IndexKeys :
                           LET holders == {i \in BeanIds : beans[i] = k}
                           IN  IF holders = {} THEN index[k] = NoBean ELSE index[k] \in holders}
    /\ multi' = {<<beans[i], i>> : i \in Existing}
    /\ shared' = {i \in Existing : \E j \in Existing \ {i} : beans[i] = beans[j]}
    /\ UNCHANGED <<beans, blockVars, phase, told, untold>>

\* addCacheObserver waits while a block is told to the observers.
AddCacheObserver ==
    /\ observer = "built"
    /\ phase \notin {"updates", "deletes"}
    /\ observer' = "added"
    /\ UNCHANGED <<beans, blockVars, indexVars, phase, told, untold, shared>>

-----------------------------------------------------------------------------
(***************************************************************************)
(* BeanCache                                                               *)
(***************************************************************************)

ProcessBean(i, key) ==
    /\ phase = "block"
    /\ updatedBeans' = [updatedBeans EXCEPT ![i] = key]
    /\ UNCHANGED <<beans, deletedBeans, indexVars, observer, phase, told, untold, shared>>

ProcessRemoval(i) ==
    /\ phase = "block"
    /\ deletedBeans' = deletedBeans \union {i}
    /\ UNCHANGED <<beans, updatedBeans, indexVars, observer, phase, told, untold, shared>>

\* cache.clear(), at once and without telling anybody.
BulkUpdate ==
    /\ phase = "block"
    /\ beans' = None
    /\ untold' = IF observer = "none" THEN untold ELSE untold \union Existing
    /\ UNCHANGED <<blockVars, indexVars, observer, phase, told, shared>>

MentionedIds == deletedBeans \union {i \in BeanIds : updatedBeans[i] # NoBean}

\* finish(): the changes go into the cache, ...
MergeBlock ==
    /\ phase = "block"
    /\ MentionedIds # {}
    /\ phase' = "notify"
    /\ beans' = [i \in BeanIds |-> IF i \in deletedBeans THEN NoBean
                                   ELSE IF updatedBeans[i] # NoBean THEN updatedBeans[i] ELSE beans[i]]
    /\ UNCHANGED <<blockVars, indexVars, observer, told, untold, shared>>

\* Ids that lose the key they have in the unique index to another one, in some order.
Outdone ==
    {i \in Existing : \E j \in BeanIds \ {i} : beans[i] \in {beans[j], updatedBeans[j]}}

\* ... are told to the observer if there is one, ...
NotifyCacheObservers ==
    /\ phase = "notify"
    /\ phase' = IF observer = "added" THEN "updates" ELSE "clear"
    /\ untold' = CASE observer = "none" -> untold
                   [] observer = "built" -> untold \union MentionedIds
                   [] observer = "added" -> untold \ MentionedIds
    /\ shared' = IF observer = "added" THEN (shared \ MentionedIds) \union Outdone ELSE shared
    /\ UNCHANGED <<beans, blockVars, indexVars, observer, told>>

\* ... which updates the indexes, ...
UpdateIndexes(i) ==
    /\ phase = "updates"
    /\ updatedBeans[i] # NoBean /\ i \notin told
    /\ told' = told \union {i}
    /\ unique' = UniqueUpdate(unique, i, updatedBeans[i])
    /\ multi' = MultiUpdate(multi, i, updatedBeans[i])
    /\ UNCHANGED <<beans, blockVars, observer, phase, untold, shared>>

UpdatesTold ==
    /\ phase = "updates"
    /\ \A i \in BeanIds : updatedBeans[i] # NoBean => i \in told
    /\ phase' = "deletes"
    /\ told' = {}
    /\ UNCHANGED <<beans, blockVars, indexVars, observer, untold, shared>>

\* ... then deletes from them, ...
DeleteFromIndexes(i) ==
    /\ phase = "deletes"
    /\ i \in deletedBeans \ told
    /\ told' = told \union {i}
    /\ unique' = RemovedFrom(unique, i)
    /\ multi' = MultiRemoved(multi, i)
    /\ UNCHANGED <<beans, blockVars, observer, phase, untold, shared>>

DeletesTold ==
    /\ phase = "deletes"
    /\ deletedBeans \subseteq told
    /\ phase' = "clear"
    /\ told' = {}
    /\ UNCHANGED <<beans, blockVars, indexVars, observer, untold, shared>>

\* ... and forgotten.
ClearBlock ==
    /\ phase = "clear"
    /\ phase' = "block"
    /\ updatedBeans' = None /\ deletedBeans' = {}
    /\ UNCHANGED <<beans, indexVars, observer, told, untold, shared>>

IndexNext ==
    \/ Build \/ AddCacheObserver
    \/ \E i \in BeanIds, key \in IndexKeys : ProcessBean(i, key)
    \/ \E i \in BeanIds : ProcessRemoval(i)
    \/ BulkUpdate
    \/ MergeBlock \/ NotifyCacheObservers
    \/ \E i \in BeanIds : UpdateIndexes(i) \/ DeleteFromIndexes(i)
    \/ UpdatesTold \/ DeletesTold
    \/ ClearBlock

IndexSpec == IndexInit /\ [][IndexNext]_allIndexVars

-----------------------------------------------------------------------------
\* The ids that the indexes are right about: not those whose change they were never told,
\* nor those a block may still bring or is about to tell.
Settled ==
    IF observer = "none" THEN {}
    ELSE IF phase = "block" THEN BeanIds \ untold
    ELSE BeanIds \ (untold \union MentionedIds)

\* At any time, also between two steps of a block, a lookup in the unique index never finds
\* an id the block does not mention under a key it does not have; and it finds an id that
\* has a key under it unless another bean has had that key since the id was mentioned.  What
\* a lookup of null finds is nobody's key.
UniqueAgrees ==
    \A i \in Settled :
        /\ \A k \in IndexKeys \ {Null} : unique[k] = i => beans[i] = k
        /\ i \in Existing \ shared /\ beans[i] # Null => unique[beans[i]] = i

\* The collection index has exactly one entry under a key for each of these ids that has
\* one, whoever shares it, and none for the others.
CollectionAgrees ==
    \A i \in Settled :
        {entry \in multi : entry[2] = i /\ entry[1] # Null} =
            IF i \in Existing /\ beans[i] # Null THEN {<<beans[i], i>>} ELSE {}
=============================================================================
