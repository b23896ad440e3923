------------------------- MODULE BeanIndexes_proofs -------------------------
(***************************************************************************)
(* The indexes of a bean cache agree with it, for any ids, keys and blocks. *)
(***************************************************************************)
EXTENDS BeanIndexes, TLAPS

-----------------------------------------------------------------------------
(***************************************************************************)
(* The inductive invariant.                                                *)
(***************************************************************************)
Updated == {i \in BeanIds : updatedBeans[i] # NoBean}

IndexTypes ==
    /\ beans \in [BeanIds -> IndexKeys \union {NoBean}]
    /\ updatedBeans \in [BeanIds -> IndexKeys \union {NoBean}]
    /\ deletedBeans \subseteq BeanIds
    /\ unique \in [IndexKeys -> BeanIds \union {NoBean}]
    /\ multi \subseteq IndexKeys \X BeanIds
    /\ observer \in {"none", "built", "added"}
    /\ phase \in {"block", "notify", "updates", "deletes", "clear"}
    /\ told \subseteq BeanIds
    /\ untold \subseteq BeanIds
    /\ shared \subseteq BeanIds

\* From the merge on the cache holds what the block says; the indexes are told
\* only if there is an observer, first of the updates and then of the deletions.
BlockInOrder ==
    /\ phase # "block" =>
        \A i \in BeanIds :
            /\ i \in deletedBeans => beans[i] = NoBean
            /\ i \in Updated \ deletedBeans => beans[i] = updatedBeans[i]
    /\ phase \in {"updates", "deletes"} =>
        /\ observer = "added"
        /\ MentionedIds \intersect untold = {}
        /\ \A i \in Existing \ shared, j \in BeanIds : i # j => beans[i] # updatedBeans[j]
    /\ told \subseteq CASE phase = "updates" -> Updated
                        [] phase = "deletes" -> deletedBeans
                        [] OTHER -> {}

\* The ids whose entries in the indexes are known at this point of a block: the
\* settled ones, and those of the block that have been told.
Followed ==
    IF observer = "none" THEN {}
    ELSE CASE phase \in {"block", "clear"} -> BeanIds \ untold
           [] phase = "notify" -> BeanIds \ (untold \union MentionedIds)
           [] phase = "updates" -> (BeanIds \ (untold \union MentionedIds)) \union told
           [] phase = "deletes" -> (BeanIds \ (untold \union MentionedIds)) \union told \union Updated

\* The key they are known to have: an id that the block both updates and deletes
\* is put into the indexes first, and taken out again later.
KeyOf(i) ==
    IF \/ phase = "updates" /\ i \in told
       \/ phase = "deletes" /\ i \in Updated \ told
    THEN updatedBeans[i]
    ELSE beans[i]

IndexesFollow ==
    \A i \in Followed :
        /\ \A k \in IndexKeys : unique[k] = i => KeyOf(i) = k
        /\ i \in Existing \ shared => unique[beans[i]] = i
        /\ \A k \in IndexKeys : <<k, i>> \in multi <=> KeyOf(i) = k

IndexInv == IndexTypes /\ BlockInOrder /\ IndexesFollow

-----------------------------------------------------------------------------
(***************************************************************************)
(* One id in the indexes.                                                  *)
(***************************************************************************)

\* What update(id, key) of the unique index leaves: the id under this key only, and
\* every other id where it was, unless it had the key.
LEMMA UniqueUpdateEntries ==
    ASSUME NEW index \in [IndexKeys -> BeanIds \union {NoBean}],
           NEW i \in BeanIds, NEW key \in IndexKeys
    PROVE  /\ UniqueUpdate(index, i, key) \in [IndexKeys -> BeanIds \union {NoBean}]
           /\ \A k \in IndexKeys : UniqueUpdate(index, i, key)[k] = i <=> k = key
           /\ \A j \in BeanIds \ {i}, k \in IndexKeys :
                UniqueUpdate(index, i, key)[k] = j <=> index[k] = j /\ k # key
  BY NoBeanAssumption DEF UniqueUpdate, RemovedFrom

\* What removal of an id leaves: every other id where it was.
LEMMA RemovedFromEntries ==
    ASSUME NEW index \in [IndexKeys -> BeanIds \union {NoBean}], NEW i \in BeanIds
    PROVE  /\ RemovedFrom(index, i) \in [IndexKeys -> BeanIds \union {NoBean}]
           /\ \A k \in IndexKeys : RemovedFrom(index, i)[k] # i
           /\ \A j \in BeanIds \ {i}, k \in IndexKeys :
                RemovedFrom(index, i)[k] = j <=> index[k] = j
  BY NoBeanAssumption DEF RemovedFrom

\* The same for the collection index, where ids share keys.
LEMMA MultiUpdateEntries ==
    ASSUME NEW index \in SUBSET (IndexKeys \X BeanIds),
           NEW i \in BeanIds, NEW key \in IndexKeys
    PROVE  /\ MultiUpdate(index, i, key) \subseteq IndexKeys \X BeanIds
           /\ \A k \in IndexKeys : <<k, i>> \in MultiUpdate(index, i, key) <=> k = key
           /\ \A j \in BeanIds \ {i}, k \in IndexKeys :
                <<k, j>> \in MultiUpdate(index, i, key) <=> <<k, j>> \in index
  BY DEF MultiUpdate, MultiRemoved

LEMMA RemovedEntries ==
    ASSUME NEW index \in SUBSET (IndexKeys \X BeanIds), NEW i \in BeanIds
    PROVE  /\ MultiRemoved(index, i) \subseteq IndexKeys \X BeanIds
           /\ \A k \in IndexKeys : <<k, i>> \notin MultiRemoved(index, i)
           /\ \A j \in BeanIds \ {i}, k \in IndexKeys :
                <<k, j>> \in MultiRemoved(index, i) <=> <<k, j>> \in index
  BY DEF MultiRemoved

-----------------------------------------------------------------------------
(***************************************************************************)
(* The invariant is kept by every step.                                    *)
(***************************************************************************)
LEMMA IndexInitInv == IndexInit => IndexInv
  BY DEF IndexInit, None, IndexInv, IndexTypes, BlockInOrder, IndexesFollow, Followed

\* Nothing about the indexes' beans changes before a block is merged.
LEMMA CollectingKeepsInv ==
    ASSUME IndexInv,
           \/ \E i \in BeanIds, key \in IndexKeys : ProcessBean(i, key)
           \/ \E i \in BeanIds : ProcessRemoval(i)
           \/ BulkUpdate
    PROVE  IndexInv'
  <1> USE DEF IndexInv, IndexTypes, BlockInOrder, IndexesFollow, Followed, KeyOf, Existing,
              Updated, MentionedIds, indexVars, blockVars
  <1>1. ASSUME NEW i \in BeanIds, NEW key \in IndexKeys, ProcessBean(i, key) PROVE IndexInv'
    BY <1>1 DEF ProcessBean
  <1>2. ASSUME NEW i \in BeanIds, ProcessRemoval(i) PROVE IndexInv'
    BY <1>2 DEF ProcessRemoval
  <1>3. CASE BulkUpdate
    BY <1>3, NoBeanAssumption DEF BulkUpdate, None
  <1>4. QED
    BY <1>1, <1>2, <1>3

\* The application's steps.
LEMMA ApplicationKeepsInv ==
    ASSUME IndexInv, Build \/ AddCacheObserver
    PROVE  IndexInv'
  <1> USE DEF IndexInv, IndexTypes, BlockInOrder, IndexesFollow, Followed, KeyOf, Existing,
              Updated, MentionedIds, indexVars, blockVars
  <1>1. CASE Build
    BY <1>1, NoBeanAssumption DEF Build
  <1>2. CASE AddCacheObserver
    BY <1>2 DEF AddCacheObserver
  <1>3. QED
    BY <1>1, <1>2

\* The merge, the decision whom to tell, and the end of a block.
LEMMA PhasesKeepInv ==
    ASSUME IndexInv,
           MergeBlock \/ NotifyCacheObservers \/ UpdatesTold \/ DeletesTold \/ ClearBlock
    PROVE  IndexInv'
  <1> USE DEF IndexInv, IndexTypes, BlockInOrder, IndexesFollow, Followed, KeyOf, Existing,
              Updated, MentionedIds, indexVars, blockVars
  <1>1. CASE MergeBlock
    BY <1>1 DEF MergeBlock
  <1>2. CASE NotifyCacheObservers
    BY <1>2 DEF NotifyCacheObservers, Outdone
  <1>3. CASE UpdatesTold
    BY <1>3 DEF UpdatesTold
  <1>4. CASE DeletesTold
    BY <1>4 DEF DeletesTold
  <1>5. CASE ClearBlock
    BY <1>5 DEF ClearBlock, None
  <1>6. QED
    BY <1>1, <1>2, <1>3, <1>4, <1>5

\* The indexes take in one id.
LEMMA TellingKeepsInv ==
    ASSUME IndexInv, NEW i \in BeanIds, UpdateIndexes(i) \/ DeleteFromIndexes(i)
    PROVE  IndexInv'
  <1> USE DEF IndexInv, IndexTypes, BlockInOrder, IndexesFollow, Followed, KeyOf, Existing,
              Updated, MentionedIds, indexVars, blockVars
  <1>1. CASE UpdateIndexes(i)
    <2> DEFINE key == updatedBeans[i]
    <2>1. /\ i \in Updated /\ i \notin told /\ key \in IndexKeys
          /\ unique' = UniqueUpdate(unique, i, key) /\ multi' = MultiUpdate(multi, i, key)
          /\ phase = "updates" /\ told' = told \union {i}
          /\ UNCHANGED <<beans, blockVars, observer, phase, untold, shared>>
      BY <1>1 DEF UpdateIndexes
    <2>2. /\ unique' \in [IndexKeys -> BeanIds \union {NoBean}]
          /\ \A k \in IndexKeys : unique'[k] = i <=> k = key
          /\ \A j \in BeanIds \ {i}, k \in IndexKeys :
               unique'[k] = j <=> unique[k] = j /\ k # key
      <3>1. unique \in [IndexKeys -> BeanIds \union {NoBean}]
        OBVIOUS
      <3> HIDE DEF key
      <3>2. QED
        BY <2>1, <3>1, UniqueUpdateEntries
    <2>3. /\ multi' \subseteq IndexKeys \X BeanIds
          /\ \A k \in IndexKeys : <<k, i>> \in multi' <=> k = key
          /\ \A j \in BeanIds \ {i}, k \in IndexKeys : <<k, j>> \in multi' <=> <<k, j>> \in multi
      <3>1. multi \in SUBSET (IndexKeys \X BeanIds)
        OBVIOUS
      <3> HIDE DEF key
      <3>2. QED
        BY <2>1, <3>1, MultiUpdateEntries
    <2> HIDE DEF key
    <2>4. IndexTypes' /\ BlockInOrder'
      BY <2>1, <2>2, <2>3 DEF key
    <2>5. ASSUME NEW j \in Followed'
          PROVE  /\ \A k \in IndexKeys : unique'[k] = j => KeyOf(j)' = k
                 /\ j \in (Existing \ shared)' => unique'[beans'[j]] = j
                 /\ \A k \in IndexKeys : <<k, j>> \in multi' <=> KeyOf(j)' = k
      <3>1. CASE j # i
        <4>1. j \in Followed /\ KeyOf(j)' = KeyOf(j) /\ j \in BeanIds
          BY <2>1, <2>5, <3>1
        <4>2. j \in Existing \ shared => beans[j] # key /\ beans[j] \in IndexKeys
          BY <2>1, <2>5, <3>1, <4>1 DEF key
        <4>3. QED
          BY <2>1, <2>2, <2>3, <3>1, <4>1, <4>2
      <3>2. CASE j = i
        BY <2>1, <2>2, <2>3, <3>2 DEF key
      <3>3. QED
        BY <3>1, <3>2
    <2>6. QED
      BY <2>4, <2>5
  <1>2. CASE DeleteFromIndexes(i)
    <2>1. /\ i \in deletedBeans \ told /\ beans[i] = NoBean
          /\ unique' = RemovedFrom(unique, i) /\ multi' = MultiRemoved(multi, i)
          /\ phase = "deletes" /\ told' = told \union {i}
          /\ UNCHANGED <<beans, blockVars, observer, phase, untold, shared>>
      BY <1>2 DEF DeleteFromIndexes
    <2>2. /\ unique' \in [IndexKeys -> BeanIds \union {NoBean}]
          /\ \A k \in IndexKeys : unique'[k] # i
          /\ \A j \in BeanIds \ {i}, k \in IndexKeys : unique'[k] = j <=> unique[k] = j
      BY <2>1, RemovedFromEntries
    <2>3. /\ multi' \subseteq IndexKeys \X BeanIds
          /\ \A k \in IndexKeys : <<k, i>> \notin multi'
          /\ \A j \in BeanIds \ {i}, k \in IndexKeys : <<k, j>> \in multi' <=> <<k, j>> \in multi
      BY <2>1, RemovedEntries
    <2>4. IndexTypes' /\ BlockInOrder'
      BY <2>1, <2>2, <2>3
    <2>5. ASSUME NEW j \in Followed'
          PROVE  /\ \A k \in IndexKeys : unique'[k] = j => KeyOf(j)' = k
                 /\ j \in (Existing \ shared)' => unique'[beans'[j]] = j
                 /\ \A k \in IndexKeys : <<k, j>> \in multi' <=> KeyOf(j)' = k
      <3>1. CASE j # i
        <4>1. j \in Followed /\ KeyOf(j)' = KeyOf(j) /\ j \in BeanIds
          BY <2>1, <2>5, <3>1
        <4>2. QED
          BY <2>1, <2>2, <2>3, <3>1, <4>1
      <3>2. CASE j = i
        <4>1. KeyOf(i)' = NoBean /\ NoBean \notin IndexKeys
          BY <2>1, NoBeanAssumption
        <4>2. QED
          BY <2>1, <2>2, <2>3, <3>2, <4>1
      <3>3. QED
        BY <3>1, <3>2
    <2>6. QED
      BY <2>4, <2>5
  <1>3. QED
    BY <1>1, <1>2

LEMMA IndexStepInv ==
    ASSUME IndexInv, [IndexNext]_allIndexVars
    PROVE  IndexInv'
  <1>1. CASE UNCHANGED allIndexVars
    BY <1>1 DEF allIndexVars, indexVars, blockVars, IndexInv, IndexTypes, BlockInOrder,
                IndexesFollow, Followed, KeyOf, Existing, Updated, MentionedIds
  <1>2. CASE IndexNext
    BY <1>2, CollectingKeepsInv, ApplicationKeepsInv, PhasesKeepInv, TellingKeepsInv
       DEF IndexNext
  <1>3. QED
    BY <1>1, <1>2

-----------------------------------------------------------------------------
(***************************************************************************)
(* The properties.                                                         *)
(***************************************************************************)

\* What the invariant says of the settled ids.
LEMMA SettledFollowed ==
    ASSUME IndexInv
    PROVE  Settled \subseteq Followed /\ \A i \in Settled : KeyOf(i) = beans[i]
  BY DEF IndexInv, IndexTypes, BlockInOrder, Settled, Followed, KeyOf, Updated, MentionedIds

LEMMA InvUniqueAgrees == IndexInv => UniqueAgrees
  BY SettledFollowed DEF IndexInv, IndexesFollow, UniqueAgrees

LEMMA InvCollectionAgrees == IndexInv => CollectionAgrees
  <1> SUFFICES ASSUME IndexInv, NEW i \in Settled
               PROVE  {entry \in multi : entry[2] = i /\ entry[1] # Null} =
                        IF i \in Existing /\ beans[i] # Null THEN {<<beans[i], i>>} ELSE {}
    BY DEF CollectionAgrees
  <1>1. i \in Followed /\ KeyOf(i) = beans[i]
    BY SettledFollowed
  <1>2. i \in BeanIds
    BY DEF Settled
  <1>3. \A k \in IndexKeys : <<k, i>> \in multi <=> beans[i] = k
    BY <1>1 DEF IndexInv, IndexesFollow
  <1>4. multi \subseteq IndexKeys \X BeanIds
    BY DEF IndexInv, IndexTypes
  <1>5. CASE i \in Existing
    <2>1. beans[i] \in IndexKeys
      BY <1>2, <1>5 DEF Existing, IndexInv, IndexTypes
    <2>2. QED
      BY <1>3, <1>4, <1>5, <2>1
  <1>6. CASE i \notin Existing
    <2>1. beans[i] \notin IndexKeys
      BY <1>2, <1>6, NoBeanAssumption DEF Existing
    <2>2. QED
      BY <1>3, <1>4, <1>6, <2>1
  <1>7. QED
    BY <1>5, <1>6

\* At any time, a lookup of a key in the unique index does not find an id that does not have
\* it, and finds one under its own unless another bean has had that key since.
THEOREM UniqueIndexAgrees == IndexSpec => []UniqueAgrees
  <1>1. IndexInv /\ [IndexNext]_allIndexVars => IndexInv'
    BY IndexStepInv
  <1>2. QED
    BY <1>1, IndexInitInv, InvUniqueAgrees, PTL DEF IndexSpec

\* At any time, the collection index has exactly one entry under a key for each id it has been
\* told of that has one.
THEOREM CollectionIndexAgrees == IndexSpec => []CollectionAgrees
  <1>1. IndexInv /\ [IndexNext]_allIndexVars => IndexInv'
    BY IndexStepInv
  <1>2. QED
    BY <1>1, IndexInitInv, InvCollectionAgrees, PTL DEF IndexSpec
=============================================================================
