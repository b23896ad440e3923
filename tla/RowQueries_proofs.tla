------------------------- MODULE RowQueries_proofs -------------------------
(***************************************************************************)
(* Ids of composite keys and queries by id, for keys of any length over    *)
(* any letters.                                                            *)
(***************************************************************************)
EXTENDS RowQueries, SequenceTheorems, FiniteSetTheorems, WellFoundedInduction, TLAPS

-----------------------------------------------------------------------------
(***************************************************************************)
(* Induction, as a statement about a set of numbers.                       *)
(***************************************************************************)

LEMMA Smallest ==
    ASSUME NEW T \in SUBSET Nat, T # {}
    PROVE  \E x \in T : \A y \in T : x <= y
  <1>1. T \subseteq Nat
    OBVIOUS
  <1>2. PICK x \in T : \A y \in T : ~(<<y, x>> \in OpToRel(<, Nat))
    BY <1>1, NatLessThanWellFounded, WFMin
  <1>3. \A y \in T : ~(y < x)
    BY <1>1, <1>2 DEF OpToRel
  <1>4. QED
    BY <1>1, <1>3

LEMMA Induction ==
    ASSUME NEW n \in Nat, NEW T, 0 \in T, \A i \in 0..(n - 1) : i \in T => i + 1 \in T
    PROVE  \A i \in 0..n : i \in T
  <1> DEFINE Out == {i \in 0..n : i \notin T}
  <1> SUFFICES ASSUME Out # {} PROVE FALSE
    OBVIOUS
  <1>0. Out \in SUBSET Nat
    OBVIOUS
  <1>1. PICK x \in Out : \A y \in Out : x <= y
    BY <1>0, Smallest
  <1>2. x # 0 /\ x - 1 \in 0..(n - 1) /\ x - 1 \notin Out
    BY <1>1
  <1>3. QED
    BY <1>1, <1>2

LEMMA LargestOf ==
    ASSUME NEW n \in Nat, NEW t \in SUBSET (1..n), t # {}
    PROVE  Max(t) \in t /\ \A y \in t : y <= Max(t)
  <1> DEFINE T == {n - k : k \in t}
  <1>0. \A k \in t : n - k \in Nat
    OBVIOUS
  <1>1. T \in SUBSET Nat /\ T # {}
    BY <1>0
  <1>2. PICK x \in T : \A y \in T : x <= y
    BY <1>1, Smallest
  <1>3. PICK k \in t : x = n - k
    BY <1>2
  <1>4. ASSUME NEW m \in t PROVE k >= m
    <2>1. n - m \in T
      OBVIOUS
    <2>2. QED
      BY <1>2, <1>3, <2>1
  <1>5. \E y \in t : \A m \in t : y >= m
    BY <1>4
  <1>6. Max(t) \in t /\ \A m \in t : Max(t) >= m
    BY <1>5 DEF Max
  <1>7. QED
    BY <1>6

-----------------------------------------------------------------------------
(***************************************************************************)
(* Folds.  The library defines them by a recursive function on sets of     *)
(* positions.  It exists, and its values for 1..i are those of a run.      *)
(***************************************************************************)
\* A variable of type X, set to base and then by delta for each y of Y.
IsLoop(X, Y, base, delta) == base \in X /\ delta \in [X \X Y -> X]

IsFold(g, base, delta, m) ==
    \A t \in SUBSET (1..m) :
        g[t] = IF t = {} THEN base ELSE delta[<<g[t \ {Max(t)}], Max(t)>>]

LEMMA FoldExists ==
    ASSUME NEW X, NEW n \in Nat, NEW base, NEW delta, IsLoop(X, 1..n, base, delta)
    PROVE  \E g \in [SUBSET (1..n) -> X] : IsFold(g, base, delta, n)
  <1> USE DEF IsLoop
  <1> DEFINE T == {m \in 0..n : \E g \in [SUBSET (1..m) -> X] : IsFold(g, base, delta, m)}
  <1>1. 0 \in T
    <2> DEFINE g == [t \in SUBSET (1..0) |-> base]
    <2>1. 1..0 = {}
      OBVIOUS
    <2>2. g \in [SUBSET (1..0) -> X] /\ \A t \in SUBSET (1..0) : t = {} /\ g[t] = base
      BY <2>1
    <2>3. g \in [SUBSET (1..0) -> X] /\ IsFold(g, base, delta, 0)
      BY <2>2 DEF IsFold
    <2>4. \E f \in [SUBSET (1..0) -> X] : IsFold(f, base, delta, 0)
      <3> HIDE DEF g
      <3>1. QED
        BY <2>3
    <2>5. 0 \in 0..n
      OBVIOUS
    <2>6. QED
      BY <2>4, <2>5
  <1>2. ASSUME NEW m \in 0..(n - 1), m \in T PROVE m + 1 \in T
    <2>1. PICK g \in [SUBSET (1..m) -> X] : IsFold(g, base, delta, m)
      BY <1>2
    <2> DEFINE h == [t \in SUBSET (1..(m + 1)) |->
                       IF m + 1 \in t THEN delta[<<g[t \ {m + 1}], m + 1>>] ELSE g[t]]
    <2>2. \A t \in SUBSET (1..(m + 1)) :
             /\ t \ {m + 1} \in SUBSET (1..m)
             /\ m + 1 \notin t => t \in SUBSET (1..m)
      OBVIOUS
    <2>3. h \in [SUBSET (1..(m + 1)) -> X]
      <3> SUFFICES ASSUME NEW t \in SUBSET (1..(m + 1)) PROVE h[t] \in X
        OBVIOUS
      <3>1. m + 1 \in 1..n /\ g[t \ {m + 1}] \in X /\ (m + 1 \notin t => g[t] \in X)
        BY <2>2
      <3>2. QED
        BY <3>1
    <2>4. ASSUME NEW t \in SUBSET (1..(m + 1))
          PROVE  h[t] = IF t = {} THEN base ELSE delta[<<h[t \ {Max(t)}], Max(t)>>]
      <3>1. CASE m + 1 \in t
        <4>1. Max(t) = m + 1
          <5>1. m + 1 \in Nat /\ t \in SUBSET (1..(m + 1)) /\ t # {}
            BY <3>1
          <5>2. Max(t) \in t /\ m + 1 <= Max(t)
            BY <3>1, <5>1, LargestOf
          <5>3. Max(t) \in 1..(m + 1)
            BY <5>1, <5>2
          <5>4. QED
            BY <5>2, <5>3
        <4>2. t \ {m + 1} \in SUBSET (1..(m + 1)) /\ m + 1 \notin t \ {m + 1}
          OBVIOUS
        <4>3. h[t \ {m + 1}] = g[t \ {m + 1}]
          BY <4>2
        <4>4. QED
          BY <3>1, <4>1, <4>3
      <3>2. CASE m + 1 \notin t
        <4>1. t \in SUBSET (1..m) /\ h[t] = g[t]
          BY <2>2, <3>2
        <4>2. t \ {Max(t)} \in SUBSET (1..(m + 1)) /\ m + 1 \notin t \ {Max(t)}
          BY <3>2
        <4>3. h[t \ {Max(t)}] = g[t \ {Max(t)}]
          BY <4>2
        <4>4. QED
          BY <2>1, <4>1, <4>3 DEF IsFold
      <3>3. QED
        BY <3>1, <3>2
    <2>5. IsFold(h, base, delta, m + 1)
      BY <2>4 DEF IsFold
    <2>6. \E f \in [SUBSET (1..(m + 1)) -> X] : IsFold(f, base, delta, m + 1)
      <3> HIDE DEF h
      <3>1. QED
        BY <2>3, <2>5
    <2>7. m + 1 \in 0..n
      OBVIOUS
    <2>8. QED
      BY <2>6, <2>7
  <1>3. \A m \in 0..n : m \in T
    <2> HIDE DEF T
    <2>1. QED
      BY <1>1, <1>2, Induction
  <1>4. n \in T
    <2> HIDE DEF T
    <2>1. QED
      BY <1>3
  <1>5. QED
    BY <1>4

\* The set-indexed function is followed from 1..0 up to 1..n.
Folds(g, X, base, delta, n) ==
    /\ g[{}] = base
    /\ \A t \in SUBSET (1..n) :
          t # {} /\ g[t \ {Max(t)}] \in X => g[t] = delta[<<g[t \ {Max(t)}], Max(t)>>]

\* The values of g for 1..i.
Leads(at, g, base, delta, n) ==
    /\ \A i \in 0..n : at[i] = g[1..i]
    /\ at[0] = base
    /\ \A i \in 1..n : at[i] = delta[<<at[i - 1], i>>]

LEMMA FoldRun ==
    ASSUME NEW X, NEW n \in Nat, NEW base, NEW delta, IsLoop(X, 1..n, base, delta), NEW g,
           Folds(g, X, base, delta, n)
    PROVE  \E at \in [0..n -> X] : Leads(at, g, base, delta, n)
  <1> USE DEF IsLoop, Folds
  <1> DEFINE T == {i \in 0..n : g[1..i] \in X}
             at == [i \in 0..n |-> g[1..i]]
  <1>0. 1..0 = {}
    OBVIOUS
  <1>1. ASSUME NEW i \in 1..n, g[1..(i - 1)] \in X
        PROVE  g[1..i] \in X /\ g[1..i] = delta[<<g[1..(i - 1)], i>>]
    <2>1. 1..i \in SUBSET (1..n) /\ i \in 1..i /\ (1..i) \ {i} = 1..(i - 1)
      OBVIOUS
    <2>2. Max(1..i) = i
      <3>1. Max(1..i) \in 1..i /\ i <= Max(1..i)
        BY <2>1, LargestOf
      <3>2. QED
        BY <3>1
    <2>3. QED
      BY <1>1, <2>1, <2>2
  <1>2. 0 \in T
    BY <1>0
  <1>3. ASSUME NEW i \in 0..(n - 1), i \in T PROVE i + 1 \in T
    <2>1. i + 1 \in 1..n /\ i + 1 \in 0..n /\ (i + 1) - 1 = i /\ g[1..i] \in X
      BY <1>3
    <2>2. g[1..(i + 1)] \in X
      BY <1>1, <2>1
    <2>3. QED
      BY <2>1, <2>2
  <1>4. \A i \in 0..n : i \in T
    <2> HIDE DEF T
    <2>1. QED
      BY <1>2, <1>3, Induction
  <1>5. at \in [0..n -> X] /\ at[0] = base
    BY <1>0, <1>4
  <1>6. \A i \in 1..n : at[i] = delta[<<at[i - 1], i>>]
    <2> SUFFICES ASSUME NEW i \in 1..n PROVE at[i] = delta[<<at[i - 1], i>>]
      OBVIOUS
    <2>1. i - 1 \in 0..n /\ g[1..(i - 1)] \in X
      BY <1>4
    <2>2. QED
      BY <1>1, <2>1
  <1>7. Leads(at, g, base, delta, n)
    BY <1>5, <1>6 DEF Leads
  <1>8. QED
    BY <1>5, <1>7

-----------------------------------------------------------------------------
(***************************************************************************)
(* What a loop over a sequence leaves in its variables.                    *)
(***************************************************************************)
Run(base, delta, s) ==
    LET at[i \in 0..Len(s)] == IF i = 0 THEN base ELSE delta[<<at[i - 1], s[i]>>]
    IN  at[Len(s)]

RunsTo(at, base, delta, s, m) ==
    at[0] = base /\ \A i \in 1..m : at[i] = delta[<<at[i - 1], s[i]>>]

IsRun(at, base, delta, s) == RunsTo(at, base, delta, s, Len(s))

LEMMA RunExists ==
    ASSUME NEW X, NEW Y, NEW base, NEW delta, IsLoop(X, Y, base, delta), NEW s \in Seq(Y)
    PROVE  \E at \in [0..Len(s) -> X] : IsRun(at, base, delta, s)
  <1> DEFINE n == Len(s)
             step == [p \in X \X (1..n) |-> delta[<<p[1], s[p[2]]>>]]
  <1>1. n \in Nat /\ IsLoop(X, 1..n, base, step)
    BY DEF IsLoop
  <1>2. \A x \in X, i \in 1..n : step[<<x, i>>] = delta[<<x, s[i]>>]
    OBVIOUS
  <1> HIDE DEF step
  <1>3. PICK g \in [SUBSET (1..n) -> X] : IsFold(g, base, step, n)
    BY <1>1, FoldExists
  <1>4. PICK at \in [0..n -> X] : Leads(at, g, base, step, n)
    <2>1. Folds(g, X, base, step, n)
      BY <1>3 DEF IsFold, Folds
    <2> HIDE DEF n
    <2>2. QED
      BY <1>1, <2>1, FoldRun
  <1>5. IsRun(at, base, delta, s)
    <2>1. \A i \in 1..n : i - 1 \in 0..n
      OBVIOUS
    <2>2. QED
      BY <1>2, <1>4, <2>1 DEF IsRun, RunsTo, Leads
  <1>6. QED
    BY <1>4, <1>5

LEMMA RunUnique ==
    ASSUME NEW base, NEW delta, NEW Y, NEW s \in Seq(Y), NEW m \in 0..Len(s),
           NEW a, RunsTo(a, base, delta, s, m), NEW b, RunsTo(b, base, delta, s, m)
    PROVE  a[m] = b[m]
  <1> USE DEF RunsTo
  <1> DEFINE T == {i \in 0..m : a[i] = b[i]}
  <1>1. 0 \in T /\ m \in Nat
    OBVIOUS
  <1>2. ASSUME NEW i \in 0..(m - 1), i \in T PROVE i + 1 \in T
    <2>1. i + 1 \in 1..m /\ (i + 1) - 1 = i
      OBVIOUS
    <2>2. a[i + 1] = delta[<<a[i], s[i + 1]>>] /\ b[i + 1] = delta[<<b[i], s[i + 1]>>]
      BY <2>1
    <2>3. QED
      BY <1>2, <2>1, <2>2
  <1>3. \A i \in 0..m : i \in T
    <2> HIDE DEF T
    <2>1. QED
      BY <1>1, <1>2, Induction
  <1>4. m \in 0..m
    BY <1>1
  <1>5. QED
    BY <1>3, <1>4

LEMMA RunAt ==
    ASSUME NEW X, NEW Y, NEW base, NEW delta, IsLoop(X, Y, base, delta), NEW s \in Seq(Y)
    PROVE  \E at \in [0..Len(s) -> X] :
               IsRun(at, base, delta, s) /\ Run(base, delta, s) = at[Len(s)]
  <1> DEFINE Eq(f) == f = [i \in 0..Len(s) |-> IF i = 0 THEN base ELSE delta[<<f[i - 1], s[i]>>]]
  <1>1. PICK at \in [0..Len(s) -> X] : IsRun(at, base, delta, s)
    BY RunExists
  <1>2. Eq(at)
    BY <1>1 DEF IsRun, RunsTo
  <1>3. Eq(CHOOSE f : Eq(f))
    BY <1>2
  <1>4. Run(base, delta, s) = (CHOOSE f : Eq(f))[Len(s)]
    BY DEF Run
  <1>5. ASSUME NEW f, Eq(f) PROVE f[Len(s)] = at[Len(s)]
    <2>1. RunsTo(f, base, delta, s, Len(s))
      BY <1>5 DEF RunsTo
    <2>2. Len(s) \in 0..Len(s)
      OBVIOUS
    <2> HIDE DEF Eq
    <2>3. QED
      BY <1>1, <2>1, <2>2, RunUnique DEF IsRun
  <1> HIDE DEF Eq
  <1>6. QED
    BY <1>1, <1>3, <1>4, <1>5

\* A loop goes on from where it was.
LEMMA RunSteps ==
    ASSUME NEW X, NEW Y, NEW base, NEW delta, IsLoop(X, Y, base, delta)
    PROVE  /\ Run(base, delta, <<>>) = base
           /\ \A s \in Seq(Y) : Run(base, delta, s) \in X
           /\ \A s \in Seq(Y), y \in Y :
                 Run(base, delta, Append(s, y)) = delta[<<Run(base, delta, s), y>>]
  <1>1. Run(base, delta, <<>>) = base
    <2>1. <<>> \in Seq(Y) /\ Len(<<>>) = 0
      OBVIOUS
    <2>2. ASSUME NEW s \in Seq(Y), Len(s) = 0 PROVE Run(base, delta, s) = base
      <3>1. PICK at \in [0..Len(s) -> X] :
               IsRun(at, base, delta, s) /\ Run(base, delta, s) = at[Len(s)]
        BY RunAt
      <3>2. QED
        BY <2>2, <3>1 DEF IsRun, RunsTo
    <2>3. QED
      BY <2>1, <2>2
  <1>2. ASSUME NEW s \in Seq(Y) PROVE Run(base, delta, s) \in X
    <2>1. Len(s) \in 0..Len(s)
      OBVIOUS
    <2>2. QED
      BY <2>1, RunAt
  <1>3. ASSUME NEW s \in Seq(Y), NEW y \in Y
        PROVE  Run(base, delta, Append(s, y)) = delta[<<Run(base, delta, s), y>>]
    <2> DEFINE z == Append(s, y)
    <2>1. z \in Seq(Y) /\ Len(z) = Len(s) + 1 /\ z[Len(s) + 1] = y /\ \A i \in 1..Len(s) : z[i] = s[i]
      OBVIOUS
    <2>2. Len(s) \in Nat
      OBVIOUS
    <2> HIDE DEF z
    <2>3. PICK a \in [0..Len(s) -> X] :
             IsRun(a, base, delta, s) /\ Run(base, delta, s) = a[Len(s)]
      BY RunAt
    <2>4. PICK b \in [0..Len(z) -> X] :
             IsRun(b, base, delta, z) /\ Run(base, delta, z) = b[Len(z)]
      BY <2>1, RunAt
    <2>5. RunsTo(b, base, delta, s, Len(s))
      BY <2>1, <2>2, <2>4 DEF IsRun, RunsTo
    <2>6. Len(s) \in 0..Len(s)
      OBVIOUS
    <2>7. a[Len(s)] = b[Len(s)]
      BY <2>3, <2>4, <2>5, <2>6, RunUnique DEF IsRun
    <2>8. b[Len(s) + 1] = delta[<<b[Len(s)], y>>]
      <3>1. Len(s) + 1 \in 1..Len(z) /\ (Len(s) + 1) - 1 = Len(s)
        BY <2>1, <2>2
      <3>2. QED
        BY <2>1, <2>4, <3>1 DEF IsRun, RunsTo
    <2>9. QED
      BY <2>1, <2>3, <2>4, <2>7, <2>8 DEF z
  <1>4. QED
    BY <1>1, <1>2, <1>3

FoldsSeq(g, base, delta, s) ==
    \A t \in SUBSET (1..Len(s)) :
        g[t] = IF t = {} THEN base ELSE delta[<<g[t \ {Max(t)}], s[Max(t)]>>]

FoldsWithin(g, X, base, delta, s) ==
    /\ g[{}] = base
    /\ \A t \in SUBSET (1..Len(s)) :
          t # {} /\ g[t \ {Max(t)}] \in X => g[t] = delta[<<g[t \ {Max(t)}], s[Max(t)]>>]

\* The folds of the library are such loops.
LEMMA FoldIsRun ==
    ASSUME NEW X, NEW Y, NEW base, NEW delta, IsLoop(X, Y, base, delta), NEW s \in Seq(Y),
           NEW g, FoldsWithin(g, X, base, delta, s)
    PROVE  g[1..Len(s)] = Run(base, delta, s)
  <1> USE DEF FoldsWithin
  <1> DEFINE n == Len(s)
             step == [p \in X \X (1..n) |-> delta[<<p[1], s[p[2]]>>]]
  <1>1. n \in Nat /\ IsLoop(X, 1..n, base, step)
    BY DEF IsLoop
  <1>2. \A x \in X, i \in 1..n : step[<<x, i>>] = delta[<<x, s[i]>>]
    OBVIOUS
  <1> HIDE DEF step
  <1>3. ASSUME NEW t \in SUBSET (1..n), t # {}, g[t \ {Max(t)}] \in X
        PROVE  g[t] = step[<<g[t \ {Max(t)}], Max(t)>>]
    <2>1. Max(t) \in 1..n
      BY <1>1, <1>3, LargestOf
    <2>2. QED
      BY <1>2, <1>3, <2>1
  <1>4. PICK at \in [0..n -> X] : Leads(at, g, base, step, n)
    <2>1. Folds(g, X, base, step, n)
      BY <1>3 DEF Folds
    <2> HIDE DEF n
    <2>2. QED
      BY <1>1, <2>1, FoldRun
  <1>5. \A i \in 1..n : at[i] = delta[<<at[i - 1], s[i]>>]
    <2>1. \A i \in 1..n : i - 1 \in 0..n
      OBVIOUS
    <2>2. QED
      BY <1>2, <1>4, <2>1 DEF Leads
  <1>6. PICK b \in [0..n -> X] : IsRun(b, base, delta, s) /\ Run(base, delta, s) = b[n]
    BY RunAt
  <1>7. n \in 0..n
    OBVIOUS
  <1>8. at[n] = b[n]
    <2>1. RunsTo(at, base, delta, s, n)
      BY <1>4, <1>5 DEF RunsTo, Leads
    <2>2. QED
      BY <1>6, <1>7, <2>1, RunUnique DEF IsRun
  <1>9. at[n] = g[1..n]
    BY <1>4, <1>7 DEF Leads
  <1>10. QED
    BY <1>6, <1>8, <1>9

LEMMA FoldOfLoop ==
    ASSUME NEW X, NEW Y, NEW base, NEW delta, IsLoop(X, Y, base, delta), NEW s \in Seq(Y)
    PROVE  \E g \in [SUBSET (1..Len(s)) -> X] : FoldsSeq(g, base, delta, s)
  <1> DEFINE n == Len(s)
             step == [p \in X \X (1..n) |-> delta[<<p[1], s[p[2]]>>]]
  <1>1. n \in Nat /\ IsLoop(X, 1..n, base, step)
    BY DEF IsLoop
  <1>2. \A x \in X, i \in 1..n : step[<<x, i>>] = delta[<<x, s[i]>>]
    OBVIOUS
  <1> HIDE DEF step
  <1>3. PICK g \in [SUBSET (1..n) -> X] : IsFold(g, base, step, n)
    BY <1>1, FoldExists
  <1>4. ASSUME NEW t \in SUBSET (1..n)
        PROVE  g[t] = IF t = {} THEN base ELSE delta[<<g[t \ {Max(t)}], s[Max(t)]>>]
    <2>1. CASE t = {}
      BY <1>3, <2>1 DEF IsFold
    <2>2. CASE t # {}
      <3>1. Max(t) \in 1..n
        BY <1>1, <2>2, LargestOf
      <3>2. g[t \ {Max(t)}] \in X
        OBVIOUS
      <3>3. QED
        BY <1>2, <1>3, <2>2, <3>1, <3>2 DEF IsFold
    <2>3. QED
      BY <2>1, <2>2
  <1>5. FoldsSeq(g, base, delta, s)
    BY <1>4 DEF FoldsSeq
  <1>6. QED
    BY <1>3, <1>5

-----------------------------------------------------------------------------
(***************************************************************************)
(* Sequences that grow at their end or at their front, and FlattenSeq.     *)
(***************************************************************************)
LEMMA AppendInduction ==
    ASSUME NEW X, NEW T, <<>> \in T,
           \A s \in Seq(X), x \in X : s \in T => Append(s, x) \in T
    PROVE  \A s \in Seq(X) : s \in T
  <1> SUFFICES ASSUME NEW s \in Seq(X) PROVE s \in T
    OBVIOUS
  <1> DEFINE n == Len(s)
             I == {i \in 0..n : SubSeq(s, 1, i) \in T}
  <1>1. n \in Nat /\ 0 \in I
    <2>1. n \in Nat
      OBVIOUS
    <2>2. SubSeq(s, 1, 0) = <<>>
      BY SubSeqEmpty
    <2>3. SubSeq(s, 1, 0) \in T
      BY <2>2, Zenon
    <2>4. 0 \in 0..n
      BY <2>1
    <2> HIDE DEF n
    <2>5. QED
      BY <2>1, <2>3, <2>4
  <1>2. ASSUME NEW i \in 0..(n - 1), i \in I PROVE i + 1 \in I
    <2>1. SubSeq(s, 1, i) \in Seq(X) /\ s[i + 1] \in X /\ i + 1 \in 0..n
      OBVIOUS
    <2>2. SubSeq(s, 1, i + 1) = Append(SubSeq(s, 1, i), s[i + 1])
      OBVIOUS
    <2>3. QED
      BY <1>2, <2>1, <2>2
  <1>3. \A i \in 0..n : i \in I
    <2> HIDE DEF I
    <2>1. QED
      BY <1>1, <1>2, Induction
  <1>4. SubSeq(s, 1, n) \in T /\ SubSeq(s, 1, n) = s
    BY <1>1, <1>3
  <1>5. QED
    BY <1>4

LEMMA FrontInduction ==
    ASSUME NEW X, NEW T, <<>> \in T,
           \A s \in Seq(X), x \in X : s \in T => Cons(x, s) \in T
    PROVE  \A s \in Seq(X) : s \in T
  <1> SUFFICES ASSUME NEW s \in Seq(X) PROVE s \in T
    OBVIOUS
  <1> DEFINE n == Len(s)
             I == {i \in 0..n : SubSeq(s, n - i + 1, n) \in T}
  <1>1. n \in Nat /\ 0 \in I
    <2>1. n - 0 + 1 \in Int /\ n \in Int /\ n < n - 0 + 1 /\ 0 \in 0..n
      OBVIOUS
    <2>2. SubSeq(s, n - 0 + 1, n) = <<>>
      <3> HIDE DEF n
      <3>1. QED
        BY <2>1, SubSeqEmpty
    <2>3. SubSeq(s, n - 0 + 1, n) \in T
      BY <2>2
    <2> HIDE DEF n
    <2>4. QED
      BY <2>1, <2>3
  <1>2. ASSUME NEW i \in 0..(n - 1), i \in I PROVE i + 1 \in I
    <2>1. SubSeq(s, n - i + 1, n) \in Seq(X) /\ s[n - i] \in X /\ i + 1 \in 0..n
      OBVIOUS
    <2>2. SubSeq(s, n - (i + 1) + 1, n) = Cons(s[n - i], SubSeq(s, n - i + 1, n))
      BY DEF Cons
    <2>3. QED
      BY <1>2, <2>1, <2>2
  <1>3. \A i \in 0..n : i \in I
    <2> HIDE DEF I
    <2>1. QED
      BY <1>1, <1>2, Induction
  <1>4. SubSeq(s, n - n + 1, n) \in T /\ SubSeq(s, n - n + 1, n) = s
    BY <1>1, <1>3
  <1>5. QED
    BY <1>4

LEMMA FirstAndRest ==
    ASSUME NEW X, NEW s \in Seq(X), s # <<>>
    PROVE  \E x \in X, t \in Seq(X) : s = Cons(x, t) /\ Len(s) = Len(t) + 1
  <1>1. s = Cons(s[1], SubSeq(s, 2, Len(s))) /\ s[1] \in X /\ SubSeq(s, 2, Len(s)) \in Seq(X)
    BY DEF Cons
  <1>2. Len(s) = Len(SubSeq(s, 2, Len(s))) + 1
    <2>1. Len(s) \in Nat \ {0} /\ \A i \in 2..Len(s) : s[i] \in X
      OBVIOUS
    <2>2. Len(SubSeq(s, 2, Len(s))) = IF 2 <= Len(s) THEN Len(s) - 2 + 1 ELSE 0
      BY <2>1, SubSeqProperties
    <2> DEFINE k == Len(s)
               r == Len(SubSeq(s, 2, k))
    <2> HIDE DEF k, r
    <2>3. r = IF 2 <= k THEN k - 2 + 1 ELSE 0
      BY <2>2 DEF k, r
    <2>4. k \in Nat \ {0}
      BY <2>1 DEF k
    <2>5. k = r + 1
      BY <2>3, <2>4
    <2>6. QED
      BY <2>5 DEF k, r
  <1>3. QED
    BY <1>1, <1>2

LEMMA FirstsAndLast ==
    ASSUME NEW X, NEW s \in Seq(X), s # <<>>
    PROVE  \E x \in X, t \in Seq(X) : s = Append(t, x) /\ Len(s) = Len(t) + 1
  BY SequenceEmptyOrAppend, AppendProperties

LEMMA AppendToConcat ==
    ASSUME NEW X, NEW s \in Seq(X), NEW t \in Seq(X), NEW x \in X
    PROVE  s \o Append(t, x) = Append(s \o t, x)
  OBVIOUS

FirstOf(s) == s[1]
RestOf(s) == SubSeq(s, 2, Len(s))

LEMMA ConsProperties ==
    ASSUME NEW X, NEW x \in X, NEW s \in Seq(X)
    PROVE  /\ Cons(x, s) \in Seq(X) /\ Cons(x, s) # <<>> /\ Len(Cons(x, s)) = Len(s) + 1
           /\ FirstOf(Cons(x, s)) = x /\ RestOf(Cons(x, s)) = s
           /\ Cons(x, s) = <<x>> \o s
           /\ \A i \in 1..Len(s) : Cons(x, s)[i + 1] = s[i]
  <1> DEFINE z == <<x>> \o s
  <1>1. z \in Seq(X) /\ Len(z) = Len(s) + 1 /\ z[1] = x /\ Len(s) \in Nat
    OBVIOUS
  <1>2. \A i \in 1..Len(s) : z[i + 1] = s[i]
    OBVIOUS
  <1> DEFINE r == SubSeq(z, 2, Len(z))
  <1> HIDE DEF z
  <1>3. \A i \in 2..Len(z) : z[i] \in X
    BY <1>1
  <1>4. r \in Seq(X) /\ Len(r) = Len(s) /\ \A i \in 1..Len(s) : r[i] = z[i + 1]
    <2>1. 2 \in Int /\ Len(z) \in Int /\ Len(z) - 2 + 1 = Len(s)
      BY <1>1
    <2>2. /\ r \in Seq(X)
          /\ Len(r) = IF 2 <= Len(z) THEN Len(z) - 2 + 1 ELSE 0
          /\ \A i \in 1..(Len(z) - 2 + 1) : r[i] = z[2 + i - 1]
      BY <1>3, <2>1, SubSeqProperties
    <2> HIDE DEF r
    <2>3. Len(r) = Len(s)
      BY <1>1, <2>2
    <2>4. \A i \in 1..Len(s) : 2 + i - 1 = i + 1
      BY <1>1
    <2>5. QED
      BY <2>1, <2>2, <2>3, <2>4
  <1> HIDE DEF r
  <1>5. r = s
    BY <1>2, <1>4, SeqEqual
  <1>6. z # <<>>
    BY <1>1
  <1>7. Cons(x, s) = z /\ FirstOf(z) = z[1] /\ RestOf(z) = r
    BY DEF Cons, FirstOf, RestOf, z, r
  <1>8. QED
    BY <1>1, <1>2, <1>5, <1>6, <1>7 DEF z

LEMMA ConsConcat ==
    ASSUME NEW X, NEW x \in X, NEW s \in Seq(X), NEW t \in Seq(X)
    PROVE  Cons(x, s) \o t = Cons(x, s \o t)
  <1>1. <<x>> \in Seq(X)
    OBVIOUS
  <1>2. (<<x>> \o s) \o t = <<x>> \o (s \o t)
    BY <1>1, ConcatAssociative
  <1>3. QED
    BY <1>2 DEF Cons

LEMMA Pair ==
    ASSUME NEW X, NEW a \in X, NEW b \in X, NEW u \in Seq(X)
    PROVE  <<a, b>> \o u = Cons(a, Cons(b, u))
  <1>1. <<a, b>> = Append(<<a>>, b) /\ <<a>> \in Seq(X) /\ <<b>> \in Seq(X)
    OBVIOUS
  <1>2. Append(<<a>>, b) = <<a>> \o <<b>>
    BY <1>1, AppendIsConcat
  <1> DEFINE B == <<b>>
  <1>3. <<a, b>> = Cons(a, B) /\ B \in Seq(X)
    BY <1>1, <1>2 DEF Cons
  <1> HIDE DEF B
  <1>4. \A t \in Seq(X) : Cons(a, t) \o u = Cons(a, t \o u)
    BY ConsConcat
  <1>5. <<a, b>> \o u = Cons(a, B \o u)
    BY <1>3, <1>4
  <1>6. QED
    BY <1>5 DEF Cons, B

\* The laws in one formula, to be used for one X.
SequenceLaws(X) ==
    /\ <<>> \in Seq(X)
    /\ \A x \in X : <<x>> \in Seq(X)
    /\ \A s, t \in Seq(X) : s \o t \in Seq(X)
    /\ \A s \in Seq(X) : s \o <<>> = s /\ <<>> \o s = s
    /\ \A s, t, u \in Seq(X) : (s \o t) \o u = s \o (t \o u)
    /\ \A s \in Seq(X), x \in X : Append(s, x) \in Seq(X) /\ Append(s, x) = s \o <<x>>
    /\ \A s \in Seq(X) : s # <<>> => \E x \in X, t \in Seq(X) : s = Cons(x, t)
    /\ \A x \in X, s \in Seq(X) : Cons(x, s) \in Seq(X) /\ Cons(x, s) # <<>>
    /\ \A x \in X, s \in Seq(X) : FirstOf(Cons(x, s)) = x /\ RestOf(Cons(x, s)) = s
    /\ \A x \in X, s \in Seq(X) : <<x>> \o s = Cons(x, s)
    /\ \A x \in X, s, t \in Seq(X) : Cons(x, s) \o t = Cons(x, s \o t)
    /\ \A a, b \in X, u \in Seq(X) : <<a, b>> \o u = Cons(a, Cons(b, u))

LEMMA Laws ==
    ASSUME NEW X
    PROVE  SequenceLaws(X)
  <1>1. <<>> \in Seq(X) /\ \A x \in X : <<x>> \in Seq(X)
    OBVIOUS
  <1>2. \A s, t \in Seq(X) : s \o t \in Seq(X)
    OBVIOUS
  <1>3. \A s \in Seq(X) : s \o <<>> = s /\ <<>> \o s = s
    BY ConcatEmptySeq
  <1>4. \A s, t, u \in Seq(X) : (s \o t) \o u = s \o (t \o u)
    BY ConcatAssociative
  <1>5. \A s \in Seq(X), x \in X : Append(s, x) \in Seq(X) /\ Append(s, x) = s \o <<x>>
    BY AppendIsConcat, AppendProperties
  <1>6. \A s \in Seq(X) : s # <<>> => \E x \in X, t \in Seq(X) : s = Cons(x, t)
    BY FirstAndRest
  <1>7. \A x \in X, s \in Seq(X) : Cons(x, s) \in Seq(X) /\ Cons(x, s) # <<>>
    BY ConsProperties
  <1>8. \A x \in X, s \in Seq(X) : FirstOf(Cons(x, s)) = x /\ RestOf(Cons(x, s)) = s
    BY ConsProperties
  <1>9. \A x \in X, s \in Seq(X) : <<x>> \o s = Cons(x, s)
    BY DEF Cons
  <1>10. \A x \in X, s, t \in Seq(X) : Cons(x, s) \o t = Cons(x, s \o t)
    BY ConsConcat
  <1>11. \A a, b \in X, u \in Seq(X) : <<a, b>> \o u = Cons(a, Cons(b, u))
    BY Pair
  <1>12. QED
    BY <1>1, <1>2, <1>3, <1>4, <1>5, <1>6, <1>7, <1>8, <1>9, <1>10, <1>11 DEF SequenceLaws

Concat(X) == [p \in Seq(X) \X Seq(X) |-> p[1] \o p[2]]

LEMMA ConcatLoop ==
    ASSUME NEW X
    PROVE  /\ IsLoop(Seq(X), Seq(X), <<>>, Concat(X))
           /\ \A s, t \in Seq(X) : Concat(X)[<<s, t>>] = s \o t
  <1>1. \A s, t \in Seq(X) : s \o t \in Seq(X) /\ <<s, t>> \in Seq(X) \X Seq(X)
    OBVIOUS
  <1>2. \A p \in Seq(X) \X Seq(X) : p[1] \o p[2] \in Seq(X)
    BY <1>1
  <1>3. \A s, t \in Seq(X) : Concat(X)[<<s, t>>] = s \o t
    BY <1>1 DEF Concat
  <1>4. Concat(X) \in [Seq(X) \X Seq(X) -> Seq(X)]
    BY <1>2 DEF Concat
  <1>5. <<>> \in Seq(X)
    OBVIOUS
  <1>6. IsLoop(Seq(X), Seq(X), <<>>, Concat(X))
    BY <1>4, <1>5 DEF IsLoop
  <1>7. QED
    BY <1>3, <1>6

LEMMA FlattenIsRun ==
    ASSUME NEW X, NEW ss \in Seq(Seq(X))
    PROVE  FlattenSeq(ss) = Run(<<>>, Concat(X), ss)
  <1> DEFINE n == Len(ss)
             Eq(f) == f = [i \in 1..n |-> IF i = 1 THEN ss[i] ELSE f[i - 1] \o ss[i]]
  <1>1. n \in Nat /\ \A i \in 1..n : ss[i] \in Seq(X)
    OBVIOUS
  <1>2. PICK at \in [0..n -> Seq(X)] :
           IsRun(at, <<>>, Concat(X), ss) /\ Run(<<>>, Concat(X), ss) = at[n]
    BY ConcatLoop, RunAt
  <1>3. at[0] = <<>> /\ \A i \in 1..n : at[i] = at[i - 1] \o ss[i]
    <2>1. at[0] = <<>> /\ \A i \in 1..n : at[i] = Concat(X)[<<at[i - 1], ss[i]>>]
      BY <1>2 DEF IsRun, RunsTo
    <2>2. \A i \in 1..n : at[i - 1] \in Seq(X)
      OBVIOUS
    <2> HIDE DEF n
    <2>3. \A i \in 1..n : Concat(X)[<<at[i - 1], ss[i]>>] = at[i - 1] \o ss[i]
      BY <1>1, <2>2, ConcatLoop
    <2>4. QED
      BY <2>1, <2>3
  <1>4. CASE n = 0
    <2>1. FlattenSeq(ss) = ss /\ ss = <<>>
      BY <1>4 DEF FlattenSeq
    <2>2. QED
      BY <1>2, <1>3, <1>4, <2>1
  <1>5. CASE n # 0
    <2> DEFINE f0 == [i \in 1..n |-> at[i]]
    <2>1. Eq(f0)
      <3> SUFFICES ASSUME NEW i \in 1..n
                   PROVE  at[i] = IF i = 1 THEN ss[i] ELSE f0[i - 1] \o ss[i]
        OBVIOUS
      <3>0. at[i] = at[i - 1] \o ss[i]
        BY <1>3
      <3>1. CASE i = 1
        <4>1. at[i] = at[i - 1] \o ss[i] /\ i - 1 = 0
          BY <3>0, <3>1
        <4>2. <<>> \o ss[i] = ss[i]
          BY <1>1, ConcatEmptySeq
        <4>3. at[i] = <<>> \o ss[i]
          BY <1>3, <4>1
        <4>4. QED
          BY <3>1, <4>2, <4>3
      <3>2. CASE i # 1
        <4>1. i - 1 \in 1..n
          BY <3>2
        <4>2. QED
          BY <1>3, <3>2, <4>1
      <3>3. QED
        BY <3>1, <3>2
    <2>2. Eq(CHOOSE f : Eq(f))
      BY <2>1
    <2>3. FlattenSeq(ss) = (CHOOSE f : Eq(f))[n]
      BY <1>5 DEF FlattenSeq
    <2>4. ASSUME NEW f, Eq(f) PROVE f[n] = at[n]
      <3> DEFINE T == {0} \union {i \in 1..n : f[i] = at[i]}
      <3>1. 0 \in T
        OBVIOUS
      <3>2. ASSUME NEW i \in 0..(n - 1), i \in T PROVE i + 1 \in T
        <4>1. i + 1 \in 1..n /\ (i + 1) - 1 = i
          OBVIOUS
        <4>2. f[i + 1] = IF i = 0 THEN ss[1] ELSE f[i] \o ss[i + 1]
          <5>1. f[i + 1] = IF i + 1 = 1 THEN ss[i + 1] ELSE f[(i + 1) - 1] \o ss[i + 1]
            BY <2>4, <4>1
          <5>2. i + 1 = 1 <=> i = 0
            OBVIOUS
          <5>3. QED
            BY <4>1, <5>1, <5>2
        <4>3. at[i + 1] = at[i] \o ss[i + 1]
          BY <1>3, <4>1
        <4>4. CASE i = 0
          <5>1. at[i + 1] = <<>> \o ss[i + 1]
            BY <1>3, <4>3, <4>4
          <5>2. <<>> \o ss[i + 1] = ss[i + 1]
            BY <1>1, <4>1, ConcatEmptySeq
          <5>3. i + 1 = 1
            BY <4>4
          <5>4. f[i + 1] = ss[i + 1]
            BY <4>2, <4>4, <5>3
          <5>5. QED
            BY <4>1, <5>1, <5>2, <5>4
        <4>5. CASE i # 0
          BY <3>2, <4>1, <4>2, <4>3, <4>5
        <4>6. QED
          BY <4>4, <4>5
      <3>3. \A i \in 0..n : i \in T
        <4> HIDE DEF T, n
        <4>1. QED
          BY <1>1, <3>1, <3>2, Induction
      <3>4. QED
        BY <1>1, <1>5, <3>3
    <2> HIDE DEF Eq
    <2>5. QED
      BY <1>2, <2>2, <2>3, <2>4
  <1>6. QED
    BY <1>4, <1>5

LEMMA FlattenSteps ==
    ASSUME NEW X
    PROVE  /\ FlattenSeq(<<>>) = <<>>
           /\ \A ss \in Seq(Seq(X)) : FlattenSeq(ss) \in Seq(X)
           /\ \A ss \in Seq(Seq(X)), s \in Seq(X) :
                 FlattenSeq(Append(ss, s)) = FlattenSeq(ss) \o s
  <1>1. <<>> \in Seq(Seq(X)) /\ FlattenSeq(<<>>) = <<>>
    BY DEF FlattenSeq
  <1>2. \A ss \in Seq(Seq(X)) : FlattenSeq(ss) \in Seq(X)
    BY FlattenIsRun, ConcatLoop, RunSteps
  <1>3. ASSUME NEW ss \in Seq(Seq(X)), NEW s \in Seq(X)
        PROVE  FlattenSeq(Append(ss, s)) = FlattenSeq(ss) \o s
    <2>1. Append(ss, s) \in Seq(Seq(X))
      OBVIOUS
    <2>2. Run(<<>>, Concat(X), Append(ss, s)) = Concat(X)[<<Run(<<>>, Concat(X), ss), s>>]
      BY ConcatLoop, RunSteps
    <2>3. QED
      <3>1. FlattenSeq(ss) = Run(<<>>, Concat(X), ss) /\ FlattenSeq(ss) \in Seq(X)
        BY <1>2, FlattenIsRun
      <3>2. FlattenSeq(Append(ss, s)) = Run(<<>>, Concat(X), Append(ss, s))
        BY <2>1, FlattenIsRun
      <3>3. Concat(X)[<<FlattenSeq(ss), s>>] = FlattenSeq(ss) \o s
        BY <3>1, ConcatLoop
      <3>4. QED
        BY <2>2, <3>1, <3>2, <3>3
  <1>4. QED
    BY <1>1, <1>2, <1>3

LEMMA FlattenConcat ==
    ASSUME NEW X, NEW ss \in Seq(Seq(X))
    PROVE  \A tt \in Seq(Seq(X)) : FlattenSeq(ss \o tt) = FlattenSeq(ss) \o FlattenSeq(tt)
  <1> DEFINE T == {tt \in Seq(Seq(X)) : FlattenSeq(ss \o tt) = FlattenSeq(ss) \o FlattenSeq(tt)}
  <1>1. <<>> \in T
    <2>1. ss \o <<>> = ss /\ <<>> \in Seq(Seq(X)) /\ FlattenSeq(ss) \in Seq(X)
      BY FlattenSteps
    <2>2. QED
      BY <2>1, FlattenSteps, ConcatEmptySeq
  <1>2. ASSUME NEW tt \in Seq(Seq(X)), NEW t \in Seq(X), tt \in T PROVE Append(tt, t) \in T
    <2>1. ss \o Append(tt, t) = Append(ss \o tt, t) /\ ss \o tt \in Seq(Seq(X)) /\ Append(tt, t) \in Seq(Seq(X))
      OBVIOUS
    <2>2. FlattenSeq(ss) \in Seq(X) /\ FlattenSeq(tt) \in Seq(X)
      BY FlattenSteps
    <2>3. FlattenSeq(Append(ss \o tt, t)) = (FlattenSeq(ss) \o FlattenSeq(tt)) \o t
      BY <1>2, <2>1, FlattenSteps
    <2>4. FlattenSeq(Append(tt, t)) = FlattenSeq(tt) \o t
      BY FlattenSteps
    <2>5. (FlattenSeq(ss) \o FlattenSeq(tt)) \o t = FlattenSeq(ss) \o (FlattenSeq(tt) \o t)
      BY <2>2, ConcatAssociative
    <2>6. FlattenSeq(ss \o Append(tt, t)) = FlattenSeq(ss) \o FlattenSeq(Append(tt, t))
      BY <2>1, <2>3, <2>4, <2>5
    <2>7. QED
      BY <2>1, <2>6
  <1>3. \A tt \in Seq(Seq(X)) : tt \in T
    <2> HIDE DEF T
    <2>1. QED
      BY <1>1, <1>2, AppendInduction
  <1>4. QED
    BY <1>3

LEMMA FlattenOne ==
    ASSUME NEW X, NEW s \in Seq(X)
    PROVE  FlattenSeq(<<s>>) = s
  <1>1. <<s>> = Append(<<>>, s) /\ <<>> \in Seq(Seq(X))
    OBVIOUS
  <1>2. FlattenSeq(<<s>>) = FlattenSeq(<<>>) \o s
    BY <1>1, FlattenSteps
  <1>3. QED
    BY <1>2, FlattenSteps, ConcatEmptySeq

-----------------------------------------------------------------------------
(***************************************************************************)
(* Escaping, one character at a time.                                      *)
(***************************************************************************)
Char == Letters \union {Separator, Escape}

Spelling(x, char, by) == IF x = char THEN by ELSE <<x>>

\* Spelled goes through a text character by character.
SpellsOut(X, char, by) ==
    /\ Spelled(<<>>, char, by) = <<>>
    /\ \A s \in Seq(X) : Spelled(s, char, by) \in Seq(X)
    /\ \A x \in X : Spelled(<<x>>, char, by) = Spelling(x, char, by)
    /\ \A s, t \in Seq(X) : Spelled(s \o t, char, by) = Spelled(s, char, by) \o Spelled(t, char, by)

LEMMA SpelledSteps ==
    ASSUME NEW X, NEW char, NEW by \in Seq(X)
    PROVE  SpellsOut(X, char, by)
  <1> DEFINE Sp(u) == Spelled(u, char, by)
             Spc(x) == Spelling(x, char, by)
             Parts(s) == [n \in DOMAIN s |-> IF s[n] = char THEN by ELSE <<s[n]>>]
  <1>0. \A x \in X : Spc(x) \in Seq(X)
    BY DEF Spelling
  <1>1. ASSUME NEW s \in Seq(X) PROVE Parts(s) \in Seq(Seq(X)) /\ Len(Parts(s)) = Len(s)
    <2>1. Len(s) \in Nat /\ DOMAIN s = 1..Len(s) /\ \A n \in 1..Len(s) : s[n] \in X
      OBVIOUS
    <2>2. \A n \in 1..Len(s) : (IF s[n] = char THEN by ELSE <<s[n]>>) \in Seq(X)
      BY <2>1
    <2>3. Parts(s) \in [1..Len(s) -> Seq(X)]
      BY <2>1, <2>2
    <2> HIDE DEF Parts
    <2>4. QED
      BY <2>1, <2>3
  <1>2. Parts(<<>>) = <<>>
    OBVIOUS
  <1>3. ASSUME NEW s \in Seq(X), NEW x \in X
        PROVE  Parts(Append(s, x)) = Append(Parts(s), Spc(x))
    <2>1. Append(s, x) \in Seq(X) /\ Spc(x) \in Seq(X)
      BY <1>0
    <2>2. Append(Parts(s), Spc(x)) \in Seq(Seq(X)) /\ Parts(Append(s, x)) \in Seq(Seq(X))
      <3> HIDE DEF Parts, Spc
      <3>1. Parts(s) \in Seq(Seq(X)) /\ Parts(Append(s, x)) \in Seq(Seq(X))
        BY <1>1, <2>1
      <3>2. QED
        BY <2>1, <3>1, AppendProperties
    <2>3. Len(Parts(Append(s, x))) = Len(s) + 1 /\ Len(Append(Parts(s), Spc(x))) = Len(s) + 1
      <3> HIDE DEF Parts, Spc
      <3>1. Len(Append(s, x)) = Len(s) + 1
        OBVIOUS
      <3>2. Len(Parts(Append(s, x))) = Len(s) + 1
        BY <1>1, <2>1, <3>1
      <3>3. Len(Append(Parts(s), Spc(x))) = Len(Parts(s)) + 1
        BY <1>1, <2>1, AppendProperties
      <3>4. QED
        BY <1>1, <3>2, <3>3
    <2>4. ASSUME NEW i \in 1..(Len(s) + 1)
          PROVE  Parts(Append(s, x))[i] = Append(Parts(s), Spc(x))[i]
      <3> DEFINE u == Append(s, x)
      <3>1. i \in DOMAIN u /\ u[i] = IF i = Len(s) + 1 THEN x ELSE s[i]
        OBVIOUS
      <3>2. Parts(u)[i] = IF u[i] = char THEN by ELSE <<u[i]>>
        BY <3>1
      <3>3. CASE i = Len(s) + 1
        <4>1. Parts(u)[i] = Spc(x)
          BY <3>1, <3>2, <3>3 DEF Spelling
        <4>2. Append(Parts(s), Spc(x))[Len(Parts(s)) + 1] = Spc(x)
          <5> HIDE DEF Parts, Spc
          <5>1. QED
            BY <1>1, <2>1, AppendProperties
        <4> HIDE DEF Parts, Spc
        <4>3. QED
          BY <1>1, <3>3, <4>1, <4>2
      <3>4. CASE i # Len(s) + 1
        <4>1. i \in 1..Len(s) /\ i \in DOMAIN s
          BY <3>4
        <4>2. Parts(u)[i] = Parts(s)[i]
          BY <3>1, <3>2, <3>4, <4>1
        <4>3. Append(Parts(s), Spc(x))[i] = Parts(s)[i]
          <5> HIDE DEF Parts, Spc
          <5>1. i \in 1..Len(Parts(s))
            BY <1>1, <4>1
          <5>2. QED
            BY <1>1, <2>1, <5>1, AppendProperties
        <4>4. QED
          BY <4>2, <4>3
      <3>5. QED
        BY <3>3, <3>4
    <2> HIDE DEF Parts, Spc
    <2>5. QED
      BY <2>2, <2>3, <2>4, SeqEqual
  <1>4. \A s : Sp(s) = FlattenSeq(Parts(s))
    BY DEF Spelled
  <1> HIDE DEF Parts, Sp, Spc
  <1>5. Sp(<<>>) = <<>>
    BY <1>2, <1>4, FlattenSteps
  <1>6. \A s \in Seq(X) : Sp(s) \in Seq(X)
    BY <1>1, <1>4, FlattenSteps
  <1>7. ASSUME NEW s \in Seq(X), NEW x \in X PROVE Sp(Append(s, x)) = Sp(s) \o Spc(x)
    <2>1. FlattenSeq(Append(Parts(s), Spc(x))) = FlattenSeq(Parts(s)) \o Spc(x)
      BY <1>0, <1>1, FlattenSteps
    <2>2. QED
      BY <1>3, <1>4, <2>1
  <1>8. ASSUME NEW x \in X PROVE Sp(<<x>>) = Spc(x)
    <2>1. <<x>> = Append(<<>>, x) /\ <<>> \in Seq(X)
      OBVIOUS
    <2>2. Sp(Append(<<>>, x)) = <<>> \o Spc(x)
      BY <1>5, <1>7, <2>1
    <2>3. QED
      BY <1>0, <2>1, <2>2, ConcatEmptySeq
  <1>9. ASSUME NEW s \in Seq(X) PROVE \A t \in Seq(X) : Sp(s \o t) = Sp(s) \o Sp(t)
    <2> DEFINE T == {t \in Seq(X) : Sp(s \o t) = Sp(s) \o Sp(t)}
    <2>1. <<>> \in T
      <3>1. s \o <<>> = s /\ <<>> \in Seq(X) /\ Sp(s) \o <<>> = Sp(s)
        BY <1>6, ConcatEmptySeq
      <3>2. QED
        BY <1>5, <3>1
    <2>2. ASSUME NEW t \in Seq(X), NEW x \in X, t \in T PROVE Append(t, x) \in T
      <3>1. s \o t \in Seq(X) /\ Append(t, x) \in Seq(X) /\ s \o Append(t, x) = Append(s \o t, x)
        OBVIOUS
      <3>2. Sp(Append(s \o t, x)) = (Sp(s) \o Sp(t)) \o Spc(x)
        BY <1>7, <2>2, <3>1
      <3>3. Sp(Append(t, x)) = Sp(t) \o Spc(x)
        BY <1>7
      <3>4. (Sp(s) \o Sp(t)) \o Spc(x) = Sp(s) \o (Sp(t) \o Spc(x))
        <4>1. Sp(s) \in Seq(X) /\ Sp(t) \in Seq(X) /\ Spc(x) \in Seq(X)
          BY <1>0, <1>6
        <4>2. QED
          BY <4>1, ConcatAssociative
      <3>5. Sp(s \o Append(t, x)) = Sp(s) \o Sp(Append(t, x))
        BY <3>1, <3>2, <3>3, <3>4
      <3>6. QED
        BY <3>1, <3>5
    <2> HIDE DEF T
    <2>3. \A t \in Seq(X) : t \in T
      BY <2>1, <2>2, AppendInduction
    <2>4. QED
      BY <2>3 DEF T
  <1>10. QED
    BY <1>5, <1>6, <1>8, <1>9 DEF SpellsOut, Sp, Spc

LEMMA CharLaws ==
    /\ <<>> \in Seq(Char)
    /\ \A x \in Char : <<x>> \in Seq(Char)
    /\ \A s, t \in Seq(Char) : s \o t \in Seq(Char)
    /\ \A s \in Seq(Char) : s \o <<>> = s /\ <<>> \o s = s
    /\ \A s, t, u \in Seq(Char) : (s \o t) \o u = s \o (t \o u)
    /\ \A s \in Seq(Char), x \in Char : Append(s, x) \in Seq(Char) /\ Append(s, x) = s \o <<x>>
    /\ \A s \in Seq(Char) : s # <<>> => \E x \in Char, t \in Seq(Char) : s = Cons(x, t)
    /\ \A x \in Char, s \in Seq(Char) : Cons(x, s) \in Seq(Char) /\ Cons(x, s) # <<>>
    /\ \A x \in Char, s \in Seq(Char) : FirstOf(Cons(x, s)) = x /\ RestOf(Cons(x, s)) = s
    /\ \A x \in Char, s \in Seq(Char) : <<x>> \o s = Cons(x, s)
    /\ \A x \in Char, s, t \in Seq(Char) : Cons(x, s) \o t = Cons(x, s \o t)
    /\ \A a, b \in Char, u \in Seq(Char) : <<a, b>> \o u = Cons(a, Cons(b, u))
  <1>1. SequenceLaws(Char)
    BY Laws
  <1>2. QED
    BY <1>1 DEF SequenceLaws

EscapedChar(c) ==
    IF c = Escape THEN <<Escape, Escape>>
    ELSE IF c = Separator THEN <<Escape, Separator>>
    ELSE <<c>>

LEMMA EscapedCharType ==
    ASSUME NEW c \in Char
    PROVE  EscapedChar(c) \in Seq(Char)
  <1>1. Escape \in Char /\ Separator \in Char
    BY DEF Char
  <1>2. <<Escape, Escape>> \in Seq(Char) /\ <<Escape, Separator>> \in Seq(Char) /\ <<c>> \in Seq(Char)
    BY <1>1
  <1>3. QED
    BY <1>2 DEF EscapedChar

LEMMA EscapedSteps ==
    /\ Escaped(<<>>) = <<>>
    /\ \A s \in Seq(Char) : Escaped(s) \in Seq(Char)
    /\ \A s, t \in Seq(Char) : Escaped(s \o t) = Escaped(s) \o Escaped(t)
    /\ \A c \in Char : Escaped(<<c>>) = EscapedChar(c)
  <1> DEFINE EE == <<Escape, Escape>>
             ES == <<Escape, Separator>>
             A(s) == Spelled(s, Escape, EE)
             B(s) == Spelled(s, Separator, ES)
  <1>1. EE \in Seq(Char) /\ ES \in Seq(Char) /\ Escape \in Char /\ Separator \in Char
    BY DEF Char
  <1>2. \A s : Escaped(s) = B(A(s))
    BY DEF Escaped
  <1>3. Escape # Separator
    BY DEF Escape, Separator
  <1>4. EE = <<Escape>> \o <<Escape>> /\ <<Escape>> \in Seq(Char)
    BY <1>1
  <1> HIDE DEF EE, ES
  <1>5. SpellsOut(Char, Escape, EE) /\ SpellsOut(Char, Separator, ES)
    BY <1>1, SpelledSteps
  <1>6. /\ A(<<>>) = <<>>
        /\ \A s \in Seq(Char) : A(s) \in Seq(Char)
        /\ \A x \in Char : A(<<x>>) = Spelling(x, Escape, EE)
        /\ \A s, t \in Seq(Char) : A(s \o t) = A(s) \o A(t)
    BY <1>5 DEF SpellsOut
  <1>7. /\ B(<<>>) = <<>>
        /\ \A s \in Seq(Char) : B(s) \in Seq(Char)
        /\ \A x \in Char : B(<<x>>) = Spelling(x, Separator, ES)
        /\ \A s, t \in Seq(Char) : B(s \o t) = B(s) \o B(t)
    BY <1>5 DEF SpellsOut
  <1> HIDE DEF A, B
  <1>8. Escaped(<<>>) = <<>> /\ \A s \in Seq(Char) : Escaped(s) \in Seq(Char)
    BY <1>2, <1>6, <1>7
  <1>9. ASSUME NEW s \in Seq(Char), NEW t \in Seq(Char) PROVE Escaped(s \o t) = Escaped(s) \o Escaped(t)
    <2>1. A(s \o t) = A(s) \o A(t) /\ A(s) \in Seq(Char) /\ A(t) \in Seq(Char)
      BY <1>6
    <2>2. B(A(s) \o A(t)) = B(A(s)) \o B(A(t))
      BY <1>7, <2>1
    <2>3. QED
      BY <1>2, <2>1, <2>2
  <1>10. ASSUME NEW c \in Char PROVE Escaped(<<c>>) = EscapedChar(c)
    <2>1. Escaped(<<c>>) = B(Spelling(c, Escape, EE))
      BY <1>2, <1>6
    <2>2. CASE c = Escape
      <3>1. B(<<Escape>>) = <<Escape>>
        BY <1>1, <1>3, <1>7 DEF Spelling
      <3>2. B(EE) = EE
        BY <1>4, <1>7, <3>1
      <3>3. QED
        BY <2>1, <2>2, <3>2 DEF Spelling, EscapedChar, EE
    <2>3. CASE c # Escape
      <3>1. Escaped(<<c>>) = Spelling(c, Separator, ES)
        BY <1>7, <2>1, <2>3 DEF Spelling
      <3>2. QED
        BY <2>3, <3>1 DEF Spelling, EscapedChar, ES
    <2>4. QED
      BY <2>2, <2>3
  <1>11. QED
    BY <1>8, <1>9, <1>10

\* What follows is about one character and the rest of the text.
LEMMA EscapedFront ==
    ASSUME NEW c \in Char, NEW s \in Seq(Char)
    PROVE  Escaped(Cons(c, s)) = EscapedChar(c) \o Escaped(s)
  <1>1. <<c>> \in Seq(Char)
    OBVIOUS
  <1>2. Escaped(<<c>> \o s) = EscapedChar(c) \o Escaped(s)
    BY <1>1, EscapedSteps
  <1>3. QED
    BY <1>2 DEF Cons

LEMMA EscapedEnd ==
    ASSUME NEW c \in Char, NEW s \in Seq(Char)
    PROVE  Escaped(Append(s, c)) = Escaped(s) \o EscapedChar(c)
  <1>1. <<c>> \in Seq(Char) /\ Append(s, c) = s \o <<c>>
    OBVIOUS
  <1>2. QED
    BY <1>1, EscapedSteps

-----------------------------------------------------------------------------
(***************************************************************************)
(* Ids: the components behind one another, each behind a separator.        *)
(***************************************************************************)
MapSeq(f, s) == [n \in DOMAIN s |-> f[s[n]]]

MapsOut(X, Y, f) ==
    /\ MapSeq(f, <<>>) = <<>>
    /\ \A s \in Seq(X) : MapSeq(f, s) \in Seq(Y) /\ Len(MapSeq(f, s)) = Len(s)
    /\ \A x \in X : MapSeq(f, <<x>>) = <<f[x]>>
    /\ \A s, t \in Seq(X) : MapSeq(f, s \o t) = MapSeq(f, s) \o MapSeq(f, t)

LEMMA MapSteps ==
    ASSUME NEW X, NEW Y, NEW f \in [X -> Y]
    PROVE  MapsOut(X, Y, f)
  <1> DEFINE M(s) == MapSeq(f, s)
  <1>1. M(<<>>) = <<>>
    BY DEF MapSeq
  <1>2. ASSUME NEW s \in Seq(X)
        PROVE  M(s) \in Seq(Y) /\ Len(M(s)) = Len(s) /\ \A i \in 1..Len(s) : M(s)[i] = f[s[i]]
    <2>1. Len(s) \in Nat /\ DOMAIN s = 1..Len(s) /\ \A n \in 1..Len(s) : s[n] \in X
      OBVIOUS
    <2>2. M(s) \in [1..Len(s) -> Y] /\ \A i \in 1..Len(s) : M(s)[i] = f[s[i]]
      BY <2>1 DEF MapSeq
    <2> HIDE DEF M
    <2>3. QED
      BY <2>1, <2>2
  <1>3. ASSUME NEW x \in X PROVE M(<<x>>) = <<f[x]>>
    <2>1. <<x>> \in Seq(X) /\ Len(<<x>>) = 1 /\ <<x>>[1] = x /\ DOMAIN <<x>> = 1..1
      OBVIOUS
    <2>2. M(<<x>>) = [n \in 1..1 |-> f[<<x>>[n]]]
      BY <2>1 DEF MapSeq
    <2>3. \A n \in 1..1 : n = 1
      OBVIOUS
    <2>4. QED
      BY <2>1, <2>2, <2>3
  <1>4. ASSUME NEW s \in Seq(X), NEW t \in Seq(X) PROVE M(s \o t) = M(s) \o M(t)
    <2> HIDE DEF M
    <2> DEFINE u == s \o t
    <2>1. u \in Seq(X) /\ Len(u) = Len(s) + Len(t) /\ Len(s) \in Nat /\ Len(t) \in Nat
      OBVIOUS
    <2>2. \A i \in 1..(Len(s) + Len(t)) : u[i] = IF i <= Len(s) THEN s[i] ELSE t[i - Len(s)]
      OBVIOUS
    <2>3. M(s) \in Seq(Y) /\ M(t) \in Seq(Y) /\ Len(M(s)) = Len(s) /\ Len(M(t)) = Len(t)
      BY <1>2
    <2> HIDE DEF u
    <2>4. M(u) \in Seq(Y) /\ Len(M(u)) = Len(s) + Len(t) /\ \A i \in 1..Len(u) : M(u)[i] = f[u[i]]
      BY <1>2, <2>1
    <2> DEFINE a == M(s)
               b == M(t)
    <2>5. a \in Seq(Y) /\ b \in Seq(Y)
      BY <2>3
    <2>6. /\ \A i \in 1..Len(s) : a[i] = f[s[i]]
          /\ \A i \in 1..Len(t) : b[i] = f[t[i]]
          /\ Len(a) = Len(s) /\ Len(b) = Len(t)
      BY <1>2, <2>3
    <2> HIDE DEF a, b
    <2>7. a \o b \in Seq(Y) /\ Len(a \o b) = Len(s) + Len(t)
      <3>1. a \o b \in Seq(Y) /\ Len(a \o b) = Len(a) + Len(b)
        BY <2>5, ConcatProperties
      <3>2. QED
        BY <2>6, <3>1
    <2>8. \A i \in 1..(Len(s) + Len(t)) : (a \o b)[i] = IF i <= Len(s) THEN a[i] ELSE b[i - Len(s)]
      BY <2>5, <2>6, ConcatProperties
    <2> DEFINE ab == a \o b
               mu == M(u)
    <2>9. ASSUME NEW i \in 1..(Len(s) + Len(t)) PROVE mu[i] = ab[i]
      <3>1. mu[i] = f[u[i]]
        BY <2>1, <2>4
      <3>2. ab[i] = IF i <= Len(s) THEN a[i] ELSE b[i - Len(s)]
        BY <2>8
      <3>3. u[i] = IF i <= Len(s) THEN s[i] ELSE t[i - Len(s)]
        BY <2>2
      <3> HIDE DEF ab, mu
      <3>4. CASE i <= Len(s)
        <4>1. i \in 1..Len(s)
          BY <3>4
        <4>2. QED
          BY <2>6, <3>1, <3>2, <3>3, <3>4, <4>1
      <3>5. CASE ~(i <= Len(s))
        <4>1. i - Len(s) \in 1..Len(t)
          BY <2>1, <3>5
        <4>2. QED
          BY <2>6, <3>1, <3>2, <3>3, <3>5, <4>1
      <3>6. QED
        BY <3>4, <3>5
    <2>10. M(u) = a \o b
      BY <2>4, <2>7, <2>9, SeqEqual
    <2>11. QED
      BY <2>10 DEF a, b, u
  <1>5. QED
    BY <1>1, <1>2, <1>3, <1>4 DEF MapsOut

Mark == [c \in Seq(Char) |-> <<Separator>> \o c]
Mask == [c \in Seq(Char) |-> Escaped(c)]

Tails(cs) == FlattenSeq(MapSeq(Mark, cs))
EscapedAll(cs) == MapSeq(Mask, cs)

LEMMA MarkType ==
    /\ Separator \in Char /\ Escape \in Char /\ Escape # Separator
    /\ <<Separator>> \in Seq(Char) /\ <<Escape>> \in Seq(Char)
    /\ Mark \in [Seq(Char) -> Seq(Char)] /\ \A c \in Seq(Char) : Mark[c] = <<Separator>> \o c
    /\ Mask \in [Seq(Char) -> Seq(Char)] /\ \A c \in Seq(Char) : Mask[c] = Escaped(c)
  <1>1. Separator \in Char /\ Escape \in Char
    BY DEF Char
  <1>2. Escape # Separator
    BY DEF Escape, Separator
  <1>3. <<Separator>> \in Seq(Char) /\ <<Escape>> \in Seq(Char)
    BY <1>1
  <1>4. \A c \in Seq(Char) : <<Separator>> \o c \in Seq(Char)
    BY <1>3
  <1>5. \A c \in Seq(Char) : Escaped(c) \in Seq(Char)
    BY EscapedSteps
  <1>6. QED
    BY <1>1, <1>2, <1>3, <1>4, <1>5 DEF Mark, Mask

LEMMA TailsSteps ==
    /\ Tails(<<>>) = <<>>
    /\ \A cs \in Seq(Seq(Char)) : Tails(cs) \in Seq(Char)
    /\ \A c \in Seq(Char) : Tails(<<c>>) = <<Separator>> \o c
    /\ \A cs, ds \in Seq(Seq(Char)) : Tails(cs \o ds) = Tails(cs) \o Tails(ds)
  <1> DEFINE M(cs) == MapSeq(Mark, cs)
  <1>1. MapsOut(Seq(Char), Seq(Char), Mark)
    BY MarkType, MapSteps
  <1>2. /\ M(<<>>) = <<>>
        /\ \A cs \in Seq(Seq(Char)) : M(cs) \in Seq(Seq(Char))
        /\ \A c \in Seq(Char) : M(<<c>>) = <<Mark[c]>>
        /\ \A cs, ds \in Seq(Seq(Char)) : M(cs \o ds) = M(cs) \o M(ds)
    BY <1>1 DEF MapsOut
  <1>3. \A cs : Tails(cs) = FlattenSeq(M(cs))
    BY DEF Tails
  <1> HIDE DEF M
  <1>4. Tails(<<>>) = <<>> /\ \A cs \in Seq(Seq(Char)) : Tails(cs) \in Seq(Char)
    BY <1>2, <1>3, FlattenSteps
  <1>5. ASSUME NEW c \in Seq(Char) PROVE Tails(<<c>>) = <<Separator>> \o c
    <2>1. Mark[c] \in Seq(Char) /\ Mark[c] = <<Separator>> \o c
      BY MarkType
    <2>2. FlattenSeq(<<Mark[c]>>) = Mark[c]
      BY <2>1, FlattenOne
    <2>3. QED
      BY <1>2, <1>3, <2>1, <2>2
  <1>6. ASSUME NEW cs \in Seq(Seq(Char)), NEW ds \in Seq(Seq(Char))
        PROVE  Tails(cs \o ds) = Tails(cs) \o Tails(ds)
    <2>1. M(cs) \in Seq(Seq(Char)) /\ M(ds) \in Seq(Seq(Char))
      BY <1>2
    <2>2. FlattenSeq(M(cs) \o M(ds)) = FlattenSeq(M(cs)) \o FlattenSeq(M(ds))
      BY <2>1, FlattenConcat
    <2>3. QED
      BY <1>2, <1>3, <2>2
  <1>7. QED
    BY <1>4, <1>5, <1>6

LEMMA EscapedAllSteps ==
    /\ EscapedAll(<<>>) = <<>>
    /\ \A cs \in Seq(Seq(Char)) :
          EscapedAll(cs) \in Seq(Seq(Char)) /\ Len(EscapedAll(cs)) = Len(cs)
    /\ \A c \in Seq(Char) : EscapedAll(<<c>>) = <<Escaped(c)>>
    /\ \A cs, ds \in Seq(Seq(Char)) : EscapedAll(cs \o ds) = EscapedAll(cs) \o EscapedAll(ds)
  <1>1. MapsOut(Seq(Char), Seq(Char), Mask)
    BY MarkType, MapSteps
  <1>2. \A c \in Seq(Char) : Mask[c] = Escaped(c)
    BY MarkType
  <1>3. QED
    BY <1>1, <1>2 DEF MapsOut, EscapedAll

\* An id is its first component and the others behind it.
LEMMA JoinIs ==
    ASSUME NEW c \in Seq(Char), NEW cs \in Seq(Seq(Char))
    PROVE  Join(<<c>> \o cs) = c \o Tails(cs)
  <1> DEFINE z == <<c>> \o cs
             parts == [n \in DOMAIN z |-> IF n = 1 THEN z[n] ELSE <<Separator>> \o z[n]]
             M == MapSeq(Mark, cs)
  <1>1. z \in Seq(Seq(Char)) /\ Len(z) = Len(cs) + 1 /\ DOMAIN z = 1..(Len(cs) + 1) /\ Len(cs) \in Nat
    OBVIOUS
  <1>2. z[1] = c /\ \A i \in 2..(Len(cs) + 1) : z[i] = cs[i - 1] /\ i - 1 \in 1..Len(cs)
    OBVIOUS
  <1>3. M \in Seq(Seq(Char)) /\ Len(M) = Len(cs)
    <2>1. MapsOut(Seq(Char), Seq(Char), Mark)
      BY MarkType, MapSteps
    <2>2. QED
      BY <2>1 DEF MapsOut
  <1>4. \A i \in 1..Len(cs) : M[i] = <<Separator>> \o cs[i]
    <2>1. DOMAIN cs = 1..Len(cs) /\ \A i \in 1..Len(cs) : cs[i] \in Seq(Char)
      OBVIOUS
    <2>2. \A i \in 1..Len(cs) : M[i] = Mark[cs[i]]
      BY <2>1 DEF MapSeq
    <2>3. QED
      BY <2>1, <2>2, MarkType
  <1>5. Join(z) = FlattenSeq(parts)
    BY DEF Join
  <1>6. parts = <<c>> \o M
    <2> DEFINE w == <<c>> \o M
    <2>1. w \in Seq(Seq(Char)) /\ Len(w) = Len(cs) + 1
      <3> HIDE DEF M
      <3>1. QED
        BY <1>3
    <2>2. w[1] = c /\ \A i \in 2..(Len(cs) + 1) : w[i] = M[i - 1]
      <3> HIDE DEF M
      <3>1. QED
        BY <1>3
    <2>3. \A i \in 1..(Len(cs) + 1) : w[i] = IF i = 1 THEN z[i] ELSE <<Separator>> \o z[i]
      <3> SUFFICES ASSUME NEW i \in 1..(Len(cs) + 1)
                   PROVE  w[i] = IF i = 1 THEN z[i] ELSE <<Separator>> \o z[i]
        OBVIOUS
      <3> HIDE DEF w, M, z
      <3>1. CASE i = 1
        BY <1>2, <2>2, <3>1
      <3>2. CASE i # 1
        <4>1. i \in 2..(Len(cs) + 1)
          BY <3>2
        <4>2. QED
          BY <1>2, <1>4, <2>2, <3>2, <4>1
      <3>3. QED
        BY <3>1, <3>2
    <2>4. w = [i \in 1..(Len(cs) + 1) |-> IF i = 1 THEN z[i] ELSE <<Separator>> \o z[i]]
      <3> HIDE DEF w, z
      <3>1. DOMAIN w = 1..(Len(cs) + 1) /\ w = [i \in DOMAIN w |-> w[i]]
        BY <2>1
      <3>2. QED
        BY <2>3, <3>1
    <2> HIDE DEF w, z
    <2>5. QED
      BY <1>1, <2>4 DEF w
  <1>7. FlattenSeq(<<c>> \o M) = FlattenSeq(<<c>>) \o FlattenSeq(M)
    <2> HIDE DEF M
    <2>1. <<c>> \in Seq(Seq(Char))
      OBVIOUS
    <2>2. QED
      BY <1>3, <2>1, FlattenConcat
  <1> HIDE DEF parts, M
  <1>8. FlattenSeq(<<c>>) = c /\ FlattenSeq(M) = Tails(cs)
    BY FlattenOne DEF Tails, M
  <1>9. QED
    BY <1>5, <1>6, <1>7, <1>8

-----------------------------------------------------------------------------
(***************************************************************************)
(* The end of an escaped component can be told: EscapedChar is a prefix    *)
(* code, and none of its words begins with a separator.                    *)
(***************************************************************************)
Ends(r) == r = <<>> \/ r[1] = Separator

Word(c, u) == EscapedChar(c) \o u

LEMMA EscapedCharBegins ==
    ASSUME NEW c \in Char, NEW u \in Seq(Char)
    PROVE  ~Ends(Word(c, u))
  <1> DEFINE e == EscapedChar(c)
  <1>1. e \in Seq(Char) /\ Len(e) >= 1 /\ e[1] # Separator
    <2>1. CASE c = Escape
      BY <2>1, MarkType, EscapedCharType DEF EscapedChar
    <2>2. CASE c # Escape /\ c = Separator
      BY <2>2, MarkType, EscapedCharType DEF EscapedChar
    <2>3. CASE c # Escape /\ c # Separator
      BY <2>3, MarkType, EscapedCharType DEF EscapedChar
    <2>4. QED
      BY <2>1, <2>2, <2>3
  <1> HIDE DEF e
  <1>2. Len(e \o u) >= 1 /\ (e \o u)[1] = e[1]
    BY <1>1
  <1>3. e \o u # <<>>
    <2>1. Len(<<>>) = 0
      OBVIOUS
    <2>2. QED
      BY <1>2, <2>1
  <1>4. QED
    BY <1>1, <1>2, <1>3 DEF Ends, e, Word

Double(c) == c = Escape \/ c = Separator
Second(c) == IF c = Separator THEN Separator ELSE Escape

LEMMA EscapedCharFront ==
    ASSUME NEW c \in Char, NEW u \in Seq(Char)
    PROVE  /\ Second(c) \in Char
           /\ Double(c) => EscapedChar(c) \o u = Cons(Escape, Cons(Second(c), u))
           /\ ~Double(c) => EscapedChar(c) \o u = Cons(c, u)
  <1>1. Second(c) \in Char /\ Escape \in Char
    BY MarkType DEF Second
  <1>2. CASE Double(c)
    <2>1. EscapedChar(c) = <<Escape, Second(c)>>
      BY <1>2, MarkType DEF EscapedChar, Double, Second
    <2>2. <<Escape, Second(c)>> \o u = Cons(Escape, Cons(Second(c), u))
      BY <1>1, Pair
    <2>3. QED
      BY <1>1, <1>2, <2>1, <2>2
  <1>3. CASE ~Double(c)
    BY <1>1, <1>3 DEF EscapedChar, Double, Cons
  <1>4. QED
    BY <1>2, <1>3

LEMMA EscapedCharSame ==
    \A c, d \in Char, u, v \in Seq(Char) : Word(c, u) = Word(d, v) => c = d /\ u = v
  <1> SUFFICES ASSUME NEW c \in Char, NEW d \in Char, NEW u \in Seq(Char), NEW v \in Seq(Char),
                      Word(c, u) = Word(d, v)
               PROVE  c = d /\ u = v
    OBVIOUS
  <1>1. \A x \in Char, w \in Seq(Char) :
           /\ Double(x) => Word(x, w) = Cons(Escape, Cons(Second(x), w))
           /\ ~Double(x) => Word(x, w) = Cons(x, w)
    BY EscapedCharFront DEF Word
  <1>2. Escape \in Char /\ \A x \in Char : Second(x) \in Char
    BY MarkType DEF Second
  <1>3. \A x \in Char, s \in Seq(Char) :
           Cons(x, s) \in Seq(Char) /\ FirstOf(Cons(x, s)) = x /\ RestOf(Cons(x, s)) = s
    BY CharLaws
  <1>4. CASE Double(c) /\ Double(d)
    <2>1. Cons(Escape, Cons(Second(c), u)) = Cons(Escape, Cons(Second(d), v))
      BY <1>1, <1>4
    <2>2. Cons(Second(c), u) \in Seq(Char) /\ Cons(Second(d), v) \in Seq(Char)
      BY <1>2, <1>3
    <2>3. Cons(Second(c), u) = Cons(Second(d), v)
      BY <1>2, <1>3, <2>1, <2>2
    <2>4. Second(c) = Second(d) /\ u = v
      BY <1>2, <1>3, <2>3
    <2>5. QED
      BY <1>4, <2>4, MarkType DEF Second, Double
  <1>5. CASE Double(c) /\ ~Double(d)
    <2>1. Cons(Escape, Cons(Second(c), u)) = Cons(d, v)
      BY <1>1, <1>5
    <2>2. Escape = d
      BY <1>2, <1>3, <2>1
    <2>3. QED
      BY <1>5, <2>2 DEF Double
  <1>6. CASE ~Double(c) /\ Double(d)
    <2>1. Cons(Escape, Cons(Second(d), v)) = Cons(c, u)
      BY <1>1, <1>6
    <2>2. Escape = c
      BY <1>2, <1>3, <2>1
    <2>3. QED
      BY <1>6, <2>2 DEF Double
  <1>7. CASE ~Double(c) /\ ~Double(d)
    <2>1. Cons(c, u) = Cons(d, v)
      BY <1>1, <1>7
    <2>2. QED
      BY <1>3, <2>1
  <1>8. QED
    BY <1>4, <1>5, <1>6, <1>7

LEMMA EscapedCons ==
    \A c \in Char, x, p \in Seq(Char) :
        /\ Escaped(Cons(c, x)) \o p = Word(c, Escaped(x) \o p)
        /\ Escaped(x) \o p \in Seq(Char)
  <1> SUFFICES ASSUME NEW c \in Char, NEW x \in Seq(Char), NEW p \in Seq(Char)
               PROVE  /\ Escaped(Cons(c, x)) \o p = Word(c, Escaped(x) \o p)
                      /\ Escaped(x) \o p \in Seq(Char)
    OBVIOUS
  <1> DEFINE e == EscapedChar(c)
             y == Escaped(x)
  <1>1. e \in Seq(Char) /\ y \in Seq(Char)
    BY EscapedSteps, EscapedCharType
  <1>2. Escaped(Cons(c, x)) = e \o y
    BY EscapedFront
  <1> HIDE DEF e, y
  <1>3. (e \o y) \o p = e \o (y \o p) /\ y \o p \in Seq(Char)
    BY <1>1, ConcatAssociative, ConcatProperties
  <1>4. QED
    BY <1>2, <1>3 DEF e, y, Word

\* A component and what follows it, up to the next separator or the end.
Same(a) ==
    \A b, r, s \in Seq(Char) :
        Ends(r) /\ Ends(s) /\ Escaped(a) \o r = Escaped(b) \o s => a = b /\ r = s

LEMMA EscapedSame == \A a \in Seq(Char) : Same(a)
  <1> DEFINE T == {a \in Seq(Char) : Same(a)}
  <1>1. \A s \in Seq(Char) : Escaped(<<>>) \o s = s
    BY EscapedSteps, ConcatEmptySeq
  <1>2. \A s \in Seq(Char) : s # <<>> => \E x \in Char, t \in Seq(Char) : s = Cons(x, t)
    BY CharLaws
  <1>3. Same(<<>>)
    <2> SUFFICES ASSUME NEW b \in Seq(Char), NEW r \in Seq(Char), NEW s \in Seq(Char),
                        Ends(r), Ends(s), Escaped(<<>>) \o r = Escaped(b) \o s
                 PROVE  <<>> = b /\ r = s
      BY DEF Same
    <2>1. CASE b = <<>>
      BY <1>1, <2>1
    <2>2. CASE b # <<>>
      <3>1. PICK d \in Char, z \in Seq(Char) : b = Cons(d, z)
        BY <1>2, <2>2
      <3>2. r = Word(d, Escaped(z) \o s) /\ Escaped(z) \o s \in Seq(Char)
        <4>1. Escaped(Cons(d, z)) \o s = Word(d, Escaped(z) \o s) /\ Escaped(z) \o s \in Seq(Char)
          BY EscapedCons
        <4>2. Escaped(<<>>) \o r = r
          BY <1>1
        <4>3. QED
          BY <3>1, <4>1, <4>2
      <3>3. QED
        BY <3>2, EscapedCharBegins
    <2>3. QED
      BY <2>1, <2>2
  <1>4. ASSUME NEW a \in Seq(Char), NEW c \in Char, a \in T PROVE Cons(c, a) \in T
    <2>1. Same(Cons(c, a))
      <3> SUFFICES ASSUME NEW b \in Seq(Char), NEW r \in Seq(Char), NEW s \in Seq(Char),
                          Ends(r), Ends(s), Escaped(Cons(c, a)) \o r = Escaped(b) \o s
                   PROVE  Cons(c, a) = b /\ r = s
        BY DEF Same
      <3> DEFINE u == Escaped(a) \o r
      <3>1. Escaped(Cons(c, a)) \o r = Word(c, u) /\ u \in Seq(Char)
        BY EscapedCons
      <3> HIDE DEF u
      <3>2. CASE b = <<>>
        <4>1. s = Word(c, u)
          BY <1>1, <3>1, <3>2
        <4>2. QED
          BY <3>1, <4>1, EscapedCharBegins
      <3>3. CASE b # <<>>
        <4>1. PICK d \in Char, z \in Seq(Char) : b = Cons(d, z)
          BY <1>2, <3>3
        <4> DEFINE v == Escaped(z) \o s
        <4>2. Escaped(b) \o s = Word(d, v) /\ v \in Seq(Char)
          BY <4>1, EscapedCons
        <4> HIDE DEF v
        <4>3. Word(c, u) = Word(d, v)
          BY <3>1, <4>2
        <4>4. c = d /\ u = v
          BY <3>1, <4>2, <4>3, EscapedCharSame
        <4>5. a = z /\ r = s
          BY <1>4, <4>4 DEF Same, u, v
        <4>6. QED
          BY <4>1, <4>4, <4>5
      <3>4. QED
        BY <3>2, <3>3
    <2>2. Cons(c, a) \in Seq(Char)
      BY CharLaws
    <2>3. QED
      BY <2>1, <2>2
  <1>5. \A a \in Seq(Char) : a \in T
    <2>1. <<>> \in T
      BY <1>3, CharLaws
    <2> HIDE DEF T
    <2>2. QED
      BY <1>4, <2>1, FrontInduction
  <1>6. QED
    BY <1>5

TailsEscaped(cs) == Tails(EscapedAll(cs))

LEMMA TailsCons ==
    \A c \in Seq(Char), cs \in Seq(Seq(Char)) : Tails(Cons(c, cs)) = Cons(Separator, c \o Tails(cs))
  <1> SUFFICES ASSUME NEW c \in Seq(Char), NEW cs \in Seq(Seq(Char))
               PROVE  Tails(Cons(c, cs)) = Cons(Separator, c \o Tails(cs))
    OBVIOUS
  <1>1. <<c>> \in Seq(Seq(Char))
    OBVIOUS
  <1>2. Tails(<<c>> \o cs) = (<<Separator>> \o c) \o Tails(cs)
    BY <1>1, TailsSteps
  <1> DEFINE t == Tails(cs)
  <1>3. t \in Seq(Char)
    BY TailsSteps
  <1> HIDE DEF t
  <1>4. <<Separator>> \o c = Cons(Separator, c) /\ Separator \in Char
    BY MarkType, CharLaws
  <1>5. \A x \in Char, u, v \in Seq(Char) : Cons(x, u) \o v = Cons(x, u \o v)
    BY CharLaws
  <1>6. Cons(Separator, c) \o t = Cons(Separator, c \o t)
    BY <1>3, <1>4, <1>5
  <1>7. QED
    BY <1>2, <1>4, <1>6 DEF Cons, t

LEMMA EscapedAllCons ==
    \A c \in Seq(Char), cs \in Seq(Seq(Char)) : EscapedAll(Cons(c, cs)) = Cons(Escaped(c), EscapedAll(cs))
  <1> SUFFICES ASSUME NEW c \in Seq(Char), NEW cs \in Seq(Seq(Char))
               PROVE  EscapedAll(Cons(c, cs)) = Cons(Escaped(c), EscapedAll(cs))
    OBVIOUS
  <1>1. <<c>> \in Seq(Seq(Char))
    OBVIOUS
  <1>2. EscapedAll(<<c>> \o cs) = <<Escaped(c)>> \o EscapedAll(cs)
    BY <1>1, EscapedAllSteps
  <1>3. QED
    BY <1>2 DEF Cons

LEMMA TailsEscapedSteps ==
    /\ TailsEscaped(<<>>) = <<>>
    /\ \A cs \in Seq(Seq(Char)) : TailsEscaped(cs) \in Seq(Char) /\ Ends(TailsEscaped(cs))
    /\ \A c \in Seq(Char), cs \in Seq(Seq(Char)) :
          TailsEscaped(Cons(c, cs)) = Cons(Separator, Escaped(c) \o TailsEscaped(cs))
  <1>1. TailsEscaped(<<>>) = <<>>
    BY EscapedAllSteps, TailsSteps DEF TailsEscaped
  <1>2. \A cs \in Seq(Seq(Char)) : TailsEscaped(cs) \in Seq(Char)
    BY EscapedAllSteps, TailsSteps DEF TailsEscaped
  <1>3. ASSUME NEW c \in Seq(Char), NEW cs \in Seq(Seq(Char))
        PROVE  TailsEscaped(Cons(c, cs)) = Cons(Separator, Escaped(c) \o TailsEscaped(cs))
    <2>1. EscapedAll(Cons(c, cs)) = Cons(Escaped(c), EscapedAll(cs))
      BY EscapedAllCons
    <2>2. Escaped(c) \in Seq(Char) /\ EscapedAll(cs) \in Seq(Seq(Char))
      BY EscapedSteps, EscapedAllSteps
    <2>3. QED
      BY <2>1, <2>2, TailsCons DEF TailsEscaped
  <1>4. ASSUME NEW cs \in Seq(Seq(Char)) PROVE Ends(TailsEscaped(cs))
    <2>1. CASE cs = <<>>
      BY <1>1, <2>1 DEF Ends
    <2>2. CASE cs # <<>>
      <3>1. PICK d \in Seq(Char), ds \in Seq(Seq(Char)) : cs = Cons(d, ds)
        BY <2>2, FirstAndRest
      <3> DEFINE u == Escaped(d) \o TailsEscaped(ds)
      <3>2. u \in Seq(Char)
        <4>1. Escaped(d) \in Seq(Char) /\ TailsEscaped(ds) \in Seq(Char)
          BY <1>2, EscapedSteps
        <4>2. QED
          BY <4>1, CharLaws
      <3>3. TailsEscaped(cs) = Cons(Separator, u)
        BY <1>3, <3>1
      <3> HIDE DEF u
      <3>4. FirstOf(Cons(Separator, u)) = Separator
        BY <3>2, MarkType, CharLaws
      <3>5. QED
        BY <3>3, <3>4 DEF Ends, FirstOf
    <2>3. QED
      BY <2>1, <2>2
  <1>5. QED
    BY <1>1, <1>2, <1>3, <1>4

LEMMA TailsEscapedSame ==
    \A cs, ds \in Seq(Seq(Char)) : TailsEscaped(cs) = TailsEscaped(ds) => cs = ds
  <1> DEFINE Only(cs) == \A ds \in Seq(Seq(Char)) : TailsEscaped(cs) = TailsEscaped(ds) => cs = ds
             T == {cs \in Seq(Seq(Char)) : Only(cs)}
             At(c, cs) == Escaped(c) \o TailsEscaped(cs)
  <1>1. \A c \in Seq(Char), cs \in Seq(Seq(Char)) :
           TailsEscaped(Cons(c, cs)) = Cons(Separator, At(c, cs)) /\ At(c, cs) \in Seq(Char)
    <2> SUFFICES ASSUME NEW c \in Seq(Char), NEW cs \in Seq(Seq(Char))
                 PROVE  TailsEscaped(Cons(c, cs)) = Cons(Separator, At(c, cs)) /\ At(c, cs) \in Seq(Char)
      OBVIOUS
    <2>1. Escaped(c) \in Seq(Char) /\ TailsEscaped(cs) \in Seq(Char)
      BY EscapedSteps, TailsEscapedSteps
    <2>2. QED
      BY <2>1, TailsEscapedSteps, CharLaws
  <1>2. \A c, d \in Seq(Char), cs, ds \in Seq(Seq(Char)) :
           At(c, cs) = At(d, ds) => c = d /\ TailsEscaped(cs) = TailsEscaped(ds)
    <2> SUFFICES ASSUME NEW c \in Seq(Char), NEW d \in Seq(Char), NEW cs \in Seq(Seq(Char)),
                        NEW ds \in Seq(Seq(Char)), At(c, cs) = At(d, ds)
                 PROVE  c = d /\ TailsEscaped(cs) = TailsEscaped(ds)
      OBVIOUS
    <2>1. Same(c)
      BY EscapedSame
    <2>2. TailsEscaped(cs) \in Seq(Char) /\ Ends(TailsEscaped(cs))
          /\ TailsEscaped(ds) \in Seq(Char) /\ Ends(TailsEscaped(ds))
      BY TailsEscapedSteps
    <2>3. QED
      BY <2>1, <2>2 DEF Same
  <1>3. \A u \in Seq(Char) : Cons(Separator, u) # <<>> /\ RestOf(Cons(Separator, u)) = u
    BY MarkType, CharLaws
  <1>4. \A ds \in Seq(Seq(Char)) :
           ds # <<>> => \E d \in Seq(Char), es \in Seq(Seq(Char)) : ds = Cons(d, es)
    BY FirstAndRest
  <1> HIDE DEF At
  <1>5. Only(<<>>)
    <2> SUFFICES ASSUME NEW ds \in Seq(Seq(Char)), TailsEscaped(<<>>) = TailsEscaped(ds), ds # <<>>
                 PROVE  FALSE
      OBVIOUS
    <2>1. PICK d \in Seq(Char), es \in Seq(Seq(Char)) : ds = Cons(d, es)
      BY <1>4
    <2>2. QED
      BY <1>1, <1>3, <2>1, TailsEscapedSteps
  <1>6. ASSUME NEW cs \in Seq(Seq(Char)), NEW c \in Seq(Char), cs \in T PROVE Cons(c, cs) \in T
    <2>1. Only(Cons(c, cs))
      <3> SUFFICES ASSUME NEW ds \in Seq(Seq(Char)), TailsEscaped(Cons(c, cs)) = TailsEscaped(ds)
                   PROVE  Cons(c, cs) = ds
        OBVIOUS
      <3>1. TailsEscaped(ds) = Cons(Separator, At(c, cs)) /\ At(c, cs) \in Seq(Char)
        BY <1>1
      <3>2. ds # <<>>
        BY <1>3, <3>1, TailsEscapedSteps
      <3>3. PICK d \in Seq(Char), es \in Seq(Seq(Char)) : ds = Cons(d, es)
        BY <1>4, <3>2
      <3>4. Cons(Separator, At(c, cs)) = Cons(Separator, At(d, es)) /\ At(d, es) \in Seq(Char)
        BY <1>1, <3>1, <3>3
      <3>5. At(c, cs) = At(d, es)
        BY <1>3, <3>1, <3>4
      <3>6. c = d /\ TailsEscaped(cs) = TailsEscaped(es)
        BY <1>2, <3>5
      <3>7. cs = es
        BY <1>6, <3>6
      <3>8. QED
        BY <3>3, <3>6, <3>7
    <2> HIDE DEF Only
    <2>2. Cons(c, cs) \in Seq(Seq(Char))
      BY ConsProperties
    <2>3. QED
      BY <2>1, <2>2
  <1>7. \A cs \in Seq(Seq(Char)) : cs \in T
    <2>1. <<>> \in T
      <3> HIDE DEF Only
      <3>1. QED
        BY <1>5
    <2> HIDE DEF T
    <2>2. QED
      BY <1>6, <2>1, FrontInduction
  <1>8. QED
    BY <1>7

\* Escaped ids of different keys are different.
LEMMA EscapedIdsDiffer ==
    \A k, l \in Seq(Seq(Char)) :
        k # <<>> /\ l # <<>> /\ Join(EscapedAll(k)) = Join(EscapedAll(l)) => k = l
  <1>1. ASSUME NEW c \in Seq(Char), NEW cs \in Seq(Seq(Char))
        PROVE  Join(EscapedAll(Cons(c, cs))) = Escaped(c) \o TailsEscaped(cs)
    <2>1. EscapedAll(Cons(c, cs)) = Cons(Escaped(c), EscapedAll(cs))
      BY EscapedAllCons
    <2>2. Escaped(c) \in Seq(Char) /\ EscapedAll(cs) \in Seq(Seq(Char))
      BY EscapedSteps, EscapedAllSteps
    <2> DEFINE e == Escaped(c)
               es == EscapedAll(cs)
    <2> HIDE DEF e, es
    <2>3. Join(<<e>> \o es) = e \o Tails(es)
      BY <2>2, JoinIs DEF e, es
    <2>4. QED
      BY <2>1, <2>3 DEF Cons, e, es, TailsEscaped
  <1> SUFFICES ASSUME NEW k \in Seq(Seq(Char)), NEW l \in Seq(Seq(Char)), k # <<>>, l # <<>>,
                      Join(EscapedAll(k)) = Join(EscapedAll(l))
               PROVE  k = l
    OBVIOUS
  <1>2. PICK c \in Seq(Char), cs \in Seq(Seq(Char)) : k = Cons(c, cs)
    BY FirstAndRest
  <1>3. PICK d \in Seq(Char), ds \in Seq(Seq(Char)) : l = Cons(d, ds)
    BY FirstAndRest
  <1>4. Escaped(c) \o TailsEscaped(cs) = Escaped(d) \o TailsEscaped(ds)
    BY <1>1, <1>2, <1>3
  <1>5. TailsEscaped(cs) \in Seq(Char) /\ Ends(TailsEscaped(cs))
        /\ TailsEscaped(ds) \in Seq(Char) /\ Ends(TailsEscaped(ds))
    BY TailsEscapedSteps
  <1>6. Same(c)
    BY EscapedSame
  <1>7. c = d /\ TailsEscaped(cs) = TailsEscaped(ds)
    BY <1>4, <1>5, <1>6 DEF Same
  <1>8. QED
    BY <1>2, <1>3, <1>7, TailsEscapedSame

-----------------------------------------------------------------------------
(***************************************************************************)
(* Taking an id apart, one character at a time.                            *)
(***************************************************************************)
PartLists == {parts \in Seq(Seq(Char)) : parts # <<>>}

SplitStep ==
    [p \in PartLists \X (BOOLEAN \X Char) |->
        IF p[2][1] THEN Append(p[1], <<>>)
        ELSE [p[1] EXCEPT ![Len(p[1])] = Append(@, p[2][2])]]

\* Each character with whether it is cut there.
Decorated(id, cuts) == [n \in DOMAIN id |-> <<n \in cuts, id[n]>>]

LastExtended(parts, c) == [parts EXCEPT ![Len(parts)] = Append(@, c)]

LEMMA SplitLoop ==
    /\ IsLoop(PartLists, BOOLEAN \X Char, <<<<>>>>, SplitStep)
    /\ \A parts \in PartLists, cut \in BOOLEAN, c \in Char :
          SplitStep[<<parts, <<cut, c>>>>] = IF cut THEN Append(parts, <<>>) ELSE LastExtended(parts, c)
  <1>1. <<<<>>>> \in PartLists
    BY DEF PartLists
  <1>2. ASSUME NEW parts \in PartLists, NEW c \in Char
        PROVE  Append(parts, <<>>) \in PartLists /\ LastExtended(parts, c) \in PartLists
    <2>1. parts \in Seq(Seq(Char)) /\ Len(parts) \in Nat /\ Len(parts) \in 1..Len(parts)
      BY DEF PartLists
    <2>2. parts[Len(parts)] \in Seq(Char)
      BY <2>1
    <2>3. Append(parts[Len(parts)], c) \in Seq(Char)
      BY <2>2
    <2>4. LastExtended(parts, c) \in Seq(Seq(Char)) /\ Len(LastExtended(parts, c)) = Len(parts)
      BY <2>1, <2>3, ExceptSeq DEF LastExtended
    <2>5. <<>> \in Seq(Char)
      OBVIOUS
    <2>6. Append(parts, <<>>) \in Seq(Seq(Char)) /\ Append(parts, <<>>) # <<>>
      BY <2>1, <2>5, AppendProperties
    <2>7. LastExtended(parts, c) # <<>>
      BY <2>1, <2>4
    <2>8. QED
      BY <2>4, <2>6, <2>7 DEF PartLists
  <1>3. ASSUME NEW p \in PartLists \X (BOOLEAN \X Char)
        PROVE  (IF p[2][1] THEN Append(p[1], <<>>) ELSE LastExtended(p[1], p[2][2])) \in PartLists
    <2>1. p[1] \in PartLists /\ p[2][2] \in Char
      OBVIOUS
    <2>2. QED
      BY <1>2, <2>1
  <1>4. SplitStep = [p \in PartLists \X (BOOLEAN \X Char) |->
                       IF p[2][1] THEN Append(p[1], <<>>) ELSE LastExtended(p[1], p[2][2])]
    BY DEF SplitStep, LastExtended
  <1>5. SplitStep \in [PartLists \X (BOOLEAN \X Char) -> PartLists]
    BY <1>3, <1>4
  <1>6. ASSUME NEW parts \in PartLists, NEW cut \in BOOLEAN, NEW c \in Char
        PROVE  SplitStep[<<parts, <<cut, c>>>>]
                 = IF cut THEN Append(parts, <<>>) ELSE LastExtended(parts, c)
    BY <1>4
  <1>7. QED
    BY <1>1, <1>5, <1>6 DEF IsLoop

LEMMA DecoratedType ==
    ASSUME NEW id \in Seq(Char), NEW cuts
    PROVE  /\ Decorated(id, cuts) \in Seq(BOOLEAN \X Char) /\ Len(Decorated(id, cuts)) = Len(id)
           /\ \A n \in 1..Len(id) : Decorated(id, cuts)[n] = <<n \in cuts, id[n]>>
  <1>1. Len(id) \in Nat /\ DOMAIN id = 1..Len(id) /\ \A n \in 1..Len(id) : id[n] \in Char
    OBVIOUS
  <1>2. \A n : (n \in cuts) \in BOOLEAN
    OBVIOUS
  <1>3. \A n \in 1..Len(id) : <<n \in cuts, id[n]>> \in BOOLEAN \X Char
    BY <1>1, <1>2
  <1>4. Decorated(id, cuts) \in [1..Len(id) -> BOOLEAN \X Char]
    BY <1>1, <1>3 DEF Decorated
  <1>5. \A n \in 1..Len(id) : Decorated(id, cuts)[n] = <<n \in cuts, id[n]>>
    BY <1>1 DEF Decorated
  <1>6. QED
    BY <1>1, <1>4, <1>5

LEMMA SplitIsRun ==
    ASSUME NEW id \in Seq(Char), NEW cuts
    PROVE  Split(id, cuts) = Run(<<<<>>>>, SplitStep, Decorated(id, cuts))
  <1> DEFINE n == Len(id)
             d == Decorated(id, cuts)
             pos == [i \in DOMAIN id |-> i]
             Next2(parts, i) == IF i \in cuts THEN Append(parts, <<>>)
                                ELSE [parts EXCEPT ![Len(parts)] = Append(@, id[i])]
             Eq(g) == g = [t \in SUBSET (DOMAIN pos) |->
                             IF t = {} THEN <<<<>>>> ELSE Next2(g[t \ {Max(t)}], pos[Max(t)])]
  <1>1. Split(id, cuts) = (CHOOSE g : Eq(g))[DOMAIN pos]
    BY DEF Split, FoldLeftDomain, FoldLeft, MapThenFoldSet
  <1>2. DOMAIN pos = 1..n /\ \A i \in 1..n : pos[i] = i
    OBVIOUS
  <1>3. d \in Seq(BOOLEAN \X Char) /\ Len(d) = n /\ \A i \in 1..n : d[i] = <<i \in cuts, id[i]>>
    BY DecoratedType
  <1>4. n \in Nat /\ \A i \in 1..n : id[i] \in Char
    OBVIOUS
  <1>5. \A parts \in PartLists, i \in 1..n : SplitStep[<<parts, d[i]>>] = Next2(parts, i)
    <2> SUFFICES ASSUME NEW parts \in PartLists, NEW i \in 1..n
                 PROVE  SplitStep[<<parts, d[i]>>] = Next2(parts, i)
      OBVIOUS
    <2> DEFINE cut == i \in cuts
    <2>1. d[i] = <<cut, id[i]>> /\ id[i] \in Char /\ cut \in BOOLEAN
      BY <1>3, <1>4
    <2> HIDE DEF d
    <2>2. SplitStep[<<parts, <<cut, id[i]>>>>]
            = IF cut THEN Append(parts, <<>>) ELSE LastExtended(parts, id[i])
      BY <2>1, SplitLoop
    <2>3. QED
      BY <2>1, <2>2 DEF LastExtended
  <1> HIDE DEF d, n, Next2, pos
  <1>6. PICK g \in [SUBSET (1..Len(d)) -> PartLists] : FoldsSeq(g, <<<<>>>>, SplitStep, d)
    BY <1>3, SplitLoop, FoldOfLoop
  <1>7. \A t \in SUBSET (1..n) : t # {} => Max(t) \in 1..n /\ t \ {Max(t)} \in SUBSET (1..n)
    BY <1>4, LargestOf
  <1>8. Eq(g)
    <2>1. ASSUME NEW t \in SUBSET (1..n)
          PROVE  g[t] = IF t = {} THEN <<<<>>>> ELSE Next2(g[t \ {Max(t)}], pos[Max(t)])
      <3>1. g[t] = IF t = {} THEN <<<<>>>> ELSE SplitStep[<<g[t \ {Max(t)}], d[Max(t)]>>]
        BY <1>3, <1>6 DEF FoldsSeq
      <3>2. CASE t = {}
        BY <3>1, <3>2
      <3>3. CASE t # {}
        <4>1. Max(t) \in 1..n /\ g[t \ {Max(t)}] \in PartLists
          BY <1>3, <1>6, <1>7, <3>3
        <4>2. QED
          BY <1>2, <1>5, <3>1, <3>3, <4>1
      <3>4. QED
        BY <3>2, <3>3
    <2>2. g = [t \in SUBSET (1..n) |-> g[t]]
      BY <1>3, <1>6
    <2>3. QED
      BY <1>2, <2>1, <2>2
  <1>9. Eq(CHOOSE h : Eq(h))
    BY <1>8
  <1>10. ASSUME NEW h, Eq(h) PROVE h[1..n] = Run(<<<<>>>>, SplitStep, d)
    <2>1. h[{}] = <<<<>>>>
      BY <1>2, <1>10
    <2>2. ASSUME NEW t \in SUBSET (1..n), t # {}, h[t \ {Max(t)}] \in PartLists
          PROVE  h[t] = SplitStep[<<h[t \ {Max(t)}], d[Max(t)]>>]
      <3>1. h[t] = Next2(h[t \ {Max(t)}], pos[Max(t)])
        BY <1>2, <1>10, <2>2
      <3>2. Max(t) \in 1..n /\ pos[Max(t)] = Max(t)
        BY <1>2, <1>7, <2>2
      <3>3. QED
        BY <1>5, <2>2, <3>1, <3>2
    <2>3. FoldsWithin(h, PartLists, <<<<>>>>, SplitStep, d)
      BY <1>3, <2>1, <2>2 DEF FoldsWithin
    <2> HIDE DEF Eq
    <2>4. h[1..Len(d)] = Run(<<<<>>>>, SplitStep, d)
      BY <1>3, <2>3, SplitLoop, FoldIsRun
    <2>5. QED
      BY <1>3, <2>4
  <1> HIDE DEF Eq
  <1>11. QED
    BY <1>1, <1>2, <1>9, <1>10 DEF d

LEMMA SplitSteps ==
    /\ \A cuts : Split(<<>>, cuts) = <<<<>>>>
    /\ \A id \in Seq(Char) : \A cuts : Split(id, cuts) \in PartLists
    /\ \A id \in Seq(Char), c \in Char : \A cuts :
          Split(Append(id, c), cuts)
            = IF Len(id) + 1 \in cuts THEN Append(Split(id, cuts), <<>>)
              ELSE LastExtended(Split(id, cuts), c)
  <1> DEFINE R(d) == Run(<<<<>>>>, SplitStep, d)
  <1>1. /\ R(<<>>) = <<<<>>>>
        /\ \A d \in Seq(BOOLEAN \X Char) : R(d) \in PartLists
        /\ \A d \in Seq(BOOLEAN \X Char), y \in BOOLEAN \X Char : R(Append(d, y)) = SplitStep[<<R(d), y>>]
    BY SplitLoop, RunSteps
  <1>2. \A id \in Seq(Char) : \A cuts : Split(id, cuts) = R(Decorated(id, cuts))
    BY SplitIsRun
  <1> HIDE DEF R
  <1>3. ASSUME NEW cuts PROVE Split(<<>>, cuts) = <<<<>>>>
    <2>1. Decorated(<<>>, cuts) = <<>> /\ <<>> \in Seq(Char)
      BY DEF Decorated
    <2>2. QED
      BY <1>1, <1>2, <2>1
  <1>4. \A id \in Seq(Char) : \A cuts : Split(id, cuts) \in PartLists
    BY <1>1, <1>2, DecoratedType
  <1>5. ASSUME NEW id \in Seq(Char), NEW c \in Char, NEW cuts
        PROVE  Split(Append(id, c), cuts)
                 = IF Len(id) + 1 \in cuts THEN Append(Split(id, cuts), <<>>)
                   ELSE LastExtended(Split(id, cuts), c)
    <2> DEFINE z == Append(id, c)
               cut == Len(id) + 1 \in cuts
               y == <<cut, c>>
               e == Append(Decorated(id, cuts), y)
    <2>1. z \in Seq(Char) /\ Len(z) = Len(id) + 1 /\ z[Len(id) + 1] = c /\ \A i \in 1..Len(id) : z[i] = id[i]
      OBVIOUS
    <2>2. cut \in BOOLEAN /\ y \in BOOLEAN \X Char /\ Len(id) \in Nat
      <3>1. \A n : (n \in cuts) \in BOOLEAN
        OBVIOUS
      <3>2. cut \in BOOLEAN
        BY <3>1
      <3> HIDE DEF cut
      <3>3. Len(id) \in Nat
        OBVIOUS
      <3>4. QED
        BY <3>2, <3>3
    <2>3. Decorated(id, cuts) \in Seq(BOOLEAN \X Char) /\ Len(Decorated(id, cuts)) = Len(id)
          /\ \A n \in 1..Len(id) : Decorated(id, cuts)[n] = <<n \in cuts, id[n]>>
      BY DecoratedType
    <2> HIDE DEF z, y
    <2>4. Decorated(z, cuts) \in Seq(BOOLEAN \X Char) /\ Len(Decorated(z, cuts)) = Len(id) + 1
          /\ \A n \in 1..(Len(id) + 1) : Decorated(z, cuts)[n] = <<n \in cuts, z[n]>>
      BY <2>1, DecoratedType
    <2>5. e \in Seq(BOOLEAN \X Char) /\ Len(e) = Len(id) + 1 /\ e[Len(id) + 1] = y
          /\ \A n \in 1..Len(id) : e[n] = Decorated(id, cuts)[n]
      BY <2>2, <2>3, AppendProperties
    <2> HIDE DEF e
    <2>6. \A n \in 1..(Len(id) + 1) : Decorated(z, cuts)[n] = e[n]
      <3> SUFFICES ASSUME NEW n \in 1..(Len(id) + 1) PROVE Decorated(z, cuts)[n] = e[n]
        OBVIOUS
      <3>1. CASE n = Len(id) + 1
        BY <2>1, <2>4, <2>5, <3>1 DEF y
      <3>2. CASE n # Len(id) + 1
        <4>1. n \in 1..Len(id)
          BY <2>2, <3>2
        <4>2. QED
          BY <2>1, <2>3, <2>4, <2>5, <4>1
      <3>3. QED
        BY <3>1, <3>2
    <2>7. Decorated(z, cuts) = e
      BY <2>4, <2>5, <2>6, SeqEqual
    <2>8. R(e) = SplitStep[<<R(Decorated(id, cuts)), y>>]
      BY <1>1, <2>2, <2>3 DEF e
    <2>9. R(e) = Split(z, cuts) /\ R(Decorated(id, cuts)) = Split(id, cuts)
      BY <1>2, <2>1, <2>7
    <2> DEFINE ps == Split(id, cuts)
    <2>10. ps \in PartLists
      BY <1>4
    <2> HIDE DEF ps, cut
    <2>11. SplitStep[<<ps, <<cut, c>>>>] = IF cut THEN Append(ps, <<>>) ELSE LastExtended(ps, c)
      BY <2>2, <2>10, SplitLoop
    <2>12. QED
      BY <2>8, <2>9, <2>11 DEF z, y, ps, cut
  <1>6. QED
    BY <1>3, <1>4, <1>5

LEMMA SplitAgrees ==
    ASSUME NEW id \in Seq(Char), NEW a, NEW b, \A n \in 1..Len(id) : n \in a <=> n \in b
    PROVE  Split(id, a) = Split(id, b)
  <1>1. Decorated(id, a) = Decorated(id, b)
    BY DEF Decorated
  <1>2. QED
    BY <1>1, SplitIsRun

\* ParseSimple and the parts of ParseCompositeIdComponents, character by character.
LEMMA ParseSimpleSteps ==
    /\ ParseSimple(<<>>) = <<<<>>>>
    /\ \A id \in Seq(Char) : ParseSimple(id) \in PartLists
    /\ \A id \in Seq(Char), c \in Char :
          ParseSimple(Append(id, c))
            = IF c = Separator THEN Append(ParseSimple(id), <<>>)
              ELSE LastExtended(ParseSimple(id), c)
  <1>1. ParseSimple(<<>>) = <<<<>>>>
    BY SplitSteps DEF ParseSimple
  <1>2. \A id \in Seq(Char) : ParseSimple(id) \in PartLists
    BY SplitSteps DEF ParseSimple
  <1>3. ASSUME NEW id \in Seq(Char), NEW c \in Char
        PROVE  ParseSimple(Append(id, c))
                 = IF c = Separator THEN Append(ParseSimple(id), <<>>)
                   ELSE LastExtended(ParseSimple(id), c)
    <2> DEFINE z == Append(id, c)
    <2>1. z \in Seq(Char) /\ DOMAIN z = 1..(Len(id) + 1) /\ z[Len(id) + 1] = c /\ Len(id) \in Nat
          /\ \A i \in 1..Len(id) : z[i] = id[i] /\ i \in DOMAIN z /\ i \in DOMAIN id
      OBVIOUS
    <2> HIDE DEF z
    <2>2. Len(id) + 1 \in Separators(z) <=> c = Separator
      BY <2>1 DEF Separators
    <2>3. \A n \in 1..Len(id) : n \in Separators(z) <=> n \in Separators(id)
      BY <2>1 DEF Separators
    <2>4. Split(id, Separators(z)) = Split(id, Separators(id))
      BY <2>3, SplitAgrees
    <2>5. Split(z, Separators(z)) = IF Len(id) + 1 \in Separators(z) THEN Append(Split(id, Separators(z)), <<>>)
                                    ELSE LastExtended(Split(id, Separators(z)), c)
      BY SplitSteps DEF z
    <2>6. QED
      BY <2>2, <2>4, <2>5 DEF ParseSimple, z
  <1>4. QED
    BY <1>1, <1>2, <1>3

Cuts(id) == {n \in Separators(id) : n = 1 \/ id[n - 1] # Escape}
Parts(id) == Split(id, Cuts(id))

LEMMA PartsSteps ==
    /\ Parts(<<>>) = <<<<>>>>
    /\ \A id \in Seq(Char) : Parts(id) \in PartLists
    /\ \A id \in Seq(Char), c \in Char :
          Parts(Append(id, c))
            = IF c = Separator /\ ~EndsWithEscape(id) THEN Append(Parts(id), <<>>)
              ELSE LastExtended(Parts(id), c)
  <1>1. Parts(<<>>) = <<<<>>>>
    BY SplitSteps DEF Parts
  <1>2. \A id \in Seq(Char) : Parts(id) \in PartLists
    BY SplitSteps DEF Parts
  <1>3. ASSUME NEW id \in Seq(Char), NEW c \in Char
        PROVE  Parts(Append(id, c))
                 = IF c = Separator /\ ~EndsWithEscape(id) THEN Append(Parts(id), <<>>)
                   ELSE LastExtended(Parts(id), c)
    <2> DEFINE z == Append(id, c)
    <2>1. z \in Seq(Char) /\ DOMAIN z = 1..(Len(id) + 1) /\ z[Len(id) + 1] = c /\ Len(id) \in Nat
          /\ \A i \in 1..Len(id) : z[i] = id[i] /\ i \in DOMAIN z /\ i \in DOMAIN id
      OBVIOUS
    <2>2. id = <<>> <=> Len(id) = 0
      OBVIOUS
    <2> HIDE DEF z
    <2>3. Len(id) + 1 \in Cuts(z) <=> c = Separator /\ ~EndsWithEscape(id)
      <3>1. CASE Len(id) = 0
        BY <2>1, <2>2, <3>1 DEF Cuts, Separators, EndsWithEscape
      <3>2. CASE Len(id) # 0
        <4>1. Len(id) \in 1..Len(id) /\ (Len(id) + 1) - 1 = Len(id) /\ Len(id) + 1 # 1
          BY <2>1, <3>2
        <4>2. z[Len(id)] = id[Len(id)]
          BY <2>1, <4>1
        <4>3. Len(id) + 1 \in Separators(z) <=> c = Separator
          BY <2>1 DEF Separators
        <4>4. EndsWithEscape(id) <=> id[Len(id)] = Escape
          BY <2>2, <3>2 DEF EndsWithEscape
        <4>5. QED
          BY <4>1, <4>2, <4>3, <4>4 DEF Cuts
      <3>3. QED
        BY <3>1, <3>2
    <2>4. \A n \in 1..Len(id) : n \in Cuts(z) <=> n \in Cuts(id)
      <3> SUFFICES ASSUME NEW n \in 1..Len(id) PROVE n \in Cuts(z) <=> n \in Cuts(id)
        OBVIOUS
      <3>1. n \in Separators(z) <=> n \in Separators(id)
        BY <2>1 DEF Separators
      <3>2. n # 1 => n - 1 \in 1..Len(id)
        BY <2>1
      <3>3. n # 1 => z[n - 1] = id[n - 1]
        BY <2>1, <3>2
      <3>4. QED
        BY <3>1, <3>3 DEF Cuts
    <2>5. Split(id, Cuts(z)) = Split(id, Cuts(id))
      BY <2>4, SplitAgrees
    <2>6. Split(z, Cuts(z)) = IF Len(id) + 1 \in Cuts(z) THEN Append(Split(id, Cuts(z)), <<>>)
                              ELSE LastExtended(Split(id, Cuts(z)), c)
      BY SplitSteps DEF z
    <2>7. QED
      BY <2>3, <2>5, <2>6 DEF Parts, z
  <1>4. QED
    BY <1>1, <1>2, <1>3

\* The last part, and the end of a text.
LEMMA EndLaws ==
    /\ ~EndsWithEscape(<<>>)
    /\ \A s \in Seq(Char), c \in Char : EndsWithEscape(Append(s, c)) <=> c = Escape
    /\ \A s \in Seq(Char), c \in Char : Append(s, c) \in Seq(Char) /\ Append(s, c) # <<>>
    /\ \A s, t \in Seq(Char), c \in Char : s \o Append(t, c) = Append(s \o t, c)
    /\ \A s \in Seq(Char) : s # <<>> => \E c \in Char, t \in Seq(Char) : s = Append(t, c)
    /\ \A s, t \in Seq(Char) : t # <<>> => (EndsWithEscape(s \o t) <=> EndsWithEscape(t))
  <1>1. ~EndsWithEscape(<<>>)
    BY DEF EndsWithEscape
  <1>2. ASSUME NEW s \in Seq(Char), NEW c \in Char
        PROVE  (EndsWithEscape(Append(s, c)) <=> c = Escape) /\ Append(s, c) \in Seq(Char) /\ Append(s, c) # <<>>
    BY AppendProperties DEF EndsWithEscape
  <1>3. \A s, t \in Seq(Char), c \in Char : s \o Append(t, c) = Append(s \o t, c)
    BY AppendToConcat
  <1>4. \A s \in Seq(Char) : s # <<>> => \E c \in Char, t \in Seq(Char) : s = Append(t, c)
    BY FirstsAndLast
  <1>5. \A s, t \in Seq(Char) : s \o t \in Seq(Char)
    OBVIOUS
  <1>6. ASSUME NEW s \in Seq(Char), NEW t \in Seq(Char), t # <<>>
        PROVE  EndsWithEscape(s \o t) <=> EndsWithEscape(t)
    <2>1. PICK c \in Char, u \in Seq(Char) : t = Append(u, c)
      BY <1>4, <1>6
    <2>2. s \o t = Append(s \o u, c) /\ s \o u \in Seq(Char)
      BY <1>3, <1>5, <2>1
    <2>3. EndsWithEscape(Append(s \o u, c)) <=> c = Escape
      BY <1>2, <2>2
    <2>4. EndsWithEscape(Append(u, c)) <=> c = Escape
      BY <1>2
    <2>5. QED
      BY <2>1, <2>2, <2>3, <2>4
  <1>7. QED
    BY <1>1, <1>2, <1>3, <1>4, <1>6

ExtendedBy(parts, w) == [parts EXCEPT ![Len(parts)] = @ \o w]

LEMMA ExtendedSteps ==
    /\ \A ps \in PartLists : ExtendedBy(ps, <<>>) = ps
    /\ \A ps \in PartLists, w \in Seq(Char) :
          ExtendedBy(ps, w) \in PartLists /\ Len(ExtendedBy(ps, w)) = Len(ps)
    /\ \A ps \in PartLists, w \in Seq(Char), c \in Char :
          LastExtended(ExtendedBy(ps, w), c) = ExtendedBy(ps, Append(w, c))
    /\ \A ps \in Seq(Seq(Char)), w \in Seq(Char) :
          /\ Append(ps, <<>>) \in PartLists /\ Len(Append(ps, <<>>)) = Len(ps) + 1
          /\ ExtendedBy(Append(ps, <<>>), w) = Append(ps, w)
    /\ \A ps \in PartLists : ps \in Seq(Seq(Char)) /\ Len(ps) \in Nat /\ Len(ps) >= 1
  <1>1. ASSUME NEW ps \in PartLists
        PROVE  /\ ps \in Seq(Seq(Char)) /\ Len(ps) \in Nat /\ Len(ps) >= 1 /\ Len(ps) \in 1..Len(ps)
               /\ DOMAIN ps = 1..Len(ps) /\ ps[Len(ps)] \in Seq(Char)
    <2>1. ps \in Seq(Seq(Char)) /\ Len(ps) \in Nat /\ Len(ps) >= 1
      BY DEF PartLists
    <2>2. QED
      BY <2>1
  <1>2. ASSUME NEW ps \in PartLists, NEW w \in Seq(Char)
        PROVE  /\ ExtendedBy(ps, w) \in PartLists /\ Len(ExtendedBy(ps, w)) = Len(ps)
               /\ ExtendedBy(ps, w)[Len(ps)] = ps[Len(ps)] \o w
               /\ \A i \in 1..Len(ps) : i # Len(ps) => ExtendedBy(ps, w)[i] = ps[i]
    <2> DEFINE z == ps[Len(ps)] \o w
               e == [ps EXCEPT ![Len(ps)] = z]
    <2>1. z \in Seq(Char)
      BY <1>1
    <2>2. e = ExtendedBy(ps, w)
      BY DEF ExtendedBy
    <2> HIDE DEF z
    <2>3. e \in Seq(Seq(Char)) /\ Len(e) = Len(ps) /\ \A i \in 1..Len(ps) : e[i] = IF i = Len(ps) THEN z ELSE ps[i]
      BY <1>1, <2>1, ExceptSeq
    <2> HIDE DEF e
    <2>4. e # <<>>
      BY <1>1, <2>3
    <2>5. e[Len(ps)] = z /\ \A i \in 1..Len(ps) : i # Len(ps) => e[i] = ps[i]
      BY <1>1, <2>3
    <2>6. QED
      BY <2>2, <2>3, <2>4, <2>5 DEF PartLists, z
  <1>3. ASSUME NEW ps \in PartLists PROVE ExtendedBy(ps, <<>>) = ps
    <2>1. ps[Len(ps)] \o <<>> = ps[Len(ps)]
      BY <1>1, CharLaws
    <2>2. QED
      BY <1>1, <2>1 DEF ExtendedBy
  <1>4. ASSUME NEW ps \in PartLists, NEW w \in Seq(Char), NEW c \in Char
        PROVE  LastExtended(ExtendedBy(ps, w), c) = ExtendedBy(ps, Append(w, c))
    <2> DEFINE x == ps[Len(ps)]
    <2>1. x \in Seq(Char)
      BY <1>1
    <2> HIDE DEF x
    <2>2. x \o Append(w, c) = Append(x \o w, c)
      BY <2>1, EndLaws
    <2>3. ExtendedBy(ps, w) = [ps EXCEPT ![Len(ps)] = x \o w] /\ Len(ExtendedBy(ps, w)) = Len(ps)
      BY <1>2 DEF ExtendedBy, x
    <2>4. ExtendedBy(ps, Append(w, c)) = [ps EXCEPT ![Len(ps)] = x \o Append(w, c)]
      BY DEF ExtendedBy, x
    <2>5. LastExtended(ExtendedBy(ps, w), c)
            = [ExtendedBy(ps, w) EXCEPT ![Len(ps)] = Append(ExtendedBy(ps, w)[Len(ps)], c)]
      BY <2>3 DEF LastExtended
    <2>6. ExtendedBy(ps, w)[Len(ps)] = x \o w
      BY <1>2 DEF x
    <2>7. QED
      BY <1>1, <2>2, <2>3, <2>4, <2>5, <2>6
  <1>5. ASSUME NEW ps \in Seq(Seq(Char)), NEW w \in Seq(Char)
        PROVE  /\ Append(ps, <<>>) \in PartLists /\ Len(Append(ps, <<>>)) = Len(ps) + 1
               /\ ExtendedBy(Append(ps, <<>>), w) = Append(ps, w)
    <2> DEFINE a == Append(ps, <<>>)
               b == Append(ps, w)
               e == ExtendedBy(a, w)
    <2>1. <<>> \in Seq(Char) /\ <<>> \o w = w
      BY CharLaws
    <2>2. /\ a \in Seq(Seq(Char)) /\ a # <<>> /\ Len(a) = Len(ps) + 1
          /\ a[Len(ps) + 1] = <<>> /\ \A i \in 1..Len(ps) : a[i] = ps[i]
      <3> DEFINE none == <<>>
                 X == Seq(Char)
      <3>1. none \in X /\ ps \in Seq(X)
        BY <2>1
      <3> HIDE DEF none, X
      <3>2. /\ Append(ps, none) \in Seq(X) /\ Append(ps, none) # <<>> /\ Len(Append(ps, none)) = Len(ps) + 1
            /\ Append(ps, none)[Len(ps) + 1] = none /\ \A i \in 1..Len(ps) : Append(ps, none)[i] = ps[i]
        BY <3>1, AppendProperties
      <3>3. QED
        BY <3>2 DEF none, X
    <2>3. b \in Seq(Seq(Char)) /\ Len(b) = Len(ps) + 1 /\ b[Len(ps) + 1] = w /\ \A i \in 1..Len(ps) : b[i] = ps[i]
      BY AppendProperties
    <2>4. Len(ps) \in Nat
      OBVIOUS
    <2> HIDE DEF a, b
    <2>5. a \in PartLists
      BY <2>2 DEF PartLists
    <2>6. e \in PartLists /\ Len(e) = Len(a) /\ e[Len(a)] = a[Len(a)] \o w
          /\ \A i \in 1..Len(a) : i # Len(a) => e[i] = a[i]
      BY <1>2, <2>5
    <2>7. e \in Seq(Seq(Char))
      BY <2>6 DEF PartLists
    <2> HIDE DEF e
    <2>8. \A i \in 1..(Len(ps) + 1) : e[i] = b[i]
      <3>1. e[Len(ps) + 1] = b[Len(ps) + 1]
        BY <2>1, <2>2, <2>3, <2>4, <2>6
      <3>2. ASSUME NEW i \in 1..Len(ps) PROVE e[i] = b[i]
        <4>1. i \in 1..Len(a) /\ i # Len(a)
          BY <2>2, <2>4
        <4>2. QED
          BY <2>2, <2>3, <2>6, <4>1
      <3>3. \A i \in 1..(Len(ps) + 1) : i = Len(ps) + 1 \/ i \in 1..Len(ps)
        BY <2>4
      <3> HIDE DEF e
      <3>4. QED
        BY <3>1, <3>2, <3>3
    <2>9. e = b
      BY <2>2, <2>3, <2>6, <2>7, <2>8, SeqEqual
    <2>10. QED
      BY <2>2, <2>5, <2>9 DEF a, b, e
  <1>6. QED
    BY <1>1, <1>2, <1>3, <1>4, <1>5

\* No separator separates within v, whatever is before v.
Solid(v) == \A n \in DOMAIN v : v[n] = Separator => n > 1 /\ v[n - 1] = Escape

HasSeparator(v) == \E n \in DOMAIN v : v[n] = Separator

LEMMA SolidSteps ==
    /\ Solid(<<>>) /\ ~HasSeparator(<<>>)
    /\ \A v \in Seq(Char), c \in Char :
          /\ Solid(Append(v, c)) <=> Solid(v) /\ (c = Separator => EndsWithEscape(v))
          /\ HasSeparator(Append(v, c)) <=> HasSeparator(v) \/ c = Separator
    /\ \A v : ~HasSeparator(v) => Solid(v)
  <1>1. Solid(<<>>) /\ ~HasSeparator(<<>>)
    BY DEF Solid, HasSeparator
  <1>2. ASSUME NEW v \in Seq(Char), NEW c \in Char
        PROVE  /\ Solid(Append(v, c)) <=> Solid(v) /\ (c = Separator => EndsWithEscape(v))
               /\ HasSeparator(Append(v, c)) <=> HasSeparator(v) \/ c = Separator
    <2> DEFINE z == Append(v, c)
               m == Len(v)
    <2>1. z \in Seq(Char) /\ DOMAIN z = 1..(m + 1) /\ z[m + 1] = c /\ m \in Nat /\ DOMAIN v = 1..m
          /\ \A i \in 1..m : z[i] = v[i]
      OBVIOUS
    <2>2. v = <<>> <=> m = 0
      OBVIOUS
    <2> HIDE DEF z
    <2>3. EndsWithEscape(v) <=> m > 0 /\ v[m] = Escape
      BY <2>1, <2>2 DEF EndsWithEscape
    <2> HIDE DEF m
    <2>4. HasSeparator(z) <=> HasSeparator(v) \/ c = Separator
      BY <2>1 DEF HasSeparator
    <2>5. ASSUME Solid(z) PROVE Solid(v) /\ (c = Separator => EndsWithEscape(v))
      <3>1. \A n \in 1..m : n \in 1..(m + 1) /\ (n > 1 => n - 1 \in 1..m)
        BY <2>1
      <3>2. Solid(v)
        BY <2>1, <2>5, <3>1 DEF Solid
      <3>3. c = Separator => EndsWithEscape(v)
        <4> SUFFICES ASSUME c = Separator PROVE EndsWithEscape(v)
          OBVIOUS
        <4>1. m + 1 > 1 /\ z[(m + 1) - 1] = Escape
          BY <2>1, <2>5 DEF Solid
        <4>2. m \in 1..m /\ (m + 1) - 1 = m
          BY <2>1, <4>1
        <4>3. QED
          BY <2>1, <2>3, <4>1, <4>2
      <3>4. QED
        BY <3>2, <3>3
    <2>6. ASSUME Solid(v), c = Separator => EndsWithEscape(v) PROVE Solid(z)
      <3> SUFFICES ASSUME NEW n \in 1..(m + 1), z[n] = Separator PROVE n > 1 /\ z[n - 1] = Escape
        BY <2>1 DEF Solid
      <3>1. CASE n = m + 1
        <4>1. c = Separator /\ m > 0 /\ v[m] = Escape
          BY <2>1, <2>3, <2>6, <3>1
        <4>2. m \in 1..m /\ n - 1 = m /\ n > 1
          BY <2>1, <3>1, <4>1
        <4>3. QED
          BY <2>1, <4>1, <4>2
      <3>2. CASE n # m + 1
        <4>1. n \in 1..m
          BY <2>1, <3>2
        <4>2. n > 1 /\ v[n - 1] = Escape
          BY <2>1, <2>6, <4>1 DEF Solid
        <4>3. n - 1 \in 1..m
          BY <2>1, <4>1, <4>2
        <4>4. QED
          BY <2>1, <4>2, <4>3
      <3>3. QED
        BY <3>1, <3>2
    <2>7. QED
      BY <2>4, <2>5, <2>6 DEF z
  <1>3. \A v : ~HasSeparator(v) => Solid(v)
    BY DEF Solid, HasSeparator
  <1>4. QED
    BY <1>1, <1>2, <1>3

-----------------------------------------------------------------------------
(***************************************************************************)
(* Reading a text that goes on.                                            *)
(***************************************************************************)
LEMMA ParseSimpleExtends ==
    \A w, v \in Seq(Char) :
        /\ ~HasSeparator(v) => ParseSimple(w \o v) = ExtendedBy(ParseSimple(w), v)
        /\ Len(ParseSimple(w \o v)) >= Len(ParseSimple(w))
        /\ HasSeparator(v) => Len(ParseSimple(w \o v)) > Len(ParseSimple(w))
  <1> SUFFICES ASSUME NEW w \in Seq(Char)
               PROVE  \A v \in Seq(Char) :
                        /\ ~HasSeparator(v) => ParseSimple(w \o v) = ExtendedBy(ParseSimple(w), v)
                        /\ Len(ParseSimple(w \o v)) >= Len(ParseSimple(w))
                        /\ HasSeparator(v) => Len(ParseSimple(w \o v)) > Len(ParseSimple(w))
    OBVIOUS
  <1> DEFINE pw == ParseSimple(w)
             P(v) == ParseSimple(w \o v)
             T == {v \in Seq(Char) :
                     /\ ~HasSeparator(v) => P(v) = ExtendedBy(pw, v)
                     /\ Len(P(v)) >= Len(pw)
                     /\ HasSeparator(v) => Len(P(v)) > Len(pw)}
  <1>1. pw \in PartLists /\ ExtendedBy(pw, <<>>) = pw /\ Len(pw) \in Nat
    BY ParseSimpleSteps, ExtendedSteps
  <1>2. P(<<>>) = pw
    BY CharLaws
  <1>3. ASSUME NEW v \in Seq(Char), NEW c \in Char
        PROVE  /\ P(v) \in PartLists
               /\ P(Append(v, c)) = IF c = Separator THEN Append(P(v), <<>>) ELSE LastExtended(P(v), c)
    <2>1. w \o Append(v, c) = Append(w \o v, c)
      BY AppendToConcat
    <2>0. w \o v \in Seq(Char)
      BY ConcatProperties
    <2>2. QED
      BY <2>0, <2>1, ParseSimpleSteps
  <1> HIDE DEF pw, P
  <1>4. ASSUME NEW ps \in PartLists, NEW c \in Char
        PROVE  Len(LastExtended(ps, c)) = Len(ps) /\ Len(Append(ps, <<>>)) = Len(ps) + 1 /\ Len(ps) \in Nat
    <2>1. <<>> \in Seq(Char) /\ Append(<<>>, c) \in Seq(Char)
      BY CharLaws
    <2>2. LastExtended(ps, c) = ExtendedBy(ps, Append(<<>>, c))
      <3>1. LastExtended(ExtendedBy(ps, <<>>), c) = ExtendedBy(ps, Append(<<>>, c))
        BY <2>1, ExtendedSteps
      <3>2. ExtendedBy(ps, <<>>) = ps
        BY ExtendedSteps
      <3>3. QED
        BY <3>1, <3>2
    <2>3. QED
      BY <2>1, <2>2, ExtendedSteps
  <1>5. <<>> \in T
    BY <1>1, <1>2, SolidSteps
  <1>6. ASSUME NEW v \in Seq(Char), NEW c \in Char, v \in T PROVE Append(v, c) \in T
    <2>1. Append(v, c) \in Seq(Char)
      BY EndLaws
    <2>2. HasSeparator(Append(v, c)) <=> HasSeparator(v) \/ c = Separator
      BY SolidSteps
    <2>3. P(v) \in PartLists
      BY <1>3
    <2>4. CASE c = Separator
      <3>1. Len(P(Append(v, c))) = Len(P(v)) + 1 /\ Len(P(v)) \in Nat
        BY <1>3, <1>4, <2>3, <2>4
      <3>2. QED
        BY <1>1, <1>6, <2>1, <2>2, <2>4, <3>1
    <2>5. CASE c # Separator
      <3>1. P(Append(v, c)) = LastExtended(P(v), c)
        BY <1>3, <2>5
      <3>2. Len(P(Append(v, c))) = Len(P(v)) /\ Len(P(v)) \in Nat
        BY <1>4, <2>3, <3>1
      <3>3. ~HasSeparator(v) => P(Append(v, c)) = ExtendedBy(pw, Append(v, c))
        <4> SUFFICES ASSUME ~HasSeparator(v) PROVE P(Append(v, c)) = ExtendedBy(pw, Append(v, c))
          OBVIOUS
        <4>1. P(v) = ExtendedBy(pw, v)
          BY <1>6
        <4>2. LastExtended(ExtendedBy(pw, v), c) = ExtendedBy(pw, Append(v, c))
          BY <1>1, ExtendedSteps
        <4>3. QED
          BY <3>1, <4>1, <4>2
      <3>4. QED
        BY <1>1, <1>6, <2>1, <2>2, <2>5, <3>2, <3>3
    <2>6. QED
      BY <2>4, <2>5
  <1>7. \A v \in Seq(Char) : v \in T
    <2> HIDE DEF T
    <2>1. QED
      BY <1>5, <1>6, AppendInduction
  <1>8. QED
    BY <1>7 DEF pw, P

LEMMA PartsExtend ==
    \A w, v \in Seq(Char) : Solid(v) => Parts(w \o v) = ExtendedBy(Parts(w), v)
  <1> SUFFICES ASSUME NEW w \in Seq(Char)
               PROVE  \A v \in Seq(Char) : Solid(v) => Parts(w \o v) = ExtendedBy(Parts(w), v)
    OBVIOUS
  <1> DEFINE pw == Parts(w)
             P(v) == Parts(w \o v)
             T == {v \in Seq(Char) : Solid(v) => P(v) = ExtendedBy(pw, v)}
  <1>1. pw \in PartLists /\ ExtendedBy(pw, <<>>) = pw
    BY PartsSteps, ExtendedSteps
  <1>2. P(<<>>) = pw
    BY CharLaws
  <1>3. ASSUME NEW v \in Seq(Char), NEW c \in Char, c = Separator => EndsWithEscape(v)
        PROVE  P(Append(v, c)) = LastExtended(P(v), c)
    <2>1. w \o Append(v, c) = Append(w \o v, c)
      BY AppendToConcat
    <2>0. w \o v \in Seq(Char)
      BY ConcatProperties
    <2>2. EndsWithEscape(v) => EndsWithEscape(w \o v)
      BY EndLaws
    <2>3. QED
      BY <1>3, <2>0, <2>1, <2>2, PartsSteps
  <1> HIDE DEF pw, P
  <1>4. <<>> \in T
    BY <1>1, <1>2
  <1>5. ASSUME NEW v \in Seq(Char), NEW c \in Char, v \in T PROVE Append(v, c) \in T
    <2> SUFFICES ASSUME Solid(Append(v, c)) PROVE P(Append(v, c)) = ExtendedBy(pw, Append(v, c))
      BY EndLaws
    <2>1. Solid(v) /\ (c = Separator => EndsWithEscape(v))
      BY SolidSteps
    <2>2. P(v) = ExtendedBy(pw, v)
      BY <1>5, <2>1
    <2>3. P(Append(v, c)) = LastExtended(P(v), c)
      BY <1>3, <2>1
    <2>4. QED
      BY <1>1, <2>2, <2>3, ExtendedSteps
  <1>6. \A v \in Seq(Char) : v \in T
    <2> HIDE DEF T
    <2>1. QED
      BY <1>4, <1>5, AppendInduction
  <1>7. QED
    BY <1>6 DEF pw, P

\* An escaped component is read as one part.
LEMMA EscapedSolid ==
    \A v \in Seq(Char) :
        /\ Solid(Escaped(v))
        /\ EndsWithEscape(Escaped(v)) <=> EndsWithEscape(v)
        /\ HasSeparator(v) => HasSeparator(Escaped(v))
  <1> DEFINE T == {v \in Seq(Char) :
                     /\ Solid(Escaped(v))
                     /\ EndsWithEscape(Escaped(v)) <=> EndsWithEscape(v)
                     /\ HasSeparator(v) => HasSeparator(Escaped(v))}
  <1>1. <<>> \in T
    BY EscapedSteps, SolidSteps
  <1>2. ASSUME NEW v \in Seq(Char), NEW c \in Char, v \in T PROVE Append(v, c) \in T
    <2> DEFINE e == Escaped(v)
               z == Escaped(Append(v, c))
    <2>1. e \in Seq(Char) /\ Append(v, c) \in Seq(Char)
      BY EscapedSteps, EndLaws
    <2>2. z = e \o EscapedChar(c)
      BY EscapedEnd
    <2> HIDE DEF z
    <2>3. Solid(e) /\ (HasSeparator(v) => HasSeparator(e))
      BY <1>2
    <2> HIDE DEF e
    <2>4. EndsWithEscape(Append(v, c)) <=> c = Escape
      BY EndLaws
    <2>5. Escape \in Char /\ Separator \in Char /\ Escape # Separator
      BY MarkType
    <2>6. ASSUME ~Double(c)
          PROVE  /\ Solid(z) /\ (EndsWithEscape(z) <=> c = Escape)
                 /\ HasSeparator(z) <=> HasSeparator(e) \/ c = Separator
      <3>1. EscapedChar(c) = <<c>>
        BY <2>6 DEF EscapedChar, Double
      <3>2. z = Append(e, c)
        BY <2>1, <2>2, <3>1, CharLaws
      <3>3. c # Separator
        BY <2>6 DEF Double
      <3>4. QED
        BY <2>1, <2>3, <3>2, <3>3, SolidSteps, EndLaws
    <2>7. ASSUME Double(c)
          PROVE  /\ Solid(z) /\ (EndsWithEscape(z) <=> c = Escape)
                 /\ HasSeparator(z) <=> HasSeparator(e) \/ c = Separator
      <3> DEFINE d == Second(c)
                 y == Append(e, Escape)
      <3>1. EscapedChar(c) = <<Escape, d>> /\ d \in Char /\ (d = Escape <=> c = Escape) /\ (d = Separator <=> c = Separator)
        BY <2>5, <2>7 DEF EscapedChar, Double, Second
      <3> HIDE DEF d
      <3>2. <<Escape, d>> = Append(<<Escape>>, d) /\ <<Escape>> \in Seq(Char)
        BY <2>5, <3>1
      <3>3. e \o Append(<<Escape>>, d) = Append(e \o <<Escape>>, d)
        BY <2>1, <3>1, <3>2, EndLaws
      <3>4. y = e \o <<Escape>> /\ y \in Seq(Char)
        BY <2>1, <2>5, CharLaws
      <3>5. z = Append(y, d)
        BY <2>2, <3>1, <3>2, <3>3, <3>4
      <3>6. EndsWithEscape(y) /\ Solid(y) /\ (HasSeparator(y) <=> HasSeparator(e))
        BY <2>1, <2>3, <2>5, SolidSteps, EndLaws
      <3> HIDE DEF y
      <3>7. QED
        BY <3>1, <3>4, <3>5, <3>6, SolidSteps, EndLaws
    <2>8. HasSeparator(Append(v, c)) <=> HasSeparator(v) \/ c = Separator
      BY SolidSteps
    <2>9. /\ Solid(z) /\ (EndsWithEscape(z) <=> c = Escape)
          /\ HasSeparator(z) <=> HasSeparator(e) \/ c = Separator
      BY <2>6, <2>7
    <2>10. Append(v, c) \in T
      BY <2>1, <2>3, <2>4, <2>8, <2>9 DEF z
    <2>11. QED
      BY <2>10
  <1>3. \A v \in Seq(Char) : v \in T
    <2> HIDE DEF T
    <2>1. QED
      BY <1>1, <1>2, AppendInduction
  <1>4. QED
    BY <1>3

-----------------------------------------------------------------------------
(***************************************************************************)
(* Reading the id of a key, component by component.                        *)
(***************************************************************************)
LEMMA JoinSteps ==
    /\ \A d \in Seq(Char) : Join(<<d>>) = d
    /\ \A ds \in Seq(Seq(Char)) : ds # <<>> => Join(ds) \in Seq(Char)
    /\ \A ds \in Seq(Seq(Char)), d \in Seq(Char) :
          ds # <<>> => Join(Append(ds, d)) = Append(Join(ds), Separator) \o d
  <1> DEFINE X == Seq(Char)
  <1>0. SequenceLaws(X)
    BY Laws
  <1>1. <<>> \in Seq(X)
    OBVIOUS
  <1>2. ASSUME NEW d \in X PROVE Join(<<d>>) = d
    <2>1. <<d>> \o <<>> = <<d>> /\ <<d>> \in Seq(X)
      BY <1>0 DEF SequenceLaws
    <2>2. Join(<<d>> \o <<>>) = d \o Tails(<<>>)
      BY <1>1, JoinIs
    <2>3. d \o Tails(<<>>) = d
      BY TailsSteps, CharLaws
    <2>4. QED
      BY <2>1, <2>2, <2>3
  <1>3. ASSUME NEW ds \in Seq(X), ds # <<>>
        PROVE  \E c \in X, cs \in Seq(X) : ds = <<c>> \o cs
    BY <1>3, FirstAndRest DEF Cons
  <1>4. ASSUME NEW ds \in Seq(X), ds # <<>> PROVE Join(ds) \in X
    <2>1. PICK c \in X, cs \in Seq(X) : ds = <<c>> \o cs
      BY <1>3, <1>4
    <2>2. Join(ds) = c \o Tails(cs)
      BY <2>1, JoinIs
    <2>3. QED
      BY <2>2, TailsSteps, CharLaws
  <1>5. ASSUME NEW ds \in Seq(X), NEW d \in X, ds # <<>>
        PROVE  Join(Append(ds, d)) = Append(Join(ds), Separator) \o d
    <2>1. PICK c \in X, cs \in Seq(X) : ds = <<c>> \o cs
      BY <1>3, <1>5
    <2>2. Join(ds) = c \o Tails(cs)
      BY <2>1, JoinIs
    <2>3. <<c>> \in Seq(X) /\ Append(cs, d) \in Seq(X) /\ <<d>> \in Seq(X)
      BY <1>0 DEF SequenceLaws
    <2>4. Append(ds, d) = <<c>> \o Append(cs, d)
      BY <2>1, <2>3, AppendToConcat
    <2>5. Join(Append(ds, d)) = c \o Tails(Append(cs, d))
      BY <2>3, <2>4, JoinIs
    <2>6. Append(cs, d) = cs \o <<d>>
      BY <1>0 DEF SequenceLaws
    <2>7. Tails(Append(cs, d)) = Tails(cs) \o (<<Separator>> \o d)
      BY <2>3, <2>6, TailsSteps
    <2> DEFINE t == Tails(cs)
               m == <<Separator>>
    <2>8. t \in Seq(Char) /\ m \in Seq(Char) /\ Separator \in Char
      BY TailsSteps, MarkType
    <2> HIDE DEF t, m
    <2>9. c \o (t \o (m \o d)) = ((c \o t) \o m) \o d
      <3>1. (c \o t) \o (m \o d) = c \o (t \o (m \o d))
        <4> DEFINE md == m \o d
        <4>1. md \in Seq(Char)
          BY <2>8, ConcatProperties
        <4> HIDE DEF md
        <4>2. (c \o t) \o md = c \o (t \o md)
          BY <2>8, <4>1, ConcatAssociative
        <4>3. QED
          BY <4>2 DEF md
      <3>2. c \o t \in Seq(Char)
        BY <2>8, CharLaws
      <3>3. ((c \o t) \o m) \o d = (c \o t) \o (m \o d)
        <4> DEFINE ct == c \o t
        <4>1. ct \in Seq(Char)
          BY <3>2
        <4> HIDE DEF ct
        <4>2. (ct \o m) \o d = ct \o (m \o d)
          BY <2>8, <4>1, ConcatAssociative
        <4>3. QED
          BY <4>2 DEF ct
      <3>4. QED
        BY <3>1, <3>3
    <2>10. Append(Join(ds), Separator) = Join(ds) \o m
      BY <1>4, <1>5, <2>8, CharLaws DEF m
    <2>11. QED
      BY <2>2, <2>5, <2>7, <2>9, <2>10 DEF t, m
  <1>6. QED
    BY <1>2, <1>4, <1>5

AllSolid(ds) == \A n \in DOMAIN ds : Solid(ds[n])

NoneEnds(ds) == \A n \in 1..(Len(ds) - 1) : ~EndsWithEscape(ds[n])

LastEnds(ds) == ds # <<>> /\ EndsWithEscape(ds[Len(ds)])

LEMMA ContainsSeparator ==
    \A v \in Seq(Char) : Contains(v, Separator) <=> HasSeparator(v)
  BY DEF Contains, HasSeparator

LEMMA KeySteps ==
    /\ AllSolid(<<>>) /\ NoneEnds(<<>>) /\ ~LastEnds(<<>>) /\ ~EscapingRequired(<<>>)
    /\ \A ds \in Seq(Seq(Char)), d \in Seq(Char) :
          /\ AllSolid(Append(ds, d)) <=> AllSolid(ds) /\ Solid(d)
          /\ NoneEnds(Append(ds, d)) <=> NoneEnds(ds) /\ ~LastEnds(ds)
          /\ LastEnds(Append(ds, d)) <=> EndsWithEscape(d)
          /\ EscapingRequired(Append(ds, d)) <=> EscapingRequired(ds) \/ HasSeparator(d)
          /\ Append(ds, d) # <<>> /\ Len(Append(ds, d)) = Len(ds) + 1
          /\ Append(ds, d) \in Seq(Seq(Char))
  <1>1. AllSolid(<<>>) /\ NoneEnds(<<>>) /\ ~LastEnds(<<>>) /\ ~EscapingRequired(<<>>)
    BY DEF AllSolid, NoneEnds, LastEnds, EscapingRequired
  <1>2. ASSUME NEW ds \in Seq(Seq(Char)), NEW d \in Seq(Char)
        PROVE  /\ AllSolid(Append(ds, d)) <=> AllSolid(ds) /\ Solid(d)
               /\ NoneEnds(Append(ds, d)) <=> NoneEnds(ds) /\ ~LastEnds(ds)
               /\ LastEnds(Append(ds, d)) <=> EndsWithEscape(d)
               /\ EscapingRequired(Append(ds, d)) <=> EscapingRequired(ds) \/ HasSeparator(d)
               /\ Append(ds, d) # <<>> /\ Len(Append(ds, d)) = Len(ds) + 1
               /\ Append(ds, d) \in Seq(Seq(Char))
    <2> DEFINE X == Seq(Char)
               z == Append(ds, d)
               m == Len(ds)
    <2>0. ds \in Seq(X) /\ d \in X
      OBVIOUS
    <2> HIDE DEF X
    <2>1. z \in Seq(X) /\ DOMAIN z = 1..(m + 1) /\ Len(z) = m + 1 /\ z[m + 1] = d /\ m \in Nat /\ DOMAIN ds = 1..m
          /\ z # <<>> /\ \A i \in 1..m : z[i] = ds[i] /\ ds[i] \in X
      BY <2>0, AppendProperties
    <2>2. ds # <<>> <=> m > 0
      BY <2>0
    <2> HIDE DEF z, m
    <2>3. \A i \in 1..(m + 1) : i = m + 1 \/ i \in 1..m
      BY <2>1
    <2>4. m + 1 \in 1..(m + 1) /\ \A i \in 1..m : i \in 1..(m + 1)
      BY <2>1
    <2>5. AllSolid(z) <=> AllSolid(ds) /\ Solid(d)
      BY <2>1, <2>3, <2>4 DEF AllSolid
    <2>6. EscapingRequired(z) <=> EscapingRequired(ds) \/ Contains(d, Separator)
      BY <2>1, <2>3, <2>4 DEF EscapingRequired
    <2>7. Contains(d, Separator) <=> HasSeparator(d)
      BY ContainsSeparator
    <2>8. LastEnds(z) <=> EndsWithEscape(d)
      BY <2>1 DEF LastEnds
    <2>9. LastEnds(ds) <=> m > 0 /\ EndsWithEscape(ds[m])
      BY <2>2 DEF LastEnds, m
    <2>10. NoneEnds(z) <=> \A n \in 1..m : ~EndsWithEscape(ds[n])
      <3>1. (m + 1) - 1 = m
        BY <2>1
      <3>2. NoneEnds(z) <=> \A n \in 1..m : ~EndsWithEscape(z[n])
        BY <2>1, <3>1 DEF NoneEnds
      <3>3. QED
        BY <2>1, <3>2
    <2>11. \A n \in 1..m : n = m \/ n \in 1..(m - 1)
      BY <2>1
    <2>12. (m > 0 => m \in 1..m) /\ \A n \in 1..(m - 1) : n \in 1..m
      BY <2>1
    <2>13. NoneEnds(ds) <=> \A n \in 1..(m - 1) : ~EndsWithEscape(ds[n])
      BY DEF NoneEnds, m
    <2>14. m = 0 => ~(\E n \in 1..m : TRUE)
      BY <2>1
    <2>15. NoneEnds(z) <=> NoneEnds(ds) /\ ~LastEnds(ds)
      <3>1. CASE m > 0
        BY <2>9, <2>10, <2>11, <2>12, <2>13, <3>1
      <3>2. CASE ~(m > 0)
        <4>1. m = 0
          BY <2>1, <3>2
        <4>2. QED
          BY <2>9, <2>10, <2>12, <2>13, <2>14, <3>2, <4>1
      <3>3. QED
        BY <3>1, <3>2
    <2>16. QED
      BY <2>1, <2>5, <2>6, <2>7, <2>8, <2>15 DEF z, m, X
  <1>3. QED
    BY <1>1, <1>2

\* CompositeIdEncodingSimple reads an id with as many parts as it has separators, and one more.
SimplyRead(ds) ==
    /\ ~EscapingRequired(ds) => ParseSimple(Join(ds)) = ds
    /\ EscapingRequired(ds) => Len(ParseSimple(Join(ds))) > Len(ds)

LEMMA SimpleRead ==
    \A ds \in Seq(Seq(Char)) : ds # <<>> => SimplyRead(ds)
  <1> DEFINE X == Seq(Char)
             T == {ds \in Seq(X) : ds # <<>> => SimplyRead(ds)}
  <1>1. <<>> \in T
    OBVIOUS
  <1>2. ASSUME NEW ds \in Seq(X), NEW d \in X, ds \in T PROVE Append(ds, d) \in T
    <2> DEFINE id == Join(Append(ds, d))
               p == ParseSimple(id)
    <2>1. /\ EscapingRequired(Append(ds, d)) <=> EscapingRequired(ds) \/ HasSeparator(d)
          /\ Append(ds, d) \in Seq(X) /\ Len(Append(ds, d)) = Len(ds) + 1 /\ Len(ds) \in Nat
      BY KeySteps
    <2>2. ASSUME NEW w \in Seq(Char), NEW ps \in Seq(X), ParseSimple(w) = Append(ps, <<>>), id = w \o d,
                 IF EscapingRequired(ds) THEN Len(ps) > Len(ds) ELSE ps = ds
          PROVE  SimplyRead(Append(ds, d))
      <3>1. Len(ParseSimple(w)) = Len(ps) + 1 /\ ExtendedBy(Append(ps, <<>>), d) = Append(ps, d) /\ Len(ps) \in Nat
        <4>1. Len(Append(ps, <<>>)) = Len(ps) + 1 /\ ExtendedBy(Append(ps, <<>>), d) = Append(ps, d)
          BY ExtendedSteps
        <4>2. Len(ps) \in Nat
          OBVIOUS
        <4>3. QED
          BY <2>2, <4>1, <4>2
      <3>2. /\ ~HasSeparator(d) => ParseSimple(w \o d) = ExtendedBy(ParseSimple(w), d)
            /\ Len(ParseSimple(w \o d)) >= Len(ParseSimple(w))
            /\ HasSeparator(d) => Len(ParseSimple(w \o d)) > Len(ParseSimple(w))
        BY ParseSimpleExtends
      <3>3. ParseSimple(w \o d) \in PartLists
        BY ParseSimpleSteps, CharLaws
      <3>4. Len(p) \in Nat
        BY <2>2, <3>3, ExtendedSteps
      <3>5. ~HasSeparator(d) => p = Append(ps, d)
        BY <2>2, <3>1, <3>2
      <3>6. Len(p) >= Len(ps) + 1 /\ (HasSeparator(d) => Len(p) > Len(ps) + 1)
        BY <2>2, <3>1, <3>2
      <3> HIDE DEF p, id
      <3>7. CASE EscapingRequired(ds)
        BY <2>1, <2>2, <3>1, <3>4, <3>6, <3>7 DEF SimplyRead, p, id
      <3>8. CASE ~EscapingRequired(ds)
        BY <2>1, <2>2, <3>1, <3>4, <3>5, <3>6, <3>8 DEF SimplyRead, p, id
      <3>9. QED
        BY <3>7, <3>8
    <2>3. CASE ds = <<>>
      <3>1. id = d
        <4>1. Append(ds, d) = <<d>>
          BY <2>3
        <4>2. QED
          BY <4>1, JoinSteps
      <3>2. <<>> \in Seq(Char) /\ <<>> \o d = d
        BY CharLaws
      <3>3. ParseSimple(<<>>) = Append(ds, <<>>)
        BY <2>3, ParseSimpleSteps
      <3>4. ~EscapingRequired(ds)
        BY <2>3, KeySteps
      <3> HIDE DEF id
      <3>5. SimplyRead(Append(ds, d))
        BY <2>2, <3>1, <3>2, <3>3, <3>4
      <3>6. QED
        BY <2>1, <3>5
    <2>4. CASE ds # <<>>
      <3> DEFINE j == Join(ds)
                 w == Append(j, Separator)
      <3>1. j \in Seq(Char) /\ id = w \o d /\ Separator \in Char
        BY <2>4, JoinSteps, MarkType
      <3>2. w \in Seq(Char) /\ ParseSimple(w) = Append(ParseSimple(j), <<>>)
        BY <3>1, ParseSimpleSteps, EndLaws
      <3>3. ParseSimple(j) \in Seq(X)
        BY <3>1, ParseSimpleSteps, ExtendedSteps
      <3>4. IF EscapingRequired(ds) THEN Len(ParseSimple(j)) > Len(ds) ELSE ParseSimple(j) = ds
        BY <1>2, <2>4 DEF SimplyRead
      <3> HIDE DEF w, id, j
      <3>5. SimplyRead(Append(ds, d))
        BY <2>2, <3>1, <3>2, <3>3, <3>4
      <3>6. QED
        BY <2>1, <3>5
    <2>5. QED
      BY <2>3, <2>4
  <1>3. \A ds \in Seq(X) : ds \in T
    <2> HIDE DEF T, X
    <2>1. QED
      BY <1>1, <1>2, AppendInduction
  <1>4. QED
    BY <1>3

\* CompositeIdEncodingEscaped takes an id apart between the components it was made of,
\* save where one that is not the last ends with an escape.
Apart(ds) ==
    /\ NoneEnds(ds) => Parts(Join(ds)) = ds
    /\ ~NoneEnds(ds) => Len(Parts(Join(ds))) < Len(ds)
    /\ EndsWithEscape(Join(ds)) <=> LastEnds(ds)

LEMMA PartsRead ==
    \A ds \in Seq(Seq(Char)) : ds # <<>> /\ AllSolid(ds) => Apart(ds)
  <1> DEFINE X == Seq(Char)
             T == {ds \in Seq(X) : ds # <<>> /\ AllSolid(ds) => Apart(ds)}
  <1>1. <<>> \in T
    OBVIOUS
  <1>2. ASSUME NEW ds \in Seq(X), NEW d \in X, ds \in T PROVE Append(ds, d) \in T
    <2> DEFINE z == Append(ds, d)
               id == Join(z)
    <2>1. /\ AllSolid(z) => AllSolid(ds) /\ Solid(d)
          /\ NoneEnds(z) <=> NoneEnds(ds) /\ ~LastEnds(ds)
          /\ LastEnds(z) <=> EndsWithEscape(d)
          /\ z \in Seq(X) /\ Len(z) = Len(ds) + 1 /\ Len(ds) \in Nat
      BY KeySteps
    <2> SUFFICES ASSUME AllSolid(z) PROVE Apart(z)
      BY <2>1
    <2>2. CASE ds = <<>>
      <3>1. id = d /\ z = <<d>>
        <4>1. z = <<d>>
          BY <2>2
        <4>2. QED
          BY <4>1, JoinSteps
      <3>2. <<>> \o d = d /\ <<>> \in Seq(Char)
        BY CharLaws
      <3>3. Parts(<<>> \o d) = ExtendedBy(Parts(<<>>), d)
        BY <2>1, <3>2, PartsExtend
      <3>4. Parts(<<>>) = Append(ds, <<>>) /\ ExtendedBy(Append(ds, <<>>), d) = z
        <4>1. Parts(<<>>) = Append(ds, <<>>)
          BY <2>2, PartsSteps
        <4>2. ExtendedBy(Append(ds, <<>>), d) = Append(ds, d)
          BY ExtendedSteps
        <4>3. QED
          BY <4>1, <4>2
      <3>5. Parts(id) = z
        BY <3>1, <3>2, <3>3, <3>4
      <3>6. NoneEnds(z)
        BY <2>1, <2>2, KeySteps
      <3> HIDE DEF z, id
      <3>7. QED
        BY <2>1, <3>1, <3>5, <3>6 DEF Apart, id
    <2>3. CASE ds # <<>>
      <3> DEFINE j == Join(ds)
                 w == Append(j, Separator)
                 p == Parts(j)
      <3>1. j \in Seq(Char) /\ id = w \o d /\ Separator \in Char /\ Separator # Escape
        BY <2>3, JoinSteps, MarkType
      <3>2. w \in Seq(Char) /\ Parts(w) = IF EndsWithEscape(j) THEN LastExtended(p, Separator) ELSE Append(p, <<>>)
        BY <3>1, PartsSteps, EndLaws
      <3>3. p \in PartLists /\ p \in Seq(X) /\ Len(p) \in Nat
        BY <3>1, PartsSteps, ExtendedSteps
      <3>4. Parts(w \o d) = ExtendedBy(Parts(w), d)
        BY <2>1, <3>2, PartsExtend
      <3>5. Apart(ds)
        BY <1>2, <2>1, <2>3
      <3>6. EndsWithEscape(id) <=> EndsWithEscape(d)
        <4>1. CASE d = <<>>
          <5>1. w \o d = w
            BY <3>2, <4>1, CharLaws
          <5>2. ~EndsWithEscape(w) /\ ~EndsWithEscape(d)
            BY <3>1, <4>1, EndLaws
          <5>3. QED
            BY <3>1, <5>1, <5>2
        <4>2. CASE d # <<>>
          <5> HIDE DEF w, id
          <5>1. QED
            BY <3>1, <3>2, <4>2, EndLaws
        <4>3. QED
          BY <4>1, <4>2
      <3>7. EndsWithEscape(j) <=> LastEnds(ds)
        BY <3>5 DEF Apart
      <3>8. (NoneEnds(ds) => p = ds) /\ (~NoneEnds(ds) => Len(p) < Len(ds))
        BY <3>5 DEF Apart
      <3> HIDE DEF w, j, p
      <3>9. CASE LastEnds(ds)
        <4> DEFINE q == LastExtended(p, Separator)
        <4>1. q \in PartLists /\ Len(q) = Len(p)
          <5>0. <<>> \in Seq(Char)
            OBVIOUS
          <5>1. LastExtended(ExtendedBy(p, <<>>), Separator) = ExtendedBy(p, Append(<<>>, Separator))
            BY <3>1, <3>3, <5>0, ExtendedSteps
          <5>2. Append(<<>>, Separator) \in Seq(Char)
            BY <3>1
          <5>3. q = ExtendedBy(p, Append(<<>>, Separator))
            BY <3>3, <5>1, ExtendedSteps
          <5>4. QED
            BY <3>3, <5>2, <5>3, ExtendedSteps
        <4>2. Parts(id) = ExtendedBy(q, d)
          BY <3>1, <3>2, <3>4, <3>7, <3>9
        <4> HIDE DEF q, z, id
        <4>3. Len(Parts(id)) = Len(p)
          BY <4>1, <4>2, ExtendedSteps
        <4>4. Len(p) <= Len(ds)
          BY <2>1, <3>3, <3>8
        <4>5. Len(Parts(id)) < Len(z)
          BY <2>1, <3>3, <4>3, <4>4
        <4>6. QED
          BY <2>1, <3>6, <3>9, <4>5 DEF Apart, id
      <3>10. CASE ~LastEnds(ds)
        <4>1. Parts(w) = Append(p, <<>>) /\ ExtendedBy(Append(p, <<>>), d) = Append(p, d)
          BY <3>2, <3>3, <3>7, <3>10, ExtendedSteps
        <4>2. Parts(id) = Append(p, d)
          BY <3>1, <3>4, <4>1
        <4>3. Len(Append(p, d)) = Len(p) + 1
          BY <3>3, KeySteps
        <4>4. NoneEnds(ds) => Parts(id) = z
          BY <3>8, <4>2
        <4> HIDE DEF z, id
        <4>5. ~NoneEnds(ds) => Len(Parts(id)) < Len(z)
          BY <2>1, <3>3, <3>8, <4>2, <4>3
        <4>6. QED
          BY <2>1, <3>6, <3>10, <4>4, <4>5 DEF Apart, id
      <3>11. QED
        BY <3>9, <3>10
    <2>4. QED
      BY <2>2, <2>3
  <1>3. \A ds \in Seq(X) : ds \in T
    <2> HIDE DEF T, X
    <2>1. QED
      BY <1>1, <1>2, AppendInduction
  <1>4. QED
    BY <1>3

LEMMA EscapedAllIs ==
    \A k \in Seq(Seq(Char)) :
        /\ EscapedAll(k) = [n \in DOMAIN k |-> Escaped(k[n])]
        /\ EscapedAll(k) \in Seq(Seq(Char)) /\ Len(EscapedAll(k)) = Len(k)
        /\ k # <<>> => EscapedAll(k) # <<>>
        /\ AllSolid(EscapedAll(k))
        /\ NoneEnds(EscapedAll(k)) <=> NoneEnds(k)
        /\ EscapingRequired(k) => EscapingRequired(EscapedAll(k))
  <1> DEFINE X == Seq(Char)
  <1> SUFFICES ASSUME NEW k \in Seq(X)
               PROVE  /\ EscapedAll(k) = [n \in DOMAIN k |-> Escaped(k[n])]
                      /\ EscapedAll(k) \in Seq(X) /\ Len(EscapedAll(k)) = Len(k)
                      /\ k # <<>> => EscapedAll(k) # <<>>
                      /\ AllSolid(EscapedAll(k))
                      /\ NoneEnds(EscapedAll(k)) <=> NoneEnds(k)
                      /\ EscapingRequired(k) => EscapingRequired(EscapedAll(k))
    OBVIOUS
  <1> DEFINE e == EscapedAll(k)
  <1>1. DOMAIN k = 1..Len(k) /\ Len(k) \in Nat /\ \A n \in DOMAIN k : k[n] \in X
    OBVIOUS
  <1>2. e \in Seq(X) /\ Len(e) = Len(k) /\ DOMAIN e = 1..Len(k)
    BY EscapedAllSteps
  <1>3. \A n \in DOMAIN k : Mask[k[n]] = Escaped(k[n])
    BY <1>1, MarkType
  <1>4. e = [n \in DOMAIN k |-> Escaped(k[n])]
    BY <1>3 DEF EscapedAll, MapSeq
  <1>5. \A n \in DOMAIN k : e[n] = Escaped(k[n])
    BY <1>4
  <1>6. k # <<>> => e # <<>>
    BY <1>1, <1>2
  <1> HIDE DEF e
  <1>7. AllSolid(e)
    BY <1>1, <1>2, <1>5, EscapedSolid DEF AllSolid
  <1>8. NoneEnds(e) <=> NoneEnds(k)
    <2>1. \A n \in 1..(Len(k) - 1) : n \in DOMAIN k
      BY <1>1
    <2>2. \A n \in 1..(Len(k) - 1) : EndsWithEscape(e[n]) <=> EndsWithEscape(k[n])
      BY <1>1, <1>5, <2>1, EscapedSolid
    <2>3. QED
      BY <1>2, <2>2 DEF NoneEnds
  <1>9. EscapingRequired(k) => EscapingRequired(e)
    <2> SUFFICES ASSUME NEW n \in DOMAIN k, Contains(k[n], Separator) PROVE EscapingRequired(e)
      BY DEF EscapingRequired
    <2>1. k[n] \in X /\ Escaped(k[n]) \in X
      BY <1>1, EscapedSteps
    <2>2. HasSeparator(k[n])
      BY <2>1, ContainsSeparator
    <2>3. HasSeparator(Escaped(k[n]))
      BY <2>1, <2>2, EscapedSolid
    <2>4. Contains(e[n], Separator)
      BY <1>5, <2>1, <2>3, ContainsSeparator
    <2>5. QED
      BY <1>1, <1>2, <2>4 DEF EscapingRequired
  <1>10. QED
    BY <1>2, <1>4, <1>6, <1>7, <1>8, <1>9 DEF e

\* No two keys with as many components have the same id.
LEMMA IdsDiffer ==
    \A k, l \in Seq(Seq(Char)) :
        k # <<>> /\ Len(k) = Len(l) /\ CreateCompositeId(k) = CreateCompositeId(l) => k = l
  <1> DEFINE X == Seq(Char)
  <1>1. ASSUME NEW k \in Seq(X), k # <<>>
        PROVE  /\ EscapingRequired(k) => CreateCompositeId(k) = Join(EscapedAll(k))
                                         /\ Len(ParseSimple(CreateCompositeId(k))) > Len(k)
               /\ ~EscapingRequired(k) => CreateCompositeId(k) = Join(k) /\ ParseSimple(CreateCompositeId(k)) = k
    <2>1. EscapingRequired(k) => CreateCompositeId(k) = Join(EscapedAll(k))
      BY EscapedAllIs DEF CreateCompositeId
    <2>2. ~EscapingRequired(k) => CreateCompositeId(k) = Join(k)
      BY DEF CreateCompositeId
    <2>3. SimplyRead(k)
      BY <1>1, SimpleRead
    <2>4. EscapingRequired(k) => EscapingRequired(EscapedAll(k)) /\ SimplyRead(EscapedAll(k))
                                 /\ Len(EscapedAll(k)) = Len(k)
      BY <1>1, EscapedAllIs, SimpleRead
    <2>5. QED
      BY <2>1, <2>2, <2>3, <2>4 DEF SimplyRead
  <1> SUFFICES ASSUME NEW k \in Seq(X), NEW l \in Seq(X), k # <<>>, Len(k) = Len(l),
                      CreateCompositeId(k) = CreateCompositeId(l)
               PROVE  k = l
    OBVIOUS
  <1>2. l # <<>> /\ Len(k) \in Nat
    BY EmptySeq
  <1>3. CASE EscapingRequired(k) /\ EscapingRequired(l)
    BY <1>1, <1>2, <1>3, EscapedIdsDiffer
  <1>4. CASE ~EscapingRequired(k) /\ ~EscapingRequired(l)
    BY <1>1, <1>2, <1>4
  <1>5. CASE ~(EscapingRequired(k) <=> EscapingRequired(l))
    <2>1. ~EscapingRequired(k) => Len(ParseSimple(CreateCompositeId(k))) = Len(k)
      BY <1>1
    <2>2. ~EscapingRequired(l) => Len(ParseSimple(CreateCompositeId(l))) = Len(l)
      BY <1>1, <1>2
    <2>3. EscapingRequired(k) => Len(ParseSimple(CreateCompositeId(k))) > Len(k)
      BY <1>1
    <2>4. EscapingRequired(l) => Len(ParseSimple(CreateCompositeId(l))) > Len(l)
      BY <1>1, <1>2
    <2>5. QED
      BY <1>2, <1>5, <2>1, <2>2, <2>3, <2>4
  <1>6. QED
    BY <1>3, <1>4, <1>5

LEMMA KeyType ==
    /\ \A c \in Component : c \in Seq(Char)
    /\ \A k \in Key : /\ k \in Seq(Seq(Char)) /\ k # <<>> /\ Len(k) \in Nat /\ DOMAIN k = 1..Len(k)
                      /\ k \in [DOMAIN k -> Component]
                      /\ \A l \in [DOMAIN k -> Component] : l \in Seq(Seq(Char)) /\ Len(l) = Len(k)
  <1>1. ASSUME NEW c \in Component PROVE c \in Seq(Char)
    <2>1. PICK n \in 0..MaxLength : c \in [1..n -> Char]
      BY DEF Component, Char
    <2>2. n \in Nat
      OBVIOUS
    <2>3. QED
      BY <2>1, <2>2
  <1>2. ASSUME NEW k \in Key
        PROVE  /\ k \in Seq(Seq(Char)) /\ k # <<>> /\ Len(k) \in Nat /\ DOMAIN k = 1..Len(k)
               /\ k \in [DOMAIN k -> Component]
               /\ \A l \in [DOMAIN k -> Component] : l \in Seq(Seq(Char)) /\ Len(l) = Len(k)
    <2>1. PICK n \in 1..MaxComponents : k \in [1..n -> Component]
      BY DEF Key
    <2>2. n \in Nat /\ n > 0
      OBVIOUS
    <2>3. ASSUME NEW l \in [1..n -> Component]
          PROVE  l \in Seq(Seq(Char)) /\ Len(l) = n /\ DOMAIN l = 1..n
      <3>1. l \in [1..n -> Seq(Char)]
        BY <1>1
      <3>2. QED
        BY <2>2, <3>1
    <2>4. DOMAIN k = 1..n
      BY <2>1
    <2>5. QED
      BY <2>1, <2>2, <2>3, <2>4
  <1>3. QED
    BY <1>1, <1>2

LEMMA KeysHaveDistinctIds == \A key \in Key : IdDistinct(key)
  <1> SUFFICES ASSUME NEW key \in Key, NEW other \in [DOMAIN key -> Component],
                      CreateCompositeId(other) = CreateCompositeId(key)
               PROVE  other = key
    BY DEF IdDistinct
  <1>1. key \in Seq(Seq(Char)) /\ key # <<>> /\ other \in Seq(Seq(Char)) /\ Len(other) = Len(key)
    BY KeyType
  <1>2. QED
    BY <1>1, IdsDiffer

-----------------------------------------------------------------------------
(***************************************************************************)
(* Contracting pairs of characters.                                        *)
(***************************************************************************)
Scans == [out : Seq(Char), skip : BOOLEAN]
Scan == [out |-> <<>>, skip |-> FALSE]

Scanned(acc, pair, c, by) ==
    IF acc.skip THEN [acc EXCEPT !.skip = FALSE]
    ELSE IF pair THEN [out |-> Append(acc.out, by), skip |-> TRUE]
         ELSE [acc EXCEPT !.out = Append(@, c)]

ScanStep(by) ==
    [p \in Scans \X (BOOLEAN \X Char) |-> Scanned(p[1], p[2][1], p[2][2], by)]

LEMMA ScanLoop ==
    ASSUME NEW by \in Char
    PROVE  /\ IsLoop(Scans, BOOLEAN \X Char, Scan, ScanStep(by))
           /\ \A acc \in Scans, pair \in BOOLEAN, c \in Char :
                 ScanStep(by)[<<acc, <<pair, c>>>>] = Scanned(acc, pair, c, by)
  <1>1. Scan \in Scans
    BY DEF Scan, Scans
  <1>2. ASSUME NEW acc \in Scans, NEW pair \in BOOLEAN, NEW c \in Char
        PROVE  Scanned(acc, pair, c, by) \in Scans
    <2>1. acc.out \in Seq(Char) /\ acc.skip \in BOOLEAN
      BY DEF Scans
    <2>2. Append(acc.out, by) \in Seq(Char) /\ Append(acc.out, c) \in Seq(Char)
      BY <2>1, EndLaws
    <2>3. QED
      BY <2>1, <2>2 DEF Scanned, Scans
  <1>3. ASSUME NEW p \in Scans \X (BOOLEAN \X Char)
        PROVE  Scanned(p[1], p[2][1], p[2][2], by) \in Scans
    <2>1. p[1] \in Scans /\ p[2][1] \in BOOLEAN /\ p[2][2] \in Char
      OBVIOUS
    <2>2. QED
      BY <1>2, <2>1
  <1>4. ScanStep(by) \in [Scans \X (BOOLEAN \X Char) -> Scans]
    BY <1>3 DEF ScanStep
  <1>5. ASSUME NEW acc \in Scans, NEW pair \in BOOLEAN, NEW c \in Char
        PROVE  ScanStep(by)[<<acc, <<pair, c>>>>] = Scanned(acc, pair, c, by)
    BY DEF ScanStep
  <1>6. QED
    BY <1>1, <1>4, <1>5 DEF IsLoop

PairsIn(w, first, second) == {n \in DOMAIN w : n < Len(w) /\ w[n] = first /\ w[n + 1] = second}

LEMMA ContractedIsRun ==
    ASSUME NEW w \in Seq(Char), NEW first, NEW second, NEW by \in Char
    PROVE  Contracted(w, first, second, by)
             = Run(Scan, ScanStep(by), Decorated(w, PairsIn(w, first, second))).out
  <1> DEFINE n == Len(w)
             d == Decorated(w, PairsIn(w, first, second))
             delta == ScanStep(by)
             pos == [i \in DOMAIN w |-> i]
             Next2(acc, i) ==
               IF acc.skip THEN [acc EXCEPT !.skip = FALSE]
               ELSE IF i < Len(w) /\ w[i] = first /\ w[i + 1] = second
                    THEN [out |-> Append(acc.out, by), skip |-> TRUE]
                    ELSE [acc EXCEPT !.out = Append(@, w[i])]
             Eq(g) == g = [t \in SUBSET (DOMAIN pos) |->
                             IF t = {} THEN [out |-> <<>>, skip |-> FALSE]
                             ELSE Next2(g[t \ {Max(t)}], pos[Max(t)])]
  <1>1. Contracted(w, first, second, by) = (CHOOSE g : Eq(g))[DOMAIN pos].out
    BY DEF Contracted, FoldLeftDomain, FoldLeft, MapThenFoldSet
  <1>2. DOMAIN pos = 1..n /\ \A i \in 1..n : pos[i] = i
    OBVIOUS
  <1>3. d \in Seq(BOOLEAN \X Char) /\ Len(d) = n
        /\ \A i \in 1..n : d[i] = <<i \in PairsIn(w, first, second), w[i]>>
    BY DecoratedType
  <1>4. n \in Nat /\ \A i \in 1..n : w[i] \in Char
    OBVIOUS
  <1>0. IsLoop(Scans, BOOLEAN \X Char, Scan, delta)
    BY ScanLoop
  <1>5. \A acc \in Scans, i \in 1..n : delta[<<acc, d[i]>>] = Next2(acc, i)
    <2> SUFFICES ASSUME NEW acc \in Scans, NEW i \in 1..n
                 PROVE  delta[<<acc, d[i]>>] = Next2(acc, i)
      OBVIOUS
    <2> DEFINE pair == i \in PairsIn(w, first, second)
    <2>1. d[i] = <<pair, w[i]>> /\ w[i] \in Char
      BY <1>3, <1>4
    <2>2. pair \in BOOLEAN
      <3>1. \A m : (m \in PairsIn(w, first, second)) \in BOOLEAN
        OBVIOUS
      <3>2. QED
        BY <3>1
    <2>3. pair <=> i < Len(w) /\ w[i] = first /\ w[i + 1] = second
      BY DEF PairsIn
    <2> HIDE DEF d, pair
    <2>4. delta[<<acc, <<pair, w[i]>>>>] = Scanned(acc, pair, w[i], by)
      BY <2>1, <2>2, ScanLoop
    <2>5. QED
      BY <2>1, <2>3, <2>4 DEF Scanned
  <1> HIDE DEF d, n, Next2, pos, delta
  <1>6. PICK g \in [SUBSET (1..Len(d)) -> Scans] : FoldsSeq(g, Scan, delta, d)
    BY <1>0, <1>3, FoldOfLoop
  <1>7. \A t \in SUBSET (1..n) : t # {} => Max(t) \in 1..n /\ t \ {Max(t)} \in SUBSET (1..n)
    BY <1>4, LargestOf
  <1>8. Eq(g)
    <2>1. ASSUME NEW t \in SUBSET (1..n)
          PROVE  g[t] = IF t = {} THEN Scan ELSE Next2(g[t \ {Max(t)}], pos[Max(t)])
      <3>1. g[t] = IF t = {} THEN Scan ELSE delta[<<g[t \ {Max(t)}], d[Max(t)]>>]
        BY <1>3, <1>6 DEF FoldsSeq
      <3>2. CASE t = {}
        BY <3>1, <3>2
      <3>3. CASE t # {}
        <4>1. Max(t) \in 1..n /\ g[t \ {Max(t)}] \in Scans
          BY <1>3, <1>6, <1>7, <3>3
        <4>2. QED
          BY <1>2, <1>5, <3>1, <3>3, <4>1
      <3>4. QED
        BY <3>2, <3>3
    <2>2. g = [t \in SUBSET (1..n) |-> g[t]]
      BY <1>3, <1>6
    <2>3. QED
      BY <1>2, <2>1, <2>2 DEF Scan
  <1>9. Eq(CHOOSE h : Eq(h))
    BY <1>8
  <1>10. ASSUME NEW h, Eq(h) PROVE h[1..n] = Run(Scan, delta, d)
    <2>1. h[{}] = Scan
      BY <1>2, <1>10 DEF Scan
    <2>2. ASSUME NEW t \in SUBSET (1..n), t # {}, h[t \ {Max(t)}] \in Scans
          PROVE  h[t] = delta[<<h[t \ {Max(t)}], d[Max(t)]>>]
      <3>1. h[t] = Next2(h[t \ {Max(t)}], pos[Max(t)])
        BY <1>2, <1>10, <2>2
      <3>2. Max(t) \in 1..n /\ pos[Max(t)] = Max(t)
        BY <1>2, <1>7, <2>2
      <3>3. QED
        BY <1>5, <2>2, <3>1, <3>2
    <2>3. FoldsWithin(h, Scans, Scan, delta, d)
      BY <1>3, <2>1, <2>2 DEF FoldsWithin
    <2> HIDE DEF Eq
    <2>4. h[1..Len(d)] = Run(Scan, delta, d)
      BY <1>0, <1>3, <2>3, FoldIsRun
    <2>5. QED
      BY <1>3, <2>4
  <1> HIDE DEF Eq
  <1>11. QED
    BY <1>1, <1>2, <1>9, <1>10 DEF d, delta

\* The scan of what follows does not depend on what was written before.
Prefixed(c, acc) == [out |-> Cons(c, acc.out), skip |-> acc.skip]

LEMMA PrefixedScan ==
    ASSUME NEW by \in Char, NEW c \in Char, NEW d0 \in Seq(BOOLEAN \X Char),
           Run(Scan, ScanStep(by), d0) = Prefixed(c, Scan)
    PROVE  \A d \in Seq(BOOLEAN \X Char) :
              Run(Scan, ScanStep(by), d0 \o d) = Prefixed(c, Run(Scan, ScanStep(by), d))
  <1> DEFINE Y == BOOLEAN \X Char
             delta == ScanStep(by)
             R(d) == Run(Scan, delta, d)
             T == {d \in Seq(Y) : R(d0 \o d) = Prefixed(c, R(d))}
  <1>1. R(<<>>) = Scan /\ \A d \in Seq(Y) : R(d) \in Scans
    BY ScanLoop, RunSteps
  <1>2. \A d \in Seq(Y), y \in Y : R(Append(d, y)) = delta[<<R(d), y>>]
    BY ScanLoop, RunSteps
  <1>3. ASSUME NEW acc \in Scans, NEW y \in Y
        PROVE  delta[<<Prefixed(c, acc), y>>] = Prefixed(c, delta[<<acc, y>>])
    <2>1. PICK pair \in BOOLEAN, x \in Char : y = <<pair, x>>
      OBVIOUS
    <2> DEFINE o == acc.out
    <2>2. acc.out \in Seq(Char) /\ acc.skip \in BOOLEAN /\ acc = [out |-> acc.out, skip |-> acc.skip]
      BY DEF Scans
    <2>3. Cons(c, acc.out) \in Seq(Char)
      BY <2>2, CharLaws
    <2>4. \A z \in Char : Append(Cons(c, acc.out), z) = Cons(c, Append(acc.out, z))
      <3> SUFFICES ASSUME NEW z \in Char PROVE Append(Cons(c, o), z) = Cons(c, Append(o, z))
        OBVIOUS
      <3> HIDE DEF o
      <3>1. o \in Seq(Char) /\ <<c>> \in Seq(Char)
        BY <2>2, CharLaws DEF o
      <3>2. <<c>> \o Append(o, z) = Append(<<c>> \o o, z)
        BY <3>1, AppendToConcat
      <3>3. QED
        BY <3>2 DEF Cons
    <2>5. Prefixed(c, acc) \in Scans
      BY <2>2, <2>3 DEF Prefixed, Scans
    <2>6. delta[<<acc, y>>] = Scanned(acc, pair, x, by)
      BY <2>1, ScanLoop
    <2>7. delta[<<Prefixed(c, acc), y>>] = Scanned(Prefixed(c, acc), pair, x, by)
      BY <2>1, <2>5, ScanLoop
    <2>8. Scanned(Prefixed(c, acc), pair, x, by) = Prefixed(c, Scanned(acc, pair, x, by))
      <3>1. CASE acc.skip
        BY <2>2, <2>3, <3>1 DEF Scanned, Prefixed
      <3>2. CASE ~acc.skip /\ pair
        BY <2>2, <2>3, <2>4, <3>2 DEF Scanned, Prefixed
      <3>3. CASE ~acc.skip /\ ~pair
        BY <2>2, <2>3, <2>4, <3>3 DEF Scanned, Prefixed
      <3>4. QED
        BY <3>1, <3>2, <3>3
    <2>9. QED
      BY <2>6, <2>7, <2>8
  <1>4. <<>> \in T
    <2>1. d0 \o <<>> = d0 /\ <<>> \in Seq(Y)
      BY ConcatEmptySeq
    <2>2. QED
      BY <1>1, <2>1
  <1>5. ASSUME NEW d \in Seq(Y), NEW y \in Y, d \in T PROVE Append(d, y) \in T
    <2> DEFINE dd == d0 \o d
    <2>0. d0 \in Seq(Y)
      OBVIOUS
    <2>1. d0 \o Append(d, y) = Append(dd, y)
      <3> HIDE DEF Y
      <3>1. QED
        BY <2>0, AppendToConcat
    <2>2. dd \in Seq(Y) /\ Append(d, y) \in Seq(Y)
      <3> HIDE DEF Y
      <3>1. QED
        BY <2>0, ConcatProperties, AppendProperties
    <2>3. R(dd) = Prefixed(c, R(d)) /\ R(d) \in Scans
      BY <1>1, <1>5
    <2> HIDE DEF R, dd, delta, Y
    <2>4. R(Append(dd, y)) = delta[<<R(dd), y>>]
      BY <1>2, <2>2
    <2>5. R(Append(d, y)) = delta[<<R(d), y>>]
      BY <1>2
    <2>6. R(Append(dd, y)) = Prefixed(c, R(Append(d, y)))
      BY <1>3, <2>3, <2>4, <2>5
    <2>7. QED
      BY <2>1, <2>2, <2>6
  <1>6. \A d \in Seq(Y) : d \in T
    <2> HIDE DEF T, Y
    <2>1. QED
      BY <1>4, <1>5, AppendInduction
  <1>7. QED
    BY <1>6

Begins(x, w, first, second) == x = first /\ w # <<>> /\ FirstOf(w) = second

PairedText(w, first, second) == Decorated(w, PairsIn(w, first, second))

LEMMA PairedCons ==
    ASSUME NEW first, NEW second, NEW x \in Char, NEW w \in Seq(Char)
    PROVE  PairedText(Cons(x, w), first, second)
             = Cons(<<Begins(x, w, first, second), x>>, PairedText(w, first, second))
  <1> DEFINE z == Cons(x, w)
             m == Len(w)
             pz == PairedText(z, first, second)
             pw == PairedText(w, first, second)
             b == Begins(x, w, first, second)
             y == <<b, x>>
             e == Cons(y, pw)
  <1>1. z \in Seq(Char) /\ Len(z) = m + 1 /\ z[1] = x /\ m \in Nat
        /\ \A i \in 1..m : z[i + 1] = w[i]
    <2>1. z \in Seq(Char) /\ Len(z) = m + 1 /\ FirstOf(z) = x
      BY ConsProperties
    <2>2. \A i \in 1..m : z[i + 1] = w[i]
      BY ConsProperties
    <2>3. m \in Nat
      OBVIOUS
    <2> HIDE DEF z, m
    <2>4. QED
      BY <2>1, <2>2, <2>3 DEF FirstOf
  <1>2. DOMAIN z = 1..(m + 1) /\ DOMAIN w = 1..m /\ (w # <<>> <=> m > 0)
    BY <1>1
  <1> HIDE DEF z, m
  <1>3. pz \in Seq(BOOLEAN \X Char) /\ Len(pz) = m + 1
        /\ \A i \in 1..(m + 1) : pz[i] = <<i \in PairsIn(z, first, second), z[i]>>
    BY <1>1, DecoratedType DEF PairedText
  <1>4. pw \in Seq(BOOLEAN \X Char) /\ Len(pw) = m
        /\ \A i \in 1..m : pw[i] = <<i \in PairsIn(w, first, second), w[i]>>
    BY DecoratedType DEF PairedText, m
  <1>5. b \in BOOLEAN
    BY DEF Begins
  <1>6. 1 \in PairsIn(z, first, second) <=> b
    <2>1. 1 \in PairsIn(z, first, second) <=> 1 < m + 1 /\ x = first /\ z[2] = second
      BY <1>1, <1>2 DEF PairsIn
    <2>2. 1 < m + 1 <=> w # <<>>
      BY <1>1, <1>2
    <2>3. w # <<>> => z[2] = FirstOf(w)
      BY <1>1, <1>2 DEF FirstOf
    <2>4. QED
      BY <2>1, <2>2, <2>3 DEF Begins
  <1>7. \A i \in 1..m : i + 1 \in PairsIn(z, first, second) <=> i \in PairsIn(w, first, second)
    <2> SUFFICES ASSUME NEW i \in 1..m
                 PROVE  i + 1 \in PairsIn(z, first, second) <=> i \in PairsIn(w, first, second)
      OBVIOUS
    <2>1. i + 1 \in DOMAIN z /\ i \in DOMAIN w /\ z[i + 1] = w[i] /\ (i + 1 < m + 1 <=> i < m)
      BY <1>1, <1>2
    <2>2. i < m => i + 1 \in 1..m
      BY <1>1
    <2>3. i < m => z[(i + 1) + 1] = w[i + 1]
      BY <1>1, <2>2
    <2>4. QED
      BY <1>1, <2>1, <2>3 DEF PairsIn, m
  <1> HIDE DEF b, pz, pw
  <1>8. y \in BOOLEAN \X Char
    BY <1>5
  <1> HIDE DEF y
  <1>9. e \in Seq(BOOLEAN \X Char) /\ Len(e) = m + 1 /\ e[1] = y /\ \A i \in 1..m : e[i + 1] = pw[i]
    <2> DEFINE Y == BOOLEAN \X Char
    <2>0. pw \in Seq(Y) /\ y \in Y
      BY <1>4, <1>8
    <2> HIDE DEF Y
    <2>1. e \in Seq(Y) /\ Len(e) = Len(pw) + 1 /\ FirstOf(e) = y
      BY <2>0, ConsProperties
    <2>2. \A i \in 1..Len(pw) : e[i + 1] = pw[i]
      BY <2>0, ConsProperties
    <2> HIDE DEF e
    <2>3. QED
      BY <1>4, <2>1, <2>2 DEF FirstOf, Y
  <1> HIDE DEF e
  <1>10. ASSUME NEW i \in 1..(m + 1) PROVE pz[i] = e[i]
    <2>1. CASE i = 1
      BY <1>1, <1>3, <1>6, <1>9, <2>1 DEF y
    <2>2. CASE i # 1
      <3>1. i - 1 \in 1..m /\ (i - 1) + 1 = i
        BY <1>1, <2>2
      <3>2. e[i] = <<(i - 1) \in PairsIn(w, first, second), w[i - 1]>>
        BY <1>4, <1>9, <3>1
      <3>3. z[i] = w[i - 1] /\ (i \in PairsIn(z, first, second) <=> (i - 1) \in PairsIn(w, first, second))
        BY <1>1, <1>7, <3>1
      <3>4. pz[i] = <<i \in PairsIn(z, first, second), z[i]>>
        BY <1>3
      <3>5. QED
        BY <3>2, <3>3, <3>4
    <2>3. QED
      BY <2>1, <2>2
  <1>11. pz = e
    BY <1>1, <1>3, <1>9, <1>10, SeqEqual
  <1>12. QED
    BY <1>11 DEF pz, e, y, b, z, pw

LEMMA ContractedSteps ==
    ASSUME NEW first \in Char, NEW second \in Char, NEW by \in Char
    PROVE  /\ Contracted(<<>>, first, second, by) = <<>>
           /\ \A w \in Seq(Char) : Contracted(w, first, second, by) \in Seq(Char)
           /\ \A x \in Char, w \in Seq(Char) :
                 ~Begins(x, w, first, second)
                   => Contracted(Cons(x, w), first, second, by) = Cons(x, Contracted(w, first, second, by))
           /\ \A w \in Seq(Char) :
                 Contracted(Cons(first, Cons(second, w)), first, second, by)
                   = Cons(by, Contracted(w, first, second, by))
  <1> DEFINE Y == BOOLEAN \X Char
             delta == ScanStep(by)
             R(d) == Run(Scan, delta, d)
             C(w) == Contracted(w, first, second, by)
             P(w) == PairedText(w, first, second)
  <1>1. R(<<>>) = Scan /\ \A d \in Seq(Y) : R(d) \in Scans
    BY ScanLoop, RunSteps
  <1>2. \A d \in Seq(Y), y \in Y : R(Append(d, y)) = delta[<<R(d), y>>]
    BY ScanLoop, RunSteps
  <1>3. \A w \in Seq(Char) : C(w) = R(P(w)).out /\ P(w) \in Seq(Y)
    BY ContractedIsRun, DecoratedType DEF PairedText
  <1>4. \A acc \in Scans, pair \in BOOLEAN, c \in Char :
           delta[<<acc, <<pair, c>>>>] = Scanned(acc, pair, c, by)
    BY ScanLoop
  <1>5. Scan \in Scans
    BY DEF Scan, Scans
  <1>6. \A x \in Char : Cons(x, <<>>) = <<x>> /\ Append(<<>>, x) = <<x>>
    BY ConcatEmptySeq DEF Cons
  <1>7. ASSUME NEW x \in Char PROVE R(<<<<FALSE, x>>>>) = Prefixed(x, Scan)
    <2> DEFINE y == <<FALSE, x>>
    <2>1. <<y>> = Append(<<>>, y) /\ y \in Y /\ <<>> \in Seq(Y)
      <3>1. y \in Y
        OBVIOUS
      <3> HIDE DEF y, Y
      <3>2. QED
        BY <3>1
    <2>2. R(<<y>>) = delta[<<Scan, y>>]
      BY <1>1, <1>2, <2>1
    <2>3. delta[<<Scan, y>>] = Scanned(Scan, FALSE, x, by)
      BY <1>4, <1>5
    <2>4. Scanned(Scan, FALSE, x, by) = Prefixed(x, Scan)
      BY <1>6 DEF Scanned, Scan, Prefixed
    <2>5. QED
      BY <2>2, <2>3, <2>4
  <1>8. ASSUME NEW x \in Char, NEW z \in Char, NEW b \in BOOLEAN
        PROVE  R(<<<<TRUE, x>>, <<b, z>>>>) = Prefixed(by, Scan)
    <2> DEFINE y1 == <<TRUE, x>>
               y2 == <<b, z>>
    <2>1. <<y1>> = Append(<<>>, y1) /\ y1 \in Y /\ <<>> \in Seq(Y) /\ y2 \in Y
          /\ <<y1, y2>> = Append(<<y1>>, y2) /\ <<y1>> \in Seq(Y)
      <3>1. y1 \in Y /\ y2 \in Y
        OBVIOUS
      <3> HIDE DEF y1, y2, Y
      <3>2. QED
        BY <3>1
    <2>2. R(<<y1>>) = delta[<<Scan, y1>>]
      BY <1>1, <1>2, <2>1
    <2>3. delta[<<Scan, y1>>] = Scanned(Scan, TRUE, x, by)
      BY <1>4, <1>5
    <2>4. Scanned(Scan, TRUE, x, by) = [out |-> <<by>>, skip |-> TRUE]
      BY <1>6 DEF Scanned, Scan
    <2>5. R(<<y1, y2>>) = delta[<<R(<<y1>>), y2>>]
      BY <1>2, <2>1
    <2> DEFINE acc == [out |-> <<by>>, skip |-> TRUE]
    <2>6. acc \in Scans
      BY DEF Scans
    <2>7. Scanned(acc, b, z, by) = [out |-> <<by>>, skip |-> FALSE]
      BY DEF Scanned
    <2>8. delta[<<acc, y2>>] = Scanned(acc, b, z, by)
      BY <1>4, <2>6
    <2>9. Prefixed(by, Scan) = [out |-> <<by>>, skip |-> FALSE]
      BY <1>6 DEF Prefixed, Scan
    <2>10. QED
      BY <2>2, <2>3, <2>4, <2>5, <2>7, <2>8, <2>9
  <1>9. \A c \in Char, acc \in Scans : Prefixed(c, acc).out = Cons(c, acc.out)
    BY DEF Prefixed
  <1>10. C(<<>>) = <<>>
    <2>1. P(<<>>) = <<>> /\ <<>> \in Seq(Char)
      BY DEF PairedText, Decorated
    <2>2. C(<<>>) = R(P(<<>>)).out
      <3> HIDE DEF C, R, P
      <3>1. QED
        BY <1>3, <2>1
    <2>3. QED
      BY <1>1, <2>1, <2>2 DEF Scan
  <1>11. ASSUME NEW w \in Seq(Char) PROVE C(w) \in Seq(Char)
    BY <1>1, <1>3 DEF Scans
  <1>12. ASSUME NEW x \in Char, NEW w \in Seq(Char), ~Begins(x, w, first, second)
         PROVE  C(Cons(x, w)) = Cons(x, C(w))
    <2> DEFINE d == P(w)
               d0 == <<<<FALSE, x>>>>
    <2>1. Begins(x, w, first, second) = FALSE
      BY <1>12 DEF Begins
    <2>2. P(Cons(x, w)) = d0 \o d
      <3> DEFINE b == Begins(x, w, first, second)
      <3>1. P(Cons(x, w)) = Cons(<<b, x>>, d)
        BY PairedCons
      <3>2. b = FALSE
        BY <2>1
      <3> HIDE DEF b
      <3>3. QED
        BY <3>1, <3>2 DEF Cons
    <2>3. d \in Seq(Y) /\ d0 \in Seq(Y)
      <3>1. d \in Seq(Y)
        BY <1>3
      <3> DEFINE y == <<FALSE, x>>
      <3>2. y \in Y
        OBVIOUS
      <3> HIDE DEF y, Y, d
      <3>3. <<y>> \in Seq(Y)
        BY <3>2
      <3>4. QED
        BY <3>1, <3>3 DEF y
    <2>4. R(d0) = Prefixed(x, Scan)
      BY <1>7
    <2> HIDE DEF d, d0, P
    <2>5. R(d0 \o d) = Prefixed(x, R(d))
      BY <2>3, <2>4, PrefixedScan
    <2>6. Cons(x, w) \in Seq(Char)
      BY CharLaws
    <2>7. C(Cons(x, w)) = R(d0 \o d).out
      BY <1>3, <2>2, <2>6
    <2>8. C(w) = R(d).out
      BY <1>3 DEF d
    <2>9. QED
      BY <1>1, <1>9, <2>3, <2>5, <2>7, <2>8
  <1>13. ASSUME NEW w \in Seq(Char) PROVE C(Cons(first, Cons(second, w))) = Cons(by, C(w))
    <2> DEFINE d == P(w)
               b == Begins(second, w, first, second)
               y1 == <<TRUE, first>>
               y2 == <<b, second>>
               v == Cons(second, w)
    <2>1. v \in Seq(Char) /\ v # <<>> /\ FirstOf(v) = second
      BY CharLaws
    <2>2. Begins(first, v, first, second) = TRUE
      BY <2>1 DEF Begins
    <2>3. P(v) = Cons(y2, d)
      BY PairedCons
    <2> HIDE DEF v
    <2>4. P(Cons(first, v)) = Cons(y1, P(v))
      BY <2>1, <2>2, PairedCons
    <2>5. b \in BOOLEAN
      BY DEF Begins
    <2>6. d \in Seq(Y) /\ y1 \in Y /\ y2 \in Y
      BY <1>3, <2>5
    <2> HIDE DEF b
    <2>7. R(<<y1, y2>>) = Prefixed(by, Scan)
      BY <1>8, <2>5
    <2> HIDE DEF d, P, y1, y2, Y
    <2>8. <<y1, y2>> \o d = Cons(y1, Cons(y2, d))
      BY <2>6, Pair
    <2> DEFINE d0 == <<y1, y2>>
    <2>9. d0 \in Seq(Y)
      BY <2>6
    <2> HIDE DEF d0
    <2>10. R(d0 \o d) = Prefixed(by, R(d))
      <3>1. d0 \in Seq(BOOLEAN \X Char) /\ d \in Seq(BOOLEAN \X Char)
        BY <2>6, <2>9 DEF Y
      <3>2. Run(Scan, ScanStep(by), d0) = Prefixed(by, Scan)
        BY <2>7 DEF d0
      <3>3. QED
        BY <3>1, <3>2, PrefixedScan
    <2>11. P(Cons(first, v)) = d0 \o d
      BY <2>3, <2>4, <2>8 DEF d0
    <2>12. Cons(first, v) \in Seq(Char)
      BY <2>1, CharLaws
    <2>13. C(Cons(first, v)) = R(d0 \o d).out
      BY <1>3, <2>11, <2>12
    <2>14. C(w) = R(d).out
      BY <1>3 DEF d
    <2>15. QED
      BY <1>1, <1>9, <2>6, <2>10, <2>13, <2>14 DEF v
  <1>14. QED
    BY <1>10, <1>11, <1>12, <1>13

\* Texts from the front.
LEMMA FrontSteps ==
    /\ ~DoubledEscape(<<>>)
    /\ \A x \in Char, w \in Seq(Char) :
          /\ HasSeparator(Cons(x, w)) <=> x = Separator \/ HasSeparator(w)
          /\ DoubledEscape(Cons(x, w)) <=> Begins(x, w, Escape, Escape) \/ DoubledEscape(w)
          /\ Len(Cons(x, w)) = Len(w) + 1 /\ Len(w) \in Nat
          /\ w # <<>> => (FirstOf(w) = Separator => HasSeparator(w))
  <1>1. ~DoubledEscape(<<>>)
    BY DEF DoubledEscape
  <1>2. ASSUME NEW x \in Char, NEW w \in Seq(Char)
        PROVE  /\ HasSeparator(Cons(x, w)) <=> x = Separator \/ HasSeparator(w)
               /\ DoubledEscape(Cons(x, w)) <=> Begins(x, w, Escape, Escape) \/ DoubledEscape(w)
               /\ Len(Cons(x, w)) = Len(w) + 1 /\ Len(w) \in Nat
               /\ w # <<>> => (FirstOf(w) = Separator => HasSeparator(w))
    <2> DEFINE z == Cons(x, w)
               m == Len(w)
    <2>1. z \in Seq(Char) /\ Len(z) = m + 1 /\ FirstOf(z) = x
      BY ConsProperties
    <2>2. \A i \in 1..m : z[i + 1] = w[i]
      BY ConsProperties
    <2>3. m \in Nat /\ DOMAIN w = 1..m /\ (w # <<>> <=> m > 0)
      OBVIOUS
    <2> HIDE DEF z
    <2>4. DOMAIN z = 1..(m + 1) /\ z[1] = x
      BY <2>1 DEF FirstOf
    <2> HIDE DEF m
    <2>5. \A i \in 1..(m + 1) : i = 1 \/ (i - 1 \in 1..m /\ (i - 1) + 1 = i)
      BY <2>3
    <2>6. 1 \in 1..(m + 1) /\ \A i \in 1..m : i + 1 \in 1..(m + 1)
      BY <2>3
    <2>7. HasSeparator(z) <=> x = Separator \/ HasSeparator(w)
      <3>1. ASSUME HasSeparator(z) PROVE x = Separator \/ HasSeparator(w)
        <4>1. PICK i \in 1..(m + 1) : z[i] = Separator
          BY <2>4, <3>1 DEF HasSeparator
        <4>2. CASE i = 1
          BY <2>4, <4>1, <4>2
        <4>3. CASE i # 1
          <5>1. i - 1 \in 1..m /\ z[i] = w[i - 1]
            BY <2>2, <2>5, <4>3
          <5>2. QED
            BY <2>3, <4>1, <5>1 DEF HasSeparator
        <4>4. QED
          BY <4>2, <4>3
      <3>2. ASSUME x = Separator \/ HasSeparator(w) PROVE HasSeparator(z)
        BY <2>2, <2>3, <2>4, <2>6, <3>2 DEF HasSeparator
      <3>3. QED
        BY <3>1, <3>2
    <2>8. DoubledEscape(z) <=> \E n \in 1..m : z[n] = Escape /\ z[n + 1] = Escape
      <3>1. Len(z) - 1 = m
        BY <2>1, <2>3
      <3>2. QED
        BY <3>1 DEF DoubledEscape
    <2>9. DoubledEscape(w) <=> \E n \in 1..(m - 1) : w[n] = Escape /\ w[n + 1] = Escape
      BY DEF DoubledEscape, m
    <2>10. Begins(x, w, Escape, Escape) <=> m > 0 /\ x = Escape /\ w[1] = Escape
      BY <2>3 DEF Begins, FirstOf
    <2>11. ASSUME DoubledEscape(z) PROVE Begins(x, w, Escape, Escape) \/ DoubledEscape(w)
      <3>1. PICK n \in 1..m : z[n] = Escape /\ z[n + 1] = Escape
        BY <2>8, <2>11
      <3>2. z[n + 1] = w[n] /\ m > 0
        BY <2>2, <2>3
      <3>3. CASE n = 1
        BY <2>4, <2>10, <3>1, <3>2, <3>3
      <3>4. CASE n # 1
        <4>1. n - 1 \in 1..(m - 1) /\ n - 1 \in 1..m /\ (n - 1) + 1 = n
          BY <2>3, <3>4
        <4>2. w[n - 1] = Escape /\ w[(n - 1) + 1] = Escape
          BY <2>2, <3>1, <3>2, <4>1
        <4>3. QED
          BY <2>9, <4>1, <4>2
      <3>5. QED
        BY <3>3, <3>4
    <2>12. ASSUME Begins(x, w, Escape, Escape) PROVE DoubledEscape(z)
      <3>1. 1 \in 1..m /\ z[1 + 1] = w[1]
        BY <2>2, <2>3, <2>10, <2>12
      <3>2. QED
        BY <2>4, <2>8, <2>10, <2>12, <3>1
    <2>13. ASSUME DoubledEscape(w) PROVE DoubledEscape(z)
      <3>1. PICK n \in 1..(m - 1) : w[n] = Escape /\ w[n + 1] = Escape
        BY <2>9, <2>13
      <3>2. n \in 1..m /\ n + 1 \in 1..m
        BY <2>3
      <3>3. z[n + 1] = Escape /\ z[(n + 1) + 1] = Escape
        BY <2>2, <3>1, <3>2
      <3>4. QED
        BY <2>8, <3>2, <3>3
    <2>14. w # <<>> => (FirstOf(w) = Separator => HasSeparator(w))
      BY <2>3 DEF FirstOf, HasSeparator
    <2>15. QED
      BY <2>1, <2>3, <2>7, <2>11, <2>12, <2>13, <2>14 DEF z, m
  <1>3. QED
    BY <1>1, <1>2

Doubled(w) == Spelled(w, Escape, <<Escape, Escape>>)

LEMMA DoubledSteps ==
    /\ Doubled(<<>>) = <<>>
    /\ \A w \in Seq(Char) : Doubled(w) \in Seq(Char)
    /\ \A w \in Seq(Char) : Doubled(Cons(Escape, w)) = Cons(Escape, Cons(Escape, Doubled(w)))
    /\ \A x \in Char, w \in Seq(Char) : x # Escape => Doubled(Cons(x, w)) = Cons(x, Doubled(w))
  <1> DEFINE EE == <<Escape, Escape>>
             A(s) == Spelled(s, Escape, EE)
  <1>0. Escape \in Char
    BY MarkType
  <1>1. EE \in Seq(Char)
    BY <1>0
  <1> HIDE DEF EE
  <1>2. SpellsOut(Char, Escape, EE)
    BY <1>1, SpelledSteps
  <1>3. /\ A(<<>>) = <<>>
        /\ \A s \in Seq(Char) : A(s) \in Seq(Char)
        /\ \A x \in Char : A(<<x>>) = Spelling(x, Escape, EE)
        /\ \A s, t \in Seq(Char) : A(s \o t) = A(s) \o A(t)
    BY <1>2 DEF SpellsOut
  <1>4. \A w : Doubled(w) = A(w)
    BY DEF Doubled, EE
  <1> HIDE DEF A
  <1>5. ASSUME NEW x \in Char, NEW w \in Seq(Char) PROVE A(Cons(x, w)) = Spelling(x, Escape, EE) \o A(w)
    <2>1. <<x>> \in Seq(Char) /\ Cons(x, w) = <<x>> \o w
      BY CharLaws
    <2>2. QED
      BY <1>3, <2>1
  <1>6. ASSUME NEW w \in Seq(Char) PROVE A(Cons(Escape, w)) = Cons(Escape, Cons(Escape, A(w)))
    <2>1. A(Cons(Escape, w)) = EE \o A(w)
      BY <1>0, <1>5 DEF Spelling
    <2>2. A(w) \in Seq(Char)
      BY <1>3
    <2>3. EE \o A(w) = Cons(Escape, Cons(Escape, A(w)))
      BY <1>0, <2>2, Pair DEF EE
    <2>4. QED
      BY <2>1, <2>3
  <1>7. ASSUME NEW x \in Char, NEW w \in Seq(Char), x # Escape PROVE A(Cons(x, w)) = Cons(x, A(w))
    BY <1>5, <1>7 DEF Spelling, Cons
  <1>8. QED
    BY <1>3, <1>4, <1>6, <1>7

LEMMA UnescapedEscaped == \A w \in Seq(Char) : Unescaped(Escaped(w)) = w
  <1> DEFINE C1(v) == Contracted(v, Escape, Separator, Separator)
             C2(v) == Contracted(v, Escape, Escape, Escape)
             T == {w \in Seq(Char) : C1(Escaped(w)) = Doubled(w) /\ C2(Doubled(w)) = w}
  <1>0. Escape \in Char /\ Separator \in Char /\ Escape # Separator
    BY MarkType
  <1>1. /\ C1(<<>>) = <<>>
        /\ \A w \in Seq(Char) : C1(w) \in Seq(Char)
        /\ \A x \in Char, w \in Seq(Char) : ~Begins(x, w, Escape, Separator) => C1(Cons(x, w)) = Cons(x, C1(w))
        /\ \A w \in Seq(Char) : C1(Cons(Escape, Cons(Separator, w))) = Cons(Separator, C1(w))
    BY <1>0, ContractedSteps
  <1>2. /\ C2(<<>>) = <<>>
        /\ \A w \in Seq(Char) : C2(w) \in Seq(Char)
        /\ \A x \in Char, w \in Seq(Char) : ~Begins(x, w, Escape, Escape) => C2(Cons(x, w)) = Cons(x, C2(w))
        /\ \A w \in Seq(Char) : C2(Cons(Escape, Cons(Escape, w))) = Cons(Escape, C2(w))
    BY <1>0, ContractedSteps
  <1>3. \A v : Unescaped(v) = C2(C1(v))
    BY DEF Unescaped
  <1> HIDE DEF C1, C2
  <1>4. <<>> \in T
    BY <1>1, <1>2, EscapedSteps, DoubledSteps
  <1>5. ASSUME NEW w \in Seq(Char), NEW x \in Char, w \in T PROVE Cons(x, w) \in T
    <2> DEFINE e == Escaped(w)
               d == Doubled(w)
    <2>1. e \in Seq(Char) /\ d \in Seq(Char) /\ Cons(x, w) \in Seq(Char)
      BY EscapedSteps, DoubledSteps, CharLaws
    <2>2. Escaped(Cons(x, w)) = EscapedChar(x) \o e
      BY EscapedFront
    <2>3. C1(e) = d /\ C2(d) = w
      BY <1>5
    <2>4. e # <<>> => FirstOf(e) # Separator
      <3>1. CASE w = <<>>
        BY <3>1, EscapedSteps
      <3>2. CASE w # <<>>
        <4>1. PICK y \in Char, t \in Seq(Char) : w = Cons(y, t)
          BY <3>2, CharLaws
        <4>2. e = Word(y, Escaped(t)) /\ Escaped(t) \in Seq(Char)
          BY <4>1, EscapedFront, EscapedSteps DEF Word
        <4>3. ~Ends(e)
          BY <4>2, EscapedCharBegins
        <4>4. QED
          BY <4>3 DEF Ends, FirstOf
      <3>3. QED
        BY <3>1, <3>2
    <2> HIDE DEF e, d
    <2>5. CASE x = Separator
      <3>1. Escaped(Cons(x, w)) = Cons(Escape, Cons(Separator, e))
        BY <2>1, <2>2, <2>5, EscapedCharFront DEF Double, Second
      <3>2. C1(Escaped(Cons(x, w))) = Cons(x, d)
        BY <1>1, <2>1, <2>3, <2>5, <3>1
      <3>3. Doubled(Cons(x, w)) = Cons(x, d)
        BY <1>0, <2>5, DoubledSteps DEF d
      <3>4. C2(Cons(x, d)) = Cons(x, w)
        BY <1>0, <1>2, <2>1, <2>3, <2>5 DEF Begins
      <3>5. QED
        BY <2>1, <3>2, <3>3, <3>4
    <2>6. CASE x = Escape
      <3> DEFINE f == Cons(Escape, e)
      <3>1. Escaped(Cons(x, w)) = Cons(Escape, f)
        BY <1>0, <2>1, <2>2, <2>6, EscapedCharFront DEF Double, Second
      <3>2. f \in Seq(Char) /\ FirstOf(f) = Escape
        BY <1>0, <2>1, CharLaws
      <3>3. C1(f) = Cons(Escape, d)
        BY <1>0, <1>1, <2>1, <2>3, <2>4 DEF Begins
      <3> HIDE DEF f
      <3>4. C1(Cons(Escape, f)) = Cons(Escape, Cons(Escape, d))
        BY <1>0, <1>1, <3>2, <3>3 DEF Begins
      <3>5. Doubled(Cons(x, w)) = Cons(Escape, Cons(Escape, d))
        BY <2>6, DoubledSteps DEF d
      <3>6. C2(Cons(Escape, Cons(Escape, d))) = Cons(x, w)
        BY <1>2, <2>1, <2>3, <2>6
      <3>7. QED
        BY <2>1, <3>1, <3>4, <3>5, <3>6
    <2>7. CASE x # Separator /\ x # Escape
      <3>1. Escaped(Cons(x, w)) = Cons(x, e)
        BY <2>1, <2>2, <2>7, EscapedCharFront DEF Double
      <3>2. C1(Cons(x, e)) = Cons(x, d)
        BY <1>1, <2>1, <2>3, <2>7 DEF Begins
      <3>3. Doubled(Cons(x, w)) = Cons(x, d)
        BY <2>7, DoubledSteps DEF d
      <3>4. C2(Cons(x, d)) = Cons(x, w)
        BY <1>2, <2>1, <2>3, <2>7 DEF Begins
      <3>5. QED
        BY <2>1, <3>1, <3>2, <3>3, <3>4
    <2>8. QED
      BY <2>5, <2>6, <2>7
  <1>6. \A w \in Seq(Char) : w \in T
    <2> HIDE DEF T
    <2>1. QED
      BY <1>4, <1>5, FrontInduction
  <1>7. QED
    BY <1>3, <1>6

\* Where nothing was escaped, doubled escapes are lost.
LEMMA UnescapedPlain ==
    \A w \in Seq(Char) :
        ~HasSeparator(w) =>
            /\ ~DoubledEscape(w) => Unescaped(w) = w
            /\ DoubledEscape(w) => Len(Unescaped(w)) < Len(w)
            /\ Unescaped(w) \in Seq(Char)
  <1> DEFINE C1(v) == Contracted(v, Escape, Separator, Separator)
             C2(v) == Contracted(v, Escape, Escape, Escape)
  <1>0. Escape \in Char /\ Separator \in Char /\ Escape # Separator
    BY MarkType
  <1>1. /\ C1(<<>>) = <<>>
        /\ \A x \in Char, w \in Seq(Char) : ~Begins(x, w, Escape, Separator) => C1(Cons(x, w)) = Cons(x, C1(w))
    BY <1>0, ContractedSteps
  <1>2. /\ C2(<<>>) = <<>>
        /\ \A w \in Seq(Char) : C2(w) \in Seq(Char)
        /\ \A x \in Char, w \in Seq(Char) : ~Begins(x, w, Escape, Escape) => C2(Cons(x, w)) = Cons(x, C2(w))
        /\ \A w \in Seq(Char) : C2(Cons(Escape, Cons(Escape, w))) = Cons(Escape, C2(w))
    BY <1>0, ContractedSteps
  <1>3. \A v : Unescaped(v) = C2(C1(v))
    BY DEF Unescaped
  <1> HIDE DEF C1, C2
  <1> DEFINE S == {w \in Seq(Char) : ~HasSeparator(w) => C1(w) = w}
             Q(w) == /\ ~DoubledEscape(w) => C2(w) = w
                     /\ DoubledEscape(w) => Len(C2(w)) < Len(w)
             T == {w \in Seq(Char) : Q(w) /\ \A x \in Char : Q(Cons(x, w))}
  <1>4. \A w \in Seq(Char) : w \in S
    <2>1. <<>> \in S
      BY <1>1
    <2>2. ASSUME NEW w \in Seq(Char), NEW x \in Char, w \in S PROVE Cons(x, w) \in S
      <3> SUFFICES ASSUME ~HasSeparator(Cons(x, w)) PROVE C1(Cons(x, w)) = Cons(x, w)
        BY CharLaws
      <3>1. ~HasSeparator(w) /\ (w # <<>> => FirstOf(w) # Separator)
        BY FrontSteps
      <3>2. C1(w) = w
        BY <2>2, <3>1
      <3>3. QED
        BY <1>1, <3>1, <3>2 DEF Begins
    <2> HIDE DEF S
    <2>3. QED
      BY <2>1, <2>2, FrontInduction
  <1>5. ASSUME NEW w \in Seq(Char), Q(w), NEW x \in Char, ~Begins(x, w, Escape, Escape) PROVE Q(Cons(x, w))
    <2>1. C2(Cons(x, w)) = Cons(x, C2(w)) /\ C2(w) \in Seq(Char)
      BY <1>2, <1>5
    <2>2. DoubledEscape(Cons(x, w)) <=> DoubledEscape(w)
      BY <1>5, FrontSteps
    <2>3. Len(Cons(x, w)) = Len(w) + 1 /\ Len(Cons(x, C2(w))) = Len(C2(w)) + 1 /\ Len(w) \in Nat /\ Len(C2(w)) \in Nat
      BY <2>1, FrontSteps
    <2>4. QED
      BY <1>5, <2>1, <2>2, <2>3
  <1>6. <<>> \in T
    <2>1. <<>> \in Seq(Char) /\ Q(<<>>)
      BY <1>2, FrontSteps
    <2>2. \A x \in Char : ~Begins(x, <<>>, Escape, Escape)
      BY DEF Begins
    <2> HIDE DEF Q
    <2>3. QED
      BY <1>5, <2>1, <2>2
  <1>7. ASSUME NEW w \in Seq(Char), NEW y \in Char, w \in T PROVE Cons(y, w) \in T
    <2> DEFINE v == Cons(y, w)
    <2>1. v \in Seq(Char) /\ Q(v) /\ Q(w)
      BY <1>7, CharLaws
    <2>2. ASSUME NEW x \in Char PROVE Q(Cons(x, v))
      <3>1. CASE ~Begins(x, v, Escape, Escape)
        <4> HIDE DEF Q, v
        <4>1. QED
          BY <1>5, <2>1, <3>1
      <3>2. CASE Begins(x, v, Escape, Escape)
        <4>1. x = Escape /\ y = Escape
          BY <3>2, CharLaws DEF Begins
        <4>2. C2(Cons(x, v)) = Cons(Escape, C2(w)) /\ C2(w) \in Seq(Char)
          BY <1>2, <4>1
        <4>3. DoubledEscape(Cons(x, v))
          BY <2>1, <3>2, FrontSteps
        <4>4. Len(Cons(Escape, C2(w))) = Len(C2(w)) + 1 /\ Len(C2(w)) \in Nat
          BY <1>0, <4>2, FrontSteps
        <4>5. Len(v) = Len(w) + 1 /\ Len(w) \in Nat
          BY FrontSteps
        <4>6. Len(Cons(x, v)) = Len(v) + 1
          BY <2>1, FrontSteps
        <4>7. Len(C2(w)) <= Len(w)
          BY <2>1, <4>4, <4>5
        <4>8. QED
          BY <4>2, <4>3, <4>4, <4>5, <4>6, <4>7
      <3>3. QED
        BY <3>1, <3>2
    <2>3. QED
      BY <2>1, <2>2
  <1>8. \A w \in Seq(Char) : w \in T
    <2> HIDE DEF T
    <2>1. QED
      BY <1>6, <1>7, FrontInduction
  <1>9. QED
    BY <1>2, <1>3, <1>4, <1>8

\* A literal without apostrophes stands for itself; one with apostrophes gets longer when
\* each of them is written twice.
Quoted(w) == Spelled(w, Apostrophe, <<Apostrophe, Apostrophe>>)
HasApostrophe(w) == Apostrophe \in ToSet(w)

LEMMA ApostropheIsChar == Apostrophe \in Char
  BY TextAssumption DEF Char

LEMMA HasApostropheSteps ==
    /\ ~HasApostrophe(<<>>)
    /\ \A x \in Char, w \in Seq(Char) :
          HasApostrophe(Cons(x, w)) <=> x = Apostrophe \/ HasApostrophe(w)
  <1>1. ~HasApostrophe(<<>>)
    BY DEF HasApostrophe, ToSet
  <1>2. ASSUME NEW x \in Char, NEW w \in Seq(Char)
        PROVE  HasApostrophe(Cons(x, w)) <=> x = Apostrophe \/ HasApostrophe(w)
    <2> DEFINE z == Cons(x, w)
               m == Len(w)
    <2>1. z \in Seq(Char) /\ Len(z) = m + 1 /\ FirstOf(z) = x
      BY ConsProperties
    <2>2. \A i \in 1..m : z[i + 1] = w[i]
      BY ConsProperties
    <2>3. m \in Nat /\ DOMAIN w = 1..m
      OBVIOUS
    <2> HIDE DEF z
    <2>4. DOMAIN z = 1..(m + 1) /\ z[1] = x
      BY <2>1 DEF FirstOf
    <2> HIDE DEF m
    <2>5. \A i \in 1..(m + 1) : i = 1 \/ (i - 1 \in 1..m /\ (i - 1) + 1 = i)
      BY <2>3
    <2>6. 1 \in 1..(m + 1) /\ \A i \in 1..m : i + 1 \in 1..(m + 1)
      BY <2>3
    <2>7. HasApostrophe(z) <=> \E i \in 1..(m + 1) : z[i] = Apostrophe
      BY <2>4 DEF HasApostrophe, ToSet
    <2>8. HasApostrophe(w) <=> \E i \in 1..m : w[i] = Apostrophe
      BY <2>3 DEF HasApostrophe, ToSet
    <2>9. ASSUME HasApostrophe(z) PROVE x = Apostrophe \/ HasApostrophe(w)
      <3>1. PICK i \in 1..(m + 1) : z[i] = Apostrophe
        BY <2>7, <2>9
      <3>2. CASE i = 1
        BY <2>4, <3>1, <3>2
      <3>3. CASE i # 1
        <4>1. i - 1 \in 1..m /\ z[i] = w[i - 1]
          BY <2>2, <2>5, <3>3
        <4>2. QED
          BY <2>8, <3>1, <4>1
      <3>4. QED
        BY <3>2, <3>3
    <2>10. ASSUME x = Apostrophe \/ HasApostrophe(w) PROVE HasApostrophe(z)
      BY <2>2, <2>4, <2>6, <2>7, <2>8, <2>10
    <2>11. QED
      BY <2>9, <2>10 DEF z
  <1>3. QED
    BY <1>1, <1>2

LEMMA QuotedSteps ==
    /\ Quoted(<<>>) = <<>>
    /\ \A w \in Seq(Char) : Quoted(w) \in Seq(Char)
    /\ \A w \in Seq(Char) : Quoted(Cons(Apostrophe, w)) = Cons(Apostrophe, Cons(Apostrophe, Quoted(w)))
    /\ \A x \in Char, w \in Seq(Char) : x # Apostrophe => Quoted(Cons(x, w)) = Cons(x, Quoted(w))
  <1> DEFINE EE == <<Apostrophe, Apostrophe>>
             A(s) == Spelled(s, Apostrophe, EE)
  <1>0. Apostrophe \in Char
    BY ApostropheIsChar
  <1>1. EE \in Seq(Char)
    BY <1>0
  <1> HIDE DEF EE
  <1>2. SpellsOut(Char, Apostrophe, EE)
    BY <1>1, SpelledSteps
  <1>3. /\ A(<<>>) = <<>>
        /\ \A s \in Seq(Char) : A(s) \in Seq(Char)
        /\ \A x \in Char : A(<<x>>) = Spelling(x, Apostrophe, EE)
        /\ \A s, t \in Seq(Char) : A(s \o t) = A(s) \o A(t)
    BY <1>2 DEF SpellsOut
  <1>4. \A w : Quoted(w) = A(w)
    BY DEF Quoted, EE
  <1> HIDE DEF A
  <1>5. ASSUME NEW x \in Char, NEW w \in Seq(Char)
        PROVE  A(Cons(x, w)) = Spelling(x, Apostrophe, EE) \o A(w)
    <2>1. <<x>> \in Seq(Char) /\ Cons(x, w) = <<x>> \o w
      BY CharLaws
    <2>2. QED
      BY <1>3, <2>1
  <1>6. ASSUME NEW w \in Seq(Char)
        PROVE  A(Cons(Apostrophe, w)) = Cons(Apostrophe, Cons(Apostrophe, A(w)))
    <2>1. A(Cons(Apostrophe, w)) = EE \o A(w)
      BY <1>0, <1>5 DEF Spelling
    <2>2. A(w) \in Seq(Char)
      BY <1>3
    <2>3. EE \o A(w) = Cons(Apostrophe, Cons(Apostrophe, A(w)))
      BY <1>0, <2>2, Pair DEF EE
    <2>4. QED
      BY <2>1, <2>3
  <1>7. ASSUME NEW x \in Char, NEW w \in Seq(Char), x # Apostrophe PROVE A(Cons(x, w)) = Cons(x, A(w))
    BY <1>5, <1>7 DEF Spelling, Cons
  <1>8. QED
    BY <1>3, <1>4, <1>6, <1>7

LEMMA LiteralSteps ==
    \A w \in Seq(Char) :
        /\ Len(Quoted(w)) \in Nat /\ Len(w) \in Nat /\ Len(Quoted(w)) >= Len(w)
        /\ HasApostrophe(w) => Len(Quoted(w)) > Len(w)
        /\ ~HasApostrophe(w) => Quoted(w) = w /\ Denoted(w) = w
  <1> DEFINE D(v) == Contracted(v, Apostrophe, Apostrophe, Apostrophe)
             Longer(w) == /\ Len(Quoted(w)) >= Len(w)
                          /\ HasApostrophe(w) => Len(Quoted(w)) > Len(w)
             Plain(w) == ~HasApostrophe(w) => Quoted(w) = w /\ D(w) = w
             T == {w \in Seq(Char) : Longer(w) /\ Plain(w)}
  <1>0. Apostrophe \in Char
    BY ApostropheIsChar
  <1>1. /\ D(<<>>) = <<>>
        /\ \A x \in Char, w \in Seq(Char) :
              ~Begins(x, w, Apostrophe, Apostrophe) => D(Cons(x, w)) = Cons(x, D(w))
    BY <1>0, ContractedSteps
  <1>2. \A v : Denoted(v) = D(v)
    BY DEF Denoted
  <1> HIDE DEF D
  <1>3. <<>> \in T
    <2>1. <<>> \in Seq(Char) /\ Longer(<<>>)
      BY QuotedSteps, HasApostropheSteps
    <2>2. Plain(<<>>)
      BY <1>1, QuotedSteps
    <2> HIDE DEF Longer, Plain
    <2>3. QED
      BY <2>1, <2>2
  <1>4. ASSUME NEW w \in Seq(Char), NEW x \in Char, w \in T PROVE Cons(x, w) \in T
    <2> DEFINE z == Cons(x, w)
               q == Quoted(w)
               lw == Len(w)
               lq == Len(q)
               lz == Len(z)
               lr == Len(Quoted(z))
    <2>1. z \in Seq(Char) /\ q \in Seq(Char)
      BY QuotedSteps, CharLaws
    <2>2. lz = lw + 1 /\ lw \in Nat /\ lq \in Nat
      BY <2>1, FrontSteps
    <2>3. HasApostrophe(z) <=> x = Apostrophe \/ HasApostrophe(w)
      BY HasApostropheSteps
    <2>4. x = Apostrophe => lr = lq + 2
      <3>1. ASSUME x = Apostrophe PROVE lr = lq + 2
        <4>1. Quoted(z) = Cons(x, Cons(x, q))
          BY <3>1, QuotedSteps
        <4>2. Cons(x, q) \in Seq(Char) /\ Len(Cons(x, q)) = lq + 1
          BY <2>1, FrontSteps, CharLaws
        <4>3. Len(Cons(x, Cons(x, q))) = Len(Cons(x, q)) + 1
          BY <4>2, FrontSteps
        <4> HIDE DEF lq
        <4>4. QED
          BY <2>2, <4>1, <4>2, <4>3
      <3>2. QED
        BY <3>1
    <2>5. x # Apostrophe => Quoted(z) = Cons(x, q) /\ lr = lq + 1
      BY <2>1, QuotedSteps, FrontSteps
    <2>6. Longer(w) /\ Plain(w)
      BY <1>4
    <2>7. lr >= lz /\ (HasApostrophe(z) => lr > lz)
      <3>1. lq >= lw /\ (HasApostrophe(w) => lq > lw)
        BY <2>6
      <3>2. x = Apostrophe \/ lr = lq + 1
        BY <2>5
      <3> HIDE DEF lr, lz, lq, lw, z
      <3>3. QED
        BY <2>2, <2>3, <2>4, <3>1, <3>2
    <2>8. Longer(z)
      BY <2>7
    <2>9. Plain(z)
      <3> SUFFICES ASSUME ~HasApostrophe(z) PROVE Quoted(z) = z /\ D(z) = z
        OBVIOUS
      <3>1. x # Apostrophe /\ q = w /\ D(w) = w
        BY <2>3, <2>6
      <3>2. D(z) = Cons(x, D(w))
        BY <1>1, <3>1 DEF Begins
      <3>3. QED
        BY <2>5, <3>1, <3>2
    <2> HIDE DEF Longer, Plain, z
    <2>10. QED
      BY <2>1, <2>8, <2>9 DEF z
  <1>5. \A w \in Seq(Char) : w \in T
    <2> HIDE DEF T
    <2>1. QED
      BY <1>3, <1>4, FrontInduction
  <1>6. QED
    <2> SUFFICES ASSUME NEW w \in Seq(Char)
                 PROVE  /\ Len(Quoted(w)) \in Nat /\ Len(w) \in Nat /\ Longer(w)
                        /\ Plain(w)
      BY <1>2
    <2>1. Quoted(w) \in Seq(Char)
      BY QuotedSteps
    <2>2. Len(Quoted(w)) \in Nat /\ Len(w) \in Nat
      BY <2>1
    <2> HIDE DEF Longer, Plain
    <2>3. QED
      BY <1>5, <2>2

-----------------------------------------------------------------------------
(***************************************************************************)
(* Striking out what was found.                                            *)
(***************************************************************************)
LEMMA RemoveAtIs ==
    ASSUME NEW V, NEW s \in Seq(V), NEW i \in 1..Len(s)
    PROVE  /\ RemoveAt(s, i) \in Seq(V) /\ Len(RemoveAt(s, i)) = Len(s) - 1
           /\ \A j \in 1..(Len(s) - 1) : RemoveAt(s, i)[j] = IF j < i THEN s[j] ELSE s[j + 1]
  <1> DEFINE m == Len(s)
             a == SubSeq(s, 1, i - 1)
             b == SubSeq(s, i + 1, m)
  <1>1. m \in Nat /\ i \in Nat /\ i >= 1 /\ i <= m /\ \A j \in 1..m : s[j] \in V
    OBVIOUS
  <1>2. a \in Seq(V) /\ Len(a) = i - 1 /\ \A j \in 1..(i - 1) : a[j] = s[j]
    BY <1>1
  <1>3. b \in Seq(V) /\ Len(b) = m - i /\ \A j \in 1..(m - i) : b[j] = s[j + i]
    BY <1>1
  <1> HIDE DEF a, b, m
  <1>4. /\ a \o b \in Seq(V) /\ Len(a \o b) = Len(a) + Len(b)
        /\ \A j \in 1..(Len(a) + Len(b)) : (a \o b)[j] = IF j <= Len(a) THEN a[j] ELSE b[j - Len(a)]
    BY <1>2, <1>3, ConcatProperties
  <1>5. Len(a) + Len(b) = m - 1
    BY <1>1, <1>2, <1>3
  <1>6. ASSUME NEW j \in 1..(m - 1) PROVE (a \o b)[j] = IF j < i THEN s[j] ELSE s[j + 1]
    <2>1. (a \o b)[j] = IF j <= i - 1 THEN a[j] ELSE b[j - (i - 1)]
      BY <1>2, <1>4, <1>5
    <2>2. CASE j < i
      <3>1. j \in 1..(i - 1) /\ j <= i - 1
        BY <1>1, <2>2
      <3>2. QED
        BY <1>2, <2>1, <2>2, <3>1
    <2>3. CASE ~(j < i)
      <3>1. j - (i - 1) \in 1..(m - i) /\ ~(j <= i - 1) /\ (j - (i - 1)) + i = j + 1
        BY <1>1, <2>3
      <3>2. QED
        BY <1>3, <2>1, <2>3, <3>1
    <2>4. QED
      BY <2>2, <2>3
  <1>7. RemoveAt(s, i) = a \o b
    BY DEF RemoveAt, a, b, m
  <1>8. QED
    BY <1>4, <1>5, <1>6, <1>7 DEF m

LEMMA RemoveFirstIs ==
    ASSUME NEW V, NEW s \in Seq(V), NEW e
    PROVE  /\ RemoveFirst(s, e) \in Seq(V)
           /\ ~Contains(s, e) => RemoveFirst(s, e) = s
           /\ Contains(s, e) => \E i \in 1..Len(s) : s[i] = e /\ RemoveFirst(s, e) = RemoveAt(s, i)
  <1> DEFINE I == {i \in 1..Len(s) : s[i] = e}
  <1>1. ~Contains(s, e) => RemoveFirst(s, e) = s
    BY DEF RemoveFirst, Contains
  <1>2. ASSUME Contains(s, e) PROVE \E i \in 1..Len(s) : s[i] = e /\ RemoveFirst(s, e) = RemoveAt(s, i)
    <2>1. I # {} /\ I \in SUBSET Nat
      BY <1>2 DEF Contains
    <2>2. \E x \in I : \A y \in I : x <= y
      <3> HIDE DEF I
      <3>1. QED
        BY <2>1, Smallest
    <2>3. Min(I) \in I
      BY <2>2 DEF Min
    <2>4. SelectInSeq(s, LAMBDA v : v = e) = Min(I)
      BY <2>1 DEF SelectInSeq
    <2>5. RemoveFirst(s, e) = RemoveAt(s, SelectInSeq(s, LAMBDA v : v = e))
      BY <1>2 DEF RemoveFirst, Contains
    <2>6. QED
      BY <2>3, <2>4, <2>5
  <1>3. RemoveFirst(s, e) \in Seq(V)
    BY <1>1, <1>2, RemoveAtIs
  <1>4. QED
    BY <1>1, <1>2, <1>3

StrikeOut(V) == [p \in Seq(V) \X V |-> RemoveFirst(p[1], p[2])]

LEMMA StrikeOutLoop ==
    ASSUME NEW V, NEW ids \in Seq(V)
    PROVE  /\ IsLoop(Seq(V), V, ids, StrikeOut(V))
           /\ \A s \in Seq(V), v \in V : StrikeOut(V)[<<s, v>>] = RemoveFirst(s, v)
  <1>1. \A p \in Seq(V) \X V : RemoveFirst(p[1], p[2]) \in Seq(V)
    <2> SUFFICES ASSUME NEW p \in Seq(V) \X V PROVE RemoveFirst(p[1], p[2]) \in Seq(V)
      OBVIOUS
    <2>1. p[1] \in Seq(V)
      OBVIOUS
    <2>2. QED
      BY <2>1, RemoveFirstIs
  <1>2. StrikeOut(V) \in [Seq(V) \X V -> Seq(V)]
    BY <1>1 DEF StrikeOut
  <1>3. \A s \in Seq(V), v \in V : StrikeOut(V)[<<s, v>>] = RemoveFirst(s, v)
    BY DEF StrikeOut
  <1>4. QED
    BY <1>2, <1>3 DEF IsLoop

LEMMA ExtractDataIsRun ==
    ASSUME NEW V, NEW ids \in Seq(V), NEW found \in Seq(V)
    PROVE  ExtractData(found, ids) = [updates |-> found, removes |-> Run(ids, StrikeOut(V), found)]
  <1> DEFINE n == Len(found)
             X == Seq(V)
             delta == StrikeOut(V)
             Eq(g) == g = [t \in SUBSET (DOMAIN found) |->
                             IF t = {} THEN ids
                             ELSE RemoveFirst(g[t \ {Max(t)}], found[Max(t)])]
  <1>1. ExtractData(found, ids) = [updates |-> found, removes |-> (CHOOSE g : Eq(g))[DOMAIN found]]
    BY DEF ExtractData, FoldLeft, MapThenFoldSet
  <1>2. DOMAIN found = 1..n /\ n \in Nat /\ \A i \in 1..n : found[i] \in V
    OBVIOUS
  <1>3. IsLoop(X, V, ids, delta) /\ \A s \in X, v \in V : delta[<<s, v>>] = RemoveFirst(s, v)
    BY StrikeOutLoop
  <1>4. found \in Seq(V) /\ Len(found) = n
    OBVIOUS
  <1> HIDE DEF n, X, delta
  <1>6. PICK g \in [SUBSET (1..Len(found)) -> X] : FoldsSeq(g, ids, delta, found)
    BY <1>3, FoldOfLoop
  <1>7. \A t \in SUBSET (1..n) : t # {} => Max(t) \in 1..n /\ t \ {Max(t)} \in SUBSET (1..n)
    BY <1>2, LargestOf
  <1>8. Eq(g)
    <2>1. ASSUME NEW t \in SUBSET (1..n)
          PROVE  g[t] = IF t = {} THEN ids ELSE RemoveFirst(g[t \ {Max(t)}], found[Max(t)])
      <3>1. g[t] = IF t = {} THEN ids ELSE delta[<<g[t \ {Max(t)}], found[Max(t)]>>]
        BY <1>4, <1>6 DEF FoldsSeq
      <3>2. CASE t = {}
        BY <3>1, <3>2
      <3>3. CASE t # {}
        <4>1. found[Max(t)] \in V /\ g[t \ {Max(t)}] \in X
          BY <1>2, <1>4, <1>6, <1>7, <3>3
        <4>2. QED
          BY <1>3, <3>1, <3>3, <4>1
      <3>4. QED
        BY <3>2, <3>3
    <2>2. g = [t \in SUBSET (1..n) |-> g[t]]
      BY <1>4, <1>6
    <2>3. QED
      BY <1>2, <2>1, <2>2
  <1>9. Eq(CHOOSE h : Eq(h))
    BY <1>8
  <1>10. ASSUME NEW h, Eq(h) PROVE h[1..n] = Run(ids, delta, found)
    <2>1. h[{}] = ids
      BY <1>2, <1>10
    <2>2. ASSUME NEW t \in SUBSET (1..n), t # {}, h[t \ {Max(t)}] \in X
          PROVE  h[t] = delta[<<h[t \ {Max(t)}], found[Max(t)]>>]
      <3>1. h[t] = RemoveFirst(h[t \ {Max(t)}], found[Max(t)])
        BY <1>2, <1>10, <2>2
      <3>2. found[Max(t)] \in V
        BY <1>2, <1>7, <2>2
      <3>3. QED
        BY <1>3, <2>2, <3>1, <3>2
    <2>3. FoldsWithin(h, X, ids, delta, found)
      BY <1>4, <2>1, <2>2 DEF FoldsWithin
    <2> HIDE DEF Eq
    <2>4. h[1..Len(found)] = Run(ids, delta, found)
      BY <1>3, <2>3, FoldIsRun
    <2>5. QED
      BY <1>4, <2>4
  <1> HIDE DEF Eq
  <1>11. QED
    BY <1>1, <1>2, <1>9, <1>10 DEF delta

-----------------------------------------------------------------------------
(***************************************************************************)
(* What is read back from the id of a key.                                 *)
(***************************************************************************)
LEMMA ParseIs ==
    \A id \in Seq(Char) :
        LET parse == ParseCompositeIdComponents(id)
        IN  /\ Parts(id) \in Seq(Seq(Char)) /\ Len(Parts(id)) \in Nat
            /\ DOMAIN parse = 1..Len(Parts(id)) /\ Len(parse) = Len(Parts(id))
            /\ \A n \in 1..Len(Parts(id)) : parse[n] = Unescaped(Parts(id)[n])
            /\ parse = [n \in 1..Len(Parts(id)) |-> parse[n]]
  <1> SUFFICES ASSUME NEW id \in Seq(Char)
               PROVE  LET parse == ParseCompositeIdComponents(id)
                      IN  /\ Parts(id) \in Seq(Seq(Char)) /\ Len(Parts(id)) \in Nat
                          /\ DOMAIN parse = 1..Len(Parts(id)) /\ Len(parse) = Len(Parts(id))
                          /\ \A n \in 1..Len(Parts(id)) : parse[n] = Unescaped(Parts(id)[n])
                          /\ parse = [n \in 1..Len(Parts(id)) |-> parse[n]]
    OBVIOUS
  <1> DEFINE ps == Parts(id)
             m == Len(ps)
  <1>1. ps \in Seq(Seq(Char)) /\ m \in Nat
    BY PartsSteps, ExtendedSteps
  <1>2. DOMAIN ps = 1..m
    BY <1>1
  <1>3. ParseCompositeIdComponents(id) = [n \in DOMAIN ps |-> Unescaped(ps[n])]
    BY DEF ParseCompositeIdComponents, Parts, Cuts
  <1> HIDE DEF m, ps
  <1>4. ParseCompositeIdComponents(id) = [n \in 1..m |-> Unescaped(ps[n])]
    BY <1>2, <1>3
  <1>5. Len([n \in 1..m |-> Unescaped(ps[n])]) = m
    BY <1>1
  <1>6. QED
    BY <1>1, <1>4, <1>5 DEF m, ps

ReadBack(k, parse) ==
    /\ Len(parse) \in Nat /\ DOMAIN parse = 1..Len(parse) /\ parse = [n \in 1..Len(parse) |-> parse[n]]
    /\ ~NoneEnds(k) => Len(parse) < Len(k)
    /\ NoneEnds(k) => Len(parse) = Len(k)
    /\ NoneEnds(k) /\ EscapingRequired(k) => \A n \in 1..Len(k) : parse[n] = k[n]
    /\ NoneEnds(k) /\ ~EscapingRequired(k) =>
          \A n \in 1..Len(k) : parse[n] = Unescaped(k[n]) /\ ~HasSeparator(k[n])

LEMMA IdReadBack ==
    \A k \in Seq(Seq(Char)) :
        k # <<>> => /\ CreateCompositeId(k) \in Seq(Char)
                    /\ ReadBack(k, ParseCompositeIdComponents(CreateCompositeId(k)))
  <1> DEFINE X == Seq(Char)
  <1> SUFFICES ASSUME NEW k \in Seq(X), k # <<>>
               PROVE  /\ CreateCompositeId(k) \in Seq(Char)
                      /\ ReadBack(k, ParseCompositeIdComponents(CreateCompositeId(k)))
    OBVIOUS
  <1> DEFINE id == CreateCompositeId(k)
             parse == ParseCompositeIdComponents(id)
             ps == Parts(id)
  <1>1. DOMAIN k = 1..Len(k) /\ Len(k) \in Nat /\ \A n \in 1..Len(k) : k[n] \in X
    OBVIOUS
  <1>2. CASE EscapingRequired(k)
    <2> DEFINE e == EscapedAll(k)
    <2>1. id = Join(e) /\ e \in Seq(X) /\ e # <<>> /\ Len(e) = Len(k) /\ AllSolid(e) /\ (NoneEnds(e) <=> NoneEnds(k))
      BY <1>2, EscapedAllIs DEF CreateCompositeId
    <2>2. e = [n \in DOMAIN k |-> Escaped(k[n])]
      BY EscapedAllIs
    <2>3. \A n \in 1..Len(k) : e[n] = Escaped(k[n])
      BY <1>1, <2>2
    <2> HIDE DEF e
    <2>4. Apart(e) /\ id \in X
      BY <2>1, PartsRead, JoinSteps
    <2>5. (NoneEnds(k) => ps = e) /\ (~NoneEnds(k) => Len(ps) < Len(k))
      BY <2>1, <2>4 DEF Apart
    <2> HIDE DEF id
    <2>6. /\ Len(ps) \in Nat /\ DOMAIN parse = 1..Len(ps) /\ Len(parse) = Len(ps)
          /\ \A n \in 1..Len(ps) : parse[n] = Unescaped(ps[n])
          /\ parse = [n \in 1..Len(ps) |-> parse[n]]
      BY <2>4, ParseIs
    <2>7. ASSUME NoneEnds(k), NEW n \in 1..Len(k) PROVE parse[n] = k[n]
      <3>1. parse[n] = Unescaped(Escaped(k[n]))
        BY <2>1, <2>3, <2>5, <2>6, <2>7
      <3>2. Unescaped(Escaped(k[n])) = k[n]
        BY <1>1, UnescapedEscaped
      <3>3. QED
        BY <3>1, <3>2
    <2> HIDE DEF parse, ps
    <2>8. ReadBack(k, parse)
      BY <1>2, <2>1, <2>5, <2>6, <2>7 DEF ReadBack
    <2>9. QED
      BY <2>4, <2>8 DEF parse, id
  <1>3. CASE ~EscapingRequired(k)
    <2>1. id = Join(k)
      BY <1>3 DEF CreateCompositeId
    <2>2. \A n \in 1..Len(k) : ~HasSeparator(k[n])
      BY <1>1, <1>3, ContainsSeparator DEF EscapingRequired
    <2>3. AllSolid(k)
      BY <1>1, <2>2, SolidSteps DEF AllSolid
    <2>4. Apart(k) /\ id \in X
      BY <2>1, <2>3, PartsRead, JoinSteps
    <2>5. (NoneEnds(k) => ps = k) /\ (~NoneEnds(k) => Len(ps) < Len(k))
      BY <2>1, <2>4 DEF Apart
    <2> HIDE DEF id
    <2>6. /\ Len(ps) \in Nat /\ DOMAIN parse = 1..Len(ps) /\ Len(parse) = Len(ps)
          /\ \A n \in 1..Len(ps) : parse[n] = Unescaped(ps[n])
          /\ parse = [n \in 1..Len(ps) |-> parse[n]]
      BY <2>4, ParseIs
    <2>7. ASSUME NoneEnds(k), NEW n \in 1..Len(k) PROVE parse[n] = Unescaped(k[n])
      BY <2>5, <2>6, <2>7
    <2> HIDE DEF parse, ps
    <2>8. ReadBack(k, parse)
      BY <1>3, <2>2, <2>5, <2>6, <2>7 DEF ReadBack
    <2>9. QED
      BY <2>4, <2>8 DEF parse, id
  <1>4. QED
    BY <1>2, <1>3

LEMMA DoubledLength ==
    \A c \in Seq(Char) : DoubledEscape(c) => Len(c) >= 2
  <1> SUFFICES ASSUME NEW c \in Seq(Char), DoubledEscape(c) PROVE Len(c) >= 2
    OBVIOUS
  <1> DEFINE m == Len(c)
  <1>1. m \in Nat
    OBVIOUS
  <1>2. PICK n \in 1..(m - 1) : c[n] = Escape
    BY DEF DoubledEscape
  <1> HIDE DEF m
  <1>3. m >= 2
    BY <1>1, <1>2
  <1>4. QED
    BY <1>3 DEF m

\* A component is read back from an id that was not escaped exactly if it has no doubled escape.
LEMMA ComponentReadBack ==
    \A c \in Seq(Char) :
        ~HasSeparator(c) => (Unescaped(c) = c <=> ~DoubledEscape(c))
  <1> SUFFICES ASSUME NEW c \in Seq(Char), ~HasSeparator(c)
               PROVE  Unescaped(c) = c <=> ~DoubledEscape(c)
    OBVIOUS
  <1>1. ASSUME DoubledEscape(c) PROVE Unescaped(c) # c
    <2>1. Len(Unescaped(c)) < Len(c) /\ Len(c) \in Nat
      BY <1>1, UnescapedPlain
    <2>2. QED
      BY <2>1
  <1>2. QED
    BY <1>1, UnescapedPlain

LEMMA KeyReadBack ==
    \A k \in Seq(Seq(Char)) :
        k # <<>> => (ParseCompositeIdComponents(CreateCompositeId(k)) = k <=> Readable(k))
  <1> SUFFICES ASSUME NEW k \in Seq(Seq(Char)), k # <<>>
               PROVE  ParseCompositeIdComponents(CreateCompositeId(k)) = k <=> Readable(k)
    OBVIOUS
  <1> DEFINE parse == ParseCompositeIdComponents(CreateCompositeId(k))
  <1>1. DOMAIN k = 1..Len(k) /\ Len(k) \in Nat /\ \A n \in 1..Len(k) : k[n] \in Seq(Char)
    OBVIOUS
  <1>2. ReadBack(k, parse)
    BY IdReadBack
  <1> HIDE DEF parse
  <1>3. Readable(k) <=> NoneEnds(k) /\ (EscapingRequired(k) \/ \A n \in 1..Len(k) : ~DoubledEscape(k[n]))
    BY <1>1 DEF Readable, NoneEnds
  <1>4. parse = k <=> Len(parse) = Len(k) /\ \A n \in 1..Len(k) : parse[n] = k[n]
    <2>1. k = [n \in 1..Len(k) |-> k[n]]
      BY <1>1
    <2>2. parse = [n \in 1..Len(parse) |-> parse[n]]
      BY <1>2 DEF ReadBack
    <2>3. QED
      BY <2>1, <2>2
  <1>5. CASE ~NoneEnds(k)
    <2>1. Len(parse) < Len(k) /\ Len(parse) \in Nat
      BY <1>2, <1>5 DEF ReadBack
    <2>2. Len(parse) # Len(k)
      BY <1>1, <2>1
    <2>3. QED
      BY <1>3, <1>4, <1>5, <2>2 DEF parse
  <1>6. CASE NoneEnds(k) /\ EscapingRequired(k)
    BY <1>2, <1>3, <1>4, <1>6 DEF ReadBack, parse
  <1>7. CASE NoneEnds(k) /\ ~EscapingRequired(k)
    <2>1. Len(parse) = Len(k) /\ \A n \in 1..Len(k) : parse[n] = Unescaped(k[n]) /\ ~HasSeparator(k[n])
      BY <1>2, <1>7 DEF ReadBack
    <2>2. \A n \in 1..Len(k) : parse[n] = k[n] <=> ~DoubledEscape(k[n])
      BY <1>1, <2>1, ComponentReadBack
    <2>3. QED
      BY <1>3, <1>4, <1>7, <2>1, <2>2 DEF parse
  <1>8. QED
    BY <1>5, <1>6, <1>7

LEMMA KeysAreReadBack == \A key \in Key : KeySurvives(key)
  <1> SUFFICES ASSUME NEW key \in Key PROVE KeySurvives(key)
    OBVIOUS
  <1>1. key \in Seq(Seq(Char)) /\ key # <<>> /\ Len(key) \in Nat
    BY KeyType
  <1>2. ParseCompositeIdComponents(CreateCompositeId(key)) = key <=> Readable(key)
    BY <1>1, KeyReadBack
  <1>3. SimplyRead(key)
    BY <1>1, SimpleRead
  <1>4. ParseSimple(CreateSimple(key)) = key <=> ~EscapingRequired(key)
    BY <1>1, <1>3 DEF SimplyRead, CreateSimple
  <1>5. QED
    BY <1>2, <1>4 DEF KeySurvives

-----------------------------------------------------------------------------
(***************************************************************************)
(* The answer to a request for one id.                                     *)
(***************************************************************************)
LEMMA SequenceOfOne ==
    ASSUME NEW x
    PROVE  SetToSeq({x}) = <<x>> /\ SetToSeq({}) = <<>>
  <1>1. Cardinality({x}) = 1 /\ Cardinality({}) = 0
    BY FS_Singleton, FS_EmptySet
  <1>2. <<x>> \in [1..1 -> {x}] /\ IsInjective(<<x>>)
    BY DEF IsInjective
  <1>3. SetToSeq({x}) \in [1..1 -> {x}]
    BY <1>1, <1>2 DEF SetToSeq
  <1>4. <<>> \in [1..0 -> {}] /\ IsInjective(<<>>)
    BY DEF IsInjective
  <1>5. SetToSeq({}) \in [1..0 -> {}]
    BY <1>1, <1>4 DEF SetToSeq
  <1>6. QED
    BY <1>3, <1>5

LEMMA OneIdExtracted ==
    ASSUME NEW id \in Seq(Char), NEW x \in Seq(Char)
    PROVE  /\ ExtractData(<<>>, <<id>>) = [updates |-> <<>>, removes |-> <<id>>]
           /\ ExtractData(<<x>>, <<id>>) =
                [updates |-> <<x>>, removes |-> IF x = id THEN <<>> ELSE <<id>>]
  <1> DEFINE V == Seq(Char)
             delta == StrikeOut(V)
             s == <<id>>
  <1>1. s \in Seq(V) /\ <<>> \in Seq(V) /\ x \in V /\ <<x>> \in Seq(V) /\ <<x>> = Append(<<>>, x)
        /\ Len(s) = 1 /\ s[1] = id
    <2> HIDE DEF V
    <2>1. x \in V /\ id \in V
      BY DEF V
    <2>2. QED
      BY <2>1
  <1> HIDE DEF s, V, delta
  <1>2. IsLoop(Seq(V), V, s, delta) /\ delta[<<s, x>>] = RemoveFirst(s, x)
    BY <1>1, StrikeOutLoop DEF delta
  <1>3. Run(s, delta, <<>>) = s
    BY <1>2, RunSteps
  <1>4. Run(s, delta, <<x>>) = RemoveFirst(s, x)
    <2>1. \A t \in Seq(V), y \in V : Run(s, delta, Append(t, y)) = delta[<<Run(s, delta, t), y>>]
      BY <1>2, RunSteps
    <2>2. Run(s, delta, Append(<<>>, x)) = delta[<<Run(s, delta, <<>>), x>>]
      BY <1>1, <2>1
    <2>3. QED
      BY <1>1, <1>2, <1>3, <2>2
  <1>5. ExtractData(<<>>, s) = [updates |-> <<>>, removes |-> Run(s, delta, <<>>)]
    BY <1>1, ExtractDataIsRun DEF delta
  <1>6. ExtractData(<<x>>, s) = [updates |-> <<x>>, removes |-> Run(s, delta, <<x>>)]
    BY <1>1, ExtractDataIsRun DEF delta
  <1>7. Contains(s, x) <=> x = id
    BY <1>1 DEF Contains
  <1>8. x # id => RemoveFirst(s, x) = s
    BY <1>1, <1>7, RemoveFirstIs
  <1>9. ASSUME x = id PROVE RemoveFirst(s, x) = <<>>
    <2>1. PICK i \in 1..Len(s) : RemoveFirst(s, x) = RemoveAt(s, i)
      BY <1>1, <1>7, <1>9, RemoveFirstIs
    <2>2. RemoveAt(s, i) \in Seq(V) /\ Len(RemoveAt(s, i)) = Len(s) - 1
      BY <1>1, RemoveAtIs
    <2>3. Len(RemoveAt(s, i)) = 0
      BY <1>1, <2>2
    <2>4. RemoveAt(s, i) = <<>>
      BY <2>2, <2>3, EmptySeq
    <2>5. QED
      BY <2>1, <2>4
  <1>10. QED
    BY <1>3, <1>4, <1>5, <1>6, <1>8, <1>9 DEF s

LEMMA OneIdTold ==
    ASSUME NEW id \in Seq(Char), NEW x \in Seq(Char)
    PROVE  /\ ExtractData(SetToSeq({}), <<id>>) = [updates |-> <<>>, removes |-> <<id>>]
           /\ ExtractData(SetToSeq({x}), <<id>>) =
                [updates |-> <<x>>, removes |-> IF x = id THEN <<>> ELSE <<id>>]
  BY SequenceOfOne, OneIdExtracted

LEMMA RowsAreFound == \A key \in Key : RowFound(key)
  <1> SUFFICES ASSUME NEW key \in Key PROVE RowFound(key)
    OBVIOUS
  <1> DEFINE keys == [DOMAIN key -> Component]
             id == CreateCompositeId(key)
             parse == ParseCompositeIdComponents(id)
             asked == [n \in DOMAIN parse |-> Denoted(Literal(parse[n]))]
             Found(table) == {CreateCompositeId(k) : k \in SingleRow(table, id)}
  <1>1. /\ key \in Seq(Seq(Char)) /\ key # <<>> /\ Len(key) \in Nat /\ DOMAIN key = 1..Len(key) /\ key \in keys
        /\ \A k \in keys : k \in Seq(Seq(Char)) /\ Len(k) = Len(key)
    BY KeyType
  <1>2. id \in Seq(Char) /\ ReadBack(key, parse)
    BY <1>1, IdReadBack
  <1>3. parse = key <=> Readable(key)
    BY <1>1, KeyReadBack
  <1>4. \A n \in 1..Len(key) : key[n] \in Seq(Char)
    BY <1>1
  <1>5. \A table : SingleRow(table, id) = {k \in table : k = asked}
    BY DEF SingleRow
  <1>6. \A table : GetCsvLine(table, id) = ExtractData(SetToSeq(Found(table)), <<id>>)
    BY DEF GetCsvLine
  <1>7. \A k \in keys : CreateCompositeId(k) = id => k = key
    BY <1>1, IdsDiffer
  <1>8. \A k \in keys : CreateCompositeId(k) \in Seq(Char)
    <2> SUFFICES ASSUME NEW k \in keys PROVE CreateCompositeId(k) \in Seq(Char)
      OBVIOUS
    <2>1. k \in Seq(Seq(Char)) /\ k # <<>>
      BY <1>1, EmptySeq
    <2>2. QED
      BY <2>1, IdReadBack
  <1>9. Throws(Len(key), id) <=> Len(parse) # Len(key)
    BY DEF Throws
  <1>10. CreateCompositeId(key) = id /\ \A w : Quoted(w) = Spelled(w, Apostrophe, <<Apostrophe, Apostrophe>>)
    BY DEF Quoted
  <1>14. Garbled(id) <=> \E n \in DOMAIN parse : Quoted(Denoted(Literal(parse[n]))) # Literal(parse[n])
    BY DEF Garbled, Denotes, Quoted
  <1> HIDE DEF id, keys
  <1>11. CASE Findable(key)
    <2>1. parse = key /\ \A n \in 1..Len(key) : key[n] # <<>> /\ ~HasApostrophe(key[n])
      BY <1>1, <1>3, <1>11 DEF Findable, HasApostrophe
    <2>9. \A n \in 1..Len(key) : /\ Literal(key[n]) = key[n] /\ Denoted(key[n]) = key[n]
                                 /\ Quoted(key[n]) = key[n]
      BY <1>4, <2>1, LiteralSteps DEF Literal
    <2>2. asked = key
      <3>1. \A n \in DOMAIN key : Denoted(Literal(key[n])) = key[n]
        BY <1>1, <2>9
      <3>2. key = [n \in DOMAIN key |-> key[n]]
        BY <1>1
      <3>3. QED
        BY <2>1, <3>1, <3>2
    <2>10. ~Garbled(id)
      BY <1>1, <1>14, <2>1, <2>9
    <2> HIDE DEF asked, parse
    <2>3. SingleRow(keys, id) = {key} /\ SingleRow(keys \ {key}, id) = {}
      BY <1>1, <1>5, <2>2
    <2>4. Found(keys) = {id} /\ Found(keys \ {key}) = {}
      BY <1>10, <2>3
    <2> HIDE DEF Found
    <2>5. GetCsvLine(keys, id) = [updates |-> <<id>>, removes |-> <<>>]
      <3>1. GetCsvLine(keys, id) = ExtractData(SetToSeq({id}), <<id>>)
        BY <1>6, <2>4
      <3>2. QED
        BY <1>2, <3>1, OneIdTold
    <2>6. GetCsvLine(keys \ {key}, id) = [updates |-> <<>>, removes |-> <<id>>]
      <3>1. GetCsvLine(keys \ {key}, id) = ExtractData(SetToSeq({}), <<id>>)
        BY <1>6, <2>4
      <3>2. QED
        BY <1>2, <3>1, OneIdTold
    <2>7. ~Throws(Len(key), id)
      BY <1>9, <2>1
    <2>8. QED
      BY <1>11, <2>5, <2>6, <2>7, <2>10 DEF RowFound, id, keys
  <1>12. CASE ~Findable(key)
    <2> SUFFICES ASSUME ~Throws(Len(key), id), ~Garbled(id) PROVE GetCsvLine(keys, id).removes = <<id>>
      BY <1>12 DEF RowFound, id, keys
    <2>1. Len(parse) = Len(key)
      BY <1>9
    <2>2. NoneEnds(key)
      BY <1>1, <1>2, <2>1 DEF ReadBack
    <2>3. asked # key
      <3> SUFFICES ASSUME asked = key PROVE FALSE
        OBVIOUS
      <3>1. DOMAIN parse = 1..Len(key)
        BY <1>2, <2>1 DEF ReadBack
      <3>2. \A n \in 1..Len(key) : Quoted(key[n]) = Literal(parse[n])
        <4>1. \A n \in 1..Len(key) : key[n] = Denoted(Literal(parse[n]))
          BY <3>1
        <4>2. \A n \in 1..Len(key) : Quoted(Denoted(Literal(parse[n]))) = Literal(parse[n])
          BY <1>14, <3>1
        <4>3. QED
          BY <4>1, <4>2
      <3>3. \A n \in 1..Len(key) : key[n] # <<>>
        <4>1. \A c : Literal(c) # <<>>
          BY DEF Literal
        <4> HIDE DEF parse
        <4>2. QED
          BY <3>2, <4>1, QuotedSteps
      <3>4. \A n \in 1..Len(key) : parse[n] = key[n] => ~HasApostrophe(key[n])
        <4> SUFFICES ASSUME NEW n \in 1..Len(key), parse[n] = key[n] PROVE ~HasApostrophe(key[n])
          OBVIOUS
        <4>1. Quoted(key[n]) = key[n]
          BY <3>2, <3>3 DEF Literal
        <4>2. /\ Len(Quoted(key[n])) \in Nat
              /\ HasApostrophe(key[n]) => Len(Quoted(key[n])) > Len(key[n])
          BY <1>4, LiteralSteps
        <4>3. QED
          BY <4>1, <4>2
      <3>5. \A n \in 1..Len(key) : parse[n] = key[n] /\ (EscapingRequired(key) \/ ~DoubledEscape(key[n]))
        <4>1. CASE EscapingRequired(key)
          BY <1>2, <2>2, <4>1 DEF ReadBack
        <4>2. CASE ~EscapingRequired(key)
          <5> SUFFICES ASSUME NEW n \in 1..Len(key) PROVE parse[n] = key[n] /\ ~DoubledEscape(key[n])
            OBVIOUS
          <5>1. parse[n] = Unescaped(key[n]) /\ ~HasSeparator(key[n])
            BY <1>2, <2>2, <4>2 DEF ReadBack
          <5>2. key[n] \in Seq(Char)
            BY <1>4
          <5>3. DoubledEscape(key[n]) => Len(Unescaped(key[n])) < Len(key[n]) /\ Len(key[n]) >= 2
            BY <5>1, <5>2, UnescapedPlain, DoubledLength
          <5>4. Len(Quoted(key[n])) \in Nat /\ Len(key[n]) \in Nat /\ Len(Quoted(key[n])) >= Len(key[n])
            BY <5>2, LiteralSteps
          <5>5. Quoted(key[n]) = Unescaped(key[n]) \/ Len(Quoted(key[n])) = 1
            BY <3>2, <5>1 DEF Literal
          <5>6. ~DoubledEscape(key[n])
            <6> DEFINE k == key[n]
                       q == Len(Quoted(k))
                       u == Len(Unescaped(k))
            <6>1. q = u \/ q = 1
              BY <5>5
            <6>2. q \in Nat /\ Len(k) \in Nat /\ q >= Len(k)
              BY <5>4
            <6>3. DoubledEscape(k) => u < Len(k) /\ Len(k) >= 2
              BY <5>3
            <6> HIDE DEF k, q, u
            <6>4. ~DoubledEscape(k)
              <7> DEFINE l == Len(k)
              <7> HIDE DEF l
              <7>1. q = u \/ q = 1
                BY <6>1
              <7>2. q \in Nat /\ l \in Nat /\ q >= l
                BY <6>2 DEF l
              <7>3. DoubledEscape(k) => u < l /\ l >= 2
                BY <6>3 DEF l
              <7>4. QED
                BY <7>1, <7>2, <7>3
            <6>5. QED
              BY <6>4 DEF k
          <5>7. QED
            BY <5>1, <5>2, <5>6, UnescapedPlain
        <4>3. QED
          BY <4>1, <4>2
      <3>6. Readable(key)
        BY <1>1, <2>2, <3>5 DEF Readable, NoneEnds
      <3>7. QED
        BY <1>1, <1>12, <3>3, <3>4, <3>5, <3>6 DEF Findable, HasApostrophe
    <2> HIDE DEF asked, parse
    <2>4. CASE asked \in keys
      <3> DEFINE x == CreateCompositeId(asked)
      <3>1. SingleRow(keys, id) = {asked}
        BY <1>5, <2>4
      <3>2. Found(keys) = {x}
        BY <3>1
      <3>3. x \in Seq(Char) /\ x # id
        BY <1>7, <1>8, <2>3, <2>4
      <3> HIDE DEF Found, x
      <3>4. GetCsvLine(keys, id) = [updates |-> <<x>>, removes |-> <<id>>]
        <4>1. GetCsvLine(keys, id) = ExtractData(SetToSeq({x}), <<id>>)
          BY <1>6, <3>2
        <4>2. QED
          BY <1>2, <3>3, <4>1, OneIdTold
      <3>5. QED
        BY <3>4
    <2>5. CASE asked \notin keys
      <3>1. SingleRow(keys, id) = {}
        BY <1>5, <2>5
      <3>2. Found(keys) = {}
        BY <3>1
      <3> HIDE DEF Found
      <3>3. GetCsvLine(keys, id) = [updates |-> <<>>, removes |-> <<id>>]
        <4>1. GetCsvLine(keys, id) = ExtractData(SetToSeq({}), <<id>>)
          BY <1>6, <3>2
        <4>2. QED
          BY <1>2, <4>1, OneIdTold
      <3>4. QED
        BY <3>3
    <2>6. QED
      BY <2>4, <2>5
  <1>13. QED
    BY <1>11, <1>12

-----------------------------------------------------------------------------
(***************************************************************************)
(* Counting what was requested and what was found.                         *)
(***************************************************************************)
Places(s, v) == {n \in DOMAIN s : s[n] = v}

LEMMA TimesIs ==
    ASSUME NEW V, NEW s \in Seq(V), NEW v
    PROVE  /\ IsFiniteSet(Places(s, v)) /\ Times(s, v) = Cardinality(Places(s, v)) /\ Times(s, v) \in Nat
           /\ Times(s, v) > 0 <=> Contains(s, v)
           /\ Contains(s, v) <=> v \in ToSet(s)
  <1>1. Places(s, v) \in SUBSET (1..Len(s)) /\ Len(s) \in Nat /\ DOMAIN s = 1..Len(s)
    BY DEF Places
  <1>2. IsFiniteSet(1..Len(s))
    BY <1>1, FS_Interval
  <1>3. IsFiniteSet(Places(s, v))
    BY <1>1, <1>2, FS_Subset
  <1>4. Times(s, v) = Cardinality(Places(s, v))
    BY DEF Times, Places
  <1>5. Cardinality(Places(s, v)) \in Nat
    BY <1>3, FS_CardinalityType
  <1>6. Cardinality(Places(s, v)) = 0 <=> Places(s, v) = {}
    BY <1>3, FS_EmptySet
  <1>7. Places(s, v) = {} <=> ~Contains(s, v)
    BY <1>1 DEF Places, Contains
  <1>8. Contains(s, v) <=> v \in ToSet(s)
    BY <1>1 DEF Contains, ToSet
  <1>9. QED
    BY <1>3, <1>4, <1>5, <1>6, <1>7, <1>8

LEMMA TimesAppend ==
    ASSUME NEW V, NEW s \in Seq(V), NEW x \in V, NEW v
    PROVE  Times(Append(s, x), v) = IF x = v THEN Times(s, v) + 1 ELSE Times(s, v)
  <1> DEFINE m == Len(s)
             z == Append(s, x)
  <1>1. z \in Seq(V) /\ DOMAIN z = 1..(m + 1) /\ z[m + 1] = x /\ m \in Nat /\ DOMAIN s = 1..m
        /\ \A i \in 1..m : z[i] = s[i]
    OBVIOUS
  <1> HIDE DEF z, m
  <1>2. \A i \in 1..(m + 1) : i = m + 1 \/ i \in 1..m
    BY <1>1
  <1>3. m + 1 \in 1..(m + 1) /\ m + 1 \notin 1..m /\ \A i \in 1..m : i \in 1..(m + 1)
    BY <1>1
  <1>4. x = v => Places(z, v) = Places(s, v) \cup {m + 1}
    BY <1>1, <1>2, <1>3 DEF Places
  <1>5. x # v => Places(z, v) = Places(s, v)
    BY <1>1, <1>2, <1>3 DEF Places
  <1>6. m + 1 \notin Places(s, v)
    BY <1>1, <1>3 DEF Places
  <1>7. IsFiniteSet(Places(s, v)) /\ Times(s, v) = Cardinality(Places(s, v))
    BY TimesIs
  <1>8. Times(z, v) = Cardinality(Places(z, v))
    BY <1>1, TimesIs
  <1>9. Cardinality(Places(s, v) \cup {m + 1}) = Cardinality(Places(s, v)) + 1
    BY <1>6, <1>7, FS_AddElement
  <1>10. QED
    BY <1>4, <1>5, <1>7, <1>8, <1>9 DEF z

\* Without one element, each of the others is as often in a sequence as before.
LEMMA TimesRemoved ==
    ASSUME NEW V, NEW s \in Seq(V), NEW i \in 1..Len(s), NEW v
    PROVE  Times(RemoveAt(s, i), v) = IF s[i] = v THEN Times(s, v) - 1 ELSE Times(s, v)
  <1> DEFINE m == Len(s)
             z == RemoveAt(s, i)
             P == Places(s, v) \ {i}
             Q == Places(z, v)
             f == [n \in P |-> IF n < i THEN n ELSE n - 1]
  <1>1. m \in Nat /\ i \in Nat /\ i >= 1 /\ i <= m /\ DOMAIN s = 1..m
    OBVIOUS
  <1>2. z \in Seq(V) /\ Len(z) = m - 1 /\ \A j \in 1..(m - 1) : z[j] = IF j < i THEN s[j] ELSE s[j + 1]
    BY RemoveAtIs
  <1> HIDE DEF z, m
  <1>3. DOMAIN z = 1..(m - 1)
    BY <1>2
  <1>4. \A n \in P : n \in 1..m /\ n # i /\ s[n] = v
    BY <1>1 DEF Places
  <1>5. f \in [P -> Q]
    <2> SUFFICES ASSUME NEW n \in P PROVE (IF n < i THEN n ELSE n - 1) \in Q
      OBVIOUS
    <2>0. n \in 1..m /\ n # i /\ s[n] = v
      BY <1>4
    <2> HIDE DEF P, f
    <2>1. CASE n < i
      <3>1. n \in 1..(m - 1)
        BY <1>1, <2>0, <2>1
      <3>2. z[n] = v
        BY <1>2, <2>0, <2>1, <3>1
      <3>3. QED
        BY <1>3, <2>1, <3>1, <3>2 DEF Places
    <2>2. CASE ~(n < i)
      <3>1. n - 1 \in 1..(m - 1) /\ ~(n - 1 < i) /\ (n - 1) + 1 = n
        BY <1>1, <2>0, <2>2
      <3>2. z[n - 1] = v
        BY <1>2, <2>0, <3>1
      <3>3. QED
        BY <1>3, <2>2, <3>1, <3>2 DEF Places
    <2>3. QED
      BY <2>1, <2>2
  <1>6. \A a, b \in P : f[a] = f[b] => a = b
    <2> SUFFICES ASSUME NEW a \in P, NEW b \in P, f[a] = f[b] PROVE a = b
      OBVIOUS
    <2>1. a \in 1..m /\ a # i /\ b \in 1..m /\ b # i
      BY <1>4
    <2>2. (IF a < i THEN a ELSE a - 1) = (IF b < i THEN b ELSE b - 1)
      OBVIOUS
    <2> HIDE DEF P, f
    <2>3. QED
      BY <1>1, <2>1, <2>2
  <1>7. ASSUME NEW q \in Q PROVE \E n \in P : f[n] = q
    <2>1. q \in 1..(m - 1) /\ z[q] = v
      BY <1>3 DEF Places
    <2>2. CASE q < i
      <3>1. q \in 1..m /\ s[q] = v /\ q # i
        BY <1>1, <1>2, <2>1, <2>2
      <3>2. q \in P
        BY <1>1, <3>1 DEF Places
      <3>3. f[q] = q
        BY <2>2, <3>2
      <3>4. QED
        BY <3>2, <3>3
    <2>3. CASE ~(q < i)
      <3>1. q + 1 \in 1..m /\ s[q + 1] = v /\ q + 1 # i /\ ~(q + 1 < i) /\ (q + 1) - 1 = q
        BY <1>1, <1>2, <2>1, <2>3
      <3>2. q + 1 \in P
        BY <1>1, <3>1 DEF Places
      <3>3. f[q + 1] = q
        BY <3>1, <3>2
      <3>4. QED
        BY <3>2, <3>3
    <2>4. QED
      BY <2>2, <2>3
  <1>8. IsFiniteSet(Places(s, v)) /\ Times(s, v) = Cardinality(Places(s, v)) /\ Times(s, v) \in Nat
    BY TimesIs
  <1>9. Times(z, v) = Cardinality(Q)
    BY <1>2, TimesIs
  <1>10. IsFiniteSet(P) /\ Cardinality(P) = IF i \in Places(s, v) THEN Cardinality(Places(s, v)) - 1 ELSE Cardinality(Places(s, v))
    BY <1>8, FS_RemoveElement
  <1> HIDE DEF P, Q, f
  <1>11. f \in Bijection(P, Q)
    <2>1. f \in Injection(P, Q)
      BY <1>5, <1>6 DEF Injection, IsInjective
    <2>2. f \in Surjection(P, Q)
      BY <1>5, <1>7 DEF Surjection
    <2>3. QED
      BY <2>1, <2>2 DEF Bijection
  <1>12. Cardinality(Q) = Cardinality(P)
    BY <1>10, <1>11, FS_Bijection DEF ExistsBijection
  <1>13. i \in Places(s, v) <=> s[i] = v
    BY <1>1 DEF Places
  <1>14. QED
    BY <1>8, <1>9, <1>10, <1>12, <1>13 DEF z

LEMMA TimesStruckOut ==
    ASSUME NEW V, NEW s \in Seq(V), NEW x, NEW v
    PROVE  Times(RemoveFirst(s, x), v)
             = IF x = v /\ Times(s, v) > 0 THEN Times(s, v) - 1 ELSE Times(s, v)
  <1>1. Times(s, x) > 0 <=> Contains(s, x)
    BY TimesIs
  <1>2. CASE ~Contains(s, x)
    BY <1>1, <1>2, RemoveFirstIs
  <1>3. CASE Contains(s, x)
    <2>1. PICK i \in 1..Len(s) : s[i] = x /\ RemoveFirst(s, x) = RemoveAt(s, i)
      BY <1>3, RemoveFirstIs
    <2>2. Times(RemoveAt(s, i), v) = IF s[i] = v THEN Times(s, v) - 1 ELSE Times(s, v)
      BY TimesRemoved
    <2>3. QED
      BY <1>1, <1>3, <2>1, <2>2
  <1>4. QED
    BY <1>2, <1>3

\* What is left of the requested ids.
Left(ids, found, v) == IF Times(ids, v) > Times(found, v) THEN Times(ids, v) - Times(found, v) ELSE 0

LEMMA TimesLeft ==
    ASSUME NEW V, NEW ids \in Seq(V), NEW v
    PROVE  \A found \in Seq(V) : /\ Run(ids, StrikeOut(V), found) \in Seq(V)
                                 /\ Times(Run(ids, StrikeOut(V), found), v) = Left(ids, found, v)
  <1> DEFINE R(found) == Run(ids, StrikeOut(V), found)
             T == {found \in Seq(V) : Times(R(found), v) = Left(ids, found, v)}
  <1>1. /\ R(<<>>) = ids
        /\ \A found \in Seq(V) : R(found) \in Seq(V)
    BY StrikeOutLoop, RunSteps
  <1>2. \A found \in Seq(V), x \in V : R(Append(found, x)) = StrikeOut(V)[<<R(found), x>>]
    BY StrikeOutLoop, RunSteps
  <1>3. \A found \in Seq(V), x \in V : R(Append(found, x)) = RemoveFirst(R(found), x)
    <2>1. \A s \in Seq(V), x \in V : StrikeOut(V)[<<s, x>>] = RemoveFirst(s, x)
      BY StrikeOutLoop
    <2> HIDE DEF R
    <2>2. QED
      BY <1>1, <1>2, <2>1
  <1> HIDE DEF R
  <1>4. <<>> \in T
    <2>1. <<>> \in Seq(V) /\ Times(<<>>, v) \in Nat /\ ~(Times(<<>>, v) > 0)
      <3> DEFINE none == <<>>
      <3>1. none \in Seq(V) /\ Len(none) = 0
        OBVIOUS
      <3> HIDE DEF none
      <3>2. ~Contains(none, v)
        BY <3>1 DEF Contains
      <3>3. Times(none, v) \in Nat /\ (Times(none, v) > 0 <=> Contains(none, v))
        BY <3>1, TimesIs
      <3>4. QED
        BY <3>1, <3>2, <3>3 DEF none
    <2>2. Times(ids, v) \in Nat
      BY TimesIs
    <2>3. Times(<<>>, v) = 0
      BY <2>1
    <2>4. QED
      BY <1>1, <2>1, <2>2, <2>3 DEF Left
  <1>5. ASSUME NEW found \in Seq(V), NEW x \in V, found \in T PROVE Append(found, x) \in T
    <2>1. Times(R(found), v) = Left(ids, found, v) /\ R(found) \in Seq(V)
      BY <1>1, <1>5
    <2>2. Times(R(Append(found, x)), v)
            = IF x = v /\ Times(R(found), v) > 0 THEN Times(R(found), v) - 1 ELSE Times(R(found), v)
      BY <1>3, <2>1, TimesStruckOut
    <2>3. Times(Append(found, x), v) = IF x = v THEN Times(found, v) + 1 ELSE Times(found, v)
      BY TimesAppend
    <2>4. Times(ids, v) \in Nat /\ Times(found, v) \in Nat
      BY TimesIs
    <2>5. Append(found, x) \in Seq(V)
      BY AppendProperties
    <2>6. QED
      BY <2>1, <2>2, <2>3, <2>4, <2>5 DEF Left
  <1>6. \A found \in Seq(V) : found \in T
    <2> HIDE DEF T
    <2>1. QED
      BY <1>4, <1>5, AppendInduction
  <1>7. QED
    BY <1>1, <1>6 DEF R

\* Each requested id is reported, for requests and results of any length: RemoveFirst over
\* the rows found leaves as many of an id as were requested beyond those found.
THEOREM EveryIdIsReported ==
    ASSUME NEW V, NEW ids \in Seq(V), NEW found \in Seq(V)
    PROVE  EachIdReported(ids, found)
  <1> DEFINE left == Run(ids, StrikeOut(V), found)
             told == MultipleRows(found, ids)
  <1>1. told = [updates |-> found, removes |-> left]
    BY ExtractDataIsRun DEF MultipleRows
  <1>2. left \in Seq(V)
    BY TimesLeft
  <1>3. ASSUME NEW id \in ToSet(ids)
        PROVE  /\ Contains(found, id) \/ Contains(left, id)
               /\ Contains(found, id) /\ Contains(left, id)
                    <=> Times(ids, id) > Times(found, id) /\ Times(found, id) > 0
    <2>1. Times(left, id) = Left(ids, found, id)
      BY TimesLeft
    <2> HIDE DEF left
    <2>2. Times(left, id) > 0 <=> Contains(left, id)
      BY <1>2, TimesIs
    <2>3. (Times(found, id) > 0 <=> Contains(found, id)) /\ Times(found, id) \in Nat
      BY TimesIs
    <2>4. Times(ids, id) > 0 /\ Times(ids, id) \in Nat
      BY TimesIs
    <2>5. Left(ids, found, id) > 0 <=> Times(ids, id) > Times(found, id)
      BY <2>3, <2>4 DEF Left
    <2>6. Contains(left, id) <=> Times(ids, id) > Times(found, id)
      BY <2>1, <2>2, <2>5
    <2>7. Contains(found, id) <=> Times(found, id) > 0
      BY <2>3
    <2>8. Contains(found, id) \/ Contains(left, id)
      BY <2>3, <2>4, <2>6, <2>7
    <2>9. QED
      BY <2>6, <2>7, <2>8
  <1> HIDE DEF left
  <1>4. QED
    BY <1>1, <1>3 DEF EachIdReported
=============================================================================
