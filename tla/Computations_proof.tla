------------------------- MODULE Computations_proof --------------------------
(***************************************************************************)
(* What the parts that only compute do for inputs of every size: the      *)
(* names and subs of a configuration, the names and entries of a Clash    *)
(* document, links and maps written and read, nodes merged, the groups of *)
(* relays, and the source of client addresses.                             *)
(*                                                                         *)
(* The loops of the code are folds.  What holds after every element is    *)
(* proved by induction over the prefixes of the sequence; the first part  *)
(* provides that, from the definition of FoldLeft and the fact that the   *)
(* natural numbers are well-founded.                                       *)
(***************************************************************************)
EXTENDS Computations, FiniteSetTheorems, SequenceTheorems, WellFoundedInduction, TLAPS

-----------------------------------------------------------------------------
(* Induction over folds *)

\* Induction: a set of numbers with 0 in it, and k + 1 with k, has all of them.
LEMMA Induction ==
  ASSUME NEW S, 0 \in S, \A k \in Nat : k \in S => k + 1 \in S
  PROVE  Nat \subseteq S
<1> SUFFICES ASSUME Nat \ S # {} PROVE FALSE
  OBVIOUS
<1>1. PICK m \in Nat \ S : \A n \in Nat \ S : ~ (<<n, m>> \in OpToRel(<, Nat))
  BY NatLessThanWellFounded, WFMin, Nat \ S \subseteq Nat, Zenon
<1>2. \A n \in Nat \ S : ~ (n < m)
  BY <1>1, Zenon DEF OpToRel
<1>3. m # 0
  BY <1>1
<1>4. m - 1 \in Nat /\ m - 1 < m /\ (m - 1) + 1 = m
  BY <1>3
<1> QED
  BY <1>2, <1>4

\* g is what folding computes on the way: base for no index, and for others
\* F[k] of what it is without the largest, k.
IsFold(T, base, F, k, g) ==
  /\ g \in [SUBSET (1 .. k) -> T]
  /\ \A s \in SUBSET (1 .. k) :
       /\ s # {} => Max(s) \in 1 .. k
       /\ g[s] = IF s = {} THEN base ELSE F[Max(s)][g[s \ {Max(s)}]]

\* There is such a g, whatever F[k] is on T.
LEMMA FoldExists ==
  ASSUME NEW T, NEW base \in T, NEW n \in Nat, NEW F \in [1 .. n -> [T -> T]]
  PROVE  \E g : IsFold(T, base, F, n, g)
<1> USE DEF IsFold
<1> DEFINE Has(k) == \E g : IsFold(T, base, F, k, g)
           S == { k \in Nat : k <= n => Has(k) }
<1>1. Has(0)
  <2> DEFINE g == [s \in SUBSET (1 .. 0) |-> base]
  <2>1. 1 .. 0 = {}
    OBVIOUS
  <2>2. IsFold(T, base, F, 0, g)
    BY <2>1
  <2> QED
    BY <2>2
<1>2. ASSUME NEW k \in Nat, k + 1 <= n, Has(k)
      PROVE  Has(k + 1)
  <2>1. PICK g : IsFold(T, base, F, k, g)
    BY <1>2
  <2> DEFINE h == [s \in SUBSET (1 .. k + 1) |->
                     IF k + 1 \in s THEN F[k + 1][g[s \ {k + 1}]] ELSE g[s]]
  <2>2. ASSUME NEW s \in SUBSET (1 .. k + 1), k + 1 \in s
        PROVE  Max(s) = k + 1 /\ s \ {k + 1} \in SUBSET (1 .. k)
    <3>1. \A x \in s : x \in Int /\ k + 1 >= x
      OBVIOUS
    <3>2. \A x \in s : x >= k + 1 => x = k + 1
      BY <3>1
    <3>3. Max(s) = k + 1
      BY <2>2, <3>1, <3>2 DEF Max
    <3> QED
      BY <3>3
  <2>3. ASSUME NEW s \in SUBSET (1 .. k + 1), k + 1 \notin s
        PROVE  s \in SUBSET (1 .. k)
    BY <2>3
  <2>0. F[k + 1] \in [T -> T]
    BY <1>2
  <2>4. h \in [SUBSET (1 .. k + 1) -> T]
    <3> SUFFICES ASSUME NEW s \in SUBSET (1 .. k + 1)
                 PROVE  (IF k + 1 \in s THEN F[k + 1][g[s \ {k + 1}]] ELSE g[s]) \in T
      OBVIOUS
    <3>1. CASE k + 1 \in s
      <4>1. g[s \ {k + 1}] \in T
        BY <2>1, <2>2, <3>1
      <4> QED
        BY <2>0, <3>1, <4>1
    <3>2. CASE k + 1 \notin s
      BY <2>1, <2>3, <3>2
    <3> QED
      BY <3>1, <3>2
  <2>5. ASSUME NEW s \in SUBSET (1 .. k + 1)
        PROVE  /\ s # {} => Max(s) \in 1 .. k + 1
               /\ h[s] = IF s = {} THEN base ELSE F[Max(s)][h[s \ {Max(s)}]]
    <3>1. CASE k + 1 \in s
      <4>1. Max(s) = k + 1 /\ s \ {k + 1} \in SUBSET (1 .. k) /\ s # {}
        BY <2>2, <3>1
      <4>2. s \ {k + 1} \in SUBSET (1 .. k + 1) /\ k + 1 \notin s \ {k + 1}
        OBVIOUS
      <4>3. h[s \ {k + 1}] = g[s \ {k + 1}]
        BY <4>2
      <4>4. h[s] = F[k + 1][g[s \ {k + 1}]]
        BY <3>1
      <4> QED
        BY <3>1, <4>1, <4>3, <4>4
    <3>2. CASE k + 1 \notin s
      <4>1. s \in SUBSET (1 .. k) /\ h[s] = g[s]
        BY <2>3, <3>2
      <4>2. s \ {Max(s)} \in SUBSET (1 .. k + 1) /\ k + 1 \notin s \ {Max(s)}
        BY <3>2
      <4>3. h[s \ {Max(s)}] = g[s \ {Max(s)}]
        BY <4>2
      <4>4. 1 .. k \subseteq 1 .. k + 1
        OBVIOUS
      <4> QED
        BY <2>1, <4>1, <4>3, <4>4
    <3> QED
      BY <3>1, <3>2
  <2> HIDE DEF h
  <2> QED
    BY <2>4, <2>5
<1>3. Has(n)
  <2> HIDE DEF Has
  <2>1. 0 \in S /\ \A k \in Nat : k \in S => k + 1 \in S
    BY <1>1, <1>2
  <2>2. n \in S
    <3> HIDE DEF S
    <3> QED
      BY <2>1, Induction
  <2> QED
    BY <2>2
<1> QED
  BY <1>3, Zenon

\* Induction up to n.
LEMMA BoundedInduction ==
  ASSUME NEW n \in Nat, NEW S, 0 \in S, \A k \in 1 .. n : k - 1 \in S => k \in S
  PROVE  n \in S /\ \A k \in 0 .. n : k \in S
<1> DEFINE R == { k \in Nat : k <= n => k \in S }
<1>1. 0 \in R
  OBVIOUS
<1>2. ASSUME NEW k \in Nat, k \in R
      PROVE  k + 1 \in R
  <2>1. CASE k + 1 <= n
    <3>1. k + 1 \in 1 .. n /\ (k + 1) - 1 = k /\ k <= n
      BY <2>1
    <3>2. k + 1 \in S
      BY <1>2, <3>1
    <3> QED
      BY <3>2
  <2>2. CASE ~(k + 1 <= n)
    BY <2>2
  <2> QED
    BY <2>1, <2>2
<1>3. Nat \subseteq R
  <2> HIDE DEF R
  <2> QED
    BY <1>1, <1>2, Induction
<1> QED
  BY <1>3

\* The largest of the indices of a prefix, and the others.
LEMMA FirstIndices ==
  ASSUME NEW n \in Nat
  PROVE  \A k \in 1 .. n : /\ 1 .. k \in SUBSET (1 .. n) /\ 1 .. k # {}
                           /\ Max(1 .. k) = k
                           /\ (1 .. k) \ {k} = 1 .. (k - 1)
<1> TAKE k \in 1 .. n
<1>1. k \in 1 .. k /\ \A x \in 1 .. k : k >= x /\ (x >= k => x = k)
  OBVIOUS
<1>2. Max(1 .. k) = k
  BY <1>1 DEF Max
<1>3. (1 .. k) \ {k} = 1 .. (k - 1)
  OBVIOUS
<1> QED
  BY <1>1, <1>2, <1>3

\* r[k] is the result after k elements.
IsRun(T, base, F, n, iter, r) ==
  /\ r \in [0 .. n -> T]
  /\ r[0] = base
  /\ \A k \in 1 .. n : r[k] = F[k][r[k - 1]]
  /\ r[n] = iter[1 .. n]

\* What folds are good for: the results after 0, 1, .. n elements, each made
\* of the one before.
LEMMA FoldRuns ==
  ASSUME NEW T, NEW base \in T, NEW n \in Nat, NEW F \in [1 .. n -> [T -> T]], NEW iter,
         iter[{}] = base,
         \A k \in 1 .. n : iter[1 .. (k - 1)] \in T => iter[1 .. k] = F[k][iter[1 .. (k - 1)]]
  PROVE  \E r : IsRun(T, base, F, n, iter, r)
<1> DEFINE r == [k \in 0 .. n |-> iter[1 .. k]]
           S == { k \in 0 .. n : r[k] \in T }
<1>1. 0 \in 0 .. n /\ 1 .. 0 = {} /\ r[0] = base
  OBVIOUS
<1>2. ASSUME NEW k \in 1 .. n, k - 1 \in S
      PROVE  k \in S /\ r[k] = F[k][r[k - 1]]
  <2>1. k - 1 \in 0 .. n /\ k \in 0 .. n
    OBVIOUS
  <2>2. iter[1 .. (k - 1)] \in T
    BY <1>2, <2>1
  <2>3. iter[1 .. k] = F[k][iter[1 .. (k - 1)]] /\ F[k] \in [T -> T]
    BY <2>2
  <2> QED
    BY <2>1, <2>2, <2>3
<1>3. \A k \in 0 .. n : k \in S
  <2> HIDE DEF S, r
  <2>1. 0 \in S
    BY <1>1 DEF S
  <2> QED
    BY <1>2, <2>1, BoundedInduction
<1>4. \A k \in 1 .. n : k - 1 \in 0 .. n
  OBVIOUS
<1>5. r \in [0 .. n -> T]
  BY <1>3
<1>6. r[n] = iter[1 .. n]
  OBVIOUS
<1>7. \A k \in 1 .. n : r[k] = F[k][r[k - 1]]
  <2> HIDE DEF S, r
  <2> QED
    BY <1>2, <1>3, <1>4
<1> HIDE DEF r
<1> QED
  BY <1>1, <1>5, <1>6, <1>7 DEF IsRun

-----------------------------------------------------------------------------
(* The results of each loop after 0, 1, .. n elements.  A lemma cannot    *)
(* have the operation as a parameter here, so there is one for each.       *)

\* validateSubs
FoldAddSub(base, s) == FoldLeft(AddSub, base, s)
RunAddSub(T, base, n, s, r) ==
  /\ r \in [0 .. n -> T]
  /\ r[0] = base
  /\ \A k \in 1 .. n : r[k] = AddSub(r[k - 1], s[k])
  /\ FoldAddSub(base, s) = r[n]

LEMMA AddSubRuns ==
  ASSUME NEW T, NEW base \in T, NEW n \in Nat, NEW s, DOMAIN s = 1 .. n,
         \A t \in T : \A k \in 1 .. n : AddSub(t, s[k]) \in T
  PROVE  \E r : RunAddSub(T, base, n, s, r)
<1> DEFINE F == [k \in 1 .. n |-> [t \in T |-> AddSub(t, s[k])]]
           Next1(i, x) == IF x = {} THEN base ELSE AddSub(i[x \ {Max(x)}], s[Max(x)])
           IsIter(i) == i = [x \in SUBSET (1 .. n) |-> Next1(i, x)]
           iter == CHOOSE i : IsIter(i)
<1>1. F \in [1 .. n -> [T -> T]] /\ \A k \in 1 .. n : \A t \in T : F[k][t] = AddSub(t, s[k])
  OBVIOUS
<1>2. FoldAddSub(base, s) = iter[1 .. n]
  BY DEF FoldAddSub, FoldLeft, MapThenFoldSet
<1> HIDE DEF F
<1>3. PICK g : IsFold(T, base, F, n, g)
  BY <1>1, FoldExists
<1>4. \A x \in SUBSET (1 .. n) : g[x] = Next1(g, x)
  BY <1>1, <1>3 DEF IsFold
<1>5. IsIter(g)
  <2> HIDE DEF Next1
  <2> QED
    BY <1>3, <1>4 DEF IsFold
<1>6. IsIter(iter)
  <2> HIDE DEF IsIter
  <2> QED
    BY <1>5
<1> HIDE DEF iter
<1>7. iter[{}] = base /\ \A x \in SUBSET (1 .. n) : iter[x] = Next1(iter, x)
  <2>1. {} \in SUBSET (1 .. n) /\ \A x \in SUBSET (1 .. n) : iter[x] = Next1(iter, x)
    <3> HIDE DEF Next1
    <3> QED
      BY <1>6
  <2> QED
    BY <2>1
<1>8. ASSUME NEW k \in 1 .. n, iter[1 .. (k - 1)] \in T
      PROVE  iter[1 .. k] = F[k][iter[1 .. (k - 1)]]
  <2>1. iter[1 .. k] = AddSub(iter[1 .. (k - 1)], s[k])
    BY <1>7, FirstIndices
  <2> QED
    BY <1>1, <1>8, <2>1
<1>9. PICK r : IsRun(T, base, F, n, iter, r)
  BY <1>1, <1>7, <1>8, FoldRuns
<1>10. \A k \in 1 .. n : r[k - 1] \in T
  BY <1>9 DEF IsRun
<1> QED
  BY <1>1, <1>2, <1>9, <1>10 DEF IsRun, RunAddSub

\* resolveRelaySubs
FoldAddRelaySub(base, s) == FoldLeft(AddRelaySub, base, s)
RunAddRelaySub(T, base, n, s, r) ==
  /\ r \in [0 .. n -> T]
  /\ r[0] = base
  /\ \A k \in 1 .. n : r[k] = AddRelaySub(r[k - 1], s[k])
  /\ FoldAddRelaySub(base, s) = r[n]

LEMMA AddRelaySubRuns ==
  ASSUME NEW T, NEW base \in T, NEW n \in Nat, NEW s, DOMAIN s = 1 .. n,
         \A t \in T : \A k \in 1 .. n : AddRelaySub(t, s[k]) \in T
  PROVE  \E r : RunAddRelaySub(T, base, n, s, r)
<1> DEFINE F == [k \in 1 .. n |-> [t \in T |-> AddRelaySub(t, s[k])]]
           Next1(i, x) == IF x = {} THEN base ELSE AddRelaySub(i[x \ {Max(x)}], s[Max(x)])
           IsIter(i) == i = [x \in SUBSET (1 .. n) |-> Next1(i, x)]
           iter == CHOOSE i : IsIter(i)
<1>1. F \in [1 .. n -> [T -> T]] /\ \A k \in 1 .. n : \A t \in T : F[k][t] = AddRelaySub(t, s[k])
  OBVIOUS
<1>2. FoldAddRelaySub(base, s) = iter[1 .. n]
  BY DEF FoldAddRelaySub, FoldLeft, MapThenFoldSet
<1> HIDE DEF F
<1>3. PICK g : IsFold(T, base, F, n, g)
  BY <1>1, FoldExists
<1>4. \A x \in SUBSET (1 .. n) : g[x] = Next1(g, x)
  BY <1>1, <1>3 DEF IsFold
<1>5. IsIter(g)
  <2> HIDE DEF Next1
  <2> QED
    BY <1>3, <1>4 DEF IsFold
<1>6. IsIter(iter)
  <2> HIDE DEF IsIter
  <2> QED
    BY <1>5
<1> HIDE DEF iter
<1>7. iter[{}] = base /\ \A x \in SUBSET (1 .. n) : iter[x] = Next1(iter, x)
  <2>1. {} \in SUBSET (1 .. n) /\ \A x \in SUBSET (1 .. n) : iter[x] = Next1(iter, x)
    <3> HIDE DEF Next1
    <3> QED
      BY <1>6
  <2> QED
    BY <2>1
<1>8. ASSUME NEW k \in 1 .. n, iter[1 .. (k - 1)] \in T
      PROVE  iter[1 .. k] = F[k][iter[1 .. (k - 1)]]
  <2>1. iter[1 .. k] = AddRelaySub(iter[1 .. (k - 1)], s[k])
    BY <1>7, FirstIndices
  <2> QED
    BY <1>1, <1>8, <2>1
<1>9. PICK r : IsRun(T, base, F, n, iter, r)
  BY <1>1, <1>7, <1>8, FoldRuns
<1>10. \A k \in 1 .. n : r[k - 1] \in T
  BY <1>9 DEF IsRun
<1> QED
  BY <1>1, <1>2, <1>9, <1>10 DEF IsRun, RunAddRelaySub

\* validateKeys, the subs of one key
FoldAddResolved(allowed, base, s) == FoldLeft(LAMBDA resolved, x : AddResolved(allowed, resolved, x), base, s)
RunAddResolved(allowed, T, base, n, s, r) ==
  /\ r \in [0 .. n -> T]
  /\ r[0] = base
  /\ \A k \in 1 .. n : r[k] = AddResolved(allowed, r[k - 1], s[k])
  /\ FoldAddResolved(allowed, base, s) = r[n]

LEMMA AddResolvedRuns ==
  ASSUME NEW T, NEW base \in T, NEW n \in Nat, NEW s, DOMAIN s = 1 .. n, NEW allowed,
         \A t \in T : \A k \in 1 .. n : AddResolved(allowed, t, s[k]) \in T
  PROVE  \E r : RunAddResolved(allowed, T, base, n, s, r)
<1> DEFINE F == [k \in 1 .. n |-> [t \in T |-> AddResolved(allowed, t, s[k])]]
           Next1(i, x) == IF x = {} THEN base ELSE AddResolved(allowed, i[x \ {Max(x)}], s[Max(x)])
           IsIter(i) == i = [x \in SUBSET (1 .. n) |-> Next1(i, x)]
           iter == CHOOSE i : IsIter(i)
<1>1. F \in [1 .. n -> [T -> T]] /\ \A k \in 1 .. n : \A t \in T : F[k][t] = AddResolved(allowed, t, s[k])
  OBVIOUS
<1>2. FoldAddResolved(allowed, base, s) = iter[1 .. n]
  BY DEF FoldAddResolved, FoldLeft, MapThenFoldSet
<1> HIDE DEF F
<1>3. PICK g : IsFold(T, base, F, n, g)
  BY <1>1, FoldExists
<1>4. \A x \in SUBSET (1 .. n) : g[x] = Next1(g, x)
  BY <1>1, <1>3 DEF IsFold
<1>5. IsIter(g)
  <2> HIDE DEF Next1
  <2> QED
    BY <1>3, <1>4 DEF IsFold
<1>6. IsIter(iter)
  <2> HIDE DEF IsIter
  <2> QED
    BY <1>5
<1> HIDE DEF iter
<1>7. iter[{}] = base /\ \A x \in SUBSET (1 .. n) : iter[x] = Next1(iter, x)
  <2>1. {} \in SUBSET (1 .. n) /\ \A x \in SUBSET (1 .. n) : iter[x] = Next1(iter, x)
    <3> HIDE DEF Next1
    <3> QED
      BY <1>6
  <2> QED
    BY <2>1
<1>8. ASSUME NEW k \in 1 .. n, iter[1 .. (k - 1)] \in T
      PROVE  iter[1 .. k] = F[k][iter[1 .. (k - 1)]]
  <2>1. iter[1 .. k] = AddResolved(allowed, iter[1 .. (k - 1)], s[k])
    BY <1>7, FirstIndices
  <2> QED
    BY <1>1, <1>8, <2>1
<1>9. PICK r : IsRun(T, base, F, n, iter, r)
  BY <1>1, <1>7, <1>8, FoldRuns
<1>10. \A k \in 1 .. n : r[k - 1] \in T
  BY <1>9 DEF IsRun
<1> QED
  BY <1>1, <1>2, <1>9, <1>10 DEF IsRun, RunAddResolved

\* node.UniqueNames
FoldAddName(base, s) == FoldLeft(AddName, base, s)
RunAddName(T, base, n, s, r) ==
  /\ r \in [0 .. n -> T]
  /\ r[0] = base
  /\ \A k \in 1 .. n : r[k] = AddName(r[k - 1], s[k])
  /\ FoldAddName(base, s) = r[n]

LEMMA AddNameRuns ==
  ASSUME NEW T, NEW base \in T, NEW n \in Nat, NEW s, DOMAIN s = 1 .. n,
         \A t \in T : \A k \in 1 .. n : AddName(t, s[k]) \in T
  PROVE  \E r : RunAddName(T, base, n, s, r)
<1> DEFINE F == [k \in 1 .. n |-> [t \in T |-> AddName(t, s[k])]]
           Next1(i, x) == IF x = {} THEN base ELSE AddName(i[x \ {Max(x)}], s[Max(x)])
           IsIter(i) == i = [x \in SUBSET (1 .. n) |-> Next1(i, x)]
           iter == CHOOSE i : IsIter(i)
<1>1. F \in [1 .. n -> [T -> T]] /\ \A k \in 1 .. n : \A t \in T : F[k][t] = AddName(t, s[k])
  OBVIOUS
<1>2. FoldAddName(base, s) = iter[1 .. n]
  BY DEF FoldAddName, FoldLeft, MapThenFoldSet
<1> HIDE DEF F
<1>3. PICK g : IsFold(T, base, F, n, g)
  BY <1>1, FoldExists
<1>4. \A x \in SUBSET (1 .. n) : g[x] = Next1(g, x)
  BY <1>1, <1>3 DEF IsFold
<1>5. IsIter(g)
  <2> HIDE DEF Next1
  <2> QED
    BY <1>3, <1>4 DEF IsFold
<1>6. IsIter(iter)
  <2> HIDE DEF IsIter
  <2> QED
    BY <1>5
<1> HIDE DEF iter
<1>7. iter[{}] = base /\ \A x \in SUBSET (1 .. n) : iter[x] = Next1(iter, x)
  <2>1. {} \in SUBSET (1 .. n) /\ \A x \in SUBSET (1 .. n) : iter[x] = Next1(iter, x)
    <3> HIDE DEF Next1
    <3> QED
      BY <1>6
  <2> QED
    BY <2>1
<1>8. ASSUME NEW k \in 1 .. n, iter[1 .. (k - 1)] \in T
      PROVE  iter[1 .. k] = F[k][iter[1 .. (k - 1)]]
  <2>1. iter[1 .. k] = AddName(iter[1 .. (k - 1)], s[k])
    BY <1>7, FirstIndices
  <2> QED
    BY <1>1, <1>8, <2>1
<1>9. PICK r : IsRun(T, base, F, n, iter, r)
  BY <1>1, <1>7, <1>8, FoldRuns
<1>10. \A k \in 1 .. n : r[k - 1] \in T
  BY <1>9 DEF IsRun
<1> QED
  BY <1>1, <1>2, <1>9, <1>10 DEF IsRun, RunAddName

\* renderClash
FoldAddEntry(base, s) == FoldLeft(AddEntry, base, s)
RunAddEntry(T, base, n, s, r) ==
  /\ r \in [0 .. n -> T]
  /\ r[0] = base
  /\ \A k \in 1 .. n : r[k] = AddEntry(r[k - 1], s[k])
  /\ FoldAddEntry(base, s) = r[n]

LEMMA AddEntryRuns ==
  ASSUME NEW T, NEW base \in T, NEW n \in Nat, NEW s, DOMAIN s = 1 .. n,
         \A t \in T : \A k \in 1 .. n : AddEntry(t, s[k]) \in T
  PROVE  \E r : RunAddEntry(T, base, n, s, r)
<1> DEFINE F == [k \in 1 .. n |-> [t \in T |-> AddEntry(t, s[k])]]
           Next1(i, x) == IF x = {} THEN base ELSE AddEntry(i[x \ {Max(x)}], s[Max(x)])
           IsIter(i) == i = [x \in SUBSET (1 .. n) |-> Next1(i, x)]
           iter == CHOOSE i : IsIter(i)
<1>1. F \in [1 .. n -> [T -> T]] /\ \A k \in 1 .. n : \A t \in T : F[k][t] = AddEntry(t, s[k])
  OBVIOUS
<1>2. FoldAddEntry(base, s) = iter[1 .. n]
  BY DEF FoldAddEntry, FoldLeft, MapThenFoldSet
<1> HIDE DEF F
<1>3. PICK g : IsFold(T, base, F, n, g)
  BY <1>1, FoldExists
<1>4. \A x \in SUBSET (1 .. n) : g[x] = Next1(g, x)
  BY <1>1, <1>3 DEF IsFold
<1>5. IsIter(g)
  <2> HIDE DEF Next1
  <2> QED
    BY <1>3, <1>4 DEF IsFold
<1>6. IsIter(iter)
  <2> HIDE DEF IsIter
  <2> QED
    BY <1>5
<1> HIDE DEF iter
<1>7. iter[{}] = base /\ \A x \in SUBSET (1 .. n) : iter[x] = Next1(iter, x)
  <2>1. {} \in SUBSET (1 .. n) /\ \A x \in SUBSET (1 .. n) : iter[x] = Next1(iter, x)
    <3> HIDE DEF Next1
    <3> QED
      BY <1>6
  <2> QED
    BY <2>1
<1>8. ASSUME NEW k \in 1 .. n, iter[1 .. (k - 1)] \in T
      PROVE  iter[1 .. k] = F[k][iter[1 .. (k - 1)]]
  <2>1. iter[1 .. k] = AddEntry(iter[1 .. (k - 1)], s[k])
    BY <1>7, FirstIndices
  <2> QED
    BY <1>1, <1>8, <2>1
<1>9. PICK r : IsRun(T, base, F, n, iter, r)
  BY <1>1, <1>7, <1>8, FoldRuns
<1>10. \A k \in 1 .. n : r[k - 1] \in T
  BY <1>9 DEF IsRun
<1> QED
  BY <1>1, <1>2, <1>9, <1>10 DEF IsRun, RunAddEntry

\* proxyRegistry.add, of one upstream after the other
FoldAdd(base, s) == FoldLeft(Add, base, s)
RunAdd(T, base, n, s, r) ==
  /\ r \in [0 .. n -> T]
  /\ r[0] = base
  /\ \A k \in 1 .. n : r[k] = Add(r[k - 1], s[k])
  /\ FoldAdd(base, s) = r[n]

LEMMA AddRuns ==
  ASSUME NEW T, NEW base \in T, NEW n \in Nat, NEW s, DOMAIN s = 1 .. n,
         \A t \in T : \A k \in 1 .. n : Add(t, s[k]) \in T
  PROVE  \E r : RunAdd(T, base, n, s, r)
<1> DEFINE F == [k \in 1 .. n |-> [t \in T |-> Add(t, s[k])]]
           Next1(i, x) == IF x = {} THEN base ELSE Add(i[x \ {Max(x)}], s[Max(x)])
           IsIter(i) == i = [x \in SUBSET (1 .. n) |-> Next1(i, x)]
           iter == CHOOSE i : IsIter(i)
<1>1. F \in [1 .. n -> [T -> T]] /\ \A k \in 1 .. n : \A t \in T : F[k][t] = Add(t, s[k])
  OBVIOUS
<1>2. FoldAdd(base, s) = iter[1 .. n]
  BY DEF FoldAdd, FoldLeft, MapThenFoldSet
<1> HIDE DEF F
<1>3. PICK g : IsFold(T, base, F, n, g)
  BY <1>1, FoldExists
<1>4. \A x \in SUBSET (1 .. n) : g[x] = Next1(g, x)
  BY <1>1, <1>3 DEF IsFold
<1>5. IsIter(g)
  <2> HIDE DEF Next1
  <2> QED
    BY <1>3, <1>4 DEF IsFold
<1>6. IsIter(iter)
  <2> HIDE DEF IsIter
  <2> QED
    BY <1>5
<1> HIDE DEF iter
<1>7. iter[{}] = base /\ \A x \in SUBSET (1 .. n) : iter[x] = Next1(iter, x)
  <2>1. {} \in SUBSET (1 .. n) /\ \A x \in SUBSET (1 .. n) : iter[x] = Next1(iter, x)
    <3> HIDE DEF Next1
    <3> QED
      BY <1>6
  <2> QED
    BY <2>1
<1>8. ASSUME NEW k \in 1 .. n, iter[1 .. (k - 1)] \in T
      PROVE  iter[1 .. k] = F[k][iter[1 .. (k - 1)]]
  <2>1. iter[1 .. k] = Add(iter[1 .. (k - 1)], s[k])
    BY <1>7, FirstIndices
  <2> QED
    BY <1>1, <1>8, <2>1
<1>9. PICK r : IsRun(T, base, F, n, iter, r)
  BY <1>1, <1>7, <1>8, FoldRuns
<1>10. \A k \in 1 .. n : r[k - 1] \in T
  BY <1>9 DEF IsRun
<1> QED
  BY <1>1, <1>2, <1>9, <1>10 DEF IsRun, RunAdd

\* proxyRegistry.members
FoldAppendName(base, s) == FoldLeft(AppendName, base, s)
RunAppendName(T, base, n, s, r) ==
  /\ r \in [0 .. n -> T]
  /\ r[0] = base
  /\ \A k \in 1 .. n : r[k] = AppendName(r[k - 1], s[k])
  /\ FoldAppendName(base, s) = r[n]

LEMMA AppendNameRuns ==
  ASSUME NEW T, NEW base \in T, NEW n \in Nat, NEW s, DOMAIN s = 1 .. n,
         \A t \in T : \A k \in 1 .. n : AppendName(t, s[k]) \in T
  PROVE  \E r : RunAppendName(T, base, n, s, r)
<1> DEFINE F == [k \in 1 .. n |-> [t \in T |-> AppendName(t, s[k])]]
           Next1(i, x) == IF x = {} THEN base ELSE AppendName(i[x \ {Max(x)}], s[Max(x)])
           IsIter(i) == i = [x \in SUBSET (1 .. n) |-> Next1(i, x)]
           iter == CHOOSE i : IsIter(i)
<1>1. F \in [1 .. n -> [T -> T]] /\ \A k \in 1 .. n : \A t \in T : F[k][t] = AppendName(t, s[k])
  OBVIOUS
<1>2. FoldAppendName(base, s) = iter[1 .. n]
  BY DEF FoldAppendName, FoldLeft, MapThenFoldSet
<1> HIDE DEF F
<1>3. PICK g : IsFold(T, base, F, n, g)
  BY <1>1, FoldExists
<1>4. \A x \in SUBSET (1 .. n) : g[x] = Next1(g, x)
  BY <1>1, <1>3 DEF IsFold
<1>5. IsIter(g)
  <2> HIDE DEF Next1
  <2> QED
    BY <1>3, <1>4 DEF IsFold
<1>6. IsIter(iter)
  <2> HIDE DEF IsIter
  <2> QED
    BY <1>5
<1> HIDE DEF iter
<1>7. iter[{}] = base /\ \A x \in SUBSET (1 .. n) : iter[x] = Next1(iter, x)
  <2>1. {} \in SUBSET (1 .. n) /\ \A x \in SUBSET (1 .. n) : iter[x] = Next1(iter, x)
    <3> HIDE DEF Next1
    <3> QED
      BY <1>6
  <2> QED
    BY <2>1
<1>8. ASSUME NEW k \in 1 .. n, iter[1 .. (k - 1)] \in T
      PROVE  iter[1 .. k] = F[k][iter[1 .. (k - 1)]]
  <2>1. iter[1 .. k] = AppendName(iter[1 .. (k - 1)], s[k])
    BY <1>7, FirstIndices
  <2> QED
    BY <1>1, <1>8, <2>1
<1>9. PICK r : IsRun(T, base, F, n, iter, r)
  BY <1>1, <1>7, <1>8, FoldRuns
<1>10. \A k \in 1 .. n : r[k - 1] \in T
  BY <1>9 DEF IsRun
<1> QED
  BY <1>1, <1>2, <1>9, <1>10 DEF IsRun, RunAppendName

\* Plan.Render
FoldAddRelay(nodesOf, base, s) == FoldLeft(LAMBDA acc, relay : AddRelay(nodesOf, acc, relay), base, s)
RunAddRelay(nodesOf, T, base, n, s, r) ==
  /\ r \in [0 .. n -> T]
  /\ r[0] = base
  /\ \A k \in 1 .. n : r[k] = AddRelay(nodesOf, r[k - 1], s[k])
  /\ FoldAddRelay(nodesOf, base, s) = r[n]

LEMMA AddRelayRuns ==
  ASSUME NEW T, NEW base \in T, NEW n \in Nat, NEW s, DOMAIN s = 1 .. n, NEW nodesOf,
         \A t \in T : \A k \in 1 .. n : AddRelay(nodesOf, t, s[k]) \in T
  PROVE  \E r : RunAddRelay(nodesOf, T, base, n, s, r)
<1> DEFINE F == [k \in 1 .. n |-> [t \in T |-> AddRelay(nodesOf, t, s[k])]]
           Next1(i, x) == IF x = {} THEN base ELSE AddRelay(nodesOf, i[x \ {Max(x)}], s[Max(x)])
           IsIter(i) == i = [x \in SUBSET (1 .. n) |-> Next1(i, x)]
           iter == CHOOSE i : IsIter(i)
<1>1. F \in [1 .. n -> [T -> T]] /\ \A k \in 1 .. n : \A t \in T : F[k][t] = AddRelay(nodesOf, t, s[k])
  OBVIOUS
<1>2. FoldAddRelay(nodesOf, base, s) = iter[1 .. n]
  BY DEF FoldAddRelay, FoldLeft, MapThenFoldSet
<1> HIDE DEF F
<1>3. PICK g : IsFold(T, base, F, n, g)
  BY <1>1, FoldExists
<1>4. \A x \in SUBSET (1 .. n) : g[x] = Next1(g, x)
  BY <1>1, <1>3 DEF IsFold
<1>5. IsIter(g)
  <2> HIDE DEF Next1
  <2> QED
    BY <1>3, <1>4 DEF IsFold
<1>6. IsIter(iter)
  <2> HIDE DEF IsIter
  <2> QED
    BY <1>5
<1> HIDE DEF iter
<1>7. iter[{}] = base /\ \A x \in SUBSET (1 .. n) : iter[x] = Next1(iter, x)
  <2>1. {} \in SUBSET (1 .. n) /\ \A x \in SUBSET (1 .. n) : iter[x] = Next1(iter, x)
    <3> HIDE DEF Next1
    <3> QED
      BY <1>6
  <2> QED
    BY <2>1
<1>8. ASSUME NEW k \in 1 .. n, iter[1 .. (k - 1)] \in T
      PROVE  iter[1 .. k] = F[k][iter[1 .. (k - 1)]]
  <2>1. iter[1 .. k] = AddRelay(nodesOf, iter[1 .. (k - 1)], s[k])
    BY <1>7, FirstIndices
  <2> QED
    BY <1>1, <1>8, <2>1
<1>9. PICK r : IsRun(T, base, F, n, iter, r)
  BY <1>1, <1>7, <1>8, FoldRuns
<1>10. \A k \in 1 .. n : r[k - 1] \in T
  BY <1>9 DEF IsRun
<1> QED
  BY <1>1, <1>2, <1>9, <1>10 DEF IsRun, RunAddRelay

\* Store.collectLocked
FoldAddUnseen(base, s) == FoldLeft(AddUnseen, base, s)
RunAddUnseen(T, base, n, s, r) ==
  /\ r \in [0 .. n -> T]
  /\ r[0] = base
  /\ \A k \in 1 .. n : r[k] = AddUnseen(r[k - 1], s[k])
  /\ FoldAddUnseen(base, s) = r[n]

LEMMA AddUnseenRuns ==
  ASSUME NEW T, NEW base \in T, NEW n \in Nat, NEW s, DOMAIN s = 1 .. n,
         \A t \in T : \A k \in 1 .. n : AddUnseen(t, s[k]) \in T
  PROVE  \E r : RunAddUnseen(T, base, n, s, r)
<1> DEFINE F == [k \in 1 .. n |-> [t \in T |-> AddUnseen(t, s[k])]]
           Next1(i, x) == IF x = {} THEN base ELSE AddUnseen(i[x \ {Max(x)}], s[Max(x)])
           IsIter(i) == i = [x \in SUBSET (1 .. n) |-> Next1(i, x)]
           iter == CHOOSE i : IsIter(i)
<1>1. F \in [1 .. n -> [T -> T]] /\ \A k \in 1 .. n : \A t \in T : F[k][t] = AddUnseen(t, s[k])
  OBVIOUS
<1>2. FoldAddUnseen(base, s) = iter[1 .. n]
  BY DEF FoldAddUnseen, FoldLeft, MapThenFoldSet
<1> HIDE DEF F
<1>3. PICK g : IsFold(T, base, F, n, g)
  BY <1>1, FoldExists
<1>4. \A x \in SUBSET (1 .. n) : g[x] = Next1(g, x)
  BY <1>1, <1>3 DEF IsFold
<1>5. IsIter(g)
  <2> HIDE DEF Next1
  <2> QED
    BY <1>3, <1>4 DEF IsFold
<1>6. IsIter(iter)
  <2> HIDE DEF IsIter
  <2> QED
    BY <1>5
<1> HIDE DEF iter
<1>7. iter[{}] = base /\ \A x \in SUBSET (1 .. n) : iter[x] = Next1(iter, x)
  <2>1. {} \in SUBSET (1 .. n) /\ \A x \in SUBSET (1 .. n) : iter[x] = Next1(iter, x)
    <3> HIDE DEF Next1
    <3> QED
      BY <1>6
  <2> QED
    BY <2>1
<1>8. ASSUME NEW k \in 1 .. n, iter[1 .. (k - 1)] \in T
      PROVE  iter[1 .. k] = F[k][iter[1 .. (k - 1)]]
  <2>1. iter[1 .. k] = AddUnseen(iter[1 .. (k - 1)], s[k])
    BY <1>7, FirstIndices
  <2> QED
    BY <1>1, <1>8, <2>1
<1>9. PICK r : IsRun(T, base, F, n, iter, r)
  BY <1>1, <1>7, <1>8, FoldRuns
<1>10. \A k \in 1 .. n : r[k - 1] \in T
  BY <1>9 DEF IsRun
<1> QED
  BY <1>1, <1>2, <1>9, <1>10 DEF IsRun, RunAddUnseen

\* parseClash
FoldAddProxy(base, s) == FoldLeft(AddProxy, base, s)
RunAddProxy(T, base, n, s, r) ==
  /\ r \in [0 .. n -> T]
  /\ r[0] = base
  /\ \A k \in 1 .. n : r[k] = AddProxy(r[k - 1], s[k])
  /\ FoldAddProxy(base, s) = r[n]

LEMMA AddProxyRuns ==
  ASSUME NEW T, NEW base \in T, NEW n \in Nat, NEW s, DOMAIN s = 1 .. n,
         \A t \in T : \A k \in 1 .. n : AddProxy(t, s[k]) \in T
  PROVE  \E r : RunAddProxy(T, base, n, s, r)
<1> DEFINE F == [k \in 1 .. n |-> [t \in T |-> AddProxy(t, s[k])]]
           Next1(i, x) == IF x = {} THEN base ELSE AddProxy(i[x \ {Max(x)}], s[Max(x)])
           IsIter(i) == i = [x \in SUBSET (1 .. n) |-> Next1(i, x)]
           iter == CHOOSE i : IsIter(i)
<1>1. F \in [1 .. n -> [T -> T]] /\ \A k \in 1 .. n : \A t \in T : F[k][t] = AddProxy(t, s[k])
  OBVIOUS
<1>2. FoldAddProxy(base, s) = iter[1 .. n]
  BY DEF FoldAddProxy, FoldLeft, MapThenFoldSet
<1> HIDE DEF F
<1>3. PICK g : IsFold(T, base, F, n, g)
  BY <1>1, FoldExists
<1>4. \A x \in SUBSET (1 .. n) : g[x] = Next1(g, x)
  BY <1>1, <1>3 DEF IsFold
<1>5. IsIter(g)
  <2> HIDE DEF Next1
  <2> QED
    BY <1>3, <1>4 DEF IsFold
<1>6. IsIter(iter)
  <2> HIDE DEF IsIter
  <2> QED
    BY <1>5
<1> HIDE DEF iter
<1>7. iter[{}] = base /\ \A x \in SUBSET (1 .. n) : iter[x] = Next1(iter, x)
  <2>1. {} \in SUBSET (1 .. n) /\ \A x \in SUBSET (1 .. n) : iter[x] = Next1(iter, x)
    <3> HIDE DEF Next1
    <3> QED
      BY <1>6
  <2> QED
    BY <2>1
<1>8. ASSUME NEW k \in 1 .. n, iter[1 .. (k - 1)] \in T
      PROVE  iter[1 .. k] = F[k][iter[1 .. (k - 1)]]
  <2>1. iter[1 .. k] = AddProxy(iter[1 .. (k - 1)], s[k])
    BY <1>7, FirstIndices
  <2> QED
    BY <1>1, <1>8, <2>1
<1>9. PICK r : IsRun(T, base, F, n, iter, r)
  BY <1>1, <1>7, <1>8, FoldRuns
<1>10. \A k \in 1 .. n : r[k - 1] \in T
  BY <1>9 DEF IsRun
<1> QED
  BY <1>1, <1>2, <1>9, <1>10 DEF IsRun, RunAddProxy

\* render
FoldAddLink(base, s) == FoldLeft(AddLink, base, s)
RunAddLink(T, base, n, s, r) ==
  /\ r \in [0 .. n -> T]
  /\ r[0] = base
  /\ \A k \in 1 .. n : r[k] = AddLink(r[k - 1], s[k])
  /\ FoldAddLink(base, s) = r[n]

LEMMA AddLinkRuns ==
  ASSUME NEW T, NEW base \in T, NEW n \in Nat, NEW s, DOMAIN s = 1 .. n,
         \A t \in T : \A k \in 1 .. n : AddLink(t, s[k]) \in T
  PROVE  \E r : RunAddLink(T, base, n, s, r)
<1> DEFINE F == [k \in 1 .. n |-> [t \in T |-> AddLink(t, s[k])]]
           Next1(i, x) == IF x = {} THEN base ELSE AddLink(i[x \ {Max(x)}], s[Max(x)])
           IsIter(i) == i = [x \in SUBSET (1 .. n) |-> Next1(i, x)]
           iter == CHOOSE i : IsIter(i)
<1>1. F \in [1 .. n -> [T -> T]] /\ \A k \in 1 .. n : \A t \in T : F[k][t] = AddLink(t, s[k])
  OBVIOUS
<1>2. FoldAddLink(base, s) = iter[1 .. n]
  BY DEF FoldAddLink, FoldLeft, MapThenFoldSet
<1> HIDE DEF F
<1>3. PICK g : IsFold(T, base, F, n, g)
  BY <1>1, FoldExists
<1>4. \A x \in SUBSET (1 .. n) : g[x] = Next1(g, x)
  BY <1>1, <1>3 DEF IsFold
<1>5. IsIter(g)
  <2> HIDE DEF Next1
  <2> QED
    BY <1>3, <1>4 DEF IsFold
<1>6. IsIter(iter)
  <2> HIDE DEF IsIter
  <2> QED
    BY <1>5
<1> HIDE DEF iter
<1>7. iter[{}] = base /\ \A x \in SUBSET (1 .. n) : iter[x] = Next1(iter, x)
  <2>1. {} \in SUBSET (1 .. n) /\ \A x \in SUBSET (1 .. n) : iter[x] = Next1(iter, x)
    <3> HIDE DEF Next1
    <3> QED
      BY <1>6
  <2> QED
    BY <2>1
<1>8. ASSUME NEW k \in 1 .. n, iter[1 .. (k - 1)] \in T
      PROVE  iter[1 .. k] = F[k][iter[1 .. (k - 1)]]
  <2>1. iter[1 .. k] = AddLink(iter[1 .. (k - 1)], s[k])
    BY <1>7, FirstIndices
  <2> QED
    BY <1>1, <1>8, <2>1
<1>9. PICK r : IsRun(T, base, F, n, iter, r)
  BY <1>1, <1>7, <1>8, FoldRuns
<1>10. \A k \in 1 .. n : r[k - 1] \in T
  BY <1>9 DEF IsRun
<1> QED
  BY <1>1, <1>2, <1>9, <1>10 DEF IsRun, RunAddLink

-----------------------------------------------------------------------------
(* Free names *)

\* A set of numbers that is not empty has a least one.
LEMMA LeastElement ==
  ASSUME NEW S \in SUBSET Nat, S # {}
  PROVE  \E m \in S : \A k \in S : m <= k
<1>1. PICK m \in S : \A k \in S : ~ (<<k, m>> \in OpToRel(<, Nat))
  BY NatLessThanWellFounded, WFMin, Zenon
<1>2. \A k \in S : ~ (k < m)
  BY <1>1, Zenon DEF OpToRel
<1> QED
  BY <1>2

\* Names made of one name with different numbers differ.
LEMMA NumberedDiffer ==
  ASSUME NEW base, IsSeq(base), NEW i, NEW j, Append(base, i) = Append(base, j)
  PROVE  i = j
<1> DEFINE all == { base[k] : k \in 1 .. Len(base) } \cup {i, j}
<1>1. base \in Seq(all) /\ i \in all /\ j \in all
  BY DEF IsSeq
<1> HIDE DEF all
<1>2. \A x \in all : Append(base, x)[Len(base) + 1] = x
  BY <1>1
<1> QED
  BY <1>1, <1>2

\* What a name becomes with a number.
Numbered(base) == { Append(base, i) : i \in Int }

\* Of a finite set of names that are taken, there is always a free one, and
\* that is what FreeName finds.
LEMMA FreeNameIsFree ==
  ASSUME NEW base, IsSeq(base), NEW taken, IsFiniteSet(taken)
  PROVE  /\ FreeName(base, taken) \notin taken
         /\ FreeName(base, taken) \in {base} \cup Numbered(base)
<1> DEFINE max == Cardinality(taken) + 2
           Free(i) == Append(base, i) \notin taken
           First(i) == Free(i) /\ \A j \in 2 .. i - 1 : Append(base, j) \in taken
           frees == { i \in 2 .. max : Free(i) }
<1>1. CASE base \notin taken
  BY <1>1 DEF FreeName
<1>2. CASE base \in taken
  <2>1. max \in Nat /\ max >= 2
    BY FS_CardinalityType
  <2>2. frees # {}
    <3> SUFFICES ASSUME \A i \in 2 .. max : Append(base, i) \in taken
                 PROVE  FALSE
      OBVIOUS
    <3> DEFINE f == [i \in 2 .. max |-> Append(base, i)]
    <3>1. f \in [2 .. max -> taken]
      OBVIOUS
    <3>2. IsFiniteSet(2 .. max) /\ Cardinality(taken) < Cardinality(2 .. max)
      <4>1. IsFiniteSet(2 .. max) /\ Cardinality(2 .. max) = max - 1
        <5> HIDE DEF max
        <5> QED
          BY <2>1, FS_Interval
      <4> QED
        BY <2>1, <4>1, FS_CardinalityType
    <3>3. PICK x \in 2 .. max, y \in 2 .. max : x # y /\ f[x] = f[y]
      <4> HIDE DEF f, max
      <4> QED
        BY <3>1, <3>2, FS_PigeonHole
    <3> QED
      BY <3>3, NumberedDiffer
  <2>3. PICK n \in frees : \A k \in frees : n <= k
    <3>1. frees \in SUBSET Nat
      BY <2>1
    <3> HIDE DEF frees
    <3> QED
      BY <2>2, <3>1, LeastElement
  <2>4. n \in 2 .. max /\ First(n)
    <3> SUFFICES ASSUME NEW j \in 2 .. n - 1, Free(j) PROVE FALSE
      BY <2>3
    <3>1. j \in frees /\ ~ (n <= j)
      BY <2>1, <2>3
    <3> QED
      BY <2>3, <3>1
  <2> DEFINE m == CHOOSE i \in 2 .. max : First(i)
  <2>5. m \in 2 .. max /\ First(m)
    <3> HIDE DEF max, First
    <3> QED
      BY <2>4
  <2>6. FreeName(base, taken) = Append(base, m)
    BY <1>2 DEF FreeName
  <2> HIDE DEF m
  <2> QED
    BY <2>1, <2>5, <2>6 DEF Numbered
<1> QED
  BY <1>1, <1>2

-----------------------------------------------------------------------------
(* config.validate *)

\* The names that are taken are finitely many.
LEMMA NamesAreFinite ==
  ASSUME NEW S, NEW list \in Seq(S)
  PROVE  IsFiniteSet(NamesOf(list))
<1> DEFINE f == [i \in 1 .. Len(list) |-> list[i].name]
<1>1. f \in Surjection(1 .. Len(list), NamesOf(list))
  BY DEF Surjection, NamesOf
<1>2. IsFiniteSet(1 .. Len(list))
  BY FS_Interval
<1> QED
  BY <1>1, <1>2, FS_Surjection

\* The names subs may get, and a sub with one of them.
NamesFor(list) == UNION { {list[i].name, list[i].host} \cup Numbered(list[i].host) : i \in DOMAIN list }
NamedSubs(names) == [name : names, seconds : Int]

Distinct(list) == \A i, j \in DOMAIN list : list[i].name = list[j].name => i = j

LEMMA IntervalIsInt ==
  ASSUME NEW seconds \in Int
  PROVE  Interval(seconds) \in Int /\ Interval(seconds) >= MinInterval
BY DEF Interval, MinInterval, DefaultInterval

\* Each sub of a file is named, and unless the file is refused no two are
\* named alike.
LEMMA SubsAreNamed ==
  ASSUME NEW file, SubsTyped(file.subs)
  PROVE  /\ ValidSubs(file).subs \in Seq(NamedSubs(NamesFor(file.subs)))
         /\ Len(ValidSubs(file).subs) = Len(file.subs)
         /\ ValidSubs(file).ok => Distinct(ValidSubs(file).subs)
<1> DEFINE s == file.subs
           n == Len(s)
           N == NamesFor(s)
           T == [subs : Seq(NamedSubs(N)), ok : BOOLEAN]
           base == [subs |-> <<>>, ok |-> s # <<>>]
<1>1. /\ n \in Nat /\ DOMAIN s = 1 .. n
      /\ \A k \in 1 .. n : s[k].seconds \in Int /\ IsSeq(s[k].host)
  BY DEF SubsTyped, IsSeq
<1>2. base \in T
  OBVIOUS
<1>3. ASSUME NEW acc \in T, NEW k \in 1 .. n
      PROVE  /\ AddSub(acc, s[k]) \in T
             /\ Len(AddSub(acc, s[k]).subs) = Len(acc.subs) + 1
             /\ (acc.ok => Distinct(acc.subs)) =>
                  (AddSub(acc, s[k]).ok => Distinct(AddSub(acc, s[k]).subs))
  <2> DEFINE name == IF s[k].name # None THEN s[k].name ELSE FreeName(s[k].host, NamesOf(acc.subs))
             new == [name |-> name, seconds |-> Interval(s[k].seconds)]
             next == AddSub(acc, s[k])
  <2>1. acc.subs \in Seq(NamedSubs(N))
    OBVIOUS
  <2>2. name \in N
    <3>1. {s[k].name, s[k].host} \cup Numbered(s[k].host) \subseteq N
      BY <1>1 DEF NamesFor
    <3>2. FreeName(s[k].host, NamesOf(acc.subs)) \in {s[k].host} \cup Numbered(s[k].host)
      <4> HIDE DEF T, N
      <4> QED
        BY <1>1, <2>1, NamesAreFinite, FreeNameIsFree
    <3> QED
      BY <3>1, <3>2
  <2>3. new \in NamedSubs(N)
    BY <1>1, <2>2, IntervalIsInt DEF NamedSubs
  <2>4. /\ next.subs = Append(acc.subs, new)
        /\ next.ok => acc.ok /\ name \notin NamesOf(acc.subs)
        /\ next = [subs |-> next.subs, ok |-> next.ok] /\ next.ok \in BOOLEAN
    BY DEF AddSub
  <2> HIDE DEF N, next, name
  <2>5. /\ next.subs \in Seq(NamedSubs(N)) /\ Len(next.subs) = Len(acc.subs) + 1
        /\ next.subs[Len(acc.subs) + 1].name = name
        /\ \A i \in 1 .. Len(acc.subs) : next.subs[i] = acc.subs[i]
    BY <2>1, <2>3, <2>4
  <2>6. ASSUME Distinct(acc.subs), name \notin NamesOf(acc.subs)
        PROVE  Distinct(next.subs)
    <3>1. /\ DOMAIN acc.subs = 1 .. Len(acc.subs) /\ Len(acc.subs) \in Nat
          /\ DOMAIN next.subs = 1 .. Len(acc.subs) + 1
      BY <2>1, <2>5
    <3>2. \A i \in 1 .. Len(acc.subs) : acc.subs[i].name # name
      BY <2>6, <3>1 DEF NamesOf
    <3>3. \A i \in 1 .. Len(acc.subs) + 1 : i \in 1 .. Len(acc.subs) \/ i = Len(acc.subs) + 1
      BY <3>1
    <3> QED
      BY <2>5, <2>6, <3>1, <3>2, <3>3 DEF Distinct
  <2> QED
    BY <2>4, <2>5, <2>6 DEF next
<1>4. PICK r : RunAddSub(T, base, n, s, r)
  <2>1. \A t \in T : \A k \in 1 .. n : AddSub(t, s[k]) \in T
    BY <1>3
  <2> HIDE DEF T, base, n, s
  <2> QED
    BY <1>1, <1>2, <2>1, AddSubRuns
<1> DEFINE S == { k \in 0 .. n : Len(r[k].subs) = k /\ (r[k].ok => Distinct(r[k].subs)) }
<1>5. 0 \in S
  BY <1>1, <1>4 DEF RunAddSub, Distinct
<1>6. ASSUME NEW k \in 1 .. n, k - 1 \in S
      PROVE  k \in S
  <2>1. k \in 0 .. n /\ k - 1 \in 0 .. n /\ r[k - 1] \in T /\ (k - 1) + 1 = k
    BY <1>1, <1>4 DEF RunAddSub
  <2>2. r[k] = AddSub(r[k - 1], s[k]) /\ Len(r[k - 1].subs) = k - 1
        /\ (r[k - 1].ok => Distinct(r[k - 1].subs))
    BY <1>4, <1>6 DEF RunAddSub
  <2> HIDE DEF T, s, n
  <2> QED
    BY <1>3, <2>1, <2>2
<1>7. n \in S
  <2> HIDE DEF S, n
  <2> QED
    BY <1>1, <1>5, <1>6, BoundedInduction
<1>8. ValidSubs(file) = r[n] /\ r[n] \in T
  BY <1>1, <1>4 DEF ValidSubs, FoldAddSub, RunAddSub
<1> HIDE DEF n, s
<1> QED
  BY <1>7, <1>8 DEF n, s

-----------------------------------------------------------------------------
\* Names with a word in front are names.
LEMMA RelayPrefix ==
  ASSUME NEW name, IsSeq(name)
  PROVE  IsSeq(<<"relay">> \o name)
<1> DEFINE all == { name[k] : k \in 1 .. Len(name) } \cup {"relay"}
<1>1. name \in Seq(all) /\ <<"relay">> \in Seq(all)
  BY DEF IsSeq
<1> HIDE DEF all
<1>2. <<"relay">> \o name \in Seq(all)
  BY <1>1
<1> HIDE <1>1
<1> DEFINE whole == <<"relay">> \o name
<1> HIDE DEF whole
<1>3. whole \in Seq(all) => IsSeq(whole)
  BY DEF IsSeq
<1> QED
  BY <1>2, <1>3 DEF whole

\* The names relay subs may get beside subs, and what is known of the relay
\* subs while they are made.
RelayNames(subs, ups) ==
  NamesOf(subs)
  \cup UNION { {<<"relay">> \o HostOf[ups[i].url]} \cup Numbered(<<"relay">> \o HostOf[ups[i].url]) : i \in DOMAIN ups }
RelayRecords(names, ups) == [name : names, url : { ups[i].url : i \in DOMAIN ups }, seconds : Int]
RelayAccs(subs, ups) ==
  { acc \in [seen : SUBSET RelayNames(subs, ups), relaySubs : Seq(RelayRecords(RelayNames(subs, ups), ups))] :
      IsFiniteSet(acc.seen) }

\* The names used are seen, and used once.
RelayNamesSeen(subs, acc) ==
  /\ NamesOf(subs) \cup NamesOf(acc.relaySubs) \subseteq acc.seen
  /\ NamesOf(subs) \cap NamesOf(acc.relaySubs) = {}
  /\ Distinct(acc.relaySubs)

\* A sub for each URL of the first k upstreams, and as often as the most
\* demanding of them asks.
MakesOne(ups, k, list) ==
  \A j \in 1 .. k : ups[j].url # None /\ HostOf[ups[j].url] # None => \E i \in DOMAIN list : list[i].url = ups[j].url
OfOneEach(list) ==
  /\ \A i, j \in DOMAIN list : list[i].url = list[j].url => i = j
  /\ \A i \in DOMAIN list : list[i].url # None /\ HostOf[list[i].url] # None
AsOftenAsAsked(ups, k, r) ==
  /\ \E j \in 1 .. k : ups[j].url = r.url /\ r.seconds = Interval(ups[j].seconds)
  /\ \A j \in 1 .. k : ups[j].url = r.url => r.seconds <= Interval(ups[j].seconds)
RelaySubsOf(ups, k, list) ==
  /\ MakesOne(ups, k, list)
  /\ OfOneEach(list)
  /\ \A i \in DOMAIN list : AsOftenAsAsked(ups, k, list[i])

\* One more upstream that makes no sub and has that of no other.
LEMMA NoSubMade ==
  ASSUME NEW ups, NEW k \in Nat \ {0}, NEW list, RelaySubsOf(ups, k - 1, list),
         ups[k].url = None \/ HostOf[ups[k].url] = None,
         \A i \in DOMAIN list : list[i].url # ups[k].url
  PROVE  RelaySubsOf(ups, k, list)
<1>1. \A j \in 1 .. k : j \in 1 .. k - 1 \/ j = k
  OBVIOUS
<1>2. 1 .. k - 1 \subseteq 1 .. k
  OBVIOUS
<1> QED
  BY <1>1, <1>2, Zenon DEF RelaySubsOf, MakesOne, OfOneEach, AsOftenAsAsked

\* One more upstream that makes a sub.
LEMMA SubMade ==
  ASSUME NEW ups, NEW k \in Nat \ {0}, NEW S, NEW list \in Seq(S), RelaySubsOf(ups, k - 1, list),
         ups[k].url # None, HostOf[ups[k].url] # None, ups[k].seconds \in Int,
         \A i \in DOMAIN list : list[i].url # ups[k].url,
         NEW r \in S, r.url = ups[k].url, r.seconds = Interval(ups[k].seconds)
  PROVE  RelaySubsOf(ups, k, Append(list, r))
<1> DEFINE new == Append(list, r)
           m == Len(list) + 1
<1>1. /\ DOMAIN list = 1 .. Len(list) /\ DOMAIN new = 1 .. m /\ m \in DOMAIN new
      /\ new[m] = r /\ \A i \in 1 .. Len(list) : new[i] = list[i] /\ i \in DOMAIN new
      /\ \A i \in DOMAIN new : i \in DOMAIN list \/ i = m
  OBVIOUS
<1>2. \A j \in 1 .. k : j \in 1 .. k - 1 \/ j = k
  OBVIOUS
<1>3. 1 .. k - 1 \subseteq 1 .. k /\ k \in 1 .. k
  OBVIOUS
<1> HIDE DEF new, m
<1>4. MakesOne(ups, k, new)
  BY <1>1, <1>2 DEF RelaySubsOf, MakesOne
<1>5. OfOneEach(new)
  BY <1>1 DEF RelaySubsOf, OfOneEach
<1>6. ASSUME NEW i \in DOMAIN list
      PROVE  AsOftenAsAsked(ups, k, list[i])
  BY <1>2, <1>3, Zenon DEF RelaySubsOf, AsOftenAsAsked
<1>7. AsOftenAsAsked(ups, k, r)
  <2>1. \A j \in 1 .. k - 1 : ups[j].url # r.url
    <3> SUFFICES ASSUME NEW j \in 1 .. k - 1, ups[j].url = ups[k].url PROVE FALSE
      OBVIOUS
    <3>1. \E i \in DOMAIN list : list[i].url = ups[j].url
      BY DEF RelaySubsOf, MakesOne
    <3> QED
      BY <3>1
  <2>2. r.seconds <= Interval(ups[k].seconds)
    <3>1. Interval(ups[k].seconds) \in Int
      BY IntervalIsInt
    <3> QED
      BY <3>1
  <2> QED
    BY <1>2, <1>3, <2>1, <2>2, Zenon DEF AsOftenAsAsked
<1>8. \A i \in DOMAIN new : AsOftenAsAsked(ups, k, new[i])
  BY <1>1, <1>6, <1>7
<1> QED
  BY <1>4, <1>5, <1>8 DEF RelaySubsOf, new

\* One more upstream of a sub that is made.
LEMMA SubShared ==
  ASSUME NEW ups, NEW k \in Nat \ {0}, NEW list, NEW new, RelaySubsOf(ups, k - 1, list),
         NEW p \in DOMAIN list, list[p].url = ups[k].url,
         list[p].seconds \in Int, ups[k].seconds \in Int,
         DOMAIN new = DOMAIN list,
         \A i \in DOMAIN list : /\ new[i].url = list[i].url
                                /\ i # p => new[i] = list[i],
         new[p].seconds = IF Interval(ups[k].seconds) < list[p].seconds
                          THEN Interval(ups[k].seconds) ELSE list[p].seconds,
         \A j \in 1 .. k - 1 : ups[j].seconds \in Int
  PROVE  RelaySubsOf(ups, k, new)
<1>1. \A j \in 1 .. k : j \in 1 .. k - 1 \/ j = k
  OBVIOUS
<1>2. 1 .. k - 1 \subseteq 1 .. k /\ k \in 1 .. k
  OBVIOUS
<1>3. MakesOne(ups, k, new)
  <2> SUFFICES ASSUME NEW j \in 1 .. k, ups[j].url # None, HostOf[ups[j].url] # None
               PROVE  \E i \in DOMAIN list : list[i].url = ups[j].url
    BY DEF MakesOne
  <2> QED
    BY <1>1 DEF RelaySubsOf, MakesOne
<1>4. OfOneEach(new)
  BY DEF RelaySubsOf, OfOneEach
<1>5. ASSUME NEW i \in DOMAIN list, i # p
      PROVE  AsOftenAsAsked(ups, k, new[i])
  <2>1. list[i].url # ups[k].url
    BY <1>5, Zenon DEF RelaySubsOf, OfOneEach
  <2>2. AsOftenAsAsked(ups, k - 1, list[i]) /\ new[i] = list[i]
    BY <1>5, Zenon DEF RelaySubsOf
  <2> QED
    BY <1>1, <1>2, <2>1, <2>2, Zenon DEF AsOftenAsAsked
<1>6. AsOftenAsAsked(ups, k, new[p])
  <2> DEFINE old == list[p].seconds
             asked == Interval(ups[k].seconds)
             least == new[p].seconds
  <2>1. asked \in Int /\ old \in Int
    BY IntervalIsInt
  <2>2. new[p].url = list[p].url /\ AsOftenAsAsked(ups, k - 1, list[p])
    BY DEF RelaySubsOf
  <2>3. /\ least <= asked /\ least <= old
        /\ least = asked \/ least = old
    BY <2>1
  <2>4. \A j \in 1 .. k - 1 : ups[j].url = list[p].url => least <= Interval(ups[j].seconds)
    <3> SUFFICES ASSUME NEW j \in 1 .. k - 1, ups[j].url = list[p].url
                 PROVE  least <= Interval(ups[j].seconds)
      OBVIOUS
    <3>1. old <= Interval(ups[j].seconds) /\ Interval(ups[j].seconds) \in Int /\ least \in Int
      BY <2>1, <2>2, <2>3, IntervalIsInt DEF AsOftenAsAsked
    <3> HIDE DEF old, least
    <3> QED
      BY <2>1, <2>3, <3>1
  <2>5. \E j \in 1 .. k - 1 : ups[j].url = list[p].url /\ old = Interval(ups[j].seconds)
    BY <2>2 DEF AsOftenAsAsked
  <2> HIDE DEF old
  <2> QED
    BY <1>1, <1>2, <2>2, <2>3, <2>4, <2>5, Zenon DEF AsOftenAsAsked
<1> QED
  BY <1>3, <1>4, <1>5, <1>6 DEF RelaySubsOf

\* One upstream: the subs made so far stay those of the upstreams so far,
\* under names of their own.
LEMMA OneUpstream ==
  ASSUME NEW subs, NEW ups, NEW n \in Nat, DOMAIN ups = 1 .. n,
         \A i \in 1 .. n : ups[i].seconds \in Int,
         \A i \in 1 .. n : ups[i].url = None \/ HostOf[ups[i].url] = None \/ IsSeq(HostOf[ups[i].url]),
         NEW k \in 1 .. n, NEW acc \in RelayAccs(subs, ups)
  PROVE  /\ AddRelaySub(acc, ups[k]) \in RelayAccs(subs, ups)
         /\ RelayNamesSeen(subs, acc) => RelayNamesSeen(subs, AddRelaySub(acc, ups[k]))
         /\ RelaySubsOf(ups, k - 1, acc.relaySubs) => RelaySubsOf(ups, k, AddRelaySub(acc, ups[k]).relaySubs)
<1> DEFINE up == ups[k]
           N == RelayNames(subs, ups)
           R == RelayRecords(N, ups)
           list == acc.relaySubs
           known == { i \in DOMAIN list : list[i].url = up.url }
           base == <<"relay">> \o HostOf[up.url]
           name == FreeName(base, acc.seen)
           interval == Interval(up.seconds)
           next == AddRelaySub(acc, up)
<1>1. /\ list \in Seq(R) /\ acc.seen \in SUBSET N /\ IsFiniteSet(acc.seen)
      /\ acc = [seen |-> acc.seen, relaySubs |-> list]
  BY DEF RelayAccs
<1>2. /\ DOMAIN list = 1 .. Len(list) /\ Len(list) \in Nat
      /\ \A i \in DOMAIN list : list[i] \in R
  BY <1>1
<1>3. up.seconds \in Int /\ interval \in Int /\ k \in Nat \ {0}
  <2>1. up.seconds \in Int
    OBVIOUS
  <2> HIDE DEF up
  <2> QED
    BY <2>1, IntervalIsInt
<1>4. CASE up.url = None
  <2>1. next = acc
    BY <1>4 DEF AddRelaySub
  <2>2. RelaySubsOf(ups, k - 1, list) => RelaySubsOf(ups, k, list)
    <3> SUFFICES ASSUME RelaySubsOf(ups, k - 1, list) PROVE RelaySubsOf(ups, k, list)
      OBVIOUS
    <3>1. \A i \in DOMAIN list : list[i].url # ups[k].url
      BY <1>4 DEF RelaySubsOf, OfOneEach
    <3> QED
      BY <1>3, <1>4, <3>1, NoSubMade
  <2> QED
    BY <2>1, <2>2
<1>5. CASE up.url # None /\ known = {} /\ HostOf[up.url] = None
  <2>1. next = acc
    BY <1>5 DEF AddRelaySub
  <2>2. \A i \in DOMAIN list : list[i].url # ups[k].url
    BY <1>5
  <2> QED
    BY <1>3, <1>5, <2>1, <2>2, NoSubMade
<1>6. CASE up.url # None /\ known = {} /\ HostOf[up.url] # None
  <2> DEFINE r == [name |-> name, url |-> up.url, seconds |-> interval]
  <2>1. next = [seen |-> acc.seen \cup {name}, relaySubs |-> Append(list, r)]
    BY <1>6 DEF AddRelaySub
  <2>2. name \notin acc.seen /\ name \in {base} \cup Numbered(base)
    <3>1. IsSeq(base)
      BY <1>6, RelayPrefix
    <3> HIDE DEF base
    <3> QED
      BY <1>1, <3>1, FreeNameIsFree
  <2>3. name \in N
    BY <2>2 DEF RelayNames
  <2> HIDE DEF name, base, next, N
  <2>4. r \in R
    BY <1>3, <2>3 DEF RelayRecords
  <2>5. IsFiniteSet(acc.seen \cup {name})
    BY <1>1, FS_AddElement
  <2>6. next \in RelayAccs(subs, ups)
    <3>1. Append(list, r) \in Seq(R)
      BY <1>1, <2>4
    <3> QED
      BY <1>1, <2>1, <2>3, <2>5, <3>1 DEF RelayAccs, N
  <2>7. RelaySubsOf(ups, k - 1, list) => RelaySubsOf(ups, k, next.relaySubs)
    <3>1. \A i \in DOMAIN list : list[i].url # ups[k].url
      BY <1>6
    <3>2. r.url = ups[k].url /\ r.seconds = Interval(ups[k].seconds) /\ ups[k].seconds \in Int
      BY <1>3
    <3> HIDE DEF r, list
    <3> QED
      BY <1>1, <1>3, <1>6, <2>1, <2>4, <3>1, <3>2, SubMade
  <2>8. RelayNamesSeen(subs, acc) => RelayNamesSeen(subs, next)
    <3> SUFFICES ASSUME RelayNamesSeen(subs, acc) PROVE RelayNamesSeen(subs, next)
      OBVIOUS
    <3> DEFINE new == Append(list, r)
               m == Len(list) + 1
    <3>1. /\ DOMAIN new = 1 .. m
          /\ new[m].name = name /\ \A i \in 1 .. Len(list) : new[i] = list[i] /\ i \in DOMAIN new
          /\ \A i \in DOMAIN new : i \in DOMAIN list \/ i = m
          /\ m \in DOMAIN new
      BY <1>1
    <3>2. next.relaySubs = new /\ next.seen = acc.seen \cup {name}
      BY <2>1
    <3> HIDE DEF new, m, r, list
    <3>3. NamesOf(new) \subseteq NamesOf(list) \cup {name}
      BY <3>1 DEF NamesOf
    <3>4. \A i \in DOMAIN list : list[i].name \in acc.seen
      BY DEF RelayNamesSeen, NamesOf, list
    <3>5. Distinct(new)
      BY <1>2, <2>2, <3>1, <3>4 DEF Distinct, RelayNamesSeen, list
    <3> QED
      BY <2>2, <3>2, <3>3, <3>5 DEF RelayNamesSeen, list
  <2> QED
    BY <2>6, <2>7, <2>8 DEF next
<1>7. CASE up.url # None /\ known # {}
  <2> DEFINE p == CHOOSE i \in known : TRUE
             least == IF interval < list[p].seconds THEN interval ELSE list[p].seconds
             new == [list EXCEPT ![p] = [list[p] EXCEPT !.seconds = least]]
  <2>1. p \in known
    BY <1>7
  <2>2. next = [seen |-> acc.seen, relaySubs |-> new]
    BY <1>1, <1>7 DEF AddRelaySub
  <2> HIDE DEF p, next
  <2>3. list[p] \in R /\ p \in 1 .. Len(list) /\ list[p].url = up.url
    BY <1>2, <2>1
  <2>4. list[p].seconds \in Int /\ least \in Int
    <3>1. list[p].seconds \in Int
      BY <2>3 DEF RelayRecords
    <3> QED
      BY <1>3, <3>1
  <2>5. [list[p] EXCEPT !.seconds = least] \in R
    BY <2>3, <2>4 DEF RelayRecords
  <2>6. /\ new \in Seq(R) /\ DOMAIN new = DOMAIN list
        /\ \A i \in DOMAIN list : i # p => new[i] = list[i]
        /\ new[p] = [list[p] EXCEPT !.seconds = least]
    BY <1>1, <2>3, <2>5
  <2>7. /\ new[p].name = list[p].name /\ new[p].url = list[p].url /\ new[p].seconds = least
    <3> HIDE DEF new, list, least
    <3> QED
      BY <2>3, <2>6 DEF RelayRecords
  <2> HIDE DEF new, list
  <2>8. \A i \in DOMAIN list : new[i].name = list[i].name /\ new[i].url = list[i].url
    BY <2>6, <2>7
  <2>9. next \in RelayAccs(subs, ups)
    BY <1>1, <2>2, <2>6 DEF RelayAccs
  <2>10. RelayNamesSeen(subs, acc) => RelayNamesSeen(subs, next)
    <3>1. NamesOf(new) = NamesOf(list)
      BY <2>6, <2>8 DEF NamesOf
    <3>2. Distinct(list) => Distinct(new)
      BY <2>6, <2>8 DEF Distinct
    <3> QED
      BY <2>2, <3>1, <3>2 DEF RelayNamesSeen, list
  <2>11. ASSUME RelaySubsOf(ups, k - 1, list)
         PROVE  RelaySubsOf(ups, k, new)
    <3>1. \A j \in 1 .. k - 1 : ups[j].seconds \in Int
      <4>1. \A j \in 1 .. k - 1 : j \in 1 .. n
        OBVIOUS
      <4> QED
        BY <4>1
    <3>2. /\ p \in DOMAIN list /\ list[p].url = ups[k].url /\ ups[k].seconds \in Int
          /\ new[p].seconds = IF Interval(ups[k].seconds) < list[p].seconds
                              THEN Interval(ups[k].seconds) ELSE list[p].seconds
      BY <1>2, <1>3, <2>3, <2>7
    <3>3. /\ \A i \in DOMAIN list : new[i].url = list[i].url /\ (i # p => new[i] = list[i])
          /\ DOMAIN new = DOMAIN list /\ list[p].seconds \in Int /\ k \in Nat \ {0}
      BY <1>3, <2>4, <2>6, <2>8
    <3> HIDE DEF least
    <3> QED
      BY <2>11, <3>1, <3>2, <3>3, SubShared, Zenon
  <2> QED
    BY <2>2, <2>9, <2>10, <2>11 DEF next, list
<1> QED
  BY <1>4, <1>5, <1>6, <1>7

\* The subs made for relays: one for each URL with a host, as often as the
\* most demanding upstream asks, under names that neither another of them nor
\* a sub of the file has.
LEMMA RelaySubsAreMade ==
  ASSUME NEW ups, UpstreamsTyped(ups), NEW S, NEW subs \in Seq(S),
         NEW file, file.upstreams = ups
  PROVE  /\ RelaySubs(file, subs) \in Seq(RelayRecords(RelayNames(subs, ups), ups))
         /\ RelaySubsOf(ups, Len(ups), RelaySubs(file, subs))
         /\ NamesOf(subs) \cap NamesOf(RelaySubs(file, subs)) = {}
         /\ Distinct(RelaySubs(file, subs))
<1> DEFINE n == Len(ups)
           T == RelayAccs(subs, ups)
           base == [seen |-> NamesOf(subs), relaySubs |-> <<>>]
<1>1. /\ n \in Nat /\ DOMAIN ups = 1 .. n
      /\ \A i \in 1 .. n : ups[i].seconds \in Int
      /\ \A i \in 1 .. n : ups[i].url = None \/ HostOf[ups[i].url] = None \/ IsSeq(HostOf[ups[i].url])
  BY DEF UpstreamsTyped, IsSeq
<1>2. base \in T
  <2>1. IsFiniteSet(NamesOf(subs))
    BY NamesAreFinite
  <2>2. NamesOf(subs) \subseteq RelayNames(subs, ups)
    BY DEF RelayNames
  <2> QED
    BY <2>1, <2>2 DEF RelayAccs
<1>3. ASSUME NEW acc \in T, NEW k \in 1 .. n
      PROVE  /\ AddRelaySub(acc, ups[k]) \in T
             /\ RelayNamesSeen(subs, acc) => RelayNamesSeen(subs, AddRelaySub(acc, ups[k]))
             /\ RelaySubsOf(ups, k - 1, acc.relaySubs) => RelaySubsOf(ups, k, AddRelaySub(acc, ups[k]).relaySubs)
  <2> HIDE DEF n
  <2> QED
    BY <1>1, OneUpstream
<1>4. PICK r : RunAddRelaySub(T, base, n, ups, r)
  <2>1. \A t \in T : \A k \in 1 .. n : AddRelaySub(t, ups[k]) \in T
    BY <1>3
  <2> HIDE DEF T, base, n
  <2> QED
    BY <1>1, <1>2, <2>1, AddRelaySubRuns
<1> DEFINE I == { k \in 0 .. n : RelayNamesSeen(subs, r[k]) /\ RelaySubsOf(ups, k, r[k].relaySubs) }
<1>5. 0 \in I
  <2>1. r[0] = base
    BY <1>4 DEF RunAddRelaySub
  <2>2. RelayNamesSeen(subs, base)
    BY DEF RelayNamesSeen, NamesOf, Distinct
  <2>3. RelaySubsOf(ups, 0, base.relaySubs)
    BY DEF RelaySubsOf, MakesOne, OfOneEach
  <2> QED
    BY <1>1, <2>1, <2>2, <2>3
<1>6. ASSUME NEW k \in 1 .. n, k - 1 \in I
      PROVE  k \in I
  <2>1. k \in 0 .. n /\ k - 1 \in 0 .. n
    BY <1>1
  <2>2. r[k - 1] \in T /\ r[k] = AddRelaySub(r[k - 1], ups[k])
    BY <1>4, <2>1 DEF RunAddRelaySub
  <2> HIDE DEF T, n
  <2> QED
    BY <1>3, <1>6, <2>1, <2>2
<1>7. n \in I
  <2> HIDE DEF I, n
  <2> QED
    BY <1>1, <1>5, <1>6, BoundedInduction
<1>8. RelaySubs(file, subs) = r[n].relaySubs /\ r[n] \in T
  BY <1>1, <1>4 DEF RelaySubs, FoldAddRelaySub, RunAddRelaySub
<1> QED
  BY <1>7, <1>8 DEF RelayAccs, RelayNamesSeen

-----------------------------------------------------------------------------
(* The subs of a key *)

Rank(places, p) == Cardinality({ q \in places : q <= p })

\* The names at some places, in the order of the places.
InOrder(names, places, list) ==
  /\ Len(list) = Cardinality(places)
  /\ \A p \in places : Rank(places, p) \in 1 .. Len(list) /\ list[Rank(places, p)] = names[p]
  /\ \A j \in 1 .. Len(list) : \E p \in places : Rank(places, p) = j
  /\ \A p, q \in places : Rank(places, p) = Rank(places, q) => p = q

\* One more place, after all others.
LEMMA OneMore ==
  ASSUME NEW names, NEW S, NEW list \in Seq(S), NEW k \in Nat \ {0}, NEW places \in SUBSET (1 .. k - 1),
         InOrder(names, places, list), names[k] \in S
  PROVE  InOrder(names, places \cup {k}, Append(list, names[k]))
<1> DEFINE more == places \cup {k}
           new == Append(list, names[k])
           m == Len(list) + 1
<1>1. IsFiniteSet(places) /\ k \notin places /\ \A p \in places : p \in Nat /\ p < k
  <2>1. IsFiniteSet(1 .. k - 1)
    BY FS_Interval
  <2>2. IsFiniteSet(places)
    BY <2>1, FS_Subset
  <2>3. \A p \in places : p \in Nat /\ p < k
    OBVIOUS
  <2> QED
    BY <2>2, <2>3
<1>2. Cardinality(more) = m
  BY <1>1, FS_AddElement DEF InOrder
<1>3. /\ Len(new) = m /\ new[m] = names[k] /\ m \in 1 .. m
      /\ \A j \in 1 .. Len(list) : new[j] = list[j] /\ j \in 1 .. m /\ j # m
      /\ \A j \in 1 .. m : j \in 1 .. Len(list) \/ j = m
  OBVIOUS
<1>4. ASSUME NEW p \in places
      PROVE  Rank(more, p) = Rank(places, p)
  <2>1. { q \in more : q <= p } = { q \in places : q <= p }
    BY <1>1
  <2> QED
    BY <2>1 DEF Rank
<1>5. Rank(more, k) = m
  <2>0. \A q \in more : q <= k
    BY <1>1
  <2>1. { q \in more : q <= k } = more
    BY <2>0
  <2> QED
    BY <1>2, <2>1 DEF Rank
<1>6. \A p \in more : p \in places \/ p = k
  OBVIOUS
<1>7. places \subseteq more /\ k \in more
  OBVIOUS
<1> HIDE DEF more, new, m
<1>8. \A p \in more : Rank(more, p) \in 1 .. m /\ new[Rank(more, p)] = names[p]
  BY <1>3, <1>4, <1>5, <1>6 DEF InOrder
<1>9. \A j \in 1 .. m : \E p \in more : Rank(more, p) = j
  <2> SUFFICES ASSUME NEW j \in 1 .. m PROVE \E p \in more : Rank(more, p) = j
    OBVIOUS
  <2>1. CASE j = m
    BY <1>5, <1>7, <2>1
  <2>2. CASE j \in 1 .. Len(list)
    <3>1. PICK p \in places : Rank(places, p) = j
      BY <2>2 DEF InOrder
    <3> QED
      BY <1>4, <1>7, <3>1
  <2> QED
    BY <1>3, <2>1, <2>2
<1>10. ASSUME NEW p \in more, NEW q \in more, Rank(more, p) = Rank(more, q)
       PROVE  p = q
  <2>1. CASE p \in places /\ q \in places
    BY <1>4, <1>10, <2>1 DEF InOrder
  <2>2. \A x \in places : Rank(more, x) # m
    BY <1>3, <1>4 DEF InOrder
  <2> QED
    BY <1>5, <1>6, <1>10, <2>1, <2>2
<1> QED
  BY <1>2, <1>3, <1>8, <1>9, <1>10 DEF InOrder, more, new

\* Where the names are that a key may use.
Places(names, allowed, k) == { p \in 1 .. k : names[p] \in ToSet(allowed) }

\* What a key with allowed_subs is served is the subs it lists, in the order
\* of the configuration.
LEMMA ResolvesInOrder ==
  ASSUME NEW S, NEW subs \in Seq(NamedSubs(S)), NEW allowed, allowed # <<>>
  PROVE  LET names == [i \in DOMAIN subs |-> subs[i].name]
         IN /\ Resolve(allowed, subs) \in Seq(S)
            /\ InOrder(names, Places(names, allowed, Len(subs)), Resolve(allowed, subs))
<1> DEFINE n == Len(subs)
           names == [i \in DOMAIN subs |-> subs[i].name]
           T == Seq(S)
<1>1. n \in Nat /\ DOMAIN subs = 1 .. n /\ <<>> \in T /\ \A k \in 1 .. n : names[k] \in S /\ names[k] = subs[k].name
  <2>1. \A k \in 1 .. n : subs[k] \in NamedSubs(S)
    OBVIOUS
  <2>2. \A k \in 1 .. n : subs[k].name \in S
    BY <2>1 DEF NamedSubs
  <2> QED
    BY <2>2
<1>2. \A t \in T : \A k \in 1 .. n : AddResolved(allowed, t, subs[k]) \in T
  BY <1>1 DEF AddResolved
<1>3. PICK r : RunAddResolved(allowed, T, <<>>, n, subs, r)
  <2> HIDE DEF T, n
  <2> QED
    BY <1>1, <1>2, AddResolvedRuns
<1> HIDE DEF names
<1> DEFINE I == { k \in 0 .. n : InOrder(names, Places(names, allowed, k), r[k]) }
<1>4. 0 \in I
  <2>1. Places(names, allowed, 0) = {} /\ r[0] = <<>>
    BY <1>3 DEF Places, RunAddResolved
  <2>2. InOrder(names, {}, <<>>)
    BY FS_EmptySet DEF InOrder
  <2>3. InOrder(names, Places(names, allowed, 0), r[0])
    BY <2>1, <2>2
  <2> QED
    BY <1>1, <2>3
<1>5. ASSUME NEW k \in 1 .. n, k - 1 \in I
      PROVE  k \in I
  <2> DEFINE before == Places(names, allowed, k - 1)
  <2>1. k \in 0 .. n /\ k - 1 \in 0 .. n /\ k \in Nat \ {0}
    BY <1>1
  <2>2. r[k - 1] \in T /\ r[k] = AddResolved(allowed, r[k - 1], subs[k])
    BY <1>3, <2>1 DEF RunAddResolved
  <2>3. before \in SUBSET (1 .. k - 1) /\ InOrder(names, before, r[k - 1])
    BY <1>5 DEF Places
  <2>4. \A p \in 1 .. k : p \in 1 .. k - 1 \/ p = k
    OBVIOUS
  <2>5. 1 .. k - 1 \subseteq 1 .. k /\ k \in 1 .. k
    OBVIOUS
  <2>6. CASE names[k] \in ToSet(allowed)
    <3>1. Places(names, allowed, k) = before \cup {k}
      BY <2>4, <2>5, <2>6, Zenon DEF Places
    <3>2. r[k] = Append(r[k - 1], names[k])
      BY <1>1, <2>2, <2>6 DEF AddResolved
    <3>3. names[k] \in S
      BY <1>1
    <3>4. InOrder(names, before \cup {k}, Append(r[k - 1], names[k]))
      <4> HIDE DEF before, n
      <4> QED
        BY <2>1, <2>2, <2>3, <3>3, OneMore
    <3> QED
      BY <2>1, <3>1, <3>2, <3>4
  <2>7. CASE names[k] \notin ToSet(allowed)
    <3>1. Places(names, allowed, k) = before
      BY <2>4, <2>5, <2>7, Zenon DEF Places
    <3>2. r[k] = r[k - 1]
      BY <1>1, <2>2, <2>7 DEF AddResolved
    <3> QED
      BY <2>1, <2>3, <3>1, <3>2
  <2> QED
    BY <2>6, <2>7
<1>6. n \in I
  <2> HIDE DEF I, n
  <2> QED
    BY <1>1, <1>4, <1>5, BoundedInduction
<1>7. Resolve(allowed, subs) = r[n] /\ r[n] \in T
  <2>1. Resolve(allowed, subs) = FoldAddResolved(allowed, <<>>, subs)
    BY DEF Resolve, FoldAddResolved
  <2> QED
    BY <1>1, <1>3, <2>1 DEF RunAddResolved
<1> QED
  BY <1>6, <1>7 DEF names

\* A key without allowed_subs is served all subs, in the order of the
\* configuration.
LEMMA AllInOrder ==
  ASSUME NEW names, NEW n \in Nat, DOMAIN names = 1 .. n, Len(names) = n
  PROVE  InOrder(names, 1 .. n, names)
<1>1. IsFiniteSet(1 .. n) /\ Cardinality(1 .. n) = n
  BY FS_Interval
<1>2. ASSUME NEW p \in 1 .. n
      PROVE  Rank(1 .. n, p) = p
  <2>1. { q \in 1 .. n : q <= p } = 1 .. p
    OBVIOUS
  <2>2. Cardinality(1 .. p) = p
    BY FS_Interval
  <2> QED
    BY <2>1, <2>2 DEF Rank
<1> QED
  BY <1>1, <1>2 DEF InOrder

-----------------------------------------------------------------------------
(* The names of nodes in a Clash document *)

\* Two sequences without duplicates and nothing in common, one after the
\* other, have no duplicates.
LEMMA BothInjective ==
  ASSUME NEW S, NEW f \in Seq(S), NEW g \in Seq(S), IsInjective(f), IsInjective(g),
         \A i \in DOMAIN f, j \in DOMAIN g : f[i] # g[j]
  PROVE  IsInjective(f \o g)
<1> DEFINE h == f \o g
           m == Len(f)
           n == Len(g)
<1>1. /\ m \in Nat /\ DOMAIN f = 1 .. m /\ n \in Nat /\ DOMAIN g = 1 .. n
      /\ DOMAIN h = 1 .. m + n
  OBVIOUS
<1>2. ASSUME NEW i \in 1 .. m + n
      PROVE  \/ i <= m /\ i \in DOMAIN f /\ h[i] = f[i]
             \/ i > m /\ i - m \in DOMAIN g /\ h[i] = g[i - m]
  OBVIOUS
<1> HIDE DEF h, m, n
<1>3. ASSUME NEW i \in 1 .. m + n, NEW j \in 1 .. m + n, h[i] = h[j]
      PROVE  i = j
  <2>1. CASE i <= m /\ j <= m
    BY <1>1, <1>2, <1>3, <2>1 DEF IsInjective
  <2>2. CASE i > m /\ j > m
    <3>1. i - m = j - m
      BY <1>1, <1>2, <1>3, <2>2 DEF IsInjective
    <3> QED
      BY <1>1, <3>1
  <2>3. CASE i <= m /\ j > m
    BY <1>1, <1>2, <1>3, <2>3
  <2>4. CASE i > m /\ j <= m
    BY <1>1, <1>2, <1>3, <2>4
  <2> QED
    BY <1>1, <2>1, <2>2, <2>3, <2>4
<1> QED
  BY <1>1, <1>3 DEF IsInjective, h

NodeNameBase(n) == IF n.name = <<>> THEN FallbackName(n) ELSE n.name

\* A node is named after itself, and what it is named after is longer than
\* the name of a group or the name the source gives.
LEMMA NodeNameBases ==
  ASSUME NEW n, IsSeq(n.name)
  PROVE  /\ IsSeq(NodeNameBase(n)) /\ Len(NodeNameBase(n)) > 0
         /\ \A name \in Numbered(NodeNameBase(n)) : name \notin GroupNames
         /\ NodeNameBase(n) \in GroupNames => NodeNameBase(n) = n.name
<1> DEFINE base == NodeNameBase(n)
           triple == <<n.clash.type, n.clash.server, n.clash.port>>
<1>1. IsSeq(triple) /\ Len(triple) = 3 /\ IsSeq(<<"node">>) /\ Len(<<"node">>) = 1
  BY DEF IsSeq
<1>2. triple \notin GroupNames /\ <<"node">> \notin GroupNames
  BY DEF GroupNames
<1>3. n.name # <<>> => Len(n.name) > 0
  BY DEF IsSeq
<1>4. FallbackName(n) \in {triple, <<"node">>}
  BY DEF FallbackName
<1> HIDE DEF triple
<1>5. /\ IsSeq(base) /\ Len(base) > 0
      /\ base \in GroupNames => base = n.name
  BY <1>1, <1>2, <1>3, <1>4 DEF NodeNameBase
<1> HIDE DEF base
<1>6. ASSUME NEW i \in Int
      PROVE  Append(base, i) \notin GroupNames
  <2> DEFINE all == { base[k] : k \in 1 .. Len(base) } \cup Int
  <2>1. base \in Seq(all)
    BY <1>5 DEF IsSeq
  <2> HIDE DEF all
  <2>2. i \in all
    BY DEF all
  <2>3. Len(Append(base, i)) = Len(base) + 1
    BY <2>1, <2>2
  <2> HIDE DEF base
  <2>4. Len(<<"PROXY">>) = 1 /\ Len(<<"AUTO">>) = 1
    OBVIOUS
  <2> QED
    BY <1>5, <2>3, <2>4 DEF GroupNames, IsSeq
<1> QED
  BY <1>5, <1>6 DEF Numbered, base

\* Something appended to a sequence without it.
LEMMA OneMoreInjective ==
  ASSUME NEW S, NEW list \in Seq(S), NEW x \in S, IsInjective(list), x \notin ToSet(list)
  PROVE  IsInjective(Append(list, x))
<1> DEFINE new == Append(list, x)
           m == Len(list) + 1
<1>1. /\ DOMAIN list = 1 .. Len(list) /\ Len(list) \in Nat /\ DOMAIN new = 1 .. m /\ new[m] = x
      /\ \A i \in 1 .. Len(list) : new[i] = list[i]
  OBVIOUS
<1>2. \A i \in 1 .. m : i \in DOMAIN list \/ i = m
  BY <1>1
<1>3. \A i \in DOMAIN list : new[i] # x
  BY <1>1 DEF ToSet
<1> HIDE DEF new, m
<1> QED
  BY <1>1, <1>2, <1>3 DEF IsInjective, new

LEMMA ElementsAreFinite ==
  ASSUME NEW S, NEW list \in Seq(S)
  PROVE  IsFiniteSet(ToSet(list))
<1> DEFINE f == [i \in 1 .. Len(list) |-> list[i]]
<1>1. f \in Surjection(1 .. Len(list), ToSet(list))
  BY DEF Surjection, ToSet
<1>2. IsFiniteSet(1 .. Len(list))
  BY FS_Interval
<1> QED
  BY <1>1, <1>2, FS_Surjection

\* Every node of a list gets a name, after itself, and no two the same.
NodeNames(nodes) == UNION { {NodeNameBase(nodes[i])} \cup Numbered(NodeNameBase(nodes[i])) : i \in DOMAIN nodes }

LEMMA NodesAreNamed ==
  ASSUME NEW nodes, NodesTyped(nodes)
  PROVE  LET names == UniqueNames(nodes)
         IN /\ names \in Seq(NodeNames(nodes)) /\ Len(names) = Len(nodes) /\ IsInjective(names)
            /\ \A i \in DOMAIN nodes : names[i] \in {NodeNameBase(nodes[i])} \cup Numbered(NodeNameBase(nodes[i]))
<1> DEFINE n == Len(nodes)
           T == Seq(NodeNames(nodes))
           Candidates(k) == {NodeNameBase(nodes[k])} \cup Numbered(NodeNameBase(nodes[k]))
           New(t, k) == FreeName(NodeNameBase(nodes[k]), ToSet(t))
<1>1. n \in Nat /\ DOMAIN nodes = 1 .. n /\ \A k \in 1 .. n : IsSeq(nodes[k].name)
  BY DEF NodesTyped, IsSeq
<1>2. ASSUME NEW t \in T, NEW k \in 1 .. n
      PROVE  /\ AddName(t, nodes[k]) = Append(t, New(t, k))
             /\ New(t, k) \notin ToSet(t) /\ New(t, k) \in Candidates(k) /\ New(t, k) \in NodeNames(nodes)
  <2>1. IsSeq(NodeNameBase(nodes[k]))
    BY <1>1, NodeNameBases
  <2>2. IsFiniteSet(ToSet(t))
    BY ElementsAreFinite
  <2>3. New(t, k) \notin ToSet(t) /\ New(t, k) \in Candidates(k)
    BY <2>1, <2>2, FreeNameIsFree
  <2>4. Candidates(k) \subseteq NodeNames(nodes)
    BY <1>1, Zenon DEF NodeNames
  <2>5. AddName(t, nodes[k]) = Append(t, New(t, k))
    BY DEF AddName, NodeNameBase
  <2> HIDE DEF New, Candidates
  <2> QED
    BY <2>3, <2>4, <2>5
<1> HIDE DEF Candidates, New
<1>3. \A t \in T : \A k \in 1 .. n : AddName(t, nodes[k]) \in T
  BY <1>2
<1>4. PICK r : RunAddName(T, <<>>, n, nodes, r)
  <2>1. <<>> \in T
    OBVIOUS
  <2> HIDE DEF T, n
  <2> QED
    BY <1>1, <1>3, <2>1, AddNameRuns
<1> DEFINE S == { k \in 0 .. n : /\ Len(r[k]) = k /\ IsInjective(r[k])
                                 /\ \A i \in 1 .. k : r[k][i] \in Candidates(i) }
<1>5. 0 \in S
  <2>1. r[0] = <<>>
    BY <1>4 DEF RunAddName
  <2> QED
    BY <1>1, <2>1 DEF IsInjective
<1>6. ASSUME NEW k \in 1 .. n, k - 1 \in S
      PROVE  k \in S
  <2>1. k \in 0 .. n /\ k - 1 \in 0 .. n
    BY <1>1
  <2>2. r[k - 1] \in T /\ r[k] = AddName(r[k - 1], nodes[k]) /\ Len(r[k - 1]) = k - 1 /\ IsInjective(r[k - 1])
    BY <1>4, <1>6, <2>1 DEF RunAddName
  <2> DEFINE new == New(r[k - 1], k)
  <2>3. r[k] = Append(r[k - 1], new) /\ new \notin ToSet(r[k - 1]) /\ new \in Candidates(k) /\ new \in NodeNames(nodes)
    BY <1>2, <2>2
  <2> HIDE DEF new
  <2>4. IsInjective(r[k])
    BY <2>2, <2>3, OneMoreInjective
  <2>5. Len(r[k]) = k /\ r[k][k] = new /\ \A i \in 1 .. k - 1 : r[k][i] = r[k - 1][i]
    BY <2>2, <2>3
  <2>6. \A i \in 1 .. k : i \in 1 .. k - 1 \/ i = k
    OBVIOUS
  <2>7. \A i \in 1 .. k - 1 : r[k - 1][i] \in Candidates(i)
    BY <1>6
  <2>8. \A i \in 1 .. k : r[k][i] \in Candidates(i)
    BY <2>3, <2>5, <2>6, <2>7
  <2> QED
    BY <2>1, <2>4, <2>5, <2>8
<1>7. n \in S
  <2> HIDE DEF S, n
  <2> QED
    BY <1>1, <1>5, <1>6, BoundedInduction
<1>8. UniqueNames(nodes) = r[n] /\ r[n] \in T
  BY <1>1, <1>4 DEF UniqueNames, FoldAddName, RunAddName
<1> QED
  BY <1>1, <1>7, <1>8 DEF Candidates

\* Entries of nodes with a map, in their order.
Mapped(nodes, k) == { p \in 1 .. k : nodes[p].clash # None }

Named(nodes) == [i \in DOMAIN nodes |-> [name |-> UniqueNames(nodes)[i], map |-> nodes[i].clash]]

LEMMA EntriesAreInOrder ==
  ASSUME NEW nodes, NodesTyped(nodes)
  PROVE  \E S : /\ ClashEntries(nodes) \in Seq(S)
                /\ InOrder(Named(nodes), Mapped(nodes, Len(nodes)), ClashEntries(nodes))
<1> DEFINE n == Len(nodes)
           all == Named(nodes)
           E == { all[i] : i \in 1 .. n }
           T == Seq(E)
<1>1. /\ n \in Nat /\ DOMAIN nodes = 1 .. n /\ DOMAIN all = 1 .. n /\ <<>> \in T
      /\ \A k \in 1 .. n : all[k].map = nodes[k].clash /\ all[k] \in E
  BY DEF NodesTyped, IsSeq, Named
<1> HIDE DEF all, E
<1>2. \A t \in T : \A k \in 1 .. n : AddEntry(t, all[k]) \in T
  BY <1>1 DEF AddEntry
<1>3. PICK r : RunAddEntry(T, <<>>, n, all, r)
  <2> HIDE DEF T, n
  <2> QED
    BY <1>1, <1>2, AddEntryRuns
<1> DEFINE I == { k \in 0 .. n : InOrder(all, Mapped(nodes, k), r[k]) }
<1>4. 0 \in I
  <2>1. Mapped(nodes, 0) = {} /\ r[0] = <<>>
    BY <1>3 DEF Mapped, RunAddEntry
  <2>2. InOrder(all, {}, <<>>)
    BY FS_EmptySet DEF InOrder
  <2>3. InOrder(all, Mapped(nodes, 0), r[0])
    BY <2>1, <2>2
  <2> QED
    BY <1>1, <2>3
<1>5. ASSUME NEW k \in 1 .. n, k - 1 \in I
      PROVE  k \in I
  <2> DEFINE before == Mapped(nodes, k - 1)
  <2>1. k \in 0 .. n /\ k - 1 \in 0 .. n /\ k \in Nat \ {0}
    BY <1>1
  <2>2. r[k - 1] \in T /\ r[k] = AddEntry(r[k - 1], all[k])
    BY <1>3, <2>1 DEF RunAddEntry
  <2>3. before \in SUBSET (1 .. k - 1) /\ InOrder(all, before, r[k - 1])
    BY <1>5 DEF Mapped
  <2>4. \A p \in 1 .. k : p \in 1 .. k - 1 \/ p = k
    OBVIOUS
  <2>5. 1 .. k - 1 \subseteq 1 .. k /\ k \in 1 .. k
    OBVIOUS
  <2>6. CASE nodes[k].clash # None
    <3>1. Mapped(nodes, k) = before \cup {k}
      BY <2>4, <2>5, <2>6, Zenon DEF Mapped
    <3>2. r[k] = Append(r[k - 1], all[k])
      BY <1>1, <2>2, <2>6 DEF AddEntry
    <3>3. all[k] \in E
      BY <1>1
    <3>4. InOrder(all, before \cup {k}, Append(r[k - 1], all[k]))
      <4> HIDE DEF before, n
      <4> QED
        BY <2>1, <2>2, <2>3, <3>3, OneMore
    <3> QED
      BY <2>1, <3>1, <3>2, <3>4
  <2>7. CASE nodes[k].clash = None
    <3>1. Mapped(nodes, k) = before
      BY <2>4, <2>5, <2>7, Zenon DEF Mapped
    <3>2. r[k] = r[k - 1]
      BY <1>1, <2>2, <2>7 DEF AddEntry
    <3> QED
      BY <2>1, <2>3, <3>1, <3>2
  <2> QED
    BY <2>6, <2>7
<1>6. n \in I
  <2> HIDE DEF I, n
  <2> QED
    BY <1>1, <1>4, <1>5, BoundedInduction
<1>7. ClashEntries(nodes) = r[n] /\ r[n] \in T
  <2>1. ClashEntries(nodes) = FoldAddEntry(<<>>, all)
    BY DEF ClashEntries, FoldAddEntry, Named, all
  <2> QED
    BY <1>1, <1>3, <2>1 DEF RunAddEntry
<1> QED
  BY <1>6, <1>7 DEF all

-----------------------------------------------------------------------------
(* Plan.Render: the upstreams of a relay *)

\* Sequences one after the other are a sequence.
LEMMA FlatIsSeq ==
  ASSUME NEW n \in Nat, NEW seqs, Len(seqs) = n, DOMAIN seqs = 1 .. n, n = 0 => seqs = <<>>,
         NEW S, \A i \in 1 .. n : seqs[i] \in Seq(S)
  PROVE  FlattenSeq(seqs) \in Seq(S)
<1>1. CASE n = 0
  BY <1>1 DEF FlattenSeq
<1>2. CASE n # 0
  <2> DEFINE T == Seq(S)
             F == [k \in 1 .. n |-> [t \in T |-> t \o seqs[k]]]
             Step(f, i) == IF i = 1 THEN seqs[i] ELSE f[i - 1] \o seqs[i]
             IsFlat(f) == f = [i \in 1 .. n |-> Step(f, i)]
             flat == CHOOSE f : IsFlat(f)
  <2>1. \A k \in 1 .. n : \A t \in T : t \o seqs[k] \in T
    OBVIOUS
  <2>2. F \in [1 .. n -> [T -> T]] /\ \A k \in 1 .. n : \A t \in T : F[k][t] = t \o seqs[k]
    BY <2>1
  <2>3. <<>> \in T /\ \A t \in T : <<>> \o t = t
    OBVIOUS
  <2> HIDE DEF F, T
  <2>4. PICK g : IsFold(T, <<>>, F, n, g)
    BY <2>2, <2>3, FoldExists
  <2> DEFINE h == [i \in 1 .. n |-> g[1 .. i]]
  <2>5. ASSUME NEW i \in 1 .. n
        PROVE  h[i] = Step(h, i)
    <3>1. /\ 1 .. i \in SUBSET (1 .. n) /\ 1 .. i # {} /\ Max(1 .. i) = i
          /\ (1 .. i) \ {i} = 1 .. (i - 1)
      BY FirstIndices
    <3>2. 1 .. i - 1 \in SUBSET (1 .. n)
      OBVIOUS
    <3>3. g[1 .. i] = F[i][g[1 .. i - 1]] /\ g[1 .. i - 1] \in T
      BY <2>4, <3>1, <3>2, Zenon DEF IsFold
    <3>4. h[i] = g[1 .. i - 1] \o seqs[i]
      BY <2>2, <3>3
    <3>5. CASE i = 1
      <4>1. 1 .. i - 1 = {} /\ {} \in SUBSET (1 .. n)
        BY <3>5
      <4>2. g[{}] = <<>>
        BY <2>4, <4>1 DEF IsFold
      <4> QED
        BY <2>3, <3>4, <3>5, <4>1, <4>2 DEF T
    <3>6. CASE i # 1
      <4>1. i - 1 \in 1 .. n
        BY <3>6
      <4> QED
        BY <3>4, <3>6, <4>1
    <3> QED
      BY <3>5, <3>6
  <2>6. IsFlat(h)
    <3> HIDE DEF Step
    <3> QED
      BY <2>5
  <2>7. IsFlat(flat)
    <3> HIDE DEF IsFlat, h
    <3> QED
      BY <2>6
  <2> HIDE DEF flat
  <2>8. \A i \in 1 .. n : flat[i] = Step(flat, i)
    <3> HIDE DEF Step
    <3> QED
      BY <2>7
  <2> DEFINE R == { k \in 0 .. n : k = 0 \/ flat[k] \in T }
  <2>9. 0 \in R /\ \A k \in 1 .. n : k - 1 \in R => k \in R
    <3>1. ASSUME NEW k \in 1 .. n, k - 1 \in R
          PROVE  k \in R
      <4>1. k \in 0 .. n /\ (k # 1 => k - 1 # 0)
        OBVIOUS
      <4>2. CASE k = 1
        BY <2>8, <4>1, <4>2 DEF T
      <4>3. CASE k # 1
        BY <2>1, <2>8, <3>1, <4>1, <4>3
      <4> QED
        BY <4>2, <4>3
    <3> QED
      BY <3>1
  <2>10. n \in R
    <3> HIDE DEF R
    <3> QED
      BY <2>9, BoundedInduction
  <2>11. FlattenSeq(seqs) = flat[n]
    BY <1>2 DEF FlattenSeq, flat
  <2> QED
    BY <1>2, <2>10, <2>11 DEF T
<1> QED
  BY <1>1, <1>2

UpTyped(u) == IsSeq(u.node.name) /\ u.inline \in BOOLEAN

\* The upstreams of a relay, with its subs as their nodes, are a sequence of
\* nodes with names.
LEMMA UpstreamsAreSeq ==
  ASSUME NEW plan, PlanTyped(plan), NEW r \in DOMAIN plan.relays
  PROVE  LET ups == Upstreams(plan.relays[r], plan.nodesOf)
         IN ups \in Seq(ToSet(ups)) /\ \A u \in ToSet(ups) : UpTyped(u)
<1> DEFINE list == plan.relays[r].upstreams
           n == Len(list)
           Nodes(j) == plan.nodesOf[list[j].sub]
           Part(j) == IF list[j].proxy # None
                      THEN <<[node |-> FromClashMap(list[j].proxy.name, list[j].proxy.map), inline |-> TRUE]>>
                      ELSE [i \in DOMAIN Nodes(j) |-> [node |-> Nodes(j)[i], inline |-> FALSE]]
           parts == [j \in DOMAIN list |-> Part(j)]
           S == { u \in UNION { { Part(j)[i] : i \in DOMAIN Part(j) } : j \in DOMAIN list } : UpTyped(u) }
<1>1. /\ n \in Nat /\ DOMAIN list = 1 .. n
      /\ \A j \in 1 .. n : IF list[j].proxy # None THEN IsSeq(list[j].proxy.name) ELSE NodesTyped(Nodes(j))
  BY DEF PlanTyped, IsSeq
<1> HIDE DEF list, n
<1>2. ASSUME NEW j \in 1 .. n
      PROVE  Part(j) \in Seq(S)
  <2>1. \E m \in Nat : DOMAIN Part(j) = 1 .. m /\ Part(j) = [i \in 1 .. m |-> Part(j)[i]]
                       /\ \A i \in 1 .. m : UpTyped(Part(j)[i])
    <3>1. CASE list[j].proxy # None
      <4> DEFINE u == [node |-> FromClashMap(list[j].proxy.name, list[j].proxy.map), inline |-> TRUE]
      <4>1. UpTyped(u)
        BY <1>1, <3>1 DEF UpTyped, FromClashMap
      <4>2. Part(j) = <<u>>
        BY <3>1
      <4> HIDE DEF u, Part
      <4>3. DOMAIN Part(j) = 1 .. 1 /\ Part(j) = [i \in 1 .. 1 |-> Part(j)[i]]
            /\ \A i \in 1 .. 1 : UpTyped(Part(j)[i])
        BY <4>1, <4>2
      <4> QED
        BY <4>3
    <3>2. CASE list[j].proxy = None
      <4>1. /\ Len(Nodes(j)) \in Nat /\ DOMAIN Nodes(j) = 1 .. Len(Nodes(j))
            /\ \A i \in DOMAIN Nodes(j) : IsSeq(Nodes(j)[i].name)
        BY <1>1, <3>2 DEF NodesTyped, IsSeq
      <4>2. Part(j) = [i \in DOMAIN Nodes(j) |-> [node |-> Nodes(j)[i], inline |-> FALSE]]
        BY <3>2
      <4> DEFINE x == Nodes(j)
                 m == Len(x)
      <4>3. \A i \in 1 .. m : UpTyped([node |-> x[i], inline |-> FALSE])
        BY <4>1 DEF UpTyped
      <4> HIDE DEF Nodes, Part, x
      <4>4. m \in Nat /\ DOMAIN x = 1 .. m /\ Part(j) = [i \in DOMAIN x |-> [node |-> x[i], inline |-> FALSE]]
        BY <4>1, <4>2 DEF x
      <4> HIDE DEF m
      <4>5. /\ DOMAIN Part(j) = 1 .. m /\ \A i \in 1 .. m : UpTyped(Part(j)[i])
            /\ Part(j) = [i \in 1 .. m |-> Part(j)[i]]
        BY <4>3, <4>4
      <4> QED
        BY <4>4, <4>5
    <3> QED
      BY <3>1, <3>2
  <2> HIDE DEF Part
  <2>2. \A i \in DOMAIN Part(j) : UpTyped(Part(j)[i]) => Part(j)[i] \in S
    BY <1>1
  <2> HIDE DEF S
  <2>3. PICK m \in Nat : DOMAIN Part(j) = 1 .. m /\ Part(j) = [i \in 1 .. m |-> Part(j)[i]]
                         /\ \A i \in 1 .. m : UpTyped(Part(j)[i])
    BY <2>1
  <2>4. \A i \in 1 .. m : Part(j)[i] \in S
    BY <2>2, <2>3
  <2> QED
    BY <2>3, <2>4
<1>3. FlattenSeq(parts) \in Seq(S)
  <2> HIDE DEF Part, S
  <2>1. DOMAIN parts = 1 .. n /\ Len(parts) = n /\ (n = 0 => parts = <<>>) /\ \A i \in 1 .. n : parts[i] \in Seq(S)
    BY <1>1, <1>2
  <2> HIDE DEF parts
  <2> QED
    BY <1>1, <2>1, FlatIsSeq
<1>4. Upstreams(plan.relays[r], plan.nodesOf) = FlattenSeq(parts)
  BY DEF Upstreams, list
<1> DEFINE ups == FlattenSeq(parts)
<1> HIDE DEF ups
<1>5. ups \in Seq(S)
  BY <1>3 DEF ups
<1>6. ups \in Seq(ToSet(ups)) /\ \A u \in ToSet(ups) : u \in S
  <2> HIDE DEF S
  <2>1. DOMAIN ups = 1 .. Len(ups) /\ \A i \in 1 .. Len(ups) : ups[i] \in ToSet(ups)
    BY <1>5 DEF ToSet
  <2> QED
    BY <1>5, <2>1 DEF ToSet
<1> QED
  BY <1>4, <1>6 DEF ups

-----------------------------------------------------------------------------
(* Plan.Render: proxyRegistry *)

\* What the registry may hold for upstreams of S beside the reserved names R.
UpNames(S, R) == R \cup UNION { {DisplayName(u.node)} \cup Numbered(DisplayName(u.node)) : u \in S }
Keys(S) == { ContentKey(u) : u \in S }
Proxies(S, R) == [name : UpNames(S, R), map : { u.node.clash : u \in S }]
TablesOf(K, V) == UNION { [D -> V] : D \in SUBSET K }
Tables(S, R) == TablesOf(Keys(S), UpNames(S, R) \cup {NoName})

\* Every proxy has a name of its own, that is not reserved.
ProxiesNamed(R, registry) ==
  /\ R \cup NamesOf(registry.proxies) \subseteq registry.used
  /\ R \cap NamesOf(registry.proxies) = {}
  /\ NoName \notin NamesOf(registry.proxies)
  /\ Distinct(registry.proxies)

\* The name under a key is that of a proxy with the map in the key, if the
\* map can be loaded, and of no other key.
KeysHaveProxies(table, proxies) ==
  /\ \A key \in DOMAIN table :
       /\ key[1] # None
       /\ table[key] = NoName <=> key[1] \in Unloadable
       /\ table[key] # NoName => \E i \in DOMAIN proxies : proxies[i].name = table[key] /\ proxies[i].map = key[1]
  /\ \A key, other \in DOMAIN table : table[key] = table[other] /\ table[key] # NoName => key = other

Registries(S, R) ==
  { registry \in [used : SUBSET UpNames(S, R), byContent : Tables(S, R), proxies : Seq(Proxies(S, R))] :
      /\ IsFiniteSet(registry.used)
      /\ ProxiesNamed(R, registry)
      /\ KeysHaveProxies(registry.byContent, registry.proxies) }

\* What is registered stays so.
Keeps(table, later) ==
  /\ DOMAIN table \subseteq DOMAIN later
  /\ \A key \in DOMAIN table : later[key] = table[key]

\* A value more in a table, and the others.
Others(table, key, later) == \A k \in DOMAIN table : k # key => later[k] = table[k]

LEMMA PutTyped ==
  ASSUME NEW K, NEW V, NEW f \in TablesOf(K, V), NEW key \in K, NEW value \in V
  PROVE  /\ Put(f, key, value) \in TablesOf(K, V)
         /\ DOMAIN Put(f, key, value) = DOMAIN f \cup {key}
         /\ Put(f, key, value)[key] = value
         /\ Others(f, key, Put(f, key, value))
<1>1. PICK D \in SUBSET K : f \in [D -> V]
  BY DEF TablesOf
<1>2. Put(f, key, value) \in [D \cup {key} -> V]
  BY <1>1 DEF Put
<1>3. D \cup {key} \in SUBSET K
  BY <1>1
<1>4. Others(f, key, Put(f, key, value))
  BY DEF Put, Others
<1>5. Put(f, key, value)[key] = value /\ DOMAIN Put(f, key, value) = DOMAIN f \cup {key}
  BY DEF Put
<1> QED
  BY <1>2, <1>3, <1>4, <1>5 DEF TablesOf

\* What a proxy of mihomo is named after.
LEMMA DisplayNames ==
  ASSUME NEW n, IsSeq(n.name)
  PROVE  /\ IsSeq(DisplayName(n)) /\ DisplayName(n) # NoName
         /\ NoName \notin Numbered(DisplayName(n))
<1> DEFINE base == DisplayName(n)
           triple == <<n.clash.type, n.clash.server, n.clash.port>>
<1>1. IsSeq(triple) /\ triple # <<>>
  BY DEF IsSeq
<1> HIDE DEF triple
<1>2. IsSeq(base) /\ base # <<>>
  BY <1>1 DEF DisplayName, triple
<1> HIDE DEF base
<1>3. ASSUME NEW i \in Int
      PROVE  Append(base, i) # <<>>
  <2> DEFINE all == { base[k] : k \in 1 .. Len(base) } \cup Int
  <2>1. base \in Seq(all)
    BY <1>2 DEF IsSeq
  <2> HIDE DEF all
  <2>2. i \in all
    BY DEF all
  <2> QED
    BY <2>1, <2>2
<1> QED
  BY <1>2, <1>3 DEF Numbered, NoName, base

\* Whether two upstreams are one proxy is a matter of their keys.
LEMMA KeysTell ==
  ASSUME NEW u, UpTyped(u), NEW v, UpTyped(v)
  PROVE  ContentKey(u)[1] = u.node.clash /\ (ContentKey(u) = ContentKey(v) <=> Same(u, v))
<1>1. CASE u.inline /\ v.inline
  BY <1>1 DEF ContentKey, Same, UpTyped
<1>2. CASE ~u.inline /\ ~v.inline
  BY <1>2 DEF ContentKey, Same, UpTyped
<1>3. CASE u.inline /\ ~v.inline
  BY <1>3 DEF ContentKey, Same, UpTyped
<1>4. CASE ~u.inline /\ v.inline
  BY <1>4 DEF ContentKey, Same, UpTyped
<1> QED
  BY <1>1, <1>2, <1>3, <1>4

\* A proxy more, of a new name.
LEMMA ProxyAdded ==
  ASSUME NEW P, NEW proxies \in Seq(P), NEW p \in P, p.name \notin NamesOf(proxies)
  PROVE  /\ NamesOf(Append(proxies, p)) = NamesOf(proxies) \cup {p.name}
         /\ Distinct(proxies) => Distinct(Append(proxies, p))
         /\ \E i \in DOMAIN Append(proxies, p) : Append(proxies, p)[i] = p
         /\ \A i \in DOMAIN proxies : i \in DOMAIN Append(proxies, p) /\ Append(proxies, p)[i] = proxies[i]
<1> DEFINE new == Append(proxies, p)
           m == Len(proxies) + 1
<1>1. /\ DOMAIN proxies = 1 .. Len(proxies) /\ Len(proxies) \in Nat
      /\ DOMAIN new = 1 .. m /\ new[m] = p /\ m \in 1 .. m
      /\ \A i \in 1 .. Len(proxies) : new[i] = proxies[i] /\ i \in 1 .. m
  OBVIOUS
<1>2. \A i \in 1 .. m : i \in DOMAIN proxies \/ i = m
  BY <1>1
<1> HIDE DEF new, m
<1>3. NamesOf(new) = NamesOf(proxies) \cup {p.name}
  BY <1>1, <1>2 DEF NamesOf
<1>4. \A i \in DOMAIN proxies : proxies[i].name # p.name
  BY DEF NamesOf
<1>5. Distinct(proxies) => Distinct(new)
  BY <1>1, <1>2, <1>4 DEF Distinct
<1> QED
  BY <1>1, <1>3, <1>5 DEF new

\* One upstream is added.
LEMMA OneAdded ==
  ASSUME NEW S, \A u \in S : UpTyped(u), NEW R,
         NEW registry \in Registries(S, R), NEW up \in S
  PROVE  LET new == Add(registry, up)
         IN /\ new \in Registries(S, R)
            /\ Keeps(registry.byContent, new.byContent)
            /\ up.node.clash # None => ContentKey(up) \in DOMAIN new.byContent
<1> DEFINE key == ContentKey(up)
           name == FreeName(DisplayName(up.node), registry.used)
           table == registry.byContent
           proxies == registry.proxies
           V == UpNames(S, R) \cup {NoName}
           new == Add(registry, up)
<1>1. /\ registry \in [used : SUBSET UpNames(S, R), byContent : Tables(S, R), proxies : Seq(Proxies(S, R))]
      /\ IsFiniteSet(registry.used) /\ ProxiesNamed(R, registry) /\ KeysHaveProxies(table, proxies)
  BY DEF Registries
<1>2. key \in Keys(S) /\ key[1] = up.node.clash /\ up.node.clash \in { u.node.clash : u \in S }
  BY KeysTell DEF Keys
<1>3. /\ name \notin registry.used /\ name # NoName /\ name \in UpNames(S, R)
  <2>1. IsSeq(up.node.name)
    BY DEF UpTyped
  <2>2. /\ name \notin registry.used
        /\ name \in {DisplayName(up.node)} \cup Numbered(DisplayName(up.node))
        /\ name # NoName
    BY <1>1, <2>1, DisplayNames, FreeNameIsFree
  <2>3. {DisplayName(up.node)} \cup Numbered(DisplayName(up.node)) \subseteq UpNames(S, R)
    BY Zenon DEF UpNames
  <2> QED
    BY <2>2, <2>3, Zenon
<1>4. table \in TablesOf(Keys(S), V) /\ proxies \in Seq(Proxies(S, R))
  BY <1>1 DEF Tables
<1> HIDE DEF key, name, table, proxies, V
<1>5. CASE up.node.clash = None \/ key \in DOMAIN table
  <2>1. new = registry
    BY <1>5 DEF Add, key, table
  <2>2. Keeps(table, table)
    BY DEF Keeps
  <2> QED
    BY <1>5, <2>1, <2>2 DEF key, table
<1>6. CASE up.node.clash # None /\ key \notin DOMAIN table /\ up.node.clash \in Unloadable
  <2> DEFINE more == Put(table, key, NoName)
  <2>1. new = [registry EXCEPT !.byContent = more]
    BY <1>6 DEF Add, key, table
  <2>2. /\ more \in TablesOf(Keys(S), V)
        /\ DOMAIN more = DOMAIN table \cup {key} /\ more[key] = NoName
        /\ Others(table, key, more)
    <3>1. NoName \in V
      BY DEF V
    <3>2. key \in Keys(S) /\ table \in TablesOf(Keys(S), V)
      BY <1>2, <1>4
    <3>3. /\ Put(table, key, NoName) \in TablesOf(Keys(S), V)
          /\ DOMAIN Put(table, key, NoName) = DOMAIN table \cup {key}
          /\ Put(table, key, NoName)[key] = NoName
          /\ Others(table, key, Put(table, key, NoName))
      BY <3>1, <3>2, PutTyped, Zenon
    <3> QED
      BY <3>3
  <2> HIDE DEF more
  <2>3. /\ new.used = registry.used /\ new.byContent = more /\ new.proxies = proxies
        /\ new \in [used : SUBSET UpNames(S, R), byContent : Tables(S, R), proxies : Seq(Proxies(S, R))]
    <3>1. more \in Tables(S, R)
      BY <2>2 DEF Tables, V
    <3> QED
      BY <1>1, <2>1, <3>1 DEF proxies
  <2> HIDE DEF new
  <2>4. Keeps(table, more)
    BY <1>6, <2>2 DEF Keeps, Others
  <2>5. KeysHaveProxies(more, proxies)
    <3>1. \A k \in DOMAIN more : (k \in DOMAIN table /\ k # key /\ more[k] = table[k]) \/ k = key
      BY <1>6, <2>2 DEF Others
    <3> QED
      BY <1>1, <1>2, <1>6, <2>2, <3>1 DEF KeysHaveProxies
  <2>6. ProxiesNamed(R, new)
    BY <1>1, <2>3 DEF ProxiesNamed, proxies
  <2>7. new \in Registries(S, R)
    BY <1>1, <2>3, <2>5, <2>6 DEF Registries
  <2> QED
    BY <2>2, <2>3, <2>4, <2>7 DEF new, key, table
<1>7. CASE up.node.clash # None /\ key \notin DOMAIN table /\ up.node.clash \notin Unloadable
  <2> DEFINE more == Put(table, key, name)
             proxy == [name |-> name, map |-> up.node.clash]
             all == Append(proxies, proxy)
             used == registry.used \cup {name}
  <2>1. new = [used |-> used, byContent |-> more, proxies |-> all]
    BY <1>7 DEF Add, key, table, proxies, name
  <2>2. /\ more \in TablesOf(Keys(S), V)
        /\ DOMAIN more = DOMAIN table \cup {key} /\ more[key] = name
        /\ Others(table, key, more)
    <3>1. name \in V
      BY <1>3 DEF V
    <3>2. key \in Keys(S) /\ table \in TablesOf(Keys(S), V)
      BY <1>2, <1>4
    <3>3. /\ Put(table, key, name) \in TablesOf(Keys(S), V)
          /\ DOMAIN Put(table, key, name) = DOMAIN table \cup {key}
          /\ Put(table, key, name)[key] = name
          /\ Others(table, key, Put(table, key, name))
      BY <3>1, <3>2, PutTyped, Zenon
    <3> QED
      BY <3>3
  <2>3. proxy \in Proxies(S, R) /\ proxy.name = name /\ proxy.map = up.node.clash
    BY <1>2, <1>3 DEF Proxies
  <2> HIDE DEF more, proxy
  <2>4. R \cup NamesOf(proxies) \subseteq registry.used /\ R \cap NamesOf(proxies) = {}
        /\ NoName \notin NamesOf(proxies) /\ Distinct(proxies)
    BY <1>1 DEF ProxiesNamed, proxies
  <2>5. /\ all \in Seq(Proxies(S, R)) /\ NamesOf(all) = NamesOf(proxies) \cup {name} /\ Distinct(all)
        /\ \E i \in DOMAIN all : all[i] = proxy
        /\ \A i \in DOMAIN proxies : i \in DOMAIN all /\ all[i] = proxies[i]
    <3>1. proxy.name \notin NamesOf(proxies)
      BY <1>3, <2>3, <2>4
    <3>2. all \in Seq(Proxies(S, R))
      BY <1>4, <2>3
    <3> QED
      BY <1>4, <2>3, <2>4, <3>1, <3>2, ProxyAdded
  <2> HIDE DEF all
  <2>6. used \in SUBSET UpNames(S, R) /\ IsFiniteSet(used)
    BY <1>1, <1>3, FS_AddElement
  <2> HIDE DEF used
  <2>7. /\ new.used = used /\ new.byContent = more /\ new.proxies = all
        /\ new \in [used : SUBSET UpNames(S, R), byContent : Tables(S, R), proxies : Seq(Proxies(S, R))]
    <3>1. more \in Tables(S, R)
      BY <2>2 DEF Tables, V
    <3> QED
      BY <2>1, <2>5, <2>6, <3>1
  <2> HIDE DEF new
  <2>8. Keeps(table, more)
    BY <1>7, <2>2 DEF Keeps, Others
  <2>9. ProxiesNamed(R, new)
    <3>1. used = registry.used \cup {name}
      BY DEF used
    <3> QED
      BY <1>3, <2>4, <2>5, <2>7, <3>1 DEF ProxiesNamed
  <2>10. KeysHaveProxies(more, all)
    <3>1. \A k \in DOMAIN more : (k \in DOMAIN table /\ k # key /\ more[k] = table[k]) \/ k = key
      BY <1>7, <2>2 DEF Others
    <3>2. \A k \in DOMAIN table : table[k] # NoName => table[k] \in NamesOf(proxies)
      BY <1>1 DEF KeysHaveProxies, NamesOf
    <3>3. \A k \in DOMAIN table : table[k] # name
      BY <1>3, <2>4, <3>2
    <3>4. \A k \in DOMAIN table : table[k] # NoName =>
            \E i \in DOMAIN all : all[i].name = table[k] /\ all[i].map = k[1]
      BY <1>1, <2>5 DEF KeysHaveProxies
    <3>5. \E i \in DOMAIN all : all[i].name = name /\ all[i].map = key[1]
      BY <1>2, <2>3, <2>5
    <3>6. \A k \in DOMAIN more :
            /\ k[1] # None
            /\ more[k] = NoName <=> k[1] \in Unloadable
            /\ more[k] # NoName => \E i \in DOMAIN all : all[i].name = more[k] /\ all[i].map = k[1]
      <4> SUFFICES ASSUME NEW k \in DOMAIN more
                   PROVE  /\ k[1] # None
                          /\ more[k] = NoName <=> k[1] \in Unloadable
                          /\ more[k] # NoName =>
                               \E i \in DOMAIN all : all[i].name = more[k] /\ all[i].map = k[1]
        OBVIOUS
      <4>1. CASE k = key
        BY <1>2, <1>3, <1>7, <2>2, <3>5, <4>1
      <4>2. CASE k \in DOMAIN table /\ more[k] = table[k]
        BY <1>1, <3>4, <4>2 DEF KeysHaveProxies
      <4> QED
        BY <3>1, <4>1, <4>2
    <3>7. \A k, other \in DOMAIN more : more[k] = more[other] /\ more[k] # NoName => k = other
      BY <1>1, <2>2, <3>1, <3>3 DEF KeysHaveProxies
    <3> QED
      BY <3>6, <3>7 DEF KeysHaveProxies
  <2>11. new \in Registries(S, R)
    BY <2>6, <2>7, <2>9, <2>10 DEF Registries
  <2> QED
    BY <2>2, <2>7, <2>8, <2>11 DEF new, key, table
<1> QED
  BY <1>5, <1>6, <1>7

\* All upstreams of a relay are added.
Registered(ups, k, table) ==
  \A j \in 1 .. k : ups[j].node.clash # None => ContentKey(ups[j]) \in DOMAIN table

LEMMA AllAdded ==
  ASSUME NEW S, \A u \in S : UpTyped(u), NEW R,
         NEW registry \in Registries(S, R), NEW ups \in Seq(S)
  PROVE  LET new == FoldAdd(registry, ups)
         IN /\ new \in Registries(S, R)
            /\ Keeps(registry.byContent, new.byContent)
            /\ Registered(ups, Len(ups), new.byContent)
<1> DEFINE n == Len(ups)
           T == Registries(S, R)
<1>1. n \in Nat /\ DOMAIN ups = 1 .. n /\ \A k \in 1 .. n : ups[k] \in S
  OBVIOUS
<1>2. \A t \in T : \A k \in 1 .. n : Add(t, ups[k]) \in T
  BY <1>1, OneAdded
<1>3. PICK r : RunAdd(T, registry, n, ups, r)
  <2> HIDE DEF T, n
  <2>1. registry \in T
    BY DEF T
  <2> QED
    BY <1>1, <1>2, <2>1, AddRuns
<1> DEFINE I == { k \in 0 .. n : /\ Keeps(registry.byContent, r[k].byContent)
                                 /\ Registered(ups, k, r[k].byContent) }
<1>4. 0 \in I
  BY <1>1, <1>3 DEF RunAdd, Keeps, Registered
<1>5. ASSUME NEW k \in 1 .. n, k - 1 \in I
      PROVE  k \in I
  <2>1. k \in 0 .. n /\ k - 1 \in 0 .. n
    BY <1>1
  <2>2. r[k - 1] \in T /\ r[k] = Add(r[k - 1], ups[k]) /\ ups[k] \in S
    BY <1>1, <1>3, <2>1 DEF RunAdd
  <2>3. /\ Keeps(r[k - 1].byContent, r[k].byContent)
        /\ ups[k].node.clash # None => ContentKey(ups[k]) \in DOMAIN r[k].byContent
    BY <2>2, OneAdded
  <2>4. \A j \in 1 .. k : j \in 1 .. k - 1 \/ j = k
    OBVIOUS
  <2>5. Keeps(registry.byContent, r[k].byContent)
    BY <1>5, <2>3 DEF Keeps
  <2>6. Registered(ups, k, r[k].byContent)
    BY <1>5, <2>3, <2>4 DEF Keeps, Registered
  <2> QED
    BY <2>1, <2>5, <2>6
<1>6. n \in I
  <2> HIDE DEF I, n
  <2> QED
    BY <1>1, <1>4, <1>5, BoundedInduction
<1>7. FoldAdd(registry, ups) = r[n] /\ r[n] \in T
  BY <1>1, <1>3 DEF RunAdd
<1> QED
  BY <1>6, <1>7

\* What the upstreams of a relay are called, and where each name is first.
Called(table, ups) ==
  [i \in DOMAIN ups |-> IF ups[i].node.clash = None THEN NoName ELSE table[ContentKey(ups[i])]]

Firsts(names, k) == { p \in 1 .. k : names[p] # NoName /\ \A q \in 1 .. p - 1 : names[q] # names[p] }

Collects(list, names, k) == \A x : Contains(list, x) <=> x # NoName /\ \E q \in 1 .. k : names[q] = x

LEMMA MembersInOrder ==
  ASSUME NEW S, NEW names \in Seq(S)
  PROVE  LET list == FoldAppendName(<<>>, names)
         IN /\ list \in Seq(S)
            /\ InOrder(names, Firsts(names, Len(names)), list)
<1> DEFINE n == Len(names)
           T == Seq(S)
<1>1. n \in Nat /\ DOMAIN names = 1 .. n /\ <<>> \in T /\ \A k \in 1 .. n : names[k] \in S
  OBVIOUS
<1>2. \A t \in T : \A k \in 1 .. n : AppendName(t, names[k]) \in T
  BY <1>1 DEF AppendName
<1>3. PICK r : RunAppendName(T, <<>>, n, names, r)
  <2> HIDE DEF T, n
  <2> QED
    BY <1>1, <1>2, AppendNameRuns
<1> DEFINE I == { k \in 0 .. n : InOrder(names, Firsts(names, k), r[k]) /\ Collects(r[k], names, k) }
<1>4. 0 \in I
  <2>1. Firsts(names, 0) = {} /\ r[0] = <<>>
    BY <1>3 DEF Firsts, RunAppendName
  <2>2. InOrder(names, {}, <<>>)
    BY FS_EmptySet DEF InOrder
  <2>3. InOrder(names, Firsts(names, 0), r[0])
    BY <2>1, <2>2
  <2>4. Collects(r[0], names, 0)
    BY <2>1 DEF Collects, Contains
  <2> QED
    BY <1>1, <2>3, <2>4
<1>5. ASSUME NEW k \in 1 .. n, k - 1 \in I
      PROVE  k \in I
  <2> DEFINE before == Firsts(names, k - 1)
             old == r[k - 1]
             x == names[k]
  <2>1. k \in 0 .. n /\ k - 1 \in 0 .. n /\ k \in Nat \ {0}
    BY <1>1
  <2>2. old \in T /\ r[k] = AppendName(old, x)
    BY <1>3, <2>1 DEF RunAppendName
  <2>3. before \in SUBSET (1 .. k - 1) /\ InOrder(names, before, old) /\ Collects(old, names, k - 1)
    BY <1>5 DEF Firsts
  <2>4. \A p \in 1 .. k : p \in 1 .. k - 1 \/ p = k
    OBVIOUS
  <2>5. 1 .. k - 1 \subseteq 1 .. k /\ k \in 1 .. k
    OBVIOUS
  <2>6. CASE x # NoName /\ ~Contains(old, x)
    <3>1. \A q \in 1 .. k - 1 : names[q] # x
      BY <2>3, <2>6, Zenon DEF Collects
    <3>2. Firsts(names, k) = before \cup {k}
      BY <2>4, <2>5, <2>6, <3>1, Zenon DEF Firsts
    <3>3. r[k] = Append(old, x)
      BY <2>2, <2>6 DEF AppendName
    <3>4. InOrder(names, before \cup {k}, Append(old, x))
      <4>1. x \in S
        BY <1>1
      <4> HIDE DEF before, n
      <4> QED
        BY <2>1, <2>2, <2>3, <4>1, OneMore
    <3>5. \A y : Contains(Append(old, x), y) <=> Contains(old, y) \/ y = x
      <4>1. /\ Len(Append(old, x)) = Len(old) + 1 /\ Append(old, x)[Len(old) + 1] = x /\ Len(old) \in Nat
            /\ \A i \in 1 .. Len(old) : Append(old, x)[i] = old[i]
        BY <2>2
      <4>2. /\ \A i \in 1 .. Len(old) + 1 : i \in 1 .. Len(old) \/ i = Len(old) + 1
            /\ Len(old) + 1 \in 1 .. Len(old) + 1
            /\ \A i \in 1 .. Len(old) : i \in 1 .. Len(old) + 1
        BY <4>1
      <4> QED
        BY <4>1, <4>2, Zenon DEF Contains
    <3>6. Collects(r[k], names, k)
      BY <2>3, <2>4, <2>5, <2>6, <3>3, <3>5, Zenon DEF Collects
    <3> QED
      BY <2>1, <3>2, <3>3, <3>4, <3>6
  <2>7. CASE x = NoName \/ Contains(old, x)
    <3>1. r[k] = old
      BY <2>2, <2>7 DEF AppendName
    <3>2. x = NoName \/ \E q \in 1 .. k - 1 : names[q] = x
      BY <2>3, <2>7, Zenon DEF Collects
    <3>3. Firsts(names, k) = before
      BY <2>4, <2>5, <3>2, Zenon DEF Firsts
    <3>4. Collects(r[k], names, k)
      BY <2>3, <2>4, <2>5, <3>1, <3>2, Zenon DEF Collects
    <3> QED
      BY <2>1, <2>3, <3>1, <3>3, <3>4
  <2> QED
    BY <2>6, <2>7
<1>6. n \in I
  <2> HIDE DEF I, n
  <2> QED
    BY <1>1, <1>4, <1>5, BoundedInduction
<1>7. FoldAppendName(<<>>, names) = r[n] /\ r[n] \in T
  BY <1>1, <1>3 DEF RunAppendName
<1> QED
  BY <1>6, <1>7

\* The first upstreams of each name are the first that are different, of
\* those that can be loaded.
Different(ups) ==
  { i \in DOMAIN ups : /\ ups[i].node.clash # None /\ ups[i].node.clash \notin Unloadable
                       /\ \A j \in 1 .. i - 1 : ~Same(ups[i], ups[j]) }

\* The names of what can be loaded, and only of that.
LEMMA NamesTell ==
  ASSUME NEW S, \A u \in S : UpTyped(u), NEW ups \in Seq(S), NEW others \in Seq(S),
         NEW table, NEW proxies, KeysHaveProxies(table, proxies),
         Registered(ups, Len(ups), table), Registered(others, Len(others), table),
         NEW p \in DOMAIN ups, NEW q \in DOMAIN others
  PROVE  /\ Called(table, ups)[p] # NoName
              <=> ups[p].node.clash # None /\ ups[p].node.clash \notin Unloadable
         /\ Called(table, ups)[p] # NoName =>
              /\ \E i \in DOMAIN proxies : proxies[i].name = Called(table, ups)[p]
                                           /\ proxies[i].map = ups[p].node.clash
              /\ Called(table, ups)[p] = Called(table, others)[q] <=> Same(ups[p], others[q])
<1> DEFINE u == ups[p]
           v == others[q]
           key == ContentKey(u)
           other == ContentKey(v)
<1>1. /\ u \in S /\ v \in S /\ UpTyped(u) /\ UpTyped(v)
      /\ u.node.clash # None => key \in DOMAIN table
      /\ v.node.clash # None => other \in DOMAIN table
  BY DEF Registered
<1>2. /\ Called(table, ups)[p] = IF u.node.clash = None THEN NoName ELSE table[key]
      /\ Called(table, others)[q] = IF v.node.clash = None THEN NoName ELSE table[other]
  BY DEF Called
<1> HIDE DEF u, v
<1>3. key[1] = u.node.clash /\ (key = other <=> Same(u, v))
  BY <1>1, KeysTell
<1>4. Same(u, v) => u.node.clash = v.node.clash
  BY DEF Same
<1> HIDE DEF key, other
<1>5. Called(table, ups)[p] # NoName <=> u.node.clash # None /\ u.node.clash \notin Unloadable
  BY <1>1, <1>2, <1>3 DEF KeysHaveProxies
<1>6. ASSUME Called(table, ups)[p] # NoName
      PROVE  /\ \E i \in DOMAIN proxies : proxies[i].name = Called(table, ups)[p]
                                          /\ proxies[i].map = u.node.clash
             /\ Called(table, ups)[p] = Called(table, others)[q] <=> Same(u, v)
  <2>1. u.node.clash # None /\ key \in DOMAIN table /\ Called(table, ups)[p] = table[key] /\ table[key] # NoName
    BY <1>1, <1>2, <1>6
  <2>2. \E i \in DOMAIN proxies : proxies[i].name = table[key] /\ proxies[i].map = u.node.clash
    BY <1>3, <2>1 DEF KeysHaveProxies
  <2>3. ASSUME Called(table, ups)[p] = Called(table, others)[q]
        PROVE  Same(u, v)
    <3>1. v.node.clash # None /\ table[key] = table[other] /\ other \in DOMAIN table
      BY <1>1, <1>2, <2>1, <2>3
    <3> QED
      BY <1>3, <2>1, <3>1 DEF KeysHaveProxies
  <2>4. ASSUME Same(u, v)
        PROVE  Called(table, ups)[p] = Called(table, others)[q]
    BY <1>2, <1>3, <1>4, <2>1, <2>4
  <2> QED
    BY <2>1, <2>2, <2>3, <2>4
<1> QED
  BY <1>5, <1>6 DEF u, v

LEMMA FirstsAreDifferent ==
  ASSUME NEW S, \A u \in S : UpTyped(u), NEW ups \in Seq(S), NEW table, NEW proxies,
         KeysHaveProxies(table, proxies), Registered(ups, Len(ups), table)
  PROVE  Firsts(Called(table, ups), Len(ups)) = Different(ups)
<1> DEFINE names == Called(table, ups)
<1>1. DOMAIN ups = 1 .. Len(ups)
  OBVIOUS
<1>2. ASSUME NEW p \in DOMAIN ups
      PROVE  names[p] # NoName <=> ups[p].node.clash # None /\ ups[p].node.clash \notin Unloadable
  BY NamesTell
<1>3. \A p, q \in DOMAIN ups : names[p] # NoName => (names[p] = names[q] <=> Same(ups[p], ups[q]))
  BY NamesTell, Zenon
<1> HIDE DEF names
<1>4. \A p \in 1 .. Len(ups) : \A q \in 1 .. p - 1 : q \in 1 .. Len(ups)
  OBVIOUS
<1>5. ASSUME NEW p \in 1 .. Len(ups)
      PROVE  p \in Firsts(names, Len(ups)) <=> p \in Different(ups)
  BY <1>1, <1>2, <1>3, <1>4, Zenon DEF Firsts, Different
<1>6. Firsts(names, Len(ups)) \subseteq 1 .. Len(ups) /\ Different(ups) \subseteq 1 .. Len(ups)
  BY <1>1 DEF Firsts, Different
<1> QED
  BY <1>5, <1>6 DEF names

\* All upstreams of a plan, and the names that are reserved.
AllUps(plan) == UNION { ToSet(Upstreams(plan.relays[i], plan.nodesOf)) : i \in DOMAIN plan.relays }
Reserved(plan) == Builtins \cup { plan.relays[i].name : i \in DOMAIN plan.relays }

LEMMA ReservedAreFinite ==
  ASSUME NEW plan, PlanTyped(plan)
  PROVE  IsFiniteSet(Reserved(plan))
<1> DEFINE n == Len(plan.relays)
           names == { plan.relays[i].name : i \in DOMAIN plan.relays }
           f == [i \in 1 .. n |-> plan.relays[i].name]
<1>1. n \in Nat /\ DOMAIN plan.relays = 1 .. n
  BY DEF PlanTyped, IsSeq
<1>2. f \in Surjection(1 .. n, names)
  <2>1. f \in [1 .. n -> names] /\ \A x \in names : \E i \in 1 .. n : plan.relays[i].name = x
    BY <1>1
  <2> QED
    BY <2>1 DEF Surjection
<1>3. IsFiniteSet(1 .. n)
  <2> HIDE DEF n
  <2> QED
    BY <1>1, FS_Interval
<1>4. IsFiniteSet(names)
  <2> HIDE DEF n, names, f
  <2> QED
    BY <1>2, <1>3, FS_Surjection
<1> QED
  BY <1>4, BuiltinsAssumption, FS_Union DEF Reserved

LEMMA PlanUpstreams ==
  ASSUME NEW plan, PlanTyped(plan)
  PROVE  /\ \A u \in AllUps(plan) : UpTyped(u)
         /\ \A i \in DOMAIN plan.relays : Upstreams(plan.relays[i], plan.nodesOf) \in Seq(AllUps(plan))
<1>1. ASSUME NEW i \in DOMAIN plan.relays
      PROVE  /\ \A u \in ToSet(Upstreams(plan.relays[i], plan.nodesOf)) : UpTyped(u)
             /\ Upstreams(plan.relays[i], plan.nodesOf) \in Seq(AllUps(plan))
  <2> DEFINE ups == Upstreams(plan.relays[i], plan.nodesOf)
  <2>1. ups \in Seq(ToSet(ups)) /\ \A u \in ToSet(ups) : UpTyped(u)
    BY UpstreamsAreSeq
  <2>2. ToSet(ups) \subseteq AllUps(plan)
    BY Zenon DEF AllUps
  <2> HIDE DEF ups
  <2>3. \A j \in 1 .. Len(ups) : ups[j] \in AllUps(plan)
    BY <2>1, <2>2
  <2>4. ups \in Seq(AllUps(plan))
    BY <2>1, <2>3
  <2> QED
    BY <2>1, <2>4 DEF ups
<1> QED
  BY <1>1, Zenon DEF AllUps

\* What has been made of the first k relays.
GroupSet(plan) ==
  [type    : {"select"} \cup { plan.relays[i].strategy : i \in DOMAIN plan.relays },
   members : Seq(UpNames(AllUps(plan), Reserved(plan)) \cup {NoName})]
Accs(plan) ==
  [registry : Registries(AllUps(plan), Reserved(plan)),
   groups   : TablesOf({ plan.relays[i].name : i \in DOMAIN plan.relays }, GroupSet(plan))]

\* The group of relay i, if it has one.
GroupOf(ups, name, acc) ==
  /\ Registered(ups, Len(ups), acc.registry.byContent)
  /\ name \in DOMAIN acc.groups <=> Members(acc.registry, ups) # <<>>
  /\ name \in DOMAIN acc.groups => acc.groups[name].members = Members(acc.registry, ups)
GroupMade(plan, i, acc) ==
  GroupOf(Upstreams(plan.relays[i], plan.nodesOf), plan.relays[i].name, acc)
GroupsMade(plan, k, acc) ==
  /\ \A i \in 1 .. k : GroupMade(plan, i, acc)
  /\ DOMAIN acc.groups \subseteq { plan.relays[i].name : i \in 1 .. k }

\* The members of a group are what its upstreams are called.
LEMMA MembersAreCalled ==
  ASSUME NEW registry, NEW ups, NEW n, DOMAIN ups = 1 .. n, Registered(ups, n, registry.byContent)
  PROVE  /\ Members(registry, ups) = FoldAppendName(<<>>, Called(registry.byContent, ups))
         /\ \A later : Keeps(registry.byContent, later.byContent) =>
              /\ Registered(ups, n, later.byContent)
              /\ Members(later, ups) = Members(registry, ups)
<1>1. \A x : Members(x, ups) = FoldAppendName(<<>>, Called(x.byContent, ups))
  BY DEF Members, FoldAppendName, Called
<1>2. ASSUME NEW later, Keeps(registry.byContent, later.byContent)
      PROVE  Registered(ups, n, later.byContent) /\ Called(later.byContent, ups) = Called(registry.byContent, ups)
  <2>1. Registered(ups, n, later.byContent)
    BY <1>2 DEF Registered, Keeps
  <2>2. \A i \in DOMAIN ups : ups[i].node.clash # None =>
          later.byContent[ContentKey(ups[i])] = registry.byContent[ContentKey(ups[i])]
    BY <1>2 DEF Registered, Keeps
  <2>3. Called(later.byContent, ups) = Called(registry.byContent, ups)
    BY <2>2 DEF Called
  <2> QED
    BY <2>1, <2>3
<1> QED
  BY <1>1, <1>2, Zenon

\* What upstreams are called are names.
LEMMA CalledAreNames ==
  ASSUME NEW S, NEW R, NEW registry \in Registries(S, R), NEW ups \in Seq(S),
         Registered(ups, Len(ups), registry.byContent)
  PROVE  Called(registry.byContent, ups) \in Seq(UpNames(S, R) \cup {NoName})
<1> DEFINE V == UpNames(S, R) \cup {NoName}
           table == registry.byContent
           names == Called(table, ups)
<1>1. PICK D \in SUBSET Keys(S) : table \in [D -> V]
  BY DEF Registries, Tables, TablesOf
<1> HIDE DEF V, table
<1>2. \A i \in 1 .. Len(ups) : ups[i].node.clash # None => table[ContentKey(ups[i])] \in V
  BY <1>1 DEF Registered, table
<1>3. NoName \in V
  BY DEF V
<1>4. names = [i \in 1 .. Len(ups) |-> IF ups[i].node.clash = None THEN NoName ELSE table[ContentKey(ups[i])]]
  BY DEF Called
<1>5. \A i \in 1 .. Len(ups) : (IF ups[i].node.clash = None THEN NoName ELSE table[ContentKey(ups[i])]) \in V
  BY <1>2, <1>3
<1>6. names \in Seq(V)
  <2> HIDE DEF names
  <2> QED
    BY <1>4, <1>5
<1> QED
  BY <1>6 DEF table, V

\* One more relay.
LEMMA OneRelay ==
  ASSUME NEW plan, PlanTyped(plan), NEW acc \in Accs(plan), NEW k \in DOMAIN plan.relays
  PROVE  LET new == AddRelay(plan.nodesOf, acc, plan.relays[k])
         IN /\ new \in Accs(plan)
            /\ GroupsMade(plan, k - 1, acc) => GroupsMade(plan, k, new)
<1> DEFINE S == AllUps(plan)
           R == Reserved(plan)
           relay == plan.relays[k]
           ups == Upstreams(relay, plan.nodesOf)
           n == Len(ups)
           registry == FoldAdd(acc.registry, ups)
           members == Members(registry, ups)
           group == RelayGroup(relay, members)
           names == { plan.relays[i].name : i \in DOMAIN plan.relays }
           groups == IF members = <<>> THEN acc.groups ELSE Put(acc.groups, relay.name, group)
           new == AddRelay(plan.nodesOf, acc, relay)
<1>1. /\ \A u \in S : UpTyped(u)
      /\ ups \in Seq(S) /\ acc.registry \in Registries(S, R)
      /\ acc.groups \in TablesOf(names, GroupSet(plan))
  BY PlanUpstreams DEF Accs
<1>2. new = [registry |-> registry, groups |-> groups]
  BY DEF AddRelay, FoldAdd
<1> HIDE DEF S, R, ups
<1>3. /\ registry \in Registries(S, R)
      /\ Keeps(acc.registry.byContent, registry.byContent)
      /\ Registered(ups, n, registry.byContent)
  BY <1>1, AllAdded
<1>4. DOMAIN ups = 1 .. n /\ n \in Nat
  BY <1>1
<1> HIDE DEF registry, n
<1>5. members \in Seq(UpNames(S, R) \cup {NoName})
  <2>1. Called(registry.byContent, ups) \in Seq(UpNames(S, R) \cup {NoName})
    BY <1>1, <1>3, CalledAreNames DEF n
  <2>2. members = FoldAppendName(<<>>, Called(registry.byContent, ups))
    BY <1>3, <1>4, MembersAreCalled
  <2> QED
    BY <2>1, <2>2, MembersInOrder
<1> HIDE DEF members
<1>6. group \in GroupSet(plan) /\ group.members = members
  BY <1>5 DEF RelayGroup, GroupSet, S, R
<1>7. relay.name \in names
  OBVIOUS
<1> HIDE DEF group, names
<1>8. /\ groups \in TablesOf(names, GroupSet(plan))
      /\ DOMAIN groups = IF members = <<>> THEN DOMAIN acc.groups ELSE DOMAIN acc.groups \cup {relay.name}
      /\ members # <<>> => groups[relay.name] = group
      /\ Others(acc.groups, relay.name, groups)
  <2>1. /\ Put(acc.groups, relay.name, group) \in TablesOf(names, GroupSet(plan))
        /\ DOMAIN Put(acc.groups, relay.name, group) = DOMAIN acc.groups \cup {relay.name}
        /\ Put(acc.groups, relay.name, group)[relay.name] = group
        /\ Others(acc.groups, relay.name, Put(acc.groups, relay.name, group))
    BY <1>1, <1>6, <1>7, PutTyped, Zenon
  <2> QED
    BY <1>1, <2>1 DEF Others
<1> HIDE DEF groups
<1>9. new \in Accs(plan)
  BY <1>2, <1>3, <1>8 DEF Accs, S, R, names
<1> HIDE DEF new
<1>10. new.registry = registry /\ new.groups = groups
  BY <1>2
<1>11. ASSUME GroupsMade(plan, k - 1, acc)
       PROVE  GroupsMade(plan, k, new)
  <2>1. k \in Nat \ {0} /\ \A i \in 1 .. k : i \in 1 .. k - 1 \/ i = k
    BY DEF PlanTyped, IsSeq
  <2>2. \A i \in 1 .. k - 1 : i \in DOMAIN plan.relays /\ i # k
    BY DEF PlanTyped, IsSeq
  <2>3. \A i \in 1 .. k - 1 : plan.relays[i].name # relay.name
    BY <2>2 DEF PlanTyped
  <2>4. relay.name \notin DOMAIN acc.groups
    BY <1>11, <2>3 DEF GroupsMade
  <2>5. GroupMade(plan, k, new)
    BY <1>3, <1>6, <1>8, <1>10, <2>4 DEF GroupMade, GroupOf, members, ups, n
  <2>6. ASSUME NEW i \in 1 .. k - 1
        PROVE  GroupMade(plan, i, new)
    <3> DEFINE before == Upstreams(plan.relays[i], plan.nodesOf)
               name == plan.relays[i].name
    <3>1. /\ Registered(before, Len(before), acc.registry.byContent)
          /\ name \in DOMAIN acc.groups <=> Members(acc.registry, before) # <<>>
          /\ name \in DOMAIN acc.groups => acc.groups[name].members = Members(acc.registry, before)
      BY <1>11 DEF GroupsMade, GroupMade, GroupOf
    <3>2. DOMAIN before = 1 .. Len(before)
      <4>1. before \in Seq(AllUps(plan))
        BY <2>2, PlanUpstreams
      <4> QED
        BY <4>1
    <3>3. name # relay.name
      BY <2>3
    <3> HIDE DEF before, name
    <3>4. Registered(before, Len(before), registry.byContent) /\ Members(registry, before) = Members(acc.registry, before)
      BY <1>3, <3>1, <3>2, MembersAreCalled
    <3>5. /\ name \in DOMAIN groups <=> name \in DOMAIN acc.groups
          /\ name \in DOMAIN acc.groups => groups[name] = acc.groups[name]
      BY <1>8, <3>3 DEF Others
    <3>6. GroupOf(before, name, new)
      <4>1. name \in DOMAIN new.groups <=> Members(new.registry, before) # <<>>
        BY <1>10, <3>1, <3>4, <3>5
      <4>2. ASSUME name \in DOMAIN new.groups
            PROVE  new.groups[name].members = Members(new.registry, before)
        <5>1. new.groups[name] = acc.groups[name] /\ name \in DOMAIN acc.groups
          BY <1>10, <3>5, <4>2
        <5> QED
          BY <1>10, <3>1, <3>4, <5>1
      <4> QED
        BY <1>10, <3>4, <4>1, <4>2 DEF GroupOf
    <3> QED
      BY <3>6 DEF GroupMade, before, name
  <2>7. DOMAIN groups \subseteq { plan.relays[i].name : i \in 1 .. k }
    <3>1. 1 .. k - 1 \subseteq 1 .. k /\ k \in 1 .. k
      BY <2>1
    <3>2. \A x \in DOMAIN groups : x \in DOMAIN acc.groups \/ x = relay.name
      BY <1>8
    <3> QED
      BY <1>11, <3>1, <3>2 DEF GroupsMade
  <2> QED
    BY <1>10, <2>1, <2>5, <2>6, <2>7 DEF GroupsMade
<1> QED
  BY <1>9, <1>11 DEF new

\* All relays.
Loaded(plan) ==
  FoldAddRelay(plan.nodesOf, [registry |-> NewRegistry(plan.relays), groups |-> <<>>], plan.relays)

LEMMA AllRelays ==
  ASSUME NEW plan, PlanTyped(plan)
  PROVE  /\ Loaded(plan) \in Accs(plan) /\ GroupsMade(plan, Len(plan.relays), Loaded(plan))
         /\ Render(plan.relays, plan.routes, plan.nodesOf).proxies = Loaded(plan).registry.proxies
         /\ Render(plan.relays, plan.routes, plan.nodesOf).groups = Loaded(plan).groups
<1> DEFINE n == Len(plan.relays)
           T == Accs(plan)
           S == AllUps(plan)
           R == Reserved(plan)
           first == NewRegistry(plan.relays)
           base == [registry |-> first, groups |-> <<>>]
<1>1. n \in Nat /\ DOMAIN plan.relays = 1 .. n
  BY DEF PlanTyped, IsSeq
<1>2. base \in T
  <2>1. \A K, V : <<>> \in TablesOf(K, V)
    <3> SUFFICES ASSUME NEW K, NEW V PROVE <<>> \in TablesOf(K, V)
      OBVIOUS
    <3>1. <<>> \in [{} -> V] /\ {} \in SUBSET K
      OBVIOUS
    <3> QED
      BY <3>1 DEF TablesOf
  <2>2. first = [used |-> R, byContent |-> <<>>, proxies |-> <<>>]
    BY DEF NewRegistry, Reserved
  <2>3. first \in [used : SUBSET UpNames(S, R), byContent : Tables(S, R), proxies : Seq(Proxies(S, R))]
    BY <2>1, <2>2 DEF UpNames, Tables
  <2>4. NamesOf(<<>>) = {} /\ Distinct(<<>>) /\ KeysHaveProxies(<<>>, <<>>)
    BY DEF NamesOf, Distinct, KeysHaveProxies
  <2>5. IsFiniteSet(R)
    BY ReservedAreFinite
  <2>6. first.used = R /\ first.byContent = <<>> /\ first.proxies = <<>>
    BY <2>2
  <2> HIDE DEF first, S, R
  <2>7. ProxiesNamed(R, first) /\ KeysHaveProxies(first.byContent, first.proxies)
    BY <2>4, <2>6 DEF ProxiesNamed
  <2>8. first \in Registries(S, R)
    BY <2>3, <2>5, <2>6, <2>7 DEF Registries
  <2> QED
    BY <2>1, <2>8 DEF Accs, S, R
<1>3. \A t \in T : \A k \in 1 .. n : AddRelay(plan.nodesOf, t, plan.relays[k]) \in T
  BY <1>1, OneRelay
<1>4. PICK r : RunAddRelay(plan.nodesOf, T, base, n, plan.relays, r)
  <2> HIDE DEF T, n, base
  <2> QED
    BY <1>1, <1>2, <1>3, AddRelayRuns
<1> DEFINE I == { k \in 0 .. n : GroupsMade(plan, k, r[k]) }
<1>5. 0 \in I
  <2>1. r[0].groups = <<>>
    BY <1>4 DEF RunAddRelay
  <2>2. GroupsMade(plan, 0, r[0])
    BY <2>1 DEF GroupsMade
  <2> QED
    BY <1>1, <2>2
<1>6. ASSUME NEW k \in 1 .. n, k - 1 \in I
      PROVE  k \in I
  <2>1. k \in 0 .. n /\ k - 1 \in 0 .. n /\ k \in DOMAIN plan.relays
    BY <1>1
  <2>2. r[k - 1] \in T /\ r[k] = AddRelay(plan.nodesOf, r[k - 1], plan.relays[k]) /\ GroupsMade(plan, k - 1, r[k - 1])
    BY <1>4, <1>6, <2>1 DEF RunAddRelay
  <2>3. GroupsMade(plan, k, r[k])
    BY <2>1, <2>2, OneRelay
  <2> QED
    BY <2>1, <2>3
<1>7. n \in I
  <2> HIDE DEF I, n
  <2> QED
    BY <1>1, <1>5, <1>6, BoundedInduction
<1>8. Loaded(plan) = r[n] /\ r[n] \in T
  BY <1>1, <1>4 DEF Loaded, RunAddRelay
<1>9. /\ Render(plan.relays, plan.routes, plan.nodesOf).proxies = Loaded(plan).registry.proxies
      /\ Render(plan.relays, plan.routes, plan.nodesOf).groups = Loaded(plan).groups
  BY DEF Render, Loaded, FoldAddRelay
<1> QED
  BY <1>7, <1>8, <1>9

-----------------------------------------------------------------------------
(* Store.collectLocked *)

\* Where the key of a node is met for the first time.
FirstKeys(all, k) == { p \in 1 .. k : \A q \in 1 .. p - 1 : KeyOf[all[q]] # KeyOf[all[p]] }

\* The keys in list are those of the first k nodes.
SameKeys(list, all, k) ==
  \A x : (\E i \in 1 .. Len(list) : KeyOf[list[i]] = x) <=> \E q \in 1 .. k : KeyOf[all[q]] = x

LEMMA MergedInOrder ==
  ASSUME NEW S, NEW all \in Seq(S)
  PROVE  LET list == FoldAddUnseen(<<>>, all)
         IN /\ list \in Seq(S)
            /\ InOrder(all, FirstKeys(all, Len(all)), list)
            /\ SameKeys(list, all, Len(all))
<1> DEFINE n == Len(all)
           T == Seq(S)
<1>1. n \in Nat /\ DOMAIN all = 1 .. n /\ <<>> \in T /\ \A k \in 1 .. n : all[k] \in S
  OBVIOUS
<1>2. \A t \in T : \A k \in 1 .. n : AddUnseen(t, all[k]) \in T
  BY <1>1 DEF AddUnseen
<1>3. PICK r : RunAddUnseen(T, <<>>, n, all, r)
  <2> HIDE DEF T, n
  <2> QED
    BY <1>1, <1>2, AddUnseenRuns
<1> DEFINE I == { k \in 0 .. n : InOrder(all, FirstKeys(all, k), r[k]) /\ SameKeys(r[k], all, k) }
<1>4. 0 \in I
  <2>1. FirstKeys(all, 0) = {} /\ r[0] = <<>>
    BY <1>3 DEF FirstKeys, RunAddUnseen
  <2>2. InOrder(all, {}, <<>>)
    BY FS_EmptySet DEF InOrder
  <2>3. InOrder(all, FirstKeys(all, 0), r[0])
    BY <2>1, <2>2
  <2>4. SameKeys(r[0], all, 0)
    BY <2>1 DEF SameKeys
  <2> QED
    BY <1>1, <2>3, <2>4
<1>5. ASSUME NEW k \in 1 .. n, k - 1 \in I
      PROVE  k \in I
  <2> DEFINE before == FirstKeys(all, k - 1)
             old == r[k - 1]
             x == all[k]
  <2>1. k \in 0 .. n /\ k - 1 \in 0 .. n /\ k \in Nat \ {0}
    BY <1>1
  <2>2. old \in T /\ r[k] = AddUnseen(old, x)
    BY <1>3, <2>1 DEF RunAddUnseen
  <2>3. before \in SUBSET (1 .. k - 1) /\ InOrder(all, before, old) /\ SameKeys(old, all, k - 1)
    BY <1>5 DEF FirstKeys
  <2>4. \A p \in 1 .. k : p \in 1 .. k - 1 \/ p = k
    OBVIOUS
  <2>5. 1 .. k - 1 \subseteq 1 .. k /\ k \in 1 .. k
    OBVIOUS
  <2>6. DOMAIN old = 1 .. Len(old)
    BY <2>2
  <2>7. CASE ~ \E i \in DOMAIN old : KeyOf[old[i]] = KeyOf[x]
    <3>1. \A q \in 1 .. k - 1 : KeyOf[all[q]] # KeyOf[x]
      BY <2>3, <2>6, <2>7, Zenon DEF SameKeys
    <3>2. FirstKeys(all, k) = before \cup {k}
      BY <2>4, <2>5, <3>1, Zenon DEF FirstKeys
    <3>3. r[k] = Append(old, x)
      BY <2>2, <2>7 DEF AddUnseen
    <3>4. InOrder(all, before \cup {k}, Append(old, x))
      <4>1. x \in S
        BY <1>1
      <4> HIDE DEF before, n
      <4> QED
        BY <2>1, <2>2, <2>3, <4>1, OneMore
    <3>5. SameKeys(Append(old, x), all, k)
      <4>1. /\ Len(Append(old, x)) = Len(old) + 1 /\ Append(old, x)[Len(old) + 1] = x /\ Len(old) \in Nat
            /\ \A i \in 1 .. Len(old) : Append(old, x)[i] = old[i]
        BY <2>2
      <4>2. /\ \A i \in 1 .. Len(old) + 1 : i \in 1 .. Len(old) \/ i = Len(old) + 1
            /\ Len(old) + 1 \in 1 .. Len(old) + 1
            /\ \A i \in 1 .. Len(old) : i \in 1 .. Len(old) + 1
        BY <4>1
      <4>3. \A y : (\E i \in 1 .. Len(Append(old, x)) : KeyOf[Append(old, x)[i]] = y)
                   <=> (\E i \in 1 .. Len(old) : KeyOf[old[i]] = y) \/ KeyOf[x] = y
        BY <4>1, <4>2, Zenon
      <4> QED
        BY <2>3, <2>4, <2>5, <4>3, Zenon DEF SameKeys
    <3> QED
      BY <2>1, <3>2, <3>3, <3>4, <3>5
  <2>8. CASE \E i \in DOMAIN old : KeyOf[old[i]] = KeyOf[x]
    <3>1. r[k] = old
      BY <2>2, <2>8 DEF AddUnseen
    <3>2. \E q \in 1 .. k - 1 : KeyOf[all[q]] = KeyOf[x]
      BY <2>3, <2>6, <2>8, Zenon DEF SameKeys
    <3>3. FirstKeys(all, k) = before
      BY <2>4, <2>5, <3>2, Zenon DEF FirstKeys
    <3>4. SameKeys(old, all, k)
      BY <2>3, <2>4, <2>5, <3>2, Zenon DEF SameKeys
    <3> QED
      BY <2>1, <2>3, <3>1, <3>3, <3>4
  <2> QED
    BY <2>7, <2>8
<1>6. n \in I
  <2> HIDE DEF I, n
  <2> QED
    BY <1>1, <1>4, <1>5, BoundedInduction
<1>7. FoldAddUnseen(<<>>, all) = r[n] /\ r[n] \in T
  BY <1>1, <1>3 DEF RunAddUnseen
<1> QED
  BY <1>6, <1>7

\* Of two places the one with the higher rank is the later one.
LEMMA RanksRise ==
  ASSUME NEW n \in Nat, NEW places \in SUBSET (1 .. n), NEW p \in places, NEW q \in places,
         Rank(places, p) < Rank(places, q)
  PROVE  p < q
<1> SUFFICES ASSUME q <= p PROVE FALSE
  OBVIOUS
<1>1. IsFiniteSet(places)
  <2>1. IsFiniteSet(1 .. n)
    BY FS_Interval
  <2> QED
    BY <2>1, FS_Subset
<1>2. { x \in places : x <= q } \subseteq { x \in places : x <= p }
  <2>1. \A x \in places : x \in Int
    OBVIOUS
  <2>2. \A x \in places : x <= q => x <= p
    BY <2>1
  <2> QED
    BY <2>2
<1>3. IsFiniteSet({ x \in places : x <= p })
  BY <1>1, FS_Subset
<1> DEFINE P == { x \in places : x <= p }
           Q == { x \in places : x <= q }
<1> HIDE DEF P, Q
<1>4. IsFiniteSet(P) /\ Q \in SUBSET P /\ Rank(places, p) = Cardinality(P) /\ Rank(places, q) = Cardinality(Q)
  BY <1>2, <1>3 DEF Rank, P, Q
<1>5. IsFiniteSet(Q) /\ Cardinality(Q) <= Cardinality(P)
  BY <1>4, FS_Subset
<1>6. Cardinality(P) \in Nat /\ Cardinality(Q) \in Nat
  BY <1>4, <1>5, FS_CardinalityType
<1> QED
  BY <1>4, <1>5, <1>6

\* All nodes of the subs to merge, one sub after the other.
AllNodes(m) == FlattenSeq([i \in DOMAIN m.order |-> m.lists[m.order[i]]])

LEMMA AllNodesAreSeq ==
  ASSUME NEW m \in Merges
  PROVE  \E S : AllNodes(m) \in Seq(S)
<1> DEFINE n == Len(m.order)
           List(i) == m.lists[m.order[i]]
           Nodes(i) == { List(i)[j] : j \in DOMAIN List(i) }
           S == UNION { Nodes(i) : i \in DOMAIN m.order }
           lists == [i \in DOMAIN m.order |-> List(i)]
<1>1. n \in Nat /\ DOMAIN m.order = 1 .. n /\ \A i \in 1 .. n : IsSeq(List(i))
  BY NodesAssumption DEF IsSeq, NodesTyped
<1>2. ASSUME NEW i \in 1 .. n
      PROVE  List(i) \in Seq(S)
  <2>1. Len(List(i)) \in Nat /\ List(i) = [j \in 1 .. Len(List(i)) |-> List(i)[j]]
    BY <1>1 DEF IsSeq
  <2>2. DOMAIN List(i) = 1 .. Len(List(i))
    BY <2>1
  <2>3. i \in DOMAIN m.order
    BY <1>1
  <2>4. \A j \in DOMAIN List(i) : List(i)[j] \in S
    <3>1. \A j \in DOMAIN List(i) : List(i)[j] \in Nodes(i)
      OBVIOUS
    <3> HIDE DEF List, Nodes
    <3> QED
      BY <2>3, <3>1
  <2> HIDE DEF List, S
  <2> QED
    BY <2>1, <2>2, <2>4
<1> HIDE DEF List, S, n
<1>3. DOMAIN lists = 1 .. n /\ Len(lists) = n /\ (n = 0 => lists = <<>>) /\ \A i \in 1 .. n : lists[i] \in Seq(S)
  BY <1>1, <1>2
<1>4. AllNodes(m) = FlattenSeq(lists)
  BY DEF AllNodes, List
<1> HIDE DEF lists
<1>5. FlattenSeq(lists) \in Seq(S)
  BY <1>1, <1>3, FlatIsSeq
<1> QED
  BY <1>4, <1>5

-----------------------------------------------------------------------------
(* Fields of maps and of links *)

\* What a field has in two tables joined, and in one without its empty fields.
LEMMA GetBoth ==
  ASSUME NEW f, NEW g, NEW x
  PROVE  Get(Both(f, g), x) = IF x \in DOMAIN f THEN f[x] ELSE Get(g, x)
BY DEF Get, Both

LEMMA GetNonEmpty ==
  ASSUME NEW f
  PROVE  \A x : Get(NonEmpty(f), x) = Get(f, x)
BY DEF Get, NonEmpty

LEMMA SameFields ==
  ASSUME NEW f, NEW g, \A x : Get(f, x) = Get(g, x)
  PROVE  NonEmpty(f) = NonEmpty(g)
<1> DEFINE D(h) == { x \in DOMAIN h : h[x] # "" }
<1>1. \A x : x \in D(f) <=> x \in D(g)
  BY DEF Get
<1>2. D(f) = D(g) /\ \A x \in D(f) : f[x] = g[x]
  BY <1>1 DEF Get
<1> QED
  BY <1>2 DEF NonEmpty

-----------------------------------------------------------------------------
(* The transport of vless and trojan *)

OnlyIf(condition, value) == IF condition THEN value ELSE ""

TransportNames == {"network", "wsPath", "wsHost", "grpcService", "h2Path", "h2Host"}

\* A transport has these fields and no others.
FieldsAre(t, network, wsPath, wsHost, grpcService, h2Path, h2Host) ==
  /\ Get(t, "network") = network
  /\ Get(t, "wsPath") = wsPath
  /\ Get(t, "wsHost") = wsHost
  /\ Get(t, "grpcService") = grpcService
  /\ Get(t, "h2Path") = h2Path
  /\ Get(t, "h2Host") = h2Host
  /\ \A x : x \notin TransportNames => Get(t, x) = ""

IsTransport(t, type, path, host, service) ==
  FieldsAre(t,
            IF type \in {"h2", "http"} THEN "h2" ELSE OnlyIf(type \in {"ws", "grpc"}, type),
            OnlyIf(type = "ws", FirstOf(path, "/")),
            OnlyIf(type = "ws", host),
            OnlyIf(type = "grpc", FirstOf(service, path)),
            OnlyIf(type \in {"h2", "http"}, path),
            OnlyIf(type \in {"h2", "http"}, host))

LEMMA WsFields ==
  ASSUME NEW p, NEW h
  PROVE  FieldsAre([network |-> "ws", wsPath |-> p, wsHost |-> h], "ws", p, h, "", "", "")
BY DEF Get, TransportNames, FieldsAre

LEMMA GrpcFields ==
  ASSUME NEW s
  PROVE  FieldsAre([network |-> "grpc", grpcService |-> s], "grpc", "", "", s, "", "")
BY DEF Get, TransportNames, FieldsAre

LEMMA H2Fields ==
  ASSUME NEW p, NEW h
  PROVE  FieldsAre([network |-> "h2", h2Path |-> p, h2Host |-> h], "h2", "", "", "", p, h)
BY DEF Get, TransportNames, FieldsAre

LEMMA NoFields == FieldsAre(<<>>, "", "", "", "", "", "")
BY DEF Get, TransportNames, FieldsAre

\* What wsOpts and its neighbours make.
IsMade(t, type, path, host, service) ==
  /\ type = "ws" => t = [network |-> "ws", wsPath |-> FirstOf(path, "/"), wsHost |-> host]
  /\ type = "grpc" => t = [network |-> "grpc", grpcService |-> FirstOf(service, path)]
  /\ type \in {"h2", "http"} => t = [network |-> "h2", h2Path |-> path, h2Host |-> host]
  /\ type \notin {"ws", "grpc", "h2", "http"} => t = <<>>

LEMMA TransportOfFields ==
  ASSUME NEW t, NEW type, NEW path, NEW host, NEW service, IsMade(t, type, path, host, service)
  PROVE  IsTransport(t, type, path, host, service)
<1>1. CASE type = "ws"
  <2>1. FieldsAre(t, "ws", FirstOf(path, "/"), host, "", "", "")
    BY <1>1, WsFields DEF IsMade
  <2> QED
    BY <1>1, <2>1 DEF IsTransport, OnlyIf
<1>2. CASE type = "grpc"
  <2>1. FieldsAre(t, "grpc", "", "", FirstOf(service, path), "", "")
    BY <1>2, GrpcFields DEF IsMade
  <2> QED
    BY <1>2, <2>1 DEF IsTransport, OnlyIf
<1>3. CASE type \in {"h2", "http"}
  <2>1. FieldsAre(t, "h2", "", "", "", path, host)
    BY <1>3, H2Fields DEF IsMade
  <2> QED
    BY <1>3, <2>1 DEF IsTransport, OnlyIf
<1>4. CASE type \notin {"ws", "grpc", "h2", "http"}
  <2>1. FieldsAre(t, "", "", "", "", "", "")
    BY <1>4, NoFields DEF IsMade
  <2> QED
    BY <1>4, <2>1 DEF IsTransport, OnlyIf
<1> QED
  BY <1>1, <1>2, <1>3, <1>4

LEMMA TransportParsed ==
  ASSUME NEW q
  PROVE  IsTransport(Transport(q), Get(q, "type"), Get(q, "path"), Get(q, "host"), Get(q, "serviceName"))
<1> DEFINE t == Transport(q)
           type == Get(q, "type")
           path == Get(q, "path")
           host == Get(q, "host")
           service == Get(q, "serviceName")
<1>1. /\ type = "ws" => t = WsOpts(q)
      /\ type = "grpc" => t = [network |-> "grpc", grpcService |-> FirstOf(service, path)]
      /\ type \in {"h2", "http"} => t = H2Opts(q)
      /\ type \notin {"ws", "grpc", "h2", "http"} => t = <<>>
  BY DEF Transport
<1>2. /\ WsOpts(q) = [network |-> "ws", wsPath |-> FirstOf(path, "/"), wsHost |-> host]
      /\ H2Opts(q) = [network |-> "h2", h2Path |-> path, h2Host |-> host]
  BY DEF WsOpts, H2Opts
<1> HIDE DEF t, type, path, host, service
<1>3. IsTransport(t, type, path, host, service)
  BY <1>1, <1>2, TransportOfFields DEF IsMade
<1> QED
  BY <1>3 DEF t, type, path, host, service

LEMMA VmessTransportParsed ==
  ASSUME NEW q
  PROVE  IsTransport(VmessTransport(q), Get(q, "net"), Get(q, "path"), Get(q, "host"), "")
<1> DEFINE t == VmessTransport(q)
           type == Get(q, "net")
           path == Get(q, "path")
           host == Get(q, "host")
<1>1. /\ type = "ws" => t = WsOpts(q)
      /\ type = "grpc" => t = [network |-> "grpc", grpcService |-> path]
      /\ type \in {"h2", "http"} => t = H2Opts(q)
      /\ type \notin {"ws", "grpc", "h2", "http"} => t = <<>>
  BY DEF VmessTransport
<1>2. /\ WsOpts(q) = [network |-> "ws", wsPath |-> FirstOf(path, "/"), wsHost |-> host]
      /\ H2Opts(q) = [network |-> "h2", h2Path |-> path, h2Host |-> host]
      /\ FirstOf("", path) = path
  BY DEF WsOpts, H2Opts, FirstOf
<1> HIDE DEF t, type, path, host
<1>3. IsTransport(t, type, path, host, "")
  BY <1>1, <1>2, TransportOfFields DEF IsMade
<1> QED
  BY <1>3 DEF t, type, path, host

\* What transportQuery writes of the options o.
IsWritten(type, path, host, service, o) ==
  /\ Get(o, "network") = "ws" => type = "ws" /\ path = Get(o, "wsPath") /\ host = Get(o, "wsHost")
  /\ Get(o, "network") = "grpc" => type = "grpc" /\ FirstOf(service, path) = Get(o, "grpcService")
  /\ Get(o, "network") = "h2" => type \in {"h2", "http"} /\ path = Get(o, "h2Path") /\ host = Get(o, "h2Host")
  /\ Get(o, "network") \notin {"ws", "grpc", "h2"} => type = "tcp"

Alike(f, g) == \A x : Get(f, x) = Get(g, x)

\* A transport that is written and read again.
LEMMA TransportAgain ==
  ASSUME NEW t, NEW type, NEW path, NEW host, NEW service, IsTransport(t, type, path, host, service),
         NEW u, NEW type2, NEW path2, NEW host2, NEW service2, IsTransport(u, type2, path2, host2, service2),
         NEW o, \A x \in TransportNames : Get(o, x) = Get(t, x),
         IsWritten(type2, path2, host2, service2, o)
  PROVE  Alike(u, t)
<1>0. /\ Get(o, "network") = Get(t, "network")
      /\ Get(o, "wsPath") = Get(t, "wsPath") /\ Get(o, "wsHost") = Get(t, "wsHost")
      /\ Get(o, "grpcService") = Get(t, "grpcService")
      /\ Get(o, "h2Path") = Get(t, "h2Path") /\ Get(o, "h2Host") = Get(t, "h2Host")
  BY DEF TransportNames
<1>1. FieldsAre(u, Get(t, "network"), Get(t, "wsPath"), Get(t, "wsHost"), Get(t, "grpcService"),
                Get(t, "h2Path"), Get(t, "h2Host"))
  <2>1. CASE type = "ws"
    <3>1. FieldsAre(t, "ws", FirstOf(path, "/"), host, "", "", "")
      BY <2>1 DEF IsTransport, OnlyIf
    <3>2. type2 = "ws" /\ path2 = FirstOf(path, "/") /\ host2 = host
      BY <1>0, <3>1 DEF FieldsAre, IsWritten
    <3>3. FirstOf(FirstOf(path, "/"), "/") = FirstOf(path, "/")
      BY DEF FirstOf
    <3>4. FieldsAre(u, "ws", FirstOf(path, "/"), host, "", "", "")
      BY <3>2, <3>3 DEF IsTransport, OnlyIf
    <3> QED
      BY <3>1, <3>4 DEF FieldsAre
  <2>2. CASE type = "grpc"
    <3>1. FieldsAre(t, "grpc", "", "", FirstOf(service, path), "", "")
      BY <2>2 DEF IsTransport, OnlyIf
    <3>2. type2 = "grpc" /\ FirstOf(service2, path2) = FirstOf(service, path)
      BY <1>0, <3>1 DEF FieldsAre, IsWritten
    <3>3. FieldsAre(u, "grpc", "", "", FirstOf(service, path), "", "")
      BY <3>2 DEF IsTransport, OnlyIf
    <3> QED
      BY <3>1, <3>3 DEF FieldsAre
  <2>3. CASE type \in {"h2", "http"}
    <3>1. FieldsAre(t, "h2", "", "", "", path, host)
      BY <2>3 DEF IsTransport, OnlyIf
    <3>2. type2 \in {"h2", "http"} /\ path2 = path /\ host2 = host
      BY <1>0, <3>1 DEF FieldsAre, IsWritten
    <3>3. FieldsAre(u, "h2", "", "", "", path, host)
      BY <3>2 DEF IsTransport, OnlyIf
    <3> QED
      BY <3>1, <3>3 DEF FieldsAre
  <2>4. CASE type \notin {"ws", "grpc", "h2", "http"}
    <3>1. FieldsAre(t, "", "", "", "", "", "")
      BY <2>4 DEF IsTransport, OnlyIf
    <3>2. type2 = "tcp"
      BY <1>0, <3>1 DEF FieldsAre, IsWritten
    <3>3. FieldsAre(u, "", "", "", "", "", "")
      BY <3>2 DEF IsTransport, OnlyIf
    <3> QED
      BY <3>1, <3>3 DEF FieldsAre
  <2> QED
    BY <2>1, <2>2, <2>3, <2>4
<1>2. \A x : x \notin TransportNames => Get(t, x) = ""
  BY DEF IsTransport, FieldsAre
<1>3. /\ Get(u, "network") = Get(t, "network")
      /\ Get(u, "wsPath") = Get(t, "wsPath") /\ Get(u, "wsHost") = Get(t, "wsHost")
      /\ Get(u, "grpcService") = Get(t, "grpcService")
      /\ Get(u, "h2Path") = Get(t, "h2Path") /\ Get(u, "h2Host") = Get(t, "h2Host")
      /\ \A x : x \notin TransportNames => Get(u, x) = Get(t, x)
  BY <1>1, <1>2 DEF FieldsAre
<1>4. \A x \in TransportNames : Get(u, x) = Get(t, x)
  BY <1>3, Zenon DEF TransportNames
<1> QED
  BY <1>3, <1>4 DEF Alike

-----------------------------------------------------------------------------
(* vless *)

VlessBase == {"uuid", "tls", "servername", "flow", "fingerprint", "publicKey", "shortId", "skipVerify", "alpn"}

VlessIs(o, uuid, tls, servername, flow, fingerprint, publicKey, shortId, skipVerify, alpn, t) ==
  /\ Get(o, "uuid") = uuid
  /\ Get(o, "tls") = tls
  /\ Get(o, "servername") = servername
  /\ Get(o, "flow") = flow
  /\ Get(o, "fingerprint") = fingerprint
  /\ Get(o, "publicKey") = publicKey
  /\ Get(o, "shortId") = shortId
  /\ Get(o, "skipVerify") = skipVerify
  /\ Get(o, "alpn") = alpn
  /\ \A x : x \notin VlessBase => Get(o, x) = Get(t, x)

LEMMA VlessJoined ==
  ASSUME NEW a, NEW b, NEW c, NEW d, NEW e, NEW f, NEW g, NEW h, NEW i, NEW t
  PROVE  VlessIs(Both([uuid |-> a, tls |-> b, servername |-> c, flow |-> d, fingerprint |-> e, publicKey |-> f,
                       shortId |-> g, skipVerify |-> h, alpn |-> i], t), a, b, c, d, e, f, g, h, i, t)
BY DEF VlessIs, VlessBase, Get, Both

LEMMA VlessParsed ==
  ASSUME NEW l
  PROVE  LET q == l.params
         IN VlessIs(ParseVless(l), l.user, Flag(Get(q, "security") \in {"tls", "reality"}), Get(q, "sni"),
                    Get(q, "flow"), Get(q, "fp"), Get(q, "pbk"), IF Get(q, "pbk") = "" THEN "" ELSE Get(q, "sid"),
                    Insecure(q, "allowInsecure"), Get(q, "alpn"), Transport(q))
BY VlessJoined DEF ParseVless

QueryNames == {"type", "path", "host", "serviceName"}

QueryIs(q, type, path, host, service) ==
  /\ Get(q, "type") = type
  /\ Get(q, "path") = path
  /\ Get(q, "host") = host
  /\ Get(q, "serviceName") = service
  /\ DOMAIN q \subseteq QueryNames

LEMMA QueryFields ==
  ASSUME NEW a, NEW b, NEW t
  PROVE  /\ QueryIs([type |-> t, path |-> a, host |-> b], t, a, b, "")
         /\ QueryIs([type |-> t, serviceName |-> a], t, "", "", a)
         /\ QueryIs([type |-> t], t, "", "", "")
BY DEF Get, QueryIs, QueryNames

LEMMA TransportWritten ==
  ASSUME NEW o
  PROVE  LET q == TransportParams(o)
         IN /\ IsWritten(Get(q, "type"), Get(q, "path"), Get(q, "host"), Get(q, "serviceName"), o)
            /\ DOMAIN q \subseteq QueryNames
<1> DEFINE q == TransportParams(o)
           network == Get(o, "network")
<1>1. CASE network = "ws"
  <2>1. q = [type |-> "ws", path |-> Get(o, "wsPath"), host |-> Get(o, "wsHost")]
    BY <1>1 DEF TransportParams
  <2>2. QueryIs(q, "ws", Get(o, "wsPath"), Get(o, "wsHost"), "")
    BY <2>1, QueryFields
  <2> QED
    BY <1>1, <2>2 DEF QueryIs, IsWritten
<1>2. CASE network = "grpc"
  <2>1. q = [type |-> "grpc", serviceName |-> Get(o, "grpcService")]
    BY <1>2 DEF TransportParams
  <2>2. QueryIs(q, "grpc", "", "", Get(o, "grpcService"))
    BY <2>1, QueryFields
  <2> QED
    BY <1>2, <2>2 DEF QueryIs, IsWritten, FirstOf
<1>3. CASE network = "h2"
  <2>1. q = [type |-> "http", path |-> Get(o, "h2Path"), host |-> Get(o, "h2Host")]
    BY <1>3 DEF TransportParams
  <2>2. QueryIs(q, "http", Get(o, "h2Path"), Get(o, "h2Host"), "")
    BY <2>1, QueryFields
  <2> QED
    BY <1>3, <2>2 DEF QueryIs, IsWritten
<1>4. CASE network \notin {"ws", "grpc", "h2"}
  <2>1. q = [type |-> "tcp"]
    BY <1>4 DEF TransportParams
  <2>2. QueryIs(q, "tcp", "", "", "")
    BY <2>1, QueryFields
  <2> QED
    BY <1>4, <2>2 DEF QueryIs, IsWritten
<1> QED
  BY <1>1, <1>2, <1>3, <1>4

SecurityNames == {"security", "pbk", "sid"}

VlessQuery(q, sni, flow, fp, insecure, alpn, s, t) ==
  /\ Get(q, "sni") = sni
  /\ Get(q, "flow") = flow
  /\ Get(q, "fp") = fp
  /\ Get(q, "allowInsecure") = insecure
  /\ Get(q, "alpn") = alpn
  /\ \A x \in QueryNames : Get(q, x) = Get(t, x)
  /\ \A x \in SecurityNames : Get(q, x) = Get(s, x)

LEMMA VlessQueryJoined ==
  ASSUME NEW a, NEW b, NEW c, NEW d, NEW e, NEW s, NEW t,
         DOMAIN s \subseteq SecurityNames, DOMAIN t \subseteq QueryNames
  PROVE  VlessQuery(Both([sni |-> a, flow |-> b, fp |-> c, allowInsecure |-> d, alpn |-> e], Both(s, t)),
                    a, b, c, d, e, s, t)
BY DEF Get, Both, VlessQuery, QueryNames, SecurityNames

SecurityIs(s, security, pbk, sid) ==
  /\ Get(s, "security") = security
  /\ Get(s, "pbk") = pbk
  /\ Get(s, "sid") = sid
  /\ DOMAIN s \subseteq SecurityNames

LEMMA SecurityFields ==
  ASSUME NEW a, NEW b, NEW c
  PROVE  /\ SecurityIs([security |-> a, pbk |-> b, sid |-> c], a, b, c)
         /\ SecurityIs([security |-> a], a, "", "")
BY DEF Get, SecurityIs, SecurityNames

LEMMA SecurityWritten ==
  ASSUME NEW o
  PROVE  LET plain == IF Get(o, "tls") # "" THEN "tls" ELSE "none"
         IN IF "publicKey" \in DOMAIN o
            THEN SecurityIs(Security(o), "reality", Get(o, "publicKey"), Get(o, "shortId"))
            ELSE SecurityIs(Security(o), plain, "", "")
BY SecurityFields DEF Security

\* What vlessQuery writes of the options o.
VlessWritten(q, o) ==
  /\ VlessQuery(q, Get(o, "servername"), Get(o, "flow"), Get(o, "fingerprint"),
                IF Get(o, "skipVerify") # "" THEN "1" ELSE "", Get(o, "alpn"), Security(o), TransportParams(o))
  /\ IsWritten(Get(q, "type"), Get(q, "path"), Get(q, "host"), Get(q, "serviceName"), o)

LEMMA VlessParamsWritten ==
  ASSUME NEW m, NEW q, \A x : Get(q, x) = Get(VlessParams(m), x)
  PROVE  VlessWritten(q, m.opts)
<1> DEFINE o == m.opts
           s == Security(o)
           t == TransportParams(o)
           p == VlessParams(m)
<1>1. /\ IsWritten(Get(t, "type"), Get(t, "path"), Get(t, "host"), Get(t, "serviceName"), o)
      /\ DOMAIN t \subseteq QueryNames
  BY TransportWritten
<1>2. DOMAIN s \subseteq SecurityNames
  BY SecurityWritten DEF SecurityIs
<1>3. p = Both([sni |-> Get(o, "servername"), flow |-> Get(o, "flow"), fp |-> Get(o, "fingerprint"),
                allowInsecure |-> IF Get(o, "skipVerify") # "" THEN "1" ELSE "", alpn |-> Get(o, "alpn")],
               Both(s, t))
  BY DEF VlessParams
<1>4. VlessQuery(p, Get(o, "servername"), Get(o, "flow"), Get(o, "fingerprint"),
                IF Get(o, "skipVerify") # "" THEN "1" ELSE "", Get(o, "alpn"), s, t)
  <2> HIDE DEF s, t, p
  <2> QED
    BY <1>1, <1>2, <1>3, VlessQueryJoined
<1>5. \A x \in QueryNames : Get(q, x) = Get(t, x)
  BY <1>4 DEF VlessQuery
<1> HIDE DEF s, t, p
<1>6. IsWritten(Get(q, "type"), Get(q, "path"), Get(q, "host"), Get(q, "serviceName"), o)
  BY <1>1, <1>5 DEF QueryNames
<1>7. VlessQuery(q, Get(o, "servername"), Get(o, "flow"), Get(o, "fingerprint"),
                IF Get(o, "skipVerify") # "" THEN "1" ELSE "", Get(o, "alpn"), s, t)
  BY <1>4 DEF VlessQuery, p
<1> QED
  BY <1>6, <1>7 DEF VlessWritten, s, t

\* f is o, with tls if o has the options of reality.
AlikeWithTLS(f, o) ==
  \A x : Get(f, x) = IF x = "tls" /\ "publicKey" \in DOMAIN o THEN "true" ELSE Get(o, x)

\* vless, parsed, written and parsed again.
LEMMA VlessAgain ==
  ASSUME NEW l, NEW m, NEW k,
         Alike(m.opts, ParseVless(l)),
         "publicKey" \in DOMAIN m.opts <=> Get(m.opts, "publicKey") # "",
         Alike(k.params, VlessParams(m)),
         k.user = Get(m.opts, "uuid")
  PROVE  AlikeWithTLS(ParseVless(k), m.opts)
<1> DEFINE o == m.opts
           q == l.params
           r == k.params
           old == ParseVless(l)
           new == ParseVless(k)
<1>1. VlessWritten(r, o)
  BY VlessParamsWritten DEF Alike
<1>2. /\ VlessIs(old, l.user, Flag(Get(q, "security") \in {"tls", "reality"}), Get(q, "sni"),
                 Get(q, "flow"), Get(q, "fp"), Get(q, "pbk"), IF Get(q, "pbk") = "" THEN "" ELSE Get(q, "sid"),
                 Insecure(q, "allowInsecure"), Get(q, "alpn"), Transport(q))
      /\ VlessIs(new, k.user, Flag(Get(r, "security") \in {"tls", "reality"}), Get(r, "sni"),
                 Get(r, "flow"), Get(r, "fp"), Get(r, "pbk"), IF Get(r, "pbk") = "" THEN "" ELSE Get(r, "sid"),
                 Insecure(r, "allowInsecure"), Get(r, "alpn"), Transport(r))
  BY VlessParsed
<1>3. /\ IsTransport(Transport(q), Get(q, "type"), Get(q, "path"), Get(q, "host"), Get(q, "serviceName"))
      /\ IsTransport(Transport(r), Get(r, "type"), Get(r, "path"), Get(r, "host"), Get(r, "serviceName"))
  BY TransportParsed
<1> DEFINE t == Transport(q)
           u == Transport(r)
           s == Security(o)
<1> HIDE DEF o, q, r, old, new, t, u, s
<1>4. \A x : Get(o, x) = Get(old, x)
  BY DEF o, old, Alike
<1>5. \A x \in TransportNames : Get(o, x) = Get(t, x)
  BY <1>2, <1>4 DEF VlessIs, VlessBase, TransportNames, t
<1>6. IsWritten(Get(r, "type"), Get(r, "path"), Get(r, "host"), Get(r, "serviceName"), o)
  BY <1>1 DEF VlessWritten
<1>7. Alike(u, t)
  <2> DEFINE a == Get(q, "type")
             b == Get(q, "path")
             c == Get(q, "host")
             d == Get(q, "serviceName")
             aa == Get(r, "type")
             bb == Get(r, "path")
             cc == Get(r, "host")
             dd == Get(r, "serviceName")
  <2>1. IsTransport(t, a, b, c, d) /\ IsTransport(u, aa, bb, cc, dd) /\ IsWritten(aa, bb, cc, dd, o)
    BY <1>3, <1>6 DEF t, u
  <2> HIDE DEF a, b, c, d, aa, bb, cc, dd
  <2> QED
    BY <1>5, <2>1, TransportAgain, Zenon
<1>8. ASSUME NEW x, x \notin VlessBase
      PROVE  Get(new, x) = Get(o, x)
  <2>1. Get(new, x) = Get(u, x)
    BY <1>2, <1>8 DEF VlessIs, u
  <2>2. Get(old, x) = Get(t, x)
    BY <1>2, <1>8 DEF VlessIs, t
  <2>3. Get(u, x) = Get(t, x)
    BY <1>7 DEF Alike
  <2> QED
    BY <1>4, <2>1, <2>2, <2>3
<1>9. \A x \in VlessBase : Get(new, x) = IF x = "tls" /\ "publicKey" \in DOMAIN o THEN "true" ELSE Get(o, x)
  <2>1. VlessQuery(r, Get(o, "servername"), Get(o, "flow"), Get(o, "fingerprint"),
                   IF Get(o, "skipVerify") # "" THEN "1" ELSE "", Get(o, "alpn"), s, TransportParams(o))
    BY <1>1 DEF VlessWritten, s
  <2>2. k.user = Get(o, "uuid")
    BY DEF o
  <2>3. "publicKey" \in DOMAIN o <=> Get(o, "publicKey") # ""
    BY DEF o
  <2>4. /\ Get(o, "tls") = Flag(Get(q, "security") \in {"tls", "reality"})
        /\ Get(o, "skipVerify") = Insecure(q, "allowInsecure")
        /\ Get(o, "shortId") = IF Get(o, "publicKey") = "" THEN "" ELSE Get(q, "sid")
    BY <1>2, <1>4 DEF VlessIs
  <2>5. IF "publicKey" \in DOMAIN o
        THEN Get(r, "security") = "reality" /\ Get(r, "pbk") = Get(o, "publicKey") /\ Get(r, "sid") = Get(o, "shortId")
        ELSE /\ Get(r, "security") = IF Get(o, "tls") # "" THEN "tls" ELSE "none"
             /\ Get(r, "pbk") = "" /\ Get(r, "sid") = ""
    BY <2>1, SecurityWritten DEF VlessQuery, SecurityIs, SecurityNames, s
  <2>6. Flag(Get(r, "security") \in {"tls", "reality"}) = IF "publicKey" \in DOMAIN o THEN "true" ELSE Get(o, "tls")
    BY <2>4, <2>5 DEF Flag
  <2>7. Insecure(r, "allowInsecure") = Get(o, "skipVerify")
    BY <2>1, <2>4 DEF VlessQuery, Flag, Insecure
  <2>8. (IF Get(r, "pbk") = "" THEN "" ELSE Get(r, "sid")) = Get(o, "shortId")
    BY <2>3, <2>4, <2>5
  <2>9. Get(r, "pbk") = Get(o, "publicKey")
    BY <2>3, <2>5
  <2>10. /\ Get(new, "uuid") = Get(o, "uuid")
         /\ Get(new, "tls") = IF "publicKey" \in DOMAIN o THEN "true" ELSE Get(o, "tls")
         /\ Get(new, "servername") = Get(o, "servername")
         /\ Get(new, "flow") = Get(o, "flow")
         /\ Get(new, "fingerprint") = Get(o, "fingerprint")
         /\ Get(new, "publicKey") = Get(o, "publicKey")
         /\ Get(new, "shortId") = Get(o, "shortId")
         /\ Get(new, "skipVerify") = Get(o, "skipVerify")
         /\ Get(new, "alpn") = Get(o, "alpn")
    BY <1>2, <2>1, <2>2, <2>6, <2>7, <2>8, <2>9 DEF VlessIs, VlessQuery
  <2> QED
    BY <2>10 DEF VlessBase
<1> QED
  BY <1>8, <1>9 DEF new, o, VlessBase, AlikeWithTLS

-----------------------------------------------------------------------------
(* trojan *)

TrojanBase == {"password", "sni", "fingerprint", "skipVerify", "alpn"}

TrojanIs(o, password, sni, fingerprint, skipVerify, alpn, t) ==
  /\ Get(o, "password") = password
  /\ Get(o, "sni") = sni
  /\ Get(o, "fingerprint") = fingerprint
  /\ Get(o, "skipVerify") = skipVerify
  /\ Get(o, "alpn") = alpn
  /\ \A x : x \notin TrojanBase => Get(o, x) = Get(t, x)

LEMMA TrojanJoined ==
  ASSUME NEW a, NEW b, NEW c, NEW d, NEW e, NEW t
  PROVE  TrojanIs(Both([password |-> a, sni |-> b, fingerprint |-> c, skipVerify |-> d, alpn |-> e], t),
                  a, b, c, d, e, t)
BY DEF TrojanIs, TrojanBase, Get, Both

LEMMA TrojanParsed ==
  ASSUME NEW l
  PROVE  LET q == l.params
         IN TrojanIs(ParseTrojan(l), l.user, FirstOf(Get(q, "sni"), Get(q, "peer")), Get(q, "fp"),
                     Insecure(q, "allowInsecure"), Get(q, "alpn"), Transport(q))
BY TrojanJoined DEF ParseTrojan

TrojanQuery(q, sni, fp, insecure, alpn, t) ==
  /\ Get(q, "sni") = sni
  /\ Get(q, "peer") = ""
  /\ Get(q, "fp") = fp
  /\ Get(q, "allowInsecure") = insecure
  /\ Get(q, "alpn") = alpn
  /\ \A x \in QueryNames : Get(q, x) = Get(t, x)

LEMMA TrojanQueryJoined ==
  ASSUME NEW a, NEW b, NEW c, NEW d, NEW t, DOMAIN t \subseteq QueryNames
  PROVE  TrojanQuery(Both([sni |-> a, fp |-> b, allowInsecure |-> c, alpn |-> d], t), a, b, c, d, t)
BY DEF Get, Both, TrojanQuery, QueryNames

\* What trojanQuery writes of the options o.
TrojanWritten(q, o) ==
  /\ TrojanQuery(q, Get(o, "sni"), Get(o, "fingerprint"),
                 IF Get(o, "skipVerify") # "" THEN "1" ELSE "", Get(o, "alpn"), TransportParams(o))
  /\ IsWritten(Get(q, "type"), Get(q, "path"), Get(q, "host"), Get(q, "serviceName"), o)

LEMMA TrojanParamsWritten ==
  ASSUME NEW m, NEW q, \A x : Get(q, x) = Get(TrojanParams(m), x)
  PROVE  TrojanWritten(q, m.opts)
<1> DEFINE o == m.opts
           t == TransportParams(o)
           p == TrojanParams(m)
<1>1. /\ IsWritten(Get(t, "type"), Get(t, "path"), Get(t, "host"), Get(t, "serviceName"), o)
      /\ DOMAIN t \subseteq QueryNames
  BY TransportWritten
<1>2. p = Both([sni |-> Get(o, "sni"), fp |-> Get(o, "fingerprint"),
                allowInsecure |-> IF Get(o, "skipVerify") # "" THEN "1" ELSE "", alpn |-> Get(o, "alpn")], t)
  BY DEF TrojanParams
<1>3. TrojanQuery(p, Get(o, "sni"), Get(o, "fingerprint"),
                  IF Get(o, "skipVerify") # "" THEN "1" ELSE "", Get(o, "alpn"), t)
  <2> HIDE DEF t, p
  <2> QED
    BY <1>1, <1>2, TrojanQueryJoined
<1>4. \A x \in QueryNames : Get(q, x) = Get(t, x)
  BY <1>3 DEF TrojanQuery
<1> HIDE DEF t, p
<1>5. IsWritten(Get(q, "type"), Get(q, "path"), Get(q, "host"), Get(q, "serviceName"), o)
  BY <1>1, <1>4 DEF QueryNames
<1>6. TrojanQuery(q, Get(o, "sni"), Get(o, "fingerprint"),
                  IF Get(o, "skipVerify") # "" THEN "1" ELSE "", Get(o, "alpn"), t)
  BY <1>3 DEF TrojanQuery, p
<1> QED
  BY <1>5, <1>6 DEF TrojanWritten, t

\* trojan, parsed, written and parsed again.
LEMMA TrojanAgain ==
  ASSUME NEW l, NEW m, NEW k,
         Alike(m.opts, ParseTrojan(l)),
         Alike(k.params, TrojanParams(m)),
         k.user = Get(m.opts, "password")
  PROVE  Alike(ParseTrojan(k), m.opts)
<1> DEFINE o == m.opts
           q == l.params
           r == k.params
           old == ParseTrojan(l)
           new == ParseTrojan(k)
<1>1. TrojanWritten(r, o)
  BY TrojanParamsWritten DEF Alike
<1>2. /\ TrojanIs(old, l.user, FirstOf(Get(q, "sni"), Get(q, "peer")), Get(q, "fp"),
                  Insecure(q, "allowInsecure"), Get(q, "alpn"), Transport(q))
      /\ TrojanIs(new, k.user, FirstOf(Get(r, "sni"), Get(r, "peer")), Get(r, "fp"),
                  Insecure(r, "allowInsecure"), Get(r, "alpn"), Transport(r))
  BY TrojanParsed
<1>3. /\ IsTransport(Transport(q), Get(q, "type"), Get(q, "path"), Get(q, "host"), Get(q, "serviceName"))
      /\ IsTransport(Transport(r), Get(r, "type"), Get(r, "path"), Get(r, "host"), Get(r, "serviceName"))
  BY TransportParsed
<1> DEFINE t == Transport(q)
           u == Transport(r)
<1> HIDE DEF o, q, r, old, new, t, u
<1>4. \A x : Get(o, x) = Get(old, x)
  BY DEF o, old, Alike
<1>5. \A x \in TransportNames : Get(o, x) = Get(t, x)
  BY <1>2, <1>4 DEF TrojanIs, TrojanBase, TransportNames, t
<1>6. IsWritten(Get(r, "type"), Get(r, "path"), Get(r, "host"), Get(r, "serviceName"), o)
  BY <1>1 DEF TrojanWritten
<1>7. Alike(u, t)
  BY <1>3, <1>5, <1>6, TransportAgain, Zenon DEF t, u
<1>8. ASSUME NEW x, x \notin TrojanBase
      PROVE  Get(new, x) = Get(o, x)
  <2>1. Get(new, x) = Get(u, x)
    BY <1>2, <1>8 DEF TrojanIs, u
  <2>2. Get(old, x) = Get(t, x)
    BY <1>2, <1>8 DEF TrojanIs, t
  <2>3. Get(u, x) = Get(t, x)
    BY <1>7 DEF Alike
  <2> QED
    BY <1>4, <2>1, <2>2, <2>3
<1>9. \A x \in TrojanBase : Get(new, x) = Get(o, x)
  <2>1. TrojanQuery(r, Get(o, "sni"), Get(o, "fingerprint"),
                    IF Get(o, "skipVerify") # "" THEN "1" ELSE "", Get(o, "alpn"), TransportParams(o))
    BY <1>1 DEF TrojanWritten
  <2>2. k.user = Get(o, "password")
    BY DEF o
  <2>3. Get(o, "skipVerify") = Insecure(q, "allowInsecure")
    BY <1>2, <1>4 DEF TrojanIs
  <2>4. Insecure(r, "allowInsecure") = Get(o, "skipVerify")
    BY <2>1, <2>3 DEF TrojanQuery, Flag, Insecure
  <2>5. FirstOf(Get(r, "sni"), Get(r, "peer")) = Get(o, "sni")
    BY <2>1 DEF TrojanQuery, FirstOf
  <2>6. /\ Get(new, "password") = Get(o, "password")
        /\ Get(new, "sni") = Get(o, "sni")
        /\ Get(new, "fingerprint") = Get(o, "fingerprint")
        /\ Get(new, "skipVerify") = Get(o, "skipVerify")
        /\ Get(new, "alpn") = Get(o, "alpn")
    BY <1>2, <2>1, <2>2, <2>4, <2>5 DEF TrojanIs, TrojanQuery
  <2> QED
    BY <2>6 DEF TrojanBase
<1> QED
  BY <1>8, <1>9 DEF new, o, Alike

-----------------------------------------------------------------------------
(* vmess *)

VmessBase == {"uuid", "cipher", "alterId", "tls", "servername", "fingerprint", "alpn"}

VmessIs(o, uuid, cipher, alterId, tls, servername, fingerprint, alpn, t) ==
  /\ Get(o, "uuid") = uuid
  /\ Get(o, "cipher") = cipher
  /\ Get(o, "alterId") = alterId
  /\ Get(o, "tls") = tls
  /\ Get(o, "servername") = servername
  /\ Get(o, "fingerprint") = fingerprint
  /\ Get(o, "alpn") = alpn
  /\ \A x : x \notin VmessBase => Get(o, x) = Get(t, x)

LEMMA VmessJoined ==
  ASSUME NEW a, NEW b, NEW c, NEW d, NEW e, NEW f, NEW g, NEW t
  PROVE  VmessIs(Both([uuid |-> a, cipher |-> b, alterId |-> c, tls |-> d, servername |-> e, fingerprint |-> f,
                       alpn |-> g], t), a, b, c, d, e, f, g, t)
BY DEF VmessIs, VmessBase, Get, Both

\* What vmess calls tls.
VmessTLS(q) == Get(q, "tls") \in {"true", "1", "tls"}

LEMMA VmessParsed ==
  ASSUME NEW l
  PROVE  LET q == l.params
         IN VmessIs(ParseVmess(l), l.user, FirstOf(Get(q, "scy"), "auto"), FirstOf(Get(q, "aid"), "0"),
                    Flag(VmessTLS(q)), IF VmessTLS(q) THEN Get(q, "sni") ELSE "", Get(q, "fp"), Get(q, "alpn"),
                    VmessTransport(q))
BY VmessJoined DEF ParseVmess, VmessTLS

NetNames == {"net", "path", "host"}

NetIs(q, net, path, host) ==
  /\ Get(q, "net") = net
  /\ Get(q, "path") = path
  /\ Get(q, "host") = host
  /\ DOMAIN q \subseteq NetNames

LEMMA NetFields ==
  ASSUME NEW a, NEW b, NEW t
  PROVE  /\ NetIs([net |-> t, path |-> a, host |-> b], t, a, b)
         /\ NetIs([net |-> t, path |-> a], t, a, "")
         /\ NetIs([net |-> t], t, "", "")
BY DEF Get, NetIs, NetNames

LEMMA NetWritten ==
  ASSUME NEW o
  PROVE  LET q == VmessNet(o)
         IN IsWritten(Get(q, "net"), Get(q, "path"), Get(q, "host"), "", o) /\ DOMAIN q \subseteq NetNames
<1> DEFINE q == VmessNet(o)
           network == Get(o, "network")
<1>1. CASE network = "ws"
  <2>1. q = [net |-> "ws", path |-> Get(o, "wsPath"), host |-> Get(o, "wsHost")]
    BY <1>1 DEF VmessNet
  <2>2. NetIs(q, "ws", Get(o, "wsPath"), Get(o, "wsHost"))
    BY <2>1, NetFields
  <2> QED
    BY <1>1, <2>2 DEF NetIs, IsWritten
<1>2. CASE network = "grpc"
  <2>1. q = [net |-> "grpc", path |-> Get(o, "grpcService")]
    BY <1>2 DEF VmessNet
  <2>2. NetIs(q, "grpc", Get(o, "grpcService"), "")
    BY <2>1, NetFields
  <2> QED
    BY <1>2, <2>2 DEF NetIs, IsWritten, FirstOf
<1>3. CASE network = "h2"
  <2>1. q = [net |-> "h2", path |-> Get(o, "h2Path"), host |-> Get(o, "h2Host")]
    BY <1>3 DEF VmessNet
  <2>2. NetIs(q, "h2", Get(o, "h2Path"), Get(o, "h2Host"))
    BY <2>1, NetFields
  <2> QED
    BY <1>3, <2>2 DEF NetIs, IsWritten
<1>4. CASE network \notin {"ws", "grpc", "h2"}
  <2>1. q = [net |-> "tcp"]
    BY <1>4 DEF VmessNet
  <2>2. NetIs(q, "tcp", "", "")
    BY <2>1, NetFields
  <2> QED
    BY <1>4, <2>2 DEF NetIs, IsWritten
<1> QED
  BY <1>1, <1>2, <1>3, <1>4

VmessQuery(q, aid, scy, tls, sni, fp, alpn, t) ==
  /\ Get(q, "aid") = aid
  /\ Get(q, "scy") = scy
  /\ Get(q, "tls") = tls
  /\ Get(q, "sni") = sni
  /\ Get(q, "fp") = fp
  /\ Get(q, "alpn") = alpn
  /\ \A x \in NetNames : Get(q, x) = Get(t, x)

LEMMA VmessQueryJoined ==
  ASSUME NEW a, NEW b, NEW c, NEW d, NEW e, NEW f, NEW t, DOMAIN t \subseteq NetNames
  PROVE  VmessQuery(Both([aid |-> a, scy |-> b, tls |-> c, sni |-> d, fp |-> e, alpn |-> f], t), a, b, c, d, e, f, t)
BY DEF Get, Both, VmessQuery, NetNames

\* What buildVmess writes of the options o.
VmessWritten(q, o) ==
  /\ VmessQuery(q, FirstOf(Get(o, "alterId"), "0"), FirstOf(Get(o, "cipher"), "auto"),
                IF Get(o, "tls") # "" THEN "tls" ELSE "", IF Get(o, "tls") # "" THEN Get(o, "servername") ELSE "",
                Get(o, "fingerprint"), Get(o, "alpn"), VmessNet(o))
  /\ IsWritten(Get(q, "net"), Get(q, "path"), Get(q, "host"), "", o)

LEMMA VmessParamsWritten ==
  ASSUME NEW m, NEW q, \A x : Get(q, x) = Get(VmessParams(m), x)
  PROVE  VmessWritten(q, m.opts)
<1> DEFINE o == m.opts
           t == VmessNet(o)
           p == VmessParams(m)
           tls == Get(o, "tls") # ""
<1>1. IsWritten(Get(t, "net"), Get(t, "path"), Get(t, "host"), "", o) /\ DOMAIN t \subseteq NetNames
  BY NetWritten
<1>2. p = Both([aid |-> FirstOf(Get(o, "alterId"), "0"), scy |-> FirstOf(Get(o, "cipher"), "auto"),
                tls |-> IF tls THEN "tls" ELSE "", sni |-> IF tls THEN Get(o, "servername") ELSE "",
                fp |-> Get(o, "fingerprint"), alpn |-> Get(o, "alpn")], t)
  BY DEF VmessParams
<1>3. VmessQuery(p, FirstOf(Get(o, "alterId"), "0"), FirstOf(Get(o, "cipher"), "auto"),
                 IF tls THEN "tls" ELSE "", IF tls THEN Get(o, "servername") ELSE "",
                 Get(o, "fingerprint"), Get(o, "alpn"), t)
  <2> HIDE DEF t, p
  <2> QED
    BY <1>1, <1>2, VmessQueryJoined
<1>4. \A x \in NetNames : Get(q, x) = Get(t, x)
  BY <1>3 DEF VmessQuery
<1> HIDE DEF t, p
<1>5. IsWritten(Get(q, "net"), Get(q, "path"), Get(q, "host"), "", o)
  BY <1>1, <1>4 DEF NetNames
<1>6. VmessQuery(q, FirstOf(Get(o, "alterId"), "0"), FirstOf(Get(o, "cipher"), "auto"),
                 IF tls THEN "tls" ELSE "", IF tls THEN Get(o, "servername") ELSE "",
                 Get(o, "fingerprint"), Get(o, "alpn"), t)
  BY <1>3 DEF VmessQuery, p
<1> QED
  BY <1>5, <1>6 DEF VmessWritten, t

\* vmess, parsed, written and parsed again.
LEMMA VmessAgain ==
  ASSUME NEW l, NEW m, NEW k,
         Alike(m.opts, ParseVmess(l)),
         Alike(k.params, VmessParams(m)),
         k.user = Get(m.opts, "uuid")
  PROVE  Alike(ParseVmess(k), m.opts)
<1> DEFINE o == m.opts
           q == l.params
           r == k.params
           old == ParseVmess(l)
           new == ParseVmess(k)
<1>1. VmessWritten(r, o)
  BY VmessParamsWritten DEF Alike
<1>2. /\ VmessIs(old, l.user, FirstOf(Get(q, "scy"), "auto"), FirstOf(Get(q, "aid"), "0"),
                 Flag(VmessTLS(q)), IF VmessTLS(q) THEN Get(q, "sni") ELSE "", Get(q, "fp"), Get(q, "alpn"),
                 VmessTransport(q))
      /\ VmessIs(new, k.user, FirstOf(Get(r, "scy"), "auto"), FirstOf(Get(r, "aid"), "0"),
                 Flag(VmessTLS(r)), IF VmessTLS(r) THEN Get(r, "sni") ELSE "", Get(r, "fp"), Get(r, "alpn"),
                 VmessTransport(r))
  BY VmessParsed
<1>3. /\ IsTransport(VmessTransport(q), Get(q, "net"), Get(q, "path"), Get(q, "host"), "")
      /\ IsTransport(VmessTransport(r), Get(r, "net"), Get(r, "path"), Get(r, "host"), "")
  BY VmessTransportParsed
<1> DEFINE t == VmessTransport(q)
           u == VmessTransport(r)
<1> HIDE DEF o, q, r, old, new, t, u
<1>4. \A x : Get(o, x) = Get(old, x)
  BY DEF o, old, Alike
<1>5. \A x \in TransportNames : Get(o, x) = Get(t, x)
  BY <1>2, <1>4 DEF VmessIs, VmessBase, TransportNames, t
<1>6. IsWritten(Get(r, "net"), Get(r, "path"), Get(r, "host"), "", o)
  BY <1>1 DEF VmessWritten
<1>7. Alike(u, t)
  BY <1>3, <1>5, <1>6, TransportAgain, Zenon DEF t, u
<1>8. ASSUME NEW x, x \notin VmessBase
      PROVE  Get(new, x) = Get(o, x)
  <2>1. Get(new, x) = Get(u, x)
    BY <1>2, <1>8 DEF VmessIs, u
  <2>2. Get(old, x) = Get(t, x)
    BY <1>2, <1>8 DEF VmessIs, t
  <2>3. Get(u, x) = Get(t, x)
    BY <1>7 DEF Alike
  <2> QED
    BY <1>4, <2>1, <2>2, <2>3
<1>9. \A x \in VmessBase : Get(new, x) = Get(o, x)
  <2>1. VmessQuery(r, FirstOf(Get(o, "alterId"), "0"), FirstOf(Get(o, "cipher"), "auto"),
                   IF Get(o, "tls") # "" THEN "tls" ELSE "", IF Get(o, "tls") # "" THEN Get(o, "servername") ELSE "",
                   Get(o, "fingerprint"), Get(o, "alpn"), VmessNet(o))
    BY <1>1 DEF VmessWritten
  <2>2. k.user = Get(o, "uuid")
    BY DEF o
  <2>3. /\ Get(o, "tls") = Flag(VmessTLS(q))
        /\ Get(o, "servername") = IF VmessTLS(q) THEN Get(q, "sni") ELSE ""
        /\ Get(o, "cipher") = FirstOf(Get(q, "scy"), "auto")
        /\ Get(o, "alterId") = FirstOf(Get(q, "aid"), "0")
    BY <1>2, <1>4 DEF VmessIs
  <2>4. VmessTLS(r) <=> Get(o, "tls") # ""
    BY <2>1 DEF VmessQuery, VmessTLS
  <2>5. Flag(VmessTLS(r)) = Get(o, "tls")
    BY <2>3, <2>4 DEF Flag
  <2>6. (IF VmessTLS(r) THEN Get(r, "sni") ELSE "") = Get(o, "servername")
    BY <2>1, <2>3, <2>4 DEF VmessQuery, Flag
  <2>7. /\ FirstOf(Get(r, "scy"), "auto") = Get(o, "cipher")
        /\ FirstOf(Get(r, "aid"), "0") = Get(o, "alterId")
    BY <2>1, <2>3 DEF VmessQuery, FirstOf
  <2>8. /\ Get(new, "uuid") = Get(o, "uuid")
        /\ Get(new, "cipher") = Get(o, "cipher")
        /\ Get(new, "alterId") = Get(o, "alterId")
        /\ Get(new, "tls") = Get(o, "tls")
        /\ Get(new, "servername") = Get(o, "servername")
        /\ Get(new, "fingerprint") = Get(o, "fingerprint")
        /\ Get(new, "alpn") = Get(o, "alpn")
    BY <1>2, <2>1, <2>2, <2>5, <2>6, <2>7 DEF VmessIs, VmessQuery
  <2> QED
    BY <2>8 DEF VmessBase
<1> QED
  BY <1>8, <1>9 DEF new, o, Alike

-----------------------------------------------------------------------------
(* hysteria2 *)

Hysteria2Base == {"password", "sni", "skipVerify", "obfs", "obfsPassword", "ports", "alpn"}

Hysteria2Is(o, password, sni, skipVerify, obfs, obfsPassword, ports, alpn) ==
  /\ Get(o, "password") = password
  /\ Get(o, "sni") = sni
  /\ Get(o, "skipVerify") = skipVerify
  /\ Get(o, "obfs") = obfs
  /\ Get(o, "obfsPassword") = obfsPassword
  /\ Get(o, "ports") = ports
  /\ Get(o, "alpn") = alpn
  /\ \A x : x \notin Hysteria2Base => Get(o, x) = ""

LEMMA Hysteria2Fields ==
  ASSUME NEW a, NEW b, NEW c, NEW d, NEW e, NEW f, NEW g
  PROVE  Hysteria2Is([password |-> a, sni |-> b, skipVerify |-> c, obfs |-> d, obfsPassword |-> e, ports |-> f,
                      alpn |-> g], a, b, c, d, e, f, g)
BY DEF Hysteria2Is, Hysteria2Base, Get

LEMMA Hysteria2Parsed ==
  ASSUME NEW l
  PROVE  LET q == l.params
         IN Hysteria2Is(ParseHysteria2(l), l.user, Get(q, "sni"), Insecure(q, "insecure"), Get(q, "obfs"),
                        IF Get(q, "obfs") = "" THEN "" ELSE Get(q, "obfsPassword"),
                        FirstOf(Get(q, "mport"), Get(q, "ports")), Get(q, "alpn"))
BY Hysteria2Fields DEF ParseHysteria2

Hysteria2Query(q, sni, insecure, obfs, obfsPassword, mport, alpn) ==
  /\ Get(q, "sni") = sni
  /\ Get(q, "insecure") = insecure
  /\ Get(q, "obfs") = obfs
  /\ Get(q, "obfsPassword") = obfsPassword
  /\ Get(q, "mport") = mport
  /\ Get(q, "ports") = ""
  /\ Get(q, "alpn") = alpn

LEMMA Hysteria2QueryFields ==
  ASSUME NEW a, NEW b, NEW c, NEW d, NEW e, NEW f
  PROVE  Hysteria2Query([sni |-> a, insecure |-> b, obfs |-> c, obfsPassword |-> d, mport |-> e, alpn |-> f],
                        a, b, c, d, e, f)
BY DEF Hysteria2Query, Get

\* What hysteria2Query writes of the options o.
Hysteria2Written(q, o) ==
  Hysteria2Query(q, Get(o, "sni"), IF Get(o, "skipVerify") # "" THEN "1" ELSE "", Get(o, "obfs"),
                 IF Get(o, "obfs") = "" THEN "" ELSE Get(o, "obfsPassword"), Get(o, "ports"), Get(o, "alpn"))

LEMMA Hysteria2ParamsWritten ==
  ASSUME NEW m, NEW q, \A x : Get(q, x) = Get(Hysteria2Params(m), x)
  PROVE  Hysteria2Written(q, m.opts)
<1>1. Hysteria2Written(Hysteria2Params(m), m.opts)
  BY Hysteria2QueryFields DEF Hysteria2Params, Hysteria2Written
<1> QED
  BY <1>1 DEF Hysteria2Written, Hysteria2Query

\* hysteria2, parsed, written and parsed again.
LEMMA Hysteria2Again ==
  ASSUME NEW l, NEW m, NEW k,
         Alike(m.opts, ParseHysteria2(l)),
         Alike(k.params, Hysteria2Params(m)),
         k.user = Get(m.opts, "password")
  PROVE  Alike(ParseHysteria2(k), m.opts)
<1> DEFINE o == m.opts
           q == l.params
           r == k.params
           old == ParseHysteria2(l)
           new == ParseHysteria2(k)
<1>1. Hysteria2Written(r, o)
  BY Hysteria2ParamsWritten DEF Alike
<1>2. /\ Hysteria2Is(old, l.user, Get(q, "sni"), Insecure(q, "insecure"), Get(q, "obfs"),
                     IF Get(q, "obfs") = "" THEN "" ELSE Get(q, "obfsPassword"),
                     FirstOf(Get(q, "mport"), Get(q, "ports")), Get(q, "alpn"))
      /\ Hysteria2Is(new, k.user, Get(r, "sni"), Insecure(r, "insecure"), Get(r, "obfs"),
                     IF Get(r, "obfs") = "" THEN "" ELSE Get(r, "obfsPassword"),
                     FirstOf(Get(r, "mport"), Get(r, "ports")), Get(r, "alpn"))
  BY Hysteria2Parsed
<1> HIDE DEF o, q, r, old, new
<1>3. \A x : Get(o, x) = Get(old, x)
  BY DEF o, old, Alike
<1>4. k.user = Get(o, "password")
  BY DEF o
<1>5. Get(o, "skipVerify") = Insecure(q, "insecure")
  BY <1>2, <1>3 DEF Hysteria2Is
<1>6. Insecure(r, "insecure") = Get(o, "skipVerify")
  BY <1>1, <1>5 DEF Hysteria2Written, Hysteria2Query, Flag, Insecure
<1>7. Get(o, "obfs") = "" => Get(o, "obfsPassword") = ""
  BY <1>2, <1>3 DEF Hysteria2Is
<1>8. /\ Get(new, "password") = Get(o, "password")
      /\ Get(new, "sni") = Get(o, "sni")
      /\ Get(new, "skipVerify") = Get(o, "skipVerify")
      /\ Get(new, "obfs") = Get(o, "obfs")
      /\ Get(new, "obfsPassword") = Get(o, "obfsPassword")
      /\ Get(new, "ports") = Get(o, "ports")
      /\ Get(new, "alpn") = Get(o, "alpn")
  BY <1>1, <1>2, <1>4, <1>6, <1>7 DEF Hysteria2Written, Hysteria2Query, Hysteria2Is, FirstOf
<1>9. \A x : x \notin Hysteria2Base => Get(new, x) = Get(o, x)
  BY <1>2, <1>3 DEF Hysteria2Is
<1> QED
  BY <1>8, <1>9 DEF Hysteria2Base, Alike, new, o

-----------------------------------------------------------------------------
(* ss *)

PluginNames == {"plugin", "pluginMode", "pluginHost", "pluginTls", "pluginPath"}

PluginIs(o, plugin, mode, host, tls, path) ==
  /\ Get(o, "plugin") = plugin
  /\ Get(o, "pluginMode") = mode
  /\ Get(o, "pluginHost") = host
  /\ Get(o, "pluginTls") = tls
  /\ Get(o, "pluginPath") = path

PluginOnly(t) == \A x : x \notin PluginNames => Get(t, x) = ""

LEMMA PluginFields ==
  ASSUME NEW a, NEW b, NEW c, NEW d, NEW e
  PROVE  /\ PluginIs([plugin |-> a, pluginMode |-> b, pluginHost |-> c], a, b, c, "", "")
         /\ PluginOnly([plugin |-> a, pluginMode |-> b, pluginHost |-> c])
         /\ PluginIs([plugin |-> a, pluginMode |-> b, pluginTls |-> d, pluginHost |-> c, pluginPath |-> e], a, b, c, d, e)
         /\ PluginOnly([plugin |-> a, pluginMode |-> b, pluginTls |-> d, pluginHost |-> c, pluginPath |-> e])
         /\ PluginIs(<<>>, "", "", "", "", "")
         /\ PluginOnly(<<>>)
<1> DEFINE u == [plugin |-> a, pluginMode |-> b, pluginHost |-> c]
           v == [plugin |-> a, pluginMode |-> b, pluginTls |-> d, pluginHost |-> c, pluginPath |-> e]
<1>1. PluginIs(u, a, b, c, "", "") /\ PluginOnly(u)
  BY DEF PluginIs, PluginOnly, PluginNames, Get
<1>2. PluginIs(v, a, b, c, d, e) /\ PluginOnly(v)
  BY DEF PluginIs, PluginOnly, PluginNames, Get
<1>3. PluginIs(<<>>, "", "", "", "", "") /\ PluginOnly(<<>>)
  BY DEF PluginIs, PluginOnly, PluginNames, Get
<1> QED
  BY <1>1, <1>2, <1>3

Obfs == {"obfs-local", "simple-obfs", "obfs"}

\* What is understood of the plugin in a query.
LEMMA PluginParsed ==
  ASSUME NEW q
  PROVE  /\ Get(q, "plugin") \in Obfs => PluginIs(SSPlugin(q), "obfs", Get(q, "obfs"), Get(q, "obfsHost"), "", "")
         /\ Get(q, "plugin") = "v2ray-plugin" =>
              PluginIs(SSPlugin(q), "v2ray-plugin", "websocket", Get(q, "host"), Get(q, "tls"), Get(q, "path"))
         /\ Get(q, "plugin") \notin Obfs \cup {"v2ray-plugin"} => PluginIs(SSPlugin(q), "", "", "", "", "")
         /\ PluginOnly(SSPlugin(q))
<1> DEFINE t == SSPlugin(q)
<1>1. CASE Get(q, "plugin") \in Obfs
  <2>1. t = [plugin |-> "obfs", pluginMode |-> Get(q, "obfs"), pluginHost |-> Get(q, "obfsHost")]
    BY <1>1 DEF SSPlugin, Obfs
  <2>2. PluginIs(t, "obfs", Get(q, "obfs"), Get(q, "obfsHost"), "", "") /\ PluginOnly(t)
    BY <2>1, PluginFields
  <2> QED
    BY <1>1, <2>2 DEF Obfs
<1>2. CASE Get(q, "plugin") = "v2ray-plugin"
  <2>1. t = [plugin |-> "v2ray-plugin", pluginMode |-> "websocket", pluginTls |-> Get(q, "tls"),
             pluginHost |-> Get(q, "host"), pluginPath |-> Get(q, "path")]
    BY <1>2 DEF SSPlugin
  <2>2. /\ PluginIs(t, "v2ray-plugin", "websocket", Get(q, "host"), Get(q, "tls"), Get(q, "path"))
        /\ PluginOnly(t)
    BY <2>1, PluginFields
  <2> QED
    BY <1>2, <2>2 DEF Obfs
<1>3. CASE Get(q, "plugin") \notin Obfs \cup {"v2ray-plugin"}
  <2>1. t = <<>>
    BY <1>3 DEF SSPlugin, Obfs
  <2>2. PluginIs(t, "", "", "", "", "") /\ PluginOnly(t)
    BY <2>1, PluginFields
  <2> QED
    BY <1>3, <2>2
<1> QED
  BY <1>1, <1>2, <1>3

PluginQuery(q, plugin, obfs, obfsHost, tls, host, path) ==
  /\ Get(q, "plugin") = plugin
  /\ Get(q, "obfs") = obfs
  /\ Get(q, "obfsHost") = obfsHost
  /\ Get(q, "tls") = tls
  /\ Get(q, "host") = host
  /\ Get(q, "path") = path

LEMMA PluginQueryFields ==
  ASSUME NEW a, NEW b, NEW c, NEW d
  PROVE  /\ PluginQuery([plugin |-> a, obfs |-> b, obfsHost |-> c], a, b, c, "", "", "")
         /\ PluginQuery([plugin |-> a, tls |-> b, host |-> c, path |-> d], a, "", "", b, c, d)
         /\ PluginQuery(<<>>, "", "", "", "", "", "")
BY DEF PluginQuery, Get

\* What the plugin of the options o is written as.
LEMMA PluginWritten ==
  ASSUME NEW m, NEW q, \A x : Get(q, x) = Get(SSParams(m), x)
  PROVE  LET o == m.opts
         IN /\ Get(o, "plugin") = "obfs" =>
                 PluginQuery(q, "obfs-local", Get(o, "pluginMode"), Get(o, "pluginHost"), "", "", "")
            /\ Get(o, "plugin") = "v2ray-plugin" =>
                 PluginQuery(q, "v2ray-plugin", "", "", Get(o, "pluginTls"), Get(o, "pluginHost"), Get(o, "pluginPath"))
            /\ Get(o, "plugin") \notin {"obfs", "v2ray-plugin"} => PluginQuery(q, "", "", "", "", "", "")
<1> DEFINE o == m.opts
           p == SSParams(m)
<1>1. ASSUME Get(o, "plugin") = "obfs"
      PROVE  PluginQuery(p, "obfs-local", Get(o, "pluginMode"), Get(o, "pluginHost"), "", "", "")
  <2>1. p = [plugin |-> "obfs-local", obfs |-> Get(o, "pluginMode"), obfsHost |-> Get(o, "pluginHost")]
    BY <1>1 DEF SSParams
  <2> QED
    BY <2>1, PluginQueryFields
<1>2. ASSUME Get(o, "plugin") = "v2ray-plugin"
      PROVE  PluginQuery(p, "v2ray-plugin", "", "", Get(o, "pluginTls"), Get(o, "pluginHost"), Get(o, "pluginPath"))
  <2>1. p = [plugin |-> "v2ray-plugin", tls |-> Get(o, "pluginTls"),
             host |-> Get(o, "pluginHost"), path |-> Get(o, "pluginPath")]
    BY <1>2 DEF SSParams
  <2> QED
    BY <2>1, PluginQueryFields
<1>3. ASSUME Get(o, "plugin") \notin {"obfs", "v2ray-plugin"}
      PROVE  PluginQuery(p, "", "", "", "", "", "")
  <2>1. p = <<>>
    BY <1>3 DEF SSParams
  <2> QED
    BY <2>1, PluginQueryFields
<1> QED
  BY <1>1, <1>2, <1>3 DEF PluginQuery

\* A plugin that is written and read again.
LEMMA PluginAgain ==
  ASSUME NEW q, NEW m, NEW r,
         \A x \in PluginNames : Get(m.opts, x) = Get(SSPlugin(q), x),
         \A x : Get(r, x) = Get(SSParams(m), x)
  PROVE  Alike(SSPlugin(r), SSPlugin(q))
<1> DEFINE o == m.opts
           t == SSPlugin(q)
           u == SSPlugin(r)
<1>1. /\ Get(o, "plugin") = Get(t, "plugin") /\ Get(o, "pluginMode") = Get(t, "pluginMode")
      /\ Get(o, "pluginHost") = Get(t, "pluginHost") /\ Get(o, "pluginTls") = Get(t, "pluginTls")
      /\ Get(o, "pluginPath") = Get(t, "pluginPath")
  BY DEF PluginNames
<1>2. PluginOnly(t) /\ PluginOnly(u)
  BY PluginParsed
<1>3. PluginIs(u, Get(t, "plugin"), Get(t, "pluginMode"), Get(t, "pluginHost"), Get(t, "pluginTls"), Get(t, "pluginPath"))
  <2>1. CASE Get(q, "plugin") \in Obfs
    <3>1. PluginIs(t, "obfs", Get(q, "obfs"), Get(q, "obfsHost"), "", "")
      BY <2>1, PluginParsed
    <3>2. PluginQuery(r, "obfs-local", Get(t, "pluginMode"), Get(t, "pluginHost"), "", "", "")
      BY <1>1, <3>1, PluginWritten DEF PluginIs
    <3>3. PluginIs(u, "obfs", Get(t, "pluginMode"), Get(t, "pluginHost"), "", "")
      BY <3>2, PluginParsed DEF PluginQuery, Obfs
    <3> QED
      BY <3>1, <3>3 DEF PluginIs
  <2>2. CASE Get(q, "plugin") = "v2ray-plugin"
    <3>1. PluginIs(t, "v2ray-plugin", "websocket", Get(q, "host"), Get(q, "tls"), Get(q, "path"))
      BY <2>2, PluginParsed
    <3>2. PluginQuery(r, "v2ray-plugin", "", "", Get(t, "pluginTls"), Get(t, "pluginHost"), Get(t, "pluginPath"))
      BY <1>1, <3>1, PluginWritten DEF PluginIs
    <3>3. PluginIs(u, "v2ray-plugin", "websocket", Get(t, "pluginHost"), Get(t, "pluginTls"), Get(t, "pluginPath"))
      BY <3>2, PluginParsed DEF PluginQuery
    <3> QED
      BY <3>1, <3>3 DEF PluginIs
  <2>3. CASE Get(q, "plugin") \notin Obfs \cup {"v2ray-plugin"}
    <3>1. PluginIs(t, "", "", "", "", "")
      BY <2>3, PluginParsed
    <3>2. PluginQuery(r, "", "", "", "", "", "")
      BY <1>1, <3>1, PluginWritten DEF PluginIs
    <3>3. PluginIs(u, "", "", "", "", "")
      BY <3>2, PluginParsed DEF PluginQuery, Obfs
    <3> QED
      BY <3>1, <3>3 DEF PluginIs
  <2> QED
    BY <2>1, <2>2, <2>3
<1> HIDE DEF t, u
<1>4. \A x \in PluginNames : Get(u, x) = Get(t, x)
  BY <1>3 DEF PluginIs, PluginNames
<1>5. \A x : Get(u, x) = Get(t, x)
  BY <1>2, <1>4 DEF PluginOnly
<1> QED
  BY <1>5 DEF Alike, t, u

SSBase == {"cipher", "password"}

SSIs(o, cipher, password, t) ==
  /\ Get(o, "cipher") = cipher
  /\ Get(o, "password") = password
  /\ \A x : x \notin SSBase => Get(o, x) = Get(t, x)

LEMMA SSJoined ==
  ASSUME NEW a, NEW b, NEW t
  PROVE  SSIs(Both([cipher |-> a, password |-> b], t), a, b, t)
BY DEF SSIs, SSBase, Get, Both

LEMMA SSParsed ==
  ASSUME NEW l
  PROVE  SSIs(ParseSS(l), l.cipher, l.user, SSPlugin(l.params))
BY SSJoined DEF ParseSS

\* ss, parsed, written and parsed again.
LEMMA SSAgain ==
  ASSUME NEW l, NEW m, NEW k,
         Alike(m.opts, ParseSS(l)),
         Alike(k.params, SSParams(m)),
         k.cipher = Get(m.opts, "cipher"),
         k.user = Get(m.opts, "password")
  PROVE  Alike(ParseSS(k), m.opts)
<1> DEFINE o == m.opts
           old == ParseSS(l)
           new == ParseSS(k)
           t == SSPlugin(l.params)
           u == SSPlugin(k.params)
<1>1. SSIs(old, l.cipher, l.user, t) /\ SSIs(new, k.cipher, k.user, u)
  BY SSParsed
<1>2. \A x : Get(o, x) = Get(old, x)
  BY DEF Alike
<1>3. \A x \in PluginNames : Get(o, x) = Get(t, x)
  <2> HIDE DEF o, old, t
  <2> QED
    BY <1>1, <1>2 DEF SSIs, SSBase, PluginNames
<1>4. Alike(u, t)
  BY <1>3, PluginAgain DEF Alike
<1>5. k.cipher = Get(o, "cipher") /\ k.user = Get(o, "password")
  OBVIOUS
<1> HIDE DEF o, old, new, t, u
<1>6. \A x : Get(new, x) = Get(o, x)
  BY <1>1, <1>2, <1>4, <1>5 DEF SSIs, SSBase, Alike
<1> QED
  BY <1>6 DEF Alike, o, new

-----------------------------------------------------------------------------
(* Links and maps *)

LEMMA PortsAreGiven == \A p \in PortNumbers : p \notin {0, NoPort}
<1>1. MaxPort \in Int
  BY DEF MaxPort
<1> QED
  BY <1>1 DEF PortNumbers, NoPort

\* The parser and the builder of each type.
LEMMA ByType ==
  /\ \A l : TypeOf(l.scheme) = "ss" => Options(l) = ParseSS(l)
  /\ \A l : TypeOf(l.scheme) = "vmess" => Options(l) = ParseVmess(l)
  /\ \A l : TypeOf(l.scheme) = "vless" => Options(l) = ParseVless(l)
  /\ \A l : TypeOf(l.scheme) = "trojan" => Options(l) = ParseTrojan(l)
  /\ \A l : TypeOf(l.scheme) = "hysteria2" => Options(l) = ParseHysteria2(l)
  /\ \A m : m.type = "ss" => Params(m) = SSParams(m)
  /\ \A m : m.type = "vmess" => Params(m) = VmessParams(m)
  /\ \A m : m.type = "vless" => Params(m) = VlessParams(m)
  /\ \A m : m.type = "trojan" => Params(m) = TrojanParams(m)
  /\ \A m : m.type = "hysteria2" => Params(m) = Hysteria2Params(m)
<1>1. ASSUME NEW l
      PROVE  /\ TypeOf(l.scheme) = "ss" => Options(l) = ParseSS(l)
             /\ TypeOf(l.scheme) = "vmess" => Options(l) = ParseVmess(l)
             /\ TypeOf(l.scheme) = "vless" => Options(l) = ParseVless(l)
             /\ TypeOf(l.scheme) = "trojan" => Options(l) = ParseTrojan(l)
             /\ TypeOf(l.scheme) = "hysteria2" => Options(l) = ParseHysteria2(l)
  <2> DEFINE t == TypeOf(l.scheme)
  <2> HIDE DEF t
  <2>1. /\ t = "ss" => Options(l) = ParseSS(l)
        /\ t = "vmess" => Options(l) = ParseVmess(l)
        /\ t = "vless" => Options(l) = ParseVless(l)
        /\ t = "trojan" => Options(l) = ParseTrojan(l)
        /\ t = "hysteria2" => Options(l) = ParseHysteria2(l)
    BY DEF Options, t
  <2> QED
    BY <2>1 DEF t
<1>2. ASSUME NEW m
      PROVE  /\ m.type = "ss" => Params(m) = SSParams(m)
             /\ m.type = "vmess" => Params(m) = VmessParams(m)
             /\ m.type = "vless" => Params(m) = VlessParams(m)
             /\ m.type = "trojan" => Params(m) = TrojanParams(m)
             /\ m.type = "hysteria2" => Params(m) = Hysteria2Params(m)
  BY DEF Params
<1> QED
  BY <1>1, <1>2, Zenon

\* When a link of each type is accepted.
LEMMA ParsesByType ==
  ASSUME NEW l, l.sound
  PROVE  /\ TypeOf(l.scheme) = "ss" => (Parses(l) <=> l.port \in PortNumbers)
         /\ TypeOf(l.scheme) = "vmess" => (Parses(l) <=> l.host # "" /\ l.port \notin {0, NoPort} /\ l.user # "")
         /\ TypeOf(l.scheme) \in {"vless", "trojan"} => (Parses(l) <=> StdURL(l) /\ l.user # "")
         /\ TypeOf(l.scheme) = "hysteria2" => (Parses(l) <=> StdURL(l))
         /\ Parses(l) => TypeOf(l.scheme) \in Linked
BY DEF Parses, Linked

\* The link of a map, but for its query.
LEMMA Built ==
  ASSUME NEW m, NEW name
  PROVE  LET k == BuildURI(m, name)
         IN /\ k.scheme = m.type /\ k.sound /\ k.host = m.server /\ k.port = m.port /\ k.name = name
            /\ k.user = Get(m.opts, IF m.type \in {"vmess", "vless"} THEN "uuid" ELSE "password")
            /\ m.type = "ss" => k.cipher = Get(m.opts, "cipher")
            /\ Alike(k.params, Params(m))
<1> DEFINE k == BuildURI(m, name)
<1>1. /\ k.scheme = m.type /\ k.sound /\ k.host = m.server /\ k.port = m.port /\ k.name = name
      /\ k.user = Get(m.opts, IF m.type \in {"vmess", "vless"} THEN "uuid" ELSE "password")
      /\ m.type = "ss" => k.cipher = Get(m.opts, "cipher")
      /\ k.params = NonEmpty(Params(m))
  BY DEF BuildURI
<1>2. Alike(k.params, Params(m))
  BY <1>1, GetNonEmpty DEF Alike
<1> QED
  BY <1>1, <1>2

LEMMA TypeOfLinked ==
  /\ \A type \in Linked : TypeOf(type) = type
  /\ Linked = {"ss", "vmess", "vless", "trojan", "hysteria2"}
BY DEF TypeOf, Linked

\* The parser accepts the link of a complete map.
LEMMA BuiltParses ==
  ASSUME NEW m, NEW name, Complete(m)
  PROVE  /\ Parses(BuildURI(m, name))
         /\ TypeOf(BuildURI(m, name).scheme) = m.type
<1> DEFINE k == BuildURI(m, name)
<1>1. /\ k.scheme = m.type /\ k.sound /\ k.host = m.server /\ k.port = m.port
      /\ k.user = Get(m.opts, IF m.type \in {"vmess", "vless"} THEN "uuid" ELSE "password")
  BY Built
<1> HIDE DEF k
<1>2. m.type \in {"ss", "vmess", "vless", "trojan", "hysteria2"} /\ TypeOf(k.scheme) = m.type
  BY <1>1, TypeOfLinked DEF Complete
<1>3. k.host # "" /\ k.port \in PortNumbers /\ k.port \notin {0, NoPort}
  BY <1>1, PortsAreGiven, Zenon DEF Complete
<1>4. m.type \in {"vmess", "vless", "trojan"} => k.user # ""
  BY <1>1 DEF Complete
<1>5. Parses(k)
  BY <1>1, <1>2, <1>3, <1>4, ParsesByType DEF StdURL
<1> QED
  BY <1>2, <1>5 DEF k

\* A map that is read from a link is complete, if its port is one.
LEMMA ReadIsComplete ==
  ASSUME NEW l, Parses(l), l.port \in PortNumbers
  PROVE  MapOf(l).type = "ss" \/ Complete(MapOf(l))
<1> DEFINE m == MapOf(l)
           type == TypeOf(l.scheme)
<1>1. /\ m.type = type /\ m.server = l.host /\ m.port = l.port
      /\ \A x : Get(m.opts, x) = Get(Options(l), x)
  BY GetNonEmpty DEF MapOf
<1>2. l.sound
  BY DEF Parses
<1>3. /\ type \in Linked
      /\ type \in {"vmess", "vless", "trojan"} => l.host # "" /\ l.user # ""
      /\ type = "hysteria2" => l.host # ""
  BY <1>2, ParsesByType DEF StdURL
<1>4. /\ type = "vmess" => Get(Options(l), "uuid") = l.user
      /\ type = "vless" => Get(Options(l), "uuid") = l.user
      /\ type = "trojan" => Get(Options(l), "password") = l.user
  <2>1. ASSUME type = "vmess" PROVE Get(Options(l), "uuid") = l.user
    <3>1. Options(l) = ParseVmess(l)
      BY <2>1, ByType
    <3>2. Get(ParseVmess(l), "uuid") = l.user
      BY VmessParsed DEF VmessIs
    <3> QED
      BY <3>1, <3>2
  <2>2. ASSUME type = "vless" PROVE Get(Options(l), "uuid") = l.user
    <3>1. Options(l) = ParseVless(l)
      BY <2>2, ByType
    <3>2. Get(ParseVless(l), "uuid") = l.user
      BY VlessParsed DEF VlessIs
    <3> QED
      BY <3>1, <3>2
  <2>3. ASSUME type = "trojan" PROVE Get(Options(l), "password") = l.user
    <3>1. Options(l) = ParseTrojan(l)
      BY <2>3, ByType
    <3>2. Get(ParseTrojan(l), "password") = l.user
      BY TrojanParsed DEF TrojanIs
    <3> QED
      BY <3>1, <3>2
  <2> QED
    BY <2>1, <2>2, <2>3
<1> HIDE DEF m, type
<1>5. type # "ss" => Complete(m)
  BY <1>1, <1>3, <1>4, TypeOfLinked DEF Complete
<1> QED
  BY <1>1, <1>5 DEF m, type

\* A link of any type but vless, parsed, written and parsed again.
LEMMA OptionsAgain ==
  ASSUME NEW l, NEW m, NEW k, NEW type, type \in Linked, type # "vless",
         type = TypeOf(l.scheme), type = TypeOf(k.scheme), type = m.type,
         Alike(m.opts, Options(l)), Alike(k.params, Params(m)),
         k.user = Get(m.opts, IF m.type \in {"vmess", "vless"} THEN "uuid" ELSE "password"),
         m.type = "ss" => k.cipher = Get(m.opts, "cipher")
  PROVE  Alike(Options(k), m.opts)
<1>1. CASE type = "ss"
  <2>1. Options(l) = ParseSS(l) /\ Options(k) = ParseSS(k) /\ Params(m) = SSParams(m)
    BY <1>1, ByType
  <2>2. k.cipher = Get(m.opts, "cipher") /\ k.user = Get(m.opts, "password")
    BY <1>1
  <2> QED
    BY <2>1, <2>2, SSAgain
<1>2. CASE type = "vmess"
  <2>1. Options(l) = ParseVmess(l) /\ Options(k) = ParseVmess(k) /\ Params(m) = VmessParams(m)
    BY <1>2, ByType
  <2>2. k.user = Get(m.opts, "uuid")
    BY <1>2
  <2> QED
    BY <2>1, <2>2, VmessAgain
<1>3. CASE type = "trojan"
  <2>1. Options(l) = ParseTrojan(l) /\ Options(k) = ParseTrojan(k) /\ Params(m) = TrojanParams(m)
    BY <1>3, ByType
  <2>2. k.user = Get(m.opts, "password")
    BY <1>3
  <2> QED
    BY <2>1, <2>2, TrojanAgain
<1>4. CASE type = "hysteria2"
  <2>1. Options(l) = ParseHysteria2(l) /\ Options(k) = ParseHysteria2(k) /\ Params(m) = Hysteria2Params(m)
    BY <1>4, ByType
  <2>2. k.user = Get(m.opts, "password")
    BY <1>4
  <2> QED
    BY <2>1, <2>2, Hysteria2Again
<1> QED
  BY <1>1, <1>2, <1>3, <1>4, TypeOfLinked

LEMMA NonEmptyIs ==
  ASSUME NEW f, f = [x \in DOMAIN f |-> f[x]], \A x \in DOMAIN f : f[x] # ""
  PROVE  NonEmpty(f) = f
<1>1. { x \in DOMAIN f : f[x] # "" } = DOMAIN f
  OBVIOUS
<1> QED
  BY <1>1 DEF NonEmpty

\* Options with tls.
LEMMA SayTLS ==
  ASSUME NEW f
  PROVE  LET o == NonEmpty(f)
             g == Both([tls |-> "true"], o)
         IN /\ \A x : Get(g, x) = IF x = "tls" THEN "true" ELSE Get(o, x)
            /\ NonEmpty(g) = g
            /\ NonEmpty(o) = o
            /\ \A x : x \in DOMAIN o <=> Get(o, x) # ""
<1> DEFINE o == NonEmpty(f)
           h == [tls |-> "true"]
           g == Both(h, o)
<1>1. DOMAIN h = {"tls"} /\ h["tls"] = "true"
  OBVIOUS
<1>2. o = [x \in DOMAIN o |-> o[x]] /\ \A x \in DOMAIN o : o[x] # ""
  BY DEF NonEmpty
<1> HIDE DEF h, o
<1>3. \A x : Get(g, x) = IF x = "tls" THEN "true" ELSE Get(o, x)
  BY <1>1, GetBoth
<1>4. /\ g = [x \in DOMAIN h \cup DOMAIN o |-> IF x \in DOMAIN h THEN h[x] ELSE o[x]]
      /\ g = [x \in DOMAIN g |-> g[x]]
  BY DEF Both
<1>5. \A x \in DOMAIN g : g[x] # ""
  BY <1>1, <1>2, <1>4
<1> HIDE DEF g
<1>6. NonEmpty(g) = g /\ NonEmpty(o) = o
  <2>1. NonEmpty(o) = o
    BY <1>2, NonEmptyIs, Zenon
  <2>2. NonEmpty(g) = g
    BY <1>4, <1>5, NonEmptyIs, Zenon
  <2> QED
    BY <2>1, <2>2
<1>7. \A x : x \in DOMAIN o <=> Get(o, x) # ""
  BY <1>2 DEF Get
<1> QED
  BY <1>3, <1>6, <1>7 DEF g, h, o

\* What is understood of a link is understood of the link made of it.
LEMMA LinkAgain ==
  ASSUME NEW l, NEW name, Parses(l), l.port \in PortNumbers
  PROVE  LET m == MapOf(l)
             k == BuildURI(m, name)
         IN Parses(k) /\ MapOf(k) = WithTLS(m)
<1> DEFINE m == MapOf(l)
           k == BuildURI(m, name)
           o == m.opts
           type == TypeOf(l.scheme)
<1>1. /\ m = [type |-> type, server |-> l.host, port |-> l.port, opts |-> o]
      /\ m.type = type /\ m.server = l.host /\ m.port = l.port /\ o = NonEmpty(Options(l))
  BY DEF MapOf
<1>2. Alike(o, Options(l))
  BY <1>1, GetNonEmpty DEF Alike
<1>3. /\ k.scheme = type /\ k.sound /\ k.host = l.host /\ k.port = l.port
      /\ k.user = Get(o, IF type \in {"vmess", "vless"} THEN "uuid" ELSE "password")
      /\ type = "ss" => k.cipher = Get(o, "cipher")
      /\ Alike(k.params, Params(m))
  BY <1>1, Built
<1>4. type \in Linked
  BY ParsesByType DEF Parses
<1>5. TypeOf(k.scheme) = type
  BY <1>3, <1>4, TypeOfLinked
<1>6. Parses(k)
  <2>1. CASE type = "ss"
    BY <1>3, <1>5, <2>1, ParsesByType
  <2>2. CASE type # "ss"
    BY <1>1, <2>2, ReadIsComplete, BuiltParses
  <2> QED
    BY <2>1, <2>2
<1>7. MapOf(k) = [type |-> type, server |-> l.host, port |-> l.port, opts |-> NonEmpty(Options(k))]
  BY <1>3, <1>5 DEF MapOf
<1>8. /\ \A x : Get(Both([tls |-> "true"], o), x) = IF x = "tls" THEN "true" ELSE Get(o, x)
      /\ NonEmpty(Both([tls |-> "true"], o)) = Both([tls |-> "true"], o)
      /\ NonEmpty(o) = o
      /\ "publicKey" \in DOMAIN o <=> Get(o, "publicKey") # ""
  BY <1>1, SayTLS, Zenon
<1>9. CASE type # "vless"
  <2>1. Alike(Options(k), o)
    <3> HIDE DEF k, m, type
    <3> QED
      BY <1>1, <1>2, <1>3, <1>4, <1>5, <1>9, OptionsAgain DEF type
  <2>2. NonEmpty(Options(k)) = o
    BY <1>8, <2>1, SameFields DEF Alike
  <2>3. WithTLS(m) = m
    BY <1>1, <1>9 DEF WithTLS
  <2> QED
    BY <1>1, <1>6, <1>7, <2>2, <2>3
<1>10. CASE type = "vless"
  <2>1. Options(l) = ParseVless(l) /\ Options(k) = ParseVless(k) /\ Params(m) = VlessParams(m)
    BY <1>1, <1>5, <1>10, ByType
  <2>2. k.user = Get(o, "uuid")
    BY <1>3, <1>10
  <2>3. \A x : Get(Options(k), x) = IF x = "tls" /\ "publicKey" \in DOMAIN o THEN "true" ELSE Get(o, x)
    <3>1. Alike(o, ParseVless(l)) /\ Alike(k.params, VlessParams(m))
      BY <1>2, <1>3, <2>1
    <3>2. "publicKey" \in DOMAIN o <=> Get(o, "publicKey") # ""
      BY <1>8
    <3>3. AlikeWithTLS(ParseVless(k), o)
      <4> HIDE DEF k, m
      <4> QED
        BY <2>2, <3>1, <3>2, VlessAgain, Zenon
    <3> QED
      BY <2>1, <3>3, Zenon DEF AlikeWithTLS
  <2>4. CASE "publicKey" \in DOMAIN o
    <3> DEFINE g == Both([tls |-> "true"], o)
    <3>1. \A x : Get(Options(k), x) = Get(g, x)
      BY <1>8, <2>3, <2>4
    <3>2. NonEmpty(Options(k)) = g
      BY <1>8, <3>1, SameFields
    <3>3. WithTLS(m) = [m EXCEPT !.opts = g]
      BY <1>1, <1>10, <2>4 DEF WithTLS
    <3> HIDE DEF g
    <3>4. [m EXCEPT !.opts = g] = [type |-> type, server |-> l.host, port |-> l.port, opts |-> g]
      BY <1>1
    <3> QED
      BY <1>6, <1>7, <3>2, <3>3, <3>4
  <2>5. CASE "publicKey" \notin DOMAIN o
    <3>1. NonEmpty(Options(k)) = o
      BY <1>8, <2>3, <2>5, SameFields
    <3>2. WithTLS(m) = m
      BY <2>5 DEF WithTLS
    <3> QED
      BY <1>1, <1>6, <1>7, <3>1, <3>2
  <2> QED
    BY <2>4, <2>5
<1> QED
  BY <1>9, <1>10

\* Of the networks a map can have, links know three.
KnownNetwork(network) == IF network \in {"ws", "grpc", "h2"} THEN network ELSE ""

\* The network of a transport that is written and read.
LEMMA NetworkAgain ==
  ASSUME NEW u, NEW type, NEW path, NEW host, NEW service, IsTransport(u, type, path, host, service),
         NEW o, IsWritten(type, path, host, service, o)
  PROVE  Get(u, "network") = KnownNetwork(Get(o, "network"))
BY DEF IsTransport, FieldsAre, IsWritten, OnlyIf, KnownNetwork

\* What a key says of a map, of a map and of the map read from its link.
LEMMA OptionsInKey ==
  ASSUME NEW m, NEW k, m.type \in Linked, TypeOf(k.scheme) = m.type,
         Alike(k.params, Params(m)),
         k.user = Get(m.opts, IF m.type \in {"vmess", "vless"} THEN "uuid" ELSE "password"),
         m.type = "ss" => k.cipher = Get(m.opts, "cipher")
  PROVE  LET o == Options(k)
             network == Get(m.opts, "network")
         IN /\ m.type \in {"vmess", "vless"} => Get(o, "uuid") = Get(m.opts, "uuid")
            /\ m.type \in {"ss", "trojan", "hysteria2"} => Get(o, "password") = Get(m.opts, "password")
            /\ m.type = "ss" => Get(o, "cipher") = Get(m.opts, "cipher")
            /\ Get(o, "network") = IF m.type \in {"vmess", "vless", "trojan"} /\ network \in {"ws", "grpc", "h2"}
                                   THEN network ELSE ""
<1> DEFINE q == k.params
           network == Get(m.opts, "network")
<1>1. CASE m.type = "ss"
  <2>1. Options(k) = ParseSS(k)
    BY <1>1, ByType
  <2>2. SSIs(ParseSS(k), k.cipher, k.user, SSPlugin(q)) /\ PluginOnly(SSPlugin(q))
    BY SSParsed, PluginParsed
  <2>3. Get(ParseSS(k), "cipher") = k.cipher /\ Get(ParseSS(k), "password") = k.user /\ Get(ParseSS(k), "network") = ""
    BY <2>2 DEF SSIs, SSBase, PluginOnly, PluginNames
  <2> QED
    BY <1>1, <2>1, <2>3
<1>2. CASE m.type = "vmess"
  <2>1. Options(k) = ParseVmess(k) /\ Params(m) = VmessParams(m)
    BY <1>2, ByType
  <2>2. VmessWritten(q, m.opts)
    BY <2>1, VmessParamsWritten DEF Alike
  <2>3. IsTransport(VmessTransport(q), Get(q, "net"), Get(q, "path"), Get(q, "host"), "")
    BY VmessTransportParsed
  <2>4. Get(VmessTransport(q), "network") = KnownNetwork(network)
    <3> DEFINE u == VmessTransport(q)
               net == Get(q, "net")
               path == Get(q, "path")
               host == Get(q, "host")
               service == ""
    <3>1. IsTransport(u, net, path, host, service) /\ IsWritten(net, path, host, service, m.opts)
      BY <2>2, <2>3 DEF VmessWritten
    <3> HIDE DEF u, net, path, host, service
    <3>2. Get(u, "network") = KnownNetwork(network)
      BY <3>1, NetworkAgain
    <3> QED
      BY <3>2 DEF u
  <2>5. Get(ParseVmess(k), "uuid") = k.user /\ Get(ParseVmess(k), "network") = Get(VmessTransport(q), "network")
    <3>1. /\ Get(ParseVmess(k), "uuid") = k.user
          /\ \A x : x \notin VmessBase => Get(ParseVmess(k), x) = Get(VmessTransport(q), x)
      BY VmessParsed DEF VmessIs
    <3> QED
      BY <3>1 DEF VmessBase
  <2> QED
    BY <1>2, <2>1, <2>4, <2>5 DEF KnownNetwork
<1>3. CASE m.type = "vless"
  <2>1. Options(k) = ParseVless(k) /\ Params(m) = VlessParams(m)
    BY <1>3, ByType
  <2>2. VlessWritten(q, m.opts)
    BY <2>1, VlessParamsWritten DEF Alike
  <2>3. IsTransport(Transport(q), Get(q, "type"), Get(q, "path"), Get(q, "host"), Get(q, "serviceName"))
    BY TransportParsed
  <2>4. Get(Transport(q), "network") = KnownNetwork(network)
    <3>1. IsWritten(Get(q, "type"), Get(q, "path"), Get(q, "host"), Get(q, "serviceName"), m.opts)
      BY <2>2 DEF VlessWritten
    <3> QED
      BY <2>3, <3>1, NetworkAgain
  <2>5. Get(ParseVless(k), "uuid") = k.user /\ Get(ParseVless(k), "network") = Get(Transport(q), "network")
    <3>1. /\ Get(ParseVless(k), "uuid") = k.user
          /\ \A x : x \notin VlessBase => Get(ParseVless(k), x) = Get(Transport(q), x)
      BY VlessParsed DEF VlessIs
    <3> QED
      BY <3>1 DEF VlessBase
  <2> QED
    BY <1>3, <2>1, <2>4, <2>5 DEF KnownNetwork
<1>4. CASE m.type = "trojan"
  <2>1. Options(k) = ParseTrojan(k) /\ Params(m) = TrojanParams(m)
    BY <1>4, ByType
  <2>2. TrojanWritten(q, m.opts)
    BY <2>1, TrojanParamsWritten DEF Alike
  <2>3. IsTransport(Transport(q), Get(q, "type"), Get(q, "path"), Get(q, "host"), Get(q, "serviceName"))
    BY TransportParsed
  <2>4. Get(Transport(q), "network") = KnownNetwork(network)
    <3>1. IsWritten(Get(q, "type"), Get(q, "path"), Get(q, "host"), Get(q, "serviceName"), m.opts)
      BY <2>2 DEF TrojanWritten
    <3> QED
      BY <2>3, <3>1, NetworkAgain
  <2>5. Get(ParseTrojan(k), "password") = k.user /\ Get(ParseTrojan(k), "network") = Get(Transport(q), "network")
    <3>1. /\ Get(ParseTrojan(k), "password") = k.user
          /\ \A x : x \notin TrojanBase => Get(ParseTrojan(k), x) = Get(Transport(q), x)
      BY TrojanParsed DEF TrojanIs
    <3> QED
      BY <3>1 DEF TrojanBase
  <2> QED
    BY <1>4, <2>1, <2>4, <2>5 DEF KnownNetwork
<1>5. CASE m.type = "hysteria2"
  <2>1. Options(k) = ParseHysteria2(k)
    BY <1>5, ByType
  <2>2. Get(ParseHysteria2(k), "password") = k.user /\ Get(ParseHysteria2(k), "network") = ""
    BY Hysteria2Parsed DEF Hysteria2Is, Hysteria2Base
  <2> QED
    BY <1>5, <2>1, <2>2
<1> QED
  BY <1>1, <1>2, <1>3, <1>4, <1>5, TypeOfLinked

\* The credential of a map of each type.
LEMMA CredentialByType ==
  ASSUME NEW m
  PROVE  /\ m.type = "ss" => Credential(m) = <<Get(m.opts, "cipher"), Get(m.opts, "password")>>
         /\ m.type \in {"vmess", "vless"} => Credential(m) = <<Get(m.opts, "uuid")>>
         /\ m.type \in {"trojan", "hysteria2"} => Credential(m) = <<Get(m.opts, "password")>>
BY DEF Credential

\* A complete map is read back from its link.
LEMMA MapAgain ==
  ASSUME NEW m, NEW name, Complete(m)
  PROVE  LET k == BuildURI(m, name)
         IN FromURI(k) = [name |-> name, key |-> KeyInLink(m), clash |-> MapOf(k), raw |-> k]
<1> DEFINE k == BuildURI(m, name)
           c == MapOf(k)
           o == m.opts
           network == Get(o, "network")
<1>1. Parses(k) /\ TypeOf(k.scheme) = m.type
  BY BuiltParses
<1>2. /\ k.host = m.server /\ k.port = m.port /\ k.name = name
      /\ k.user = Get(o, IF m.type \in {"vmess", "vless"} THEN "uuid" ELSE "password")
      /\ m.type = "ss" => k.cipher = Get(o, "cipher")
      /\ Alike(k.params, Params(m))
  BY Built
<1>3. m.type \in Linked /\ m.type \in {"ss", "vmess", "vless", "trojan", "hysteria2"}
  BY TypeOfLinked DEF Complete
<1>4. /\ m.type \in {"vmess", "vless"} => Get(Options(k), "uuid") = Get(o, "uuid")
      /\ m.type \in {"ss", "trojan", "hysteria2"} => Get(Options(k), "password") = Get(o, "password")
      /\ m.type = "ss" => Get(Options(k), "cipher") = Get(o, "cipher")
      /\ Get(Options(k), "network") = IF m.type \in {"vmess", "vless", "trojan"} /\ network \in {"ws", "grpc", "h2"}
                                      THEN network ELSE ""
  <2> HIDE DEF k
  <2> QED
    BY <1>1, <1>2, <1>3, OptionsInKey
<1>5. c.type = m.type /\ c.server = m.server /\ c.port = m.port /\ \A x : Get(c.opts, x) = Get(Options(k), x)
  BY <1>1, <1>2, GetNonEmpty DEF MapOf
<1>6. Credential(c) = Credential(m)
  <2> HIDE DEF c, k
  <2> QED
    BY <1>3, <1>4, <1>5, CredentialByType
<1>7. ClashKey(c) = <<m.type, m.server, m.port, Get(Options(k), "network"), Credential(m)>>
  BY <1>5, <1>6 DEF ClashKey
<1>8. \A x : [ClashKey(m) EXCEPT ![4] = x] = <<m.type, m.server, m.port, x, Credential(m)>>
  BY DEF ClashKey
<1>9. ClashKey(c) = KeyInLink(m)
  BY <1>4, <1>7, <1>8 DEF KeyInLink
<1>10. FromURI(k) = [name |-> k.name, key |-> ClashKey(c), clash |-> c, raw |-> k]
  <2> HIDE DEF k
  <2> QED
    BY <1>1 DEF FromURI
<1> QED
  BY <1>2, <1>9, <1>10

\* What is not understood makes no map.
LEMMA OnlyParsed ==
  ASSUME NEW l, FromURI(l).clash # None
  PROVE  /\ Parses(l)
         /\ FromURI(l).clash = MapOf(l)
         /\ FromURI(l).name = l.name
<1> DEFINE key == <<"raw", IF l.scheme = "vmess" THEN l ELSE [l EXCEPT !.name = <<>>]>>
           name == IF l.scheme = "vmess" THEN <<>> ELSE l.name
<1>1. FromURI(l) = IF Parses(l) THEN [name |-> l.name, key |-> ClashKey(MapOf(l)), clash |-> MapOf(l), raw |-> l]
                   ELSE [name |-> name, clash |-> None, raw |-> l, key |-> key]
  BY Zenon DEF FromURI
<1> HIDE DEF key, name
<1> QED
  BY <1>1

LEMMA ParsedIs ==
  ASSUME NEW l, Parses(l)
  PROVE  FromURI(l).clash = MapOf(l)
<1>1. FromURI(l) = [name |-> l.name, key |-> ClashKey(MapOf(l)), clash |-> MapOf(l), raw |-> l]
  BY Zenon DEF FromURI
<1> QED
  BY <1>1

-----------------------------------------------------------------------------
(* Reading what was written *)

\* One more element, which is taken or not.
LEMMA NextInOrder ==
  ASSUME NEW E, NEW all, NEW k \in Nat \ {0}, all[k] \in E, NEW old \in Seq(E), NEW new,
         NEW before \in SUBSET (1 .. k - 1), NEW now, InOrder(all, before, old),
         NEW takes \in BOOLEAN,
         now = IF takes THEN before \cup {k} ELSE before,
         new = IF takes THEN Append(old, all[k]) ELSE old
  PROVE  InOrder(all, now, new)
<1>1. InOrder(all, before \cup {k}, Append(old, all[k]))
  BY OneMore
<1>2. CASE takes
  <2>1. now = before \cup {k} /\ new = Append(old, all[k])
    BY <1>2
  <2> QED
    BY <1>1, <2>1
<1>3. CASE ~takes
  <2>1. now = before /\ new = old
    BY <1>3
  <2> QED
    BY <2>1
<1> QED
  BY <1>2, <1>3

\* The entries that are read, and what they are read as.
Servers(entries, k) == { p \in 1 .. k : entries[p].map.type # "" /\ entries[p].map.server # "" }

Listed(entries) == [i \in DOMAIN entries |-> FromClashMap(entries[i].name, entries[i].map)]

LEMMA ProxiesAreRead ==
  ASSUME NEW S0, NEW entries \in Seq(S0)
  PROVE  LET list == FoldAddProxy(<<>>, entries)
         IN /\ \E S : list \in Seq(S)
            /\ InOrder(Listed(entries), Servers(entries, Len(entries)), list)
<1> DEFINE n == Len(entries)
           all == Listed(entries)
           E == { all[i] : i \in 1 .. n }
           T == Seq(E)
           Takes(k) == entries[k].map.type # "" /\ entries[k].map.server # ""
<1>1. /\ n \in Nat /\ DOMAIN entries = 1 .. n /\ <<>> \in T
      /\ \A k \in 1 .. n : all[k] \in E /\ all[k] = FromClashMap(entries[k].name, entries[k].map)
  BY DEF Listed
<1> HIDE DEF all, E
<1>2. \A t : \A k \in 1 .. n : AddProxy(t, entries[k]) = IF Takes(k) THEN Append(t, all[k]) ELSE t
  BY <1>1 DEF AddProxy
<1>3. \A k \in 0 .. n : Servers(entries, k) = { p \in 1 .. k : Takes(p) }
  BY DEF Servers
<1> HIDE DEF Takes
<1>4. \A t \in T : \A k \in 1 .. n : AddProxy(t, entries[k]) \in T
  BY <1>1, <1>2
<1>5. PICK r : RunAddProxy(T, <<>>, n, entries, r)
  <2> HIDE DEF T, n
  <2> QED
    BY <1>1, <1>4, AddProxyRuns
<1> DEFINE I == { k \in 0 .. n : InOrder(all, { p \in 1 .. k : Takes(p) }, r[k]) }
<1>6. 0 \in I
  <2>1. { p \in 1 .. 0 : Takes(p) } = {} /\ r[0] = <<>>
    BY <1>5 DEF RunAddProxy
  <2>2. InOrder(all, {}, <<>>)
    BY FS_EmptySet DEF InOrder
  <2> QED
    BY <1>1, <2>1, <2>2
<1>7. ASSUME NEW k \in 1 .. n, k - 1 \in I
      PROVE  k \in I
  <2>1. k \in 0 .. n /\ k - 1 \in 0 .. n /\ k \in Nat \ {0}
    BY <1>1
  <2>2. /\ r[k - 1] \in T
        /\ r[k] = IF Takes(k) THEN Append(r[k - 1], all[k]) ELSE r[k - 1]
    BY <1>2, <1>5, <2>1 DEF RunAddProxy
  <2>3. InOrder(all, { p \in 1 .. k - 1 : Takes(p) }, r[k - 1])
    BY <1>7
  <2> DEFINE before == { p \in 1 .. k - 1 : Takes(p) }
             now == { p \in 1 .. k : Takes(p) }
  <2>4. before \in SUBSET (1 .. k - 1) /\ now = IF Takes(k) THEN before \cup {k} ELSE before
    <3>1. /\ \A p \in 1 .. k : p \in 1 .. k - 1 \/ p = k
          /\ 1 .. k - 1 \subseteq 1 .. k /\ k \in 1 .. k
      OBVIOUS
    <3>2. CASE Takes(k)
      <4>1. now = before \cup {k}
        BY <3>1, <3>2, Zenon
      <4> QED
        BY <3>2, <4>1
    <3>3. CASE ~Takes(k)
      <4>1. now = before
        BY <3>1, <3>3, Zenon
      <4> QED
        BY <3>3, <4>1
    <3> QED
      BY <3>2, <3>3
  <2>5. InOrder(all, before, r[k - 1]) /\ all[k] \in E
    BY <1>1, <2>3
  <2>6. InOrder(all, now, r[k])
    <3> HIDE DEF n, before, now, T
    <3>1. r[k - 1] \in Seq(E)
      BY <2>2 DEF T
    <3>2. Takes(k) \in BOOLEAN
      BY DEF Takes
    <3> QED
      BY <2>1, <2>2, <2>4, <2>5, <3>1, <3>2, NextInOrder
  <2> QED
    BY <2>1, <2>6
<1>8. n \in I
  <2> HIDE DEF I, n
  <2> QED
    BY <1>1, <1>6, <1>7, BoundedInduction
<1>9. FoldAddProxy(<<>>, entries) = r[n] /\ r[n] \in T /\ n \in 0 .. n
  BY <1>1, <1>5 DEF RunAddProxy
<1> QED
  BY <1>3, <1>8, <1>9 DEF all

\* The nodes that are written as links, and the links.
Writable(nodes, k) == { p \in 1 .. k : HasURI(nodes[p]) }

Written(nodes) == [i \in DOMAIN nodes |-> URI(nodes[i])]

LEMMA LinksAreWritten ==
  ASSUME NEW S0, NEW nodes \in Seq(S0)
  PROVE  LET list == FoldAddLink(<<>>, nodes)
         IN /\ \E S : list \in Seq(S)
            /\ InOrder(Written(nodes), Writable(nodes, Len(nodes)), list)
<1> DEFINE n == Len(nodes)
           all == Written(nodes)
           E == { all[i] : i \in 1 .. n }
           T == Seq(E)
           Takes(k) == HasURI(nodes[k])
<1>1. /\ n \in Nat /\ DOMAIN nodes = 1 .. n /\ <<>> \in T
      /\ \A k \in 1 .. n : all[k] \in E /\ all[k] = URI(nodes[k])
  BY DEF Written
<1> HIDE DEF all, E
<1>2. \A t : \A k \in 1 .. n : AddLink(t, nodes[k]) = IF Takes(k) THEN Append(t, all[k]) ELSE t
  BY <1>1 DEF AddLink
<1>3. \A k \in 0 .. n : Writable(nodes, k) = { p \in 1 .. k : Takes(p) }
  BY DEF Writable
<1> HIDE DEF Takes
<1>4. \A t \in T : \A k \in 1 .. n : AddLink(t, nodes[k]) \in T
  BY <1>1, <1>2
<1>5. PICK r : RunAddLink(T, <<>>, n, nodes, r)
  <2> HIDE DEF T, n
  <2> QED
    BY <1>1, <1>4, AddLinkRuns
<1> DEFINE I == { k \in 0 .. n : InOrder(all, { p \in 1 .. k : Takes(p) }, r[k]) }
<1>6. 0 \in I
  <2>1. { p \in 1 .. 0 : Takes(p) } = {} /\ r[0] = <<>>
    BY <1>5 DEF RunAddLink
  <2>2. InOrder(all, {}, <<>>)
    BY FS_EmptySet DEF InOrder
  <2> QED
    BY <1>1, <2>1, <2>2
<1>7. ASSUME NEW k \in 1 .. n, k - 1 \in I
      PROVE  k \in I
  <2>1. k \in 0 .. n /\ k - 1 \in 0 .. n /\ k \in Nat \ {0}
    BY <1>1
  <2>2. /\ r[k - 1] \in T
        /\ r[k] = IF Takes(k) THEN Append(r[k - 1], all[k]) ELSE r[k - 1]
    BY <1>2, <1>5, <2>1 DEF RunAddLink
  <2>3. InOrder(all, { p \in 1 .. k - 1 : Takes(p) }, r[k - 1])
    BY <1>7
  <2> DEFINE before == { p \in 1 .. k - 1 : Takes(p) }
             now == { p \in 1 .. k : Takes(p) }
  <2>4. before \in SUBSET (1 .. k - 1) /\ now = IF Takes(k) THEN before \cup {k} ELSE before
    <3>1. /\ \A p \in 1 .. k : p \in 1 .. k - 1 \/ p = k
          /\ 1 .. k - 1 \subseteq 1 .. k /\ k \in 1 .. k
      OBVIOUS
    <3>2. CASE Takes(k)
      <4>1. now = before \cup {k}
        BY <3>1, <3>2, Zenon
      <4> QED
        BY <3>2, <4>1
    <3>3. CASE ~Takes(k)
      <4>1. now = before
        BY <3>1, <3>3, Zenon
      <4> QED
        BY <3>3, <4>1
    <3> QED
      BY <3>2, <3>3
  <2>5. InOrder(all, before, r[k - 1]) /\ all[k] \in E
    BY <1>1, <2>3
  <2>6. InOrder(all, now, r[k])
    <3> HIDE DEF n, before, now, T
    <3>1. r[k - 1] \in Seq(E)
      BY <2>2 DEF T
    <3>2. Takes(k) \in BOOLEAN
      BY DEF Takes, HasURI
    <3> QED
      BY <2>1, <2>2, <2>4, <2>5, <3>1, <3>2, NextInOrder
  <2> QED
    BY <2>1, <2>6
<1>8. n \in I
  <2> HIDE DEF I, n
  <2> QED
    BY <1>1, <1>6, <1>7, BoundedInduction
<1>9. FoldAddLink(<<>>, nodes) = r[n] /\ r[n] \in T /\ n \in 0 .. n
  BY <1>1, <1>5 DEF RunAddLink
<1> QED
  BY <1>3, <1>8, <1>9 DEF all

\* mid is what all has at the places P, and R are those places whose ranks
\* are in Q.
HaveRanksIn(n, all, P, mid, Q, R) ==
  /\ n \in Nat /\ P \in SUBSET (1 .. n) /\ InOrder(all, P, mid)
  /\ Q \in SUBSET (1 .. Len(mid)) /\ R \in SUBSET P
  /\ \A p \in P : p \in R <=> Rank(P, p) \in Q

RanksAgree(P, Q, R) ==
  /\ Cardinality(R) = Cardinality(Q)
  /\ \A p \in R : Rank(R, p) = Rank(Q, Rank(P, p))

\* Some places among the ranks of places: with the places that have those
\* ranks they have as many elements, at the same ranks.
LEMMA RanksOfRanks ==
  ASSUME NEW n, NEW all, NEW P, NEW mid, NEW Q, NEW R, HaveRanksIn(n, all, P, mid, Q, R)
  PROVE  RanksAgree(P, Q, R)
<1>0. /\ R \in SUBSET P /\ \A p \in P : p \in R <=> Rank(P, p) \in Q
      /\ n \in Nat /\ P \in SUBSET (1 .. n) /\ Q \in SUBSET (1 .. Len(mid))
  BY DEF HaveRanksIn
<1>1. IsFiniteSet(P)
  <2>1. IsFiniteSet(1 .. n)
    BY <1>0, FS_Interval
  <2> QED
    BY <1>0, <2>1, FS_Subset
<1>2. /\ \A p, q \in P : Rank(P, p) = Rank(P, q) => p = q
      /\ \A j \in Q : \E p \in P : Rank(P, p) = j
      /\ \A p \in P : Rank(P, p) \in 1 .. Len(mid)
  BY <1>0 DEF HaveRanksIn, InOrder
<1>3. ASSUME NEW A, A \in SUBSET R, NEW B, B \in SUBSET Q,
             \A p \in R : p \in A <=> Rank(P, p) \in B
      PROVE  Cardinality(A) = Cardinality(B)
  <2> DEFINE f == [p \in A |-> Rank(P, p)]
  <2>1. f \in [A -> B]
    BY <1>0, <1>3
  <2>2. \A p, q \in A : f[p] = f[q] => p = q
    BY <1>0, <1>2, <1>3
  <2>3. \A j \in B : \E p \in A : f[p] = j
    <3> SUFFICES ASSUME NEW j \in B PROVE \E p \in A : f[p] = j
      OBVIOUS
    <3>1. PICK p \in P : Rank(P, p) = j
      BY <1>0, <1>2, <1>3
    <3>2. p \in R /\ p \in A
      BY <1>0, <1>3, <3>1
    <3> QED
      BY <3>1, <3>2
  <2> HIDE DEF f
  <2>4. f \in Bijection(A, B)
    BY <2>1, <2>2, <2>3 DEF Bijection, Injection, Surjection, IsInjective
  <2>5. IsFiniteSet(A)
    BY <1>0, <1>1, <1>3, FS_Subset
  <2> QED
    BY <2>4, <2>5, FS_Bijection DEF ExistsBijection
<1>4. Cardinality(R) = Cardinality(Q)
  BY <1>0, <1>2, <1>3
<1>5. ASSUME NEW p \in R
      PROVE  Rank(R, p) = Rank(Q, Rank(P, p))
  <2> DEFINE A == { q \in R : q <= p }
             B == { j \in Q : j <= Rank(P, p) }
  <2>1. ASSUME NEW q \in R
        PROVE  q <= p <=> Rank(P, q) <= Rank(P, p)
    <3>1. Rank(P, p) \in Int /\ Rank(P, q) \in Int /\ p \in Int /\ q \in Int /\ p \in P /\ q \in P
      BY <1>0, <1>2, Len(mid) \in Nat
    <3>2. Rank(P, p) < Rank(P, q) => p < q
      BY <1>0, <3>1, RanksRise
    <3>3. Rank(P, q) < Rank(P, p) => q < p
      BY <1>0, <3>1, RanksRise
    <3>4. Rank(P, p) = Rank(P, q) => p = q
      BY <1>2, <3>1
    <3> QED
      BY <3>1, <3>2, <3>3, <3>4
  <2>2. \A q \in R : q \in A <=> Rank(P, q) \in B
    BY <1>0, <2>1
  <2>3. Cardinality(A) = Cardinality(B)
    <3>1. A \in SUBSET R /\ B \in SUBSET Q
      BY <1>0
    <3> HIDE DEF A, B
    <3> QED
      BY <1>3, <2>2, <3>1
  <2> QED
    BY <1>0, <2>3 DEF Rank
<1> QED
  BY <1>4, <1>5 DEF RanksAgree

LEMMA NodeOfMap ==
  ASSUME NEW name, NEW m
  PROVE  FromClashMap(name, m).name = name /\ FromClashMap(name, m).key = ClashKey(m)
BY DEF FromClashMap

\* What a key says of a node with a map, and that the map has a type.
LEMMA MadeKey ==
  ASSUME NEW n, Made(n), n.clash # None
  PROVE  n.key = ClashKey(n.clash) /\ n.clash.type # ""
<1>1. CASE n.raw # None
  <2> DEFINE l == n.raw
  <2>1. n = FromURI(l)
    BY <1>1 DEF Made
  <2>2. Parses(l)
    BY <2>1, OnlyParsed
  <2>3. FromURI(l) = [name |-> l.name, key |-> ClashKey(MapOf(l)), clash |-> MapOf(l), raw |-> l]
    BY <2>2, Zenon DEF FromURI
  <2>4. n.key = ClashKey(n.clash) /\ n.clash = MapOf(l)
    BY <2>1, <2>3
  <2>5. l.sound
    BY <2>2 DEF Parses
  <2>6. TypeOf(l.scheme) \in Linked
    BY <2>2, <2>5, ParsesByType
  <2>7. MapOf(l).type = TypeOf(l.scheme) /\ "" \notin Linked
    BY DEF MapOf, Linked
  <2> QED
    BY <2>4, <2>6, <2>7
<1>2. CASE n.raw = None
  <2>1. n = FromClashMap(n.name, n.clash) /\ n.clash.type # ""
    BY <1>2 DEF Made
  <2>2. FromClashMap(n.name, n.clash).key = ClashKey(n.clash)
    BY NodeOfMap
  <2> QED
    BY <2>1, <2>2
<1> QED
  BY <1>1, <1>2

\* A sequence in the order of some places is empty if there are none.
LEMMA EmptyInOrder ==
  ASSUME NEW S, NEW list \in Seq(S), NEW all, NEW n \in Nat, NEW places \in SUBSET (1 .. n),
         InOrder(all, places, list)
  PROVE  list = <<>> <=> places = {}
<1>1. IsFiniteSet(places)
  <2>1. IsFiniteSet(1 .. n)
    BY FS_Interval
  <2> QED
    BY <2>1, FS_Subset
<1>2. Cardinality(places) = 0 <=> places = {}
  BY <1>1, FS_EmptySet
<1>3. Len(list) = 0 <=> list = <<>>
  OBVIOUS
<1> QED
  BY <1>2, <1>3 DEF InOrder

WithServer(nodes) == { i \in Mapped(nodes, Len(nodes)) : nodes[i].clash.server # "" }

\* A Clash document made of nodes, read.
LEMMA ClashIsRead ==
  ASSUME NEW nodes, NodesTyped(nodes), \A i \in DOMAIN nodes : Made(nodes[i])
  PROVE  LET entries == ClashEntries(nodes)
             got == ClashNodes(entries)
             read == WithServer(nodes)
         IN /\ entries = <<>> <=> Mapped(nodes, Len(nodes)) = {}
            /\ Len(got) = Cardinality(read)
            /\ \A i \in read : ReadInClash(got[Rank(read, i)], nodes[i], UniqueNames(nodes)[i])
<1> DEFINE n == Len(nodes)
           P == Mapped(nodes, n)
           mid == ClashEntries(nodes)
           Q == Servers(mid, Len(mid))
           got == ClashNodes(mid)
           read == WithServer(nodes)
<1>1. n \in Nat /\ DOMAIN nodes = 1 .. n /\ P \in SUBSET (1 .. n)
  BY DEF NodesTyped, IsSeq, Mapped
<1>2. PICK S : mid \in Seq(S) /\ InOrder(Named(nodes), P, mid)
  BY EntriesAreInOrder
<1>3. got = FoldAddProxy(<<>>, mid)
  BY DEF ClashNodes, FoldAddProxy
<1>4. InOrder(Listed(mid), Q, got)
  BY <1>2, <1>3, ProxiesAreRead
<1>5. mid = <<>> <=> P = {}
  <2> HIDE DEF mid, P, n
  <2> QED
    BY <1>1, <1>2, EmptyInOrder
<1>6. Len(mid) \in Nat /\ DOMAIN mid = 1 .. Len(mid)
  BY <1>2
<1>7. ASSUME NEW i \in P
      PROVE  LET j == Rank(P, i)
             IN /\ j \in 1 .. Len(mid)
                /\ mid[j].name = UniqueNames(nodes)[i] /\ mid[j].map = nodes[i].clash
                /\ nodes[i].clash.type # "" /\ nodes[i].key = ClashKey(nodes[i].clash)
  <2>1. Rank(P, i) \in 1 .. Len(mid) /\ mid[Rank(P, i)] = Named(nodes)[i]
    BY <1>2 DEF InOrder
  <2>2. i \in DOMAIN nodes /\ nodes[i].clash # None
    BY <1>1 DEF Mapped
  <2>3. Named(nodes)[i] = [name |-> UniqueNames(nodes)[i], map |-> nodes[i].clash]
    BY <2>2 DEF Named
  <2>4. nodes[i].clash.type # "" /\ nodes[i].key = ClashKey(nodes[i].clash)
    BY <2>2, MadeKey
  <2>5. mid[Rank(P, i)] = [name |-> UniqueNames(nodes)[i], map |-> nodes[i].clash]
    BY <2>1, <2>3
  <2> HIDE DEF mid, P, n
  <2>6. mid[Rank(P, i)].name = UniqueNames(nodes)[i] /\ mid[Rank(P, i)].map = nodes[i].clash
    BY <2>5
  <2> QED
    BY <2>1, <2>4, <2>6
<1> HIDE DEF mid, got, P, n
<1>8. \A i \in P : i \in read <=> Rank(P, i) \in Q
  <2>1. \A i \in P : i \in read <=> nodes[i].clash.server # ""
    BY DEF WithServer, P, n
  <2>2. \A j \in 1 .. Len(mid) : j \in Q <=> mid[j].map.type # "" /\ mid[j].map.server # ""
    BY DEF Servers
  <2> QED
    BY <1>7, <2>1, <2>2
<1>9. read \in SUBSET P
  BY DEF WithServer, P, n
<1>10. Q \in SUBSET (1 .. Len(mid))
  BY DEF Servers
<1> HIDE DEF read, Q
<1>11. /\ Cardinality(read) = Cardinality(Q)
       /\ \A p \in read : Rank(read, p) = Rank(Q, Rank(P, p))
  <2>1. HaveRanksIn(n, Named(nodes), P, mid, Q, read)
    BY <1>1, <1>2, <1>8, <1>9, <1>10 DEF HaveRanksIn
  <2>2. RanksAgree(P, Q, read)
    BY <2>1, RanksOfRanks
  <2> QED
    BY <2>2 DEF RanksAgree
<1>12. Len(got) = Cardinality(read)
  BY <1>4, <1>11 DEF InOrder
<1>13. ASSUME NEW i \in read
       PROVE  ReadInClash(got[Rank(read, i)], nodes[i], UniqueNames(nodes)[i])
  <2> DEFINE j == Rank(P, i)
  <2>1. i \in P /\ j \in Q
    BY <1>8, <1>9
  <2>2. got[Rank(Q, j)] = Listed(mid)[j]
    BY <1>4, <2>1 DEF InOrder
  <2>3. Listed(mid)[j] = FromClashMap(mid[j].name, mid[j].map)
    BY <1>6, <1>10, <2>1 DEF Listed
  <2>4. got[Rank(read, i)] = FromClashMap(UniqueNames(nodes)[i], nodes[i].clash)
    BY <1>7, <1>11, <2>1, <2>2, <2>3
  <2> DEFINE new == FromClashMap(UniqueNames(nodes)[i], nodes[i].clash)
  <2>5. new.name = UniqueNames(nodes)[i] /\ new.key = ClashKey(nodes[i].clash)
    BY NodeOfMap
  <2>6. nodes[i].key = ClashKey(nodes[i].clash)
    BY <1>7, <2>1
  <2> HIDE DEF new
  <2> QED
    BY <2>4, <2>5, <2>6 DEF ReadInClash, new
<1> QED
  BY <1>5, <1>12, <1>13 DEF read, got, mid, P, n

\* Links made of nodes, read.
LEMMA LinksAreRead ==
  ASSUME NEW nodes, NodesTyped(nodes), \A i \in DOMAIN nodes : Made(nodes[i])
  PROVE  LET lines == FoldAddLink(<<>>, nodes)
             got == LinkNodes(lines)
             read == Writable(nodes, Len(nodes))
         IN /\ lines = <<>> <=> read = {}
            /\ Len(got) = Cardinality(read)
            /\ \A i \in read : ReadInLink(got[Rank(read, i)], nodes[i])
<1> DEFINE n == Len(nodes)
           P == Writable(nodes, n)
           lines == FoldAddLink(<<>>, nodes)
           got == LinkNodes(lines)
<1>1. n \in Nat /\ DOMAIN nodes = 1 .. n /\ nodes \in Seq({ nodes[i] : i \in 1 .. n }) /\ P \in SUBSET (1 .. n)
  BY DEF NodesTyped, IsSeq, Writable
<1>2. PICK S : lines \in Seq(S) /\ InOrder(Written(nodes), P, lines)
  BY <1>1, LinksAreWritten
<1> HIDE DEF lines, P
<1>3. lines = <<>> <=> P = {}
  <2> HIDE DEF n
  <2> QED
    BY <1>1, <1>2, EmptyInOrder
<1>4. /\ Len(lines) \in Nat /\ DOMAIN lines = 1 .. Len(lines)
      /\ Len(got) = Len(lines) /\ \A j \in 1 .. Len(lines) : got[j] = FromURI(lines[j])
  BY <1>2 DEF LinkNodes
<1>5. Len(got) = Cardinality(P)
  BY <1>2, <1>4 DEF InOrder
<1>6. ASSUME NEW i \in P
      PROVE  ReadInLink(got[Rank(P, i)], nodes[i])
  <2> DEFINE node == nodes[i]
             new == got[Rank(P, i)]
  <2>1. i \in DOMAIN nodes /\ Made(node)
    BY <1>1
  <2>2. Rank(P, i) \in 1 .. Len(lines) /\ lines[Rank(P, i)] = Written(nodes)[i]
    BY <1>2 DEF InOrder
  <2>3. Written(nodes)[i] = URI(node)
    BY <2>1 DEF Written
  <2>4. new = FromURI(URI(node))
    BY <1>4, <2>2, <2>3
  <2> HIDE DEF node, new
  <2>5. CASE node.raw # None
    <3>1. URI(node) = node.raw /\ node = FromURI(node.raw)
      BY <2>1, <2>5 DEF URI, Made
    <3>2. new = node
      BY <2>4, <3>1
    <3> QED
      BY <2>5, <3>2 DEF ReadInLink, new, node
  <2>6. CASE node.raw = None /\ Complete(node.clash)
    <3>1. URI(node) = BuildURI(node.clash, node.name)
      BY <2>6 DEF URI
    <3> DEFINE k == BuildURI(node.clash, node.name)
               map == MapOf(k)
    <3>2. new = [name |-> node.name, key |-> KeyInLink(node.clash), clash |-> map, raw |-> k]
      BY <2>4, <2>6, <3>1, MapAgain
    <3> HIDE DEF k, map
    <3>3. new.name = node.name /\ new.key = KeyInLink(node.clash)
      BY <3>2
    <3> QED
      BY <2>6, <3>3 DEF ReadInLink, new, node
  <2>7. CASE node.raw = None /\ ~Complete(node.clash)
    BY <2>7 DEF ReadInLink, node
  <2> QED
    BY <2>5, <2>6, <2>7
<1> QED
  BY <1>3, <1>5, <1>6 DEF lines, P

-----------------------------------------------------------------------------
(* Client addresses *)

\* The entries of X-Forwarded-For: what the client claims, the client, and
\* the proxies but the last.
LEMMA Entries ==
  ASSUME NEW claimed \in Seq(Addresses \cup {Junk}), NEW client \in Addresses,
         NEW proxies \in Seq(Addresses)
  PROVE  LET request == Forwarded(claimed, client, proxies)
             first == Len(claimed) + 1
         IN /\ request.peer = IF proxies = <<>> THEN client ELSE proxies[Len(proxies)]
            /\ request.hops \in Seq(Addresses \cup {Junk})
            /\ Len(request.hops) = Len(claimed) + Len(proxies)
            /\ proxies # <<>> => request.hops[first] = client
            /\ \A i \in DOMAIN request.hops : i > first => request.hops[i] = proxies[i - first]
<1> DEFINE callers == <<client>> \o proxies
           added == SubSeq(callers, 1, Len(proxies))
<1>1. /\ callers \in Seq(Addresses \cup {Junk}) /\ Len(callers) = Len(proxies) + 1
      /\ callers[1] = client
      /\ \A i \in 1 .. Len(proxies) : callers[i + 1] = proxies[i]
  OBVIOUS
<1>2. /\ added \in Seq(Addresses \cup {Junk}) /\ Len(added) = Len(proxies)
      /\ \A i \in 1 .. Len(proxies) : added[i] = callers[i]
  <2> HIDE DEF callers
  <2> QED
    BY <1>1, SubSeqProperties
<1> HIDE DEF callers, added
<1>3. /\ claimed \o added \in Seq(Addresses \cup {Junk})
      /\ Len(claimed \o added) = Len(claimed) + Len(proxies)
      /\ \A i \in 1 .. Len(proxies) : (claimed \o added)[Len(claimed) + i] = added[i]
  <2>1. /\ claimed \o added \in Seq(Addresses \cup {Junk})
        /\ Len(claimed \o added) = Len(claimed) + Len(added)
    BY <1>2, ConcatProperties
  <2>2. ASSUME NEW i \in 1 .. Len(proxies)
        PROVE  (claimed \o added)[Len(claimed) + i] = added[i]
    <3>1. /\ Len(claimed) \in Nat /\ i \in Nat \ {0} /\ i <= Len(added)
      BY <1>2
    <3>2. /\ Len(claimed) + i \in 1 .. Len(claimed) + Len(added)
          /\ ~(Len(claimed) + i <= Len(claimed))
          /\ (Len(claimed) + i) - Len(claimed) = i
      BY <1>2, <3>1
    <3> QED
      BY <1>2, <3>2, ConcatProperties
  <2> QED
    BY <1>2, <2>1, <2>2
<1>4. /\ Forwarded(claimed, client, proxies).peer = callers[Len(callers)]
      /\ Forwarded(claimed, client, proxies).hops = claimed \o added
  BY DEF Forwarded, callers, added
<1>5. callers[Len(callers)] = IF proxies = <<>> THEN client ELSE proxies[Len(proxies)]
  <2>1. proxies = <<>> => Len(proxies) = 0
    OBVIOUS
  <2>2. proxies # <<>> => Len(proxies) \in 1 .. Len(proxies)
    OBVIOUS
  <2> QED
    BY <1>1, <2>1, <2>2
<1>6. ASSUME proxies # <<>>
      PROVE  (claimed \o added)[Len(claimed) + 1] = client
  <2>1. 1 \in 1 .. Len(proxies)
    BY <1>6
  <2> QED
    BY <1>1, <1>2, <1>3, <2>1
<1>7. ASSUME NEW i \in 1 .. Len(claimed) + Len(proxies), i > Len(claimed) + 1
      PROVE  (claimed \o added)[i] = proxies[i - (Len(claimed) + 1)]
  <2>1. i - Len(claimed) \in 1 .. Len(proxies) /\ i - (Len(claimed) + 1) \in 1 .. Len(proxies)
        /\ Len(claimed) + (i - Len(claimed)) = i /\ (i - (Len(claimed) + 1)) + 1 = i - Len(claimed)
    BY <1>7
  <2>2. (claimed \o added)[i] = added[i - Len(claimed)]
    BY <1>3, <2>1
  <2>3. added[i - Len(claimed)] = callers[(i - (Len(claimed) + 1)) + 1]
    BY <1>2, <2>1
  <2> QED
    BY <1>1, <2>1, <2>2, <2>3
<1>8. DOMAIN (claimed \o added) = 1 .. Len(claimed) + Len(proxies)
  BY <1>3
<1> QED
  BY <1>3, <1>4, <1>5, <1>6, <1>7, <1>8

\* xff:<n> behind n proxies finds the client: it counts from the right, where
\* the proxies have written.
LEMMA CountingFinds ==
  ASSUME NEW claimed \in Seq(Addresses \cup {Junk}), NEW client \in Addresses,
         NEW proxies \in Seq(Addresses), Len(proxies) # 0
  PROVE  ResolveXFF(Forwarded(claimed, client, proxies).hops, Len(proxies)) = client
<1> DEFINE hops == Forwarded(claimed, client, proxies).hops
<1>1. Len(hops) = Len(claimed) + Len(proxies) /\ hops[Len(claimed) + 1] = client
  BY Entries
<1> HIDE DEF hops
<1>2. Len(hops) - Len(proxies) + 1 = Len(claimed) + 1 /\ ~(Len(hops) < Len(proxies))
  BY <1>1
<1>3. ResolveXFF(hops, Len(proxies)) = client
  BY <1>1, <1>2 DEF ResolveXFF
<1> QED
  BY <1>3 DEF hops

\* xff:<list> passes over the proxies it lists, and stops at the client if it
\* lists all proxies and not the client.
LEMMA WalkingFinds ==
  ASSUME NEW claimed \in Seq(Addresses \cup {Junk}), NEW client \in Addresses,
         NEW proxies \in Seq(Addresses), NEW trusts,
         ToSet(proxies) \subseteq trusts, client \notin trusts
  PROVE  LET request == Forwarded(claimed, client, proxies)
         IN ResolveTrustedXFF(trusts, request.peer, request.hops) = client
<1> DEFINE peer == Forwarded(claimed, client, proxies).peer
           hops == Forwarded(claimed, client, proxies).hops
           first == Len(claimed) + 1
           strangers == { i \in DOMAIN hops : hops[i] \notin trusts }
<1>1. /\ peer = IF proxies = <<>> THEN client ELSE proxies[Len(proxies)]
      /\ hops \in Seq(Addresses \cup {Junk}) /\ Len(hops) = Len(claimed) + Len(proxies)
      /\ proxies # <<>> => hops[first] = client
      /\ \A i \in DOMAIN hops : i > first => hops[i] = proxies[i - first]
  BY Entries
<1> HIDE DEF peer, hops
<1>2. \A i \in 1 .. Len(proxies) : proxies[i] \in trusts
  BY DEF ToSet
<1>3. CASE proxies = <<>>
  BY <1>1, <1>3 DEF ResolveTrustedXFF, peer, hops
<1>4. CASE proxies # <<>>
  <2>1. Len(proxies) \in Nat \ {0} /\ peer \in trusts
    BY <1>1, <1>2, <1>4
  <2>2. first \in DOMAIN hops /\ hops # <<>> /\ first \in strangers
    BY <1>1, <1>4, <2>1
  <2>3. \A i \in strangers : i <= first
    <3> SUFFICES ASSUME NEW i \in DOMAIN hops, i > first PROVE hops[i] \in trusts
      BY <1>1
    <3>1. i - first \in 1 .. Len(proxies)
      BY <1>1, <2>1
    <3> QED
      BY <1>1, <1>2, <3>1
  <2>4. \A k \in strangers : (\A j \in strangers : j <= k) => k = first
    BY <1>1, <2>2, <2>3
  <2>5. (CHOOSE i \in strangers : \A j \in strangers : j <= i) = first
    BY <2>2, <2>3, <2>4
  <2>6. ResolveTrustedXFF(trusts, peer, hops) = hops[first]
    <3>1. ~(peer \notin trusts \/ hops = <<>>) /\ strangers # {}
      BY <2>1, <2>2
    <3> QED
      BY <2>5, <3>1 DEF ResolveTrustedXFF
  <2> QED
    BY <1>1, <1>4, <2>6 DEF peer, hops
<1> QED
  BY <1>3, <1>4

-----------------------------------------------------------------------------
(* The theorems *)

\* What is computed, and from what.
Computed ==
  /\ kind = "validate" => input \in Files /\ (done => output = Validate(input))
  /\ kind = "fromURI" => input \in Links /\ (done => output = FromURI(input))
  /\ kind = "buildURI" => input \in Maps /\ (done => output = FromURI(BuildURI(input, MapName)))
  /\ kind = "parse" =>
       /\ input.nodes \in Lists /\ input.format \in Formats /\ input.full \in BOOLEAN
       /\ done => output = ParseContent(Rendered(input.nodes, input.format, input.full), "auto")
  /\ kind = "collect" => input \in Merges /\ (done => output = Collect(input.lists, input.order))
  /\ kind = "render" =>
       /\ input \in Plans
       /\ done => output = Render(input.relays, input.routes, input.nodesOf)
  /\ kind = "clientIP" =>
       /\ input \in Calls
       /\ done => output = ResolveClient(input.source,
                                         Forwarded(input.claimed, input.client, input.proxies))

LEMMA ComputedAlways == Spec => []Computed
<1>1. Init => Computed
  BY DEF Init, Computed
<1>2. Computed /\ [Next]_vars => Computed'
  <2> SUFFICES ASSUME Computed, [Next]_vars PROVE Computed'
    OBVIOUS
  <2>1. CASE UNCHANGED vars
    BY <2>1 DEF Computed, vars
  <2>2. CASE Compute("validate", Validate(input))
    BY <2>2 DEF Computed, Compute
  <2>3. CASE Compute("fromURI", FromURI(input))
    BY <2>3 DEF Computed, Compute
  <2>4. CASE Compute("buildURI", FromURI(BuildURI(input, MapName)))
    BY <2>4 DEF Computed, Compute
  <2>5. CASE Compute("parse", ParseContent(Rendered(input.nodes, input.format, input.full), "auto"))
    BY <2>5 DEF Computed, Compute
  <2>6. CASE Compute("render", Render(input.relays, input.routes, input.nodesOf))
    BY <2>6 DEF Computed, Compute
  <2>7. CASE Compute("clientIP", ResolveClient(input.source,
                                    Forwarded(input.claimed, input.client, input.proxies)))
    BY <2>7 DEF Computed, Compute
  <2>8. CASE Compute("collect", Collect(input.lists, input.order))
    BY <2>8 DEF Computed, Compute
  <2> QED
    BY <2>1, <2>2, <2>3, <2>4, <2>5, <2>6, <2>7, <2>8 DEF Next
<1> QED
  BY <1>1, <1>2, PTL DEF Spec

\* What an accepted file becomes.
LEMMA AcceptedFile ==
  ASSUME Computed, Accepted
  PROVE  LET subs == output.subs
             relaySubs == output.relaySubs
             ups == input.upstreams
         IN /\ input \in Files /\ FileTyped(input)
            /\ subs \in Seq(NamedSubs(NamesFor(input.subs))) /\ Distinct(subs)
            /\ KeysSound(input, subs)
            /\ output.resolved = [i \in DOMAIN input.keys |-> Resolve(input.keys[i].allowed, subs)]
            /\ relaySubs \in Seq(RelayRecords(RelayNames(subs, ups), ups))
            /\ RelaySubsOf(ups, Len(ups), relaySubs)
            /\ NamesOf(subs) \cap NamesOf(relaySubs) = {} /\ Distinct(relaySubs)
            /\ output.subNames = [i \in DOMAIN ups |-> SubName(ups[i], relaySubs)]
<1> DEFINE valid == ValidSubs(input)
           made == RelaySubs(input, valid.subs)
<1>1. input \in Files /\ FileTyped(input) /\ output = Validate(input) /\ output.ok
  BY FilesAssumption DEF Computed, Accepted, Done
<1>2. valid.ok /\ KeysSound(input, valid.subs)
  <2> SUFFICES ASSUME ~valid.ok \/ ~KeysSound(input, valid.subs) PROVE FALSE
    OBVIOUS
  <2>1. output = [ok |-> FALSE]
    BY <1>1 DEF Validate
  <2> QED
    BY <1>1, <2>1
<1>3. output = [ok        |-> TRUE,
                subs      |-> valid.subs,
                resolved  |-> [i \in DOMAIN input.keys |-> Resolve(input.keys[i].allowed, valid.subs)],
                relaySubs |-> made,
                subNames  |-> [i \in DOMAIN input.upstreams |-> SubName(input.upstreams[i], made)]]
  BY <1>1, <1>2 DEF Validate
<1>4. valid.subs \in Seq(NamedSubs(NamesFor(input.subs))) /\ Distinct(valid.subs)
  BY <1>1, <1>2, SubsAreNamed DEF FileTyped
<1>5. output.subs = valid.subs /\ output.relaySubs = made
      /\ output.resolved = [i \in DOMAIN input.keys |-> Resolve(input.keys[i].allowed, valid.subs)]
      /\ output.subNames = [i \in DOMAIN input.upstreams |-> SubName(input.upstreams[i], made)]
  BY <1>3, Zenon
<1> HIDE DEF made
<1>6. /\ made \in Seq(RelayRecords(RelayNames(valid.subs, input.upstreams), input.upstreams))
      /\ RelaySubsOf(input.upstreams, Len(input.upstreams), made)
      /\ NamesOf(valid.subs) \cap NamesOf(made) = {} /\ Distinct(made)
  <2>1. UpstreamsTyped(input.upstreams)
    BY <1>1 DEF FileTyped
  <2> HIDE DEF valid
  <2> QED
    BY <1>4, <2>1, RelaySubsAreMade DEF made
<1> HIDE DEF valid
<1> QED
  BY <1>1, <1>2, <1>4, <1>5, <1>6

\* However often relays mention a URL, one sub fetches it for all of them, as
\* often as the most demanding asks and never more than once a minute: for
\* files of any length, whatever names they give.
THEOREM UrlsAreFetchedOnce == Spec => []SharedFetch
<1>1. Computed => SharedFetch
  <2> SUFFICES ASSUME Computed, Accepted, NEW i \in DOMAIN input.upstreams,
                      input.upstreams[i].url # None, HostOf[input.upstreams[i].url] # None
               PROVE  LET ups == input.upstreams
                          list == output.relaySubs
                          fetching == { k \in DOMAIN list : list[k].url = ups[i].url }
                          same == { j \in DOMAIN ups : ups[j].url = ups[i].url }
                      IN /\ Cardinality(fetching) = 1
                         /\ \A k \in fetching :
                              /\ list[k].seconds = Min({ Interval(ups[j].seconds) : j \in same })
                              /\ list[k].seconds >= MinInterval
                              /\ \A j \in same : output.subNames[j] = list[k].name
    BY Zenon DEF SharedFetch
  <2> DEFINE ups == input.upstreams
             list == output.relaySubs
             fetching == { k \in DOMAIN list : list[k].url = ups[i].url }
             same == { j \in DOMAIN ups : ups[j].url = ups[i].url }
             asked == { Interval(ups[j].seconds) : j \in same }
  <2>1. /\ FileTyped(input) /\ RelaySubsOf(ups, Len(ups), list)
        /\ output.subNames = [j \in DOMAIN ups |-> SubName(ups[j], list)]
    BY AcceptedFile
  <2>2. DOMAIN ups = 1 .. Len(ups) /\ \A j \in DOMAIN ups : ups[j].seconds \in Int
    BY <2>1 DEF FileTyped, UpstreamsTyped, IsSeq
  <2> HIDE DEF ups, list
  <2>3. PICK k \in DOMAIN list : list[k].url = ups[i].url
    BY <2>1, <2>2 DEF RelaySubsOf, MakesOne, ups
  <2>4. fetching = {k}
    BY <2>1, <2>3 DEF RelaySubsOf, OfOneEach
  <2>5. Cardinality(fetching) = 1
    BY <2>4, FS_Singleton
  <2>6. AsOftenAsAsked(ups, Len(ups), list[k])
    BY <2>1 DEF RelaySubsOf
  <2>7. list[k].seconds \in asked
    BY <2>2, <2>3, <2>6, Zenon DEF AsOftenAsAsked
  <2>8. \A x \in asked : x \in Int /\ x >= MinInterval /\ list[k].seconds <= x
    <3> SUFFICES ASSUME NEW j \in same
                 PROVE  LET x == Interval(ups[j].seconds)
                        IN x \in Int /\ x >= MinInterval /\ list[k].seconds <= x
      BY Zenon
    <3>1. j \in 1 .. Len(ups) /\ ups[j].url = list[k].url /\ ups[j].seconds \in Int
      BY <2>2, <2>3
    <3>2. list[k].seconds <= Interval(ups[j].seconds)
      BY <2>6, <3>1 DEF AsOftenAsAsked
    <3> QED
      BY <3>1, <3>2, IntervalIsInt
  <2> HIDE DEF asked
  <2>9. list[k].seconds = Min(asked)
    <3>1. \A x \in asked : (\A y \in asked : x <= y) => x = list[k].seconds
      BY <2>7, <2>8
    <3> QED
      BY <2>7, <2>8, <3>1 DEF Min
  <2>10. list[k].seconds >= MinInterval
    BY <2>7, <2>8
  <2>11. ASSUME NEW j \in same
         PROVE  output.subNames[j] = list[k].name
    <3>1. ups[j].url = ups[i].url /\ ups[j].url # None /\ j \in DOMAIN ups
      BY DEF ups
    <3>2. { p \in DOMAIN list : list[p].url = ups[j].url } = {k}
      BY <2>4, <3>1
    <3>3. SubName(ups[j], list) = list[k].name
      BY <3>1, <3>2 DEF SubName
    <3> QED
      BY <2>1, <3>1, <3>3
  <2> QED
    BY <2>4, <2>5, <2>9, <2>10, <2>11 DEF asked, ups, list
<1> QED
  BY <1>1, ComputedAlways, PTL

\* A key is served its subs in the order of the configuration, whatever the
\* order in which it lists them and however often.
THEOREM KeysAreResolvedInOrder == Spec => []KeysResolveInOrder
<1>1. Computed => KeysResolveInOrder
  <2> SUFFICES ASSUME Computed, Accepted, NEW i \in DOMAIN input.keys
               PROVE  LET names == [k \in DOMAIN output.subs |-> output.subs[k].name]
                          allowed == input.keys[i].allowed
                          list == output.resolved[i]
                      IN /\ ToSet(list) = IF allowed = <<>> THEN ToSet(names) ELSE ToSet(allowed)
                         /\ \E places \in SUBSET DOMAIN names :
                              list = [j \in 1 .. Cardinality(places) |->
                                        names[CHOOSE p \in places :
                                                Cardinality({ q \in places : q <= p }) = j]]
    BY Zenon DEF KeysResolveInOrder
  <2> DEFINE subs == output.subs
             names == [k \in DOMAIN subs |-> subs[k].name]
             allowed == input.keys[i].allowed
             list == output.resolved[i]
             N == NamesFor(input.subs)
             places == IF allowed = <<>> THEN DOMAIN names ELSE Places(names, allowed, Len(subs))
  <2>1. /\ subs \in Seq(NamedSubs(N)) /\ KeysSound(input, subs)
        /\ list = Resolve(allowed, subs)
    BY AcceptedFile
  <2> HIDE DEF allowed, list, subs, N
  <2>2. /\ names \in Seq(N) /\ Len(names) = Len(subs) /\ DOMAIN names = 1 .. Len(subs)
        /\ DOMAIN subs = 1 .. Len(subs) /\ Len(subs) \in Nat
    <3>1. \A k \in 1 .. Len(subs) : subs[k] \in NamedSubs(N)
      BY <2>1
    <3>2. \A k \in 1 .. Len(subs) : subs[k].name \in N
      BY <3>1 DEF NamedSubs
    <3> QED
      BY <2>1, <3>2
  <2>3. list \in Seq(N) /\ InOrder(names, places, list) /\ places \in SUBSET DOMAIN names
    <3>1. CASE allowed = <<>>
      <4>1. list = names
        BY <2>1, <3>1 DEF Resolve
      <4> HIDE DEF names
      <4> QED
        BY <2>2, <3>1, <4>1, AllInOrder
    <3>2. CASE allowed # <<>>
      <4>1. list \in Seq(N) /\ InOrder(names, Places(names, allowed, Len(subs)), list)
        BY <2>1, <3>2, ResolvesInOrder
      <4>2. Places(names, allowed, Len(subs)) \in SUBSET DOMAIN names
        BY <2>2 DEF Places
      <4> HIDE DEF names
      <4> QED
        BY <3>2, <4>1, <4>2
    <3> QED
      BY <3>1, <3>2
  <2>4. allowed # <<>> => ToSet(allowed) \subseteq ToSet(names)
    <3>1. ToSet(allowed) \subseteq NamesOf(subs)
      BY <2>1 DEF KeysSound, allowed
    <3> QED
      BY <3>1 DEF NamesOf, ToSet
  <2> HIDE DEF names
  <2>5. { names[p] : p \in places } = IF allowed = <<>> THEN ToSet(names) ELSE ToSet(allowed)
    <3>1. CASE allowed = <<>>
      BY <3>1, Zenon DEF ToSet
    <3>2. CASE allowed # <<>>
      BY <2>2, <2>4, <3>2 DEF Places, ToSet
    <3> QED
      BY <3>1, <3>2
  <2> HIDE DEF places
  <2>6. ToSet(list) = { names[p] : p \in places }
    <3>1. DOMAIN list = 1 .. Len(list)
      BY <2>3
    <3> QED
      BY <2>3, <3>1 DEF ToSet, InOrder
  <2>7. list = [j \in 1 .. Cardinality(places) |->
                  names[CHOOSE p \in places : Cardinality({ q \in places : q <= p }) = j]]
    <3>1. ASSUME NEW j \in 1 .. Len(list)
          PROVE  list[j] = names[CHOOSE p \in places : Cardinality({ q \in places : q <= p }) = j]
      <4>1. PICK p \in places : Rank(places, p) = j
        BY <2>3 DEF InOrder
      <4>2. \A q \in places : Rank(places, q) = j => q = p
        BY <2>3, <4>1 DEF InOrder
      <4>3. (CHOOSE q \in places : Rank(places, q) = j) = p
        BY <4>1, <4>2
      <4>4. list[j] = names[p]
        BY <2>3, <4>1 DEF InOrder
      <4> QED
        BY <4>3, <4>4 DEF Rank
    <3>2. DOMAIN list = 1 .. Cardinality(places) /\ Len(list) = Cardinality(places)
      BY <2>3 DEF InOrder
    <3>3. list = [j \in DOMAIN list |-> list[j]]
      BY <2>3
    <3> QED
      BY <3>1, <3>2, <3>3
  <2> QED
    BY <2>3, <2>5, <2>6, <2>7 DEF names, allowed, list, subs
<1> QED
  BY <1>1, ComputedAlways, PTL

\* In an accepted file no two subs, relay subs included, have one name.
LEMMA SubsAreUnique ==
  ASSUME Computed
  PROVE  SubNamesAreUnique
<1> SUFFICES ASSUME Accepted
             PROVE  LET names == [i \in DOMAIN output.subs |-> output.subs[i].name]
                                 \o [i \in DOMAIN output.relaySubs |-> output.relaySubs[i].name]
                    IN IsInjective(names)
  BY Zenon DEF SubNamesAreUnique
<1> DEFINE subs == output.subs
           relaySubs == output.relaySubs
           ups == input.upstreams
           m == Len(subs)
           n == Len(relaySubs)
           given == [i \in DOMAIN subs |-> subs[i].name]
           made == [i \in DOMAIN relaySubs |-> relaySubs[i].name]
           names == given \o made
<1>1. /\ subs \in Seq(NamedSubs(NamesFor(input.subs))) /\ Distinct(subs)
      /\ relaySubs \in Seq(RelayRecords(RelayNames(subs, ups), ups)) /\ Distinct(relaySubs)
      /\ NamesOf(subs) \cap NamesOf(relaySubs) = {}
  BY AcceptedFile
<1> HIDE DEF subs, relaySubs, ups
<1>2. /\ m \in Nat /\ DOMAIN subs = 1 .. m
      /\ n \in Nat /\ DOMAIN relaySubs = 1 .. n
  BY <1>1
<1> DEFINE all == NamesOf(subs) \cup NamesOf(relaySubs)
<1>3. given \in Seq(all) /\ Len(given) = m /\ made \in Seq(all) /\ Len(made) = n
  <2>1. /\ \A i \in 1 .. m : given[i] \in all
        /\ \A i \in 1 .. n : made[i] \in all
    BY <1>2 DEF NamesOf
  <2> HIDE DEF all
  <2> QED
    BY <1>2, <2>1
<1>4. /\ \A i \in 1 .. m : given[i] = subs[i].name
      /\ \A i \in 1 .. n : made[i] = relaySubs[i].name
  BY <1>2
<1>5. /\ \A i \in 1 .. m : given[i] \in NamesOf(subs)
      /\ \A i \in 1 .. n : made[i] \in NamesOf(relaySubs)
  BY <1>2 DEF NamesOf
<1> HIDE DEF given, made, all, m, n
<1>6. /\ IsInjective(given) /\ IsInjective(made)
      /\ \A i \in DOMAIN given, j \in DOMAIN made : given[i] # made[j]
  BY <1>1, <1>2, <1>3, <1>4, <1>5 DEF IsInjective, Distinct
<1>7. IsInjective(names)
  BY <1>3, <1>6, BothInjective
<1> QED
  BY <1>7 DEF names, given, made, subs, relaySubs

\* The names of a Clash document.
LEMMA ClashNamesUnique ==
  ASSUME Computed
  PROVE  ClashNamesAreUnique
<1> SUFFICES ASSUME Done("parse")
             PROVE  LET names == [i \in DOMAIN ClashEntries(input.nodes) |-> ClashEntries(input.nodes)[i].name]
                    IN /\ IsInjective(names)
                       /\ ToSet(names) \cap GroupNames \subseteq { n.name : n \in ToSet(input.nodes) }
  BY Zenon DEF ClashNamesAreUnique
<1> DEFINE nodes == input.nodes
           entries == ClashEntries(nodes)
           names == [i \in DOMAIN entries |-> entries[i].name]
           all == Named(nodes)
           places == Mapped(nodes, Len(nodes))
           given == UniqueNames(nodes)
<1>1. NodesTyped(nodes)
  BY NodesAssumption DEF Computed, Done
<1> HIDE DEF nodes
<1>2. /\ DOMAIN nodes = 1 .. Len(nodes)
      /\ \A i \in DOMAIN nodes : IsSeq(nodes[i].name)
  BY <1>1 DEF NodesTyped, IsSeq
<1>3. PICK S : entries \in Seq(S) /\ InOrder(all, places, entries)
  BY <1>1, EntriesAreInOrder
<1>4. /\ IsInjective(given) /\ DOMAIN given = DOMAIN nodes
      /\ \A i \in DOMAIN nodes : given[i] \in {NodeNameBase(nodes[i])} \cup Numbered(NodeNameBase(nodes[i]))
  <2>1. given \in Seq(NodeNames(nodes)) /\ Len(given) = Len(nodes)
    BY <1>1, NodesAreNamed
  <2>2. DOMAIN given = 1 .. Len(nodes)
    BY <2>1
  <2> QED
    BY <1>1, <1>2, <2>2, NodesAreNamed
<1>5. DOMAIN entries = 1 .. Len(entries)
  BY <1>3
<1> HIDE DEF given, entries
<1>6. \A p \in places : p \in DOMAIN nodes /\ all[p].name = given[p]
  BY <1>2 DEF Mapped, Named, given
<1> HIDE DEF all, places
<1>7. \A i \in DOMAIN entries : \E p \in places : Rank(places, p) = i /\ entries[i].name = given[p]
  BY <1>3, <1>5, <1>6 DEF InOrder
<1>8. ASSUME NEW i \in DOMAIN entries, NEW j \in DOMAIN entries, entries[i].name = entries[j].name
      PROVE  i = j
  <2>1. PICK p \in places : Rank(places, p) = i /\ entries[i].name = given[p]
    BY <1>7
  <2>2. PICK q \in places : Rank(places, q) = j /\ entries[j].name = given[q]
    BY <1>7
  <2>3. p = q
    BY <1>4, <1>6, <1>8, <2>1, <2>2 DEF IsInjective
  <2> QED
    BY <2>1, <2>2, <2>3
<1>9. IsInjective(names)
  BY <1>8 DEF IsInjective
<1>10. ASSUME NEW i \in DOMAIN entries, entries[i].name \in GroupNames
       PROVE  entries[i].name \in { n.name : n \in ToSet(nodes) }
  <2>1. PICK p \in places : entries[i].name = given[p]
    BY <1>7
  <2>2. p \in DOMAIN nodes /\ given[p] \in {NodeNameBase(nodes[p])} \cup Numbered(NodeNameBase(nodes[p]))
    BY <1>4, <1>6
  <2>3. given[p] = nodes[p].name
    <3>1. IsSeq(nodes[p].name)
      BY <1>2, <2>2
    <3>2. /\ \A name \in Numbered(NodeNameBase(nodes[p])) : name \notin GroupNames
          /\ NodeNameBase(nodes[p]) \in GroupNames => NodeNameBase(nodes[p]) = nodes[p].name
      BY <3>1, NodeNameBases
    <3> QED
      BY <1>10, <2>1, <2>2, <3>2
  <2>4. nodes[p] \in ToSet(nodes)
    BY <2>2 DEF ToSet
  <2> QED
    BY <2>1, <2>3, <2>4
<1>11. ToSet(names) \cap GroupNames \subseteq { n.name : n \in ToSet(nodes) }
  BY <1>10 DEF ToSet
<1> QED
  BY <1>9, <1>11 DEF nodes, entries

\* What is rendered of a plan.
LEMMA PlanRendered ==
  ASSUME Computed, Done("render")
  PROVE  /\ input \in Plans /\ PlanTyped(input)
         /\ Loaded(input) \in Accs(input) /\ GroupsMade(input, Len(input.relays), Loaded(input))
         /\ output.proxies = Loaded(input).registry.proxies
         /\ output.groups = Loaded(input).groups
<1>1. /\ input \in Plans /\ PlanTyped(input)
      /\ output = Render(input.relays, input.routes, input.nodesOf)
  BY NodesAssumption DEF Computed, Done
<1> QED
  BY <1>1, AllRelays

\* Of relay i: its upstreams, what they are called and the members of its
\* group.
UpsOf(i) == Upstreams(input.relays[i], input.nodesOf)
CalledOf(i) == Called(Loaded(input).registry.byContent, UpsOf(i))
ListOf(i) == FoldAppendName(<<>>, CalledOf(i))

\* Of a relay: the names of its group are what its upstreams are called.
LEMMA GroupsAreCalled ==
  ASSUME Computed, Done("render"), NEW i \in DOMAIN input.relays
  PROVE  LET name == input.relays[i].name
             V == UpNames(AllUps(input), Reserved(input)) \cup {NoName}
         IN /\ UpsOf(i) \in Seq(AllUps(input))
            /\ Registered(UpsOf(i), Len(UpsOf(i)), Loaded(input).registry.byContent)
            /\ CalledOf(i) \in Seq(V) /\ ListOf(i) \in Seq(V)
            /\ InOrder(CalledOf(i), Different(UpsOf(i)), ListOf(i))
            /\ name \in DOMAIN output.groups <=> ListOf(i) # <<>>
            /\ name \in DOMAIN output.groups => output.groups[name].members = ListOf(i)
<1> DEFINE name == input.relays[i].name
           ups == Upstreams(input.relays[i], input.nodesOf)
           S == AllUps(input)
           R == Reserved(input)
           registry == Loaded(input).registry
           table == registry.byContent
           called == Called(table, ups)
           list == FoldAppendName(<<>>, called)
<1>1. /\ PlanTyped(input) /\ Loaded(input) \in Accs(input)
      /\ GroupsMade(input, Len(input.relays), Loaded(input))
      /\ output.groups = Loaded(input).groups
  BY PlanRendered
<1>2. ups \in Seq(S) /\ \A u \in S : UpTyped(u)
  BY <1>1, PlanUpstreams
<1>3. registry \in Registries(S, R)
  BY <1>1 DEF Accs
<1>4. i \in 1 .. Len(input.relays)
  BY <1>1 DEF PlanTyped, IsSeq
<1>5. GroupOf(ups, name, Loaded(input))
  BY <1>1, <1>4 DEF GroupsMade, GroupMade
<1>6. Registered(ups, Len(ups), table)
  BY <1>5 DEF GroupOf
<1>7. DOMAIN ups = 1 .. Len(ups)
  BY <1>2
<1>8. KeysHaveProxies(table, registry.proxies)
  BY <1>3 DEF Registries
<1> HIDE DEF ups, registry, S, R, name
<1>9. called \in Seq(UpNames(S, R) \cup {NoName})
  BY <1>2, <1>3, <1>6, CalledAreNames
<1>10. Members(registry, ups) = list
  BY <1>6, <1>7, MembersAreCalled
<1>11. Firsts(called, Len(ups)) = Different(ups)
  BY <1>2, <1>6, <1>8, FirstsAreDifferent
<1>12. Len(called) = Len(ups)
  <2>1. DOMAIN called = DOMAIN ups
    BY DEF Called
  <2> HIDE DEF called
  <2> QED
    BY <1>2, <1>9, <2>1
<1>13. list \in Seq(UpNames(S, R) \cup {NoName}) /\ InOrder(called, Different(ups), list)
  <2> HIDE DEF called
  <2> QED
    BY <1>9, <1>11, <1>12, MembersInOrder
<1>14. /\ name \in DOMAIN output.groups <=> list # <<>>
       /\ name \in DOMAIN output.groups => output.groups[name].members = list
  BY <1>1, <1>5, <1>10 DEF GroupOf, registry
<1> QED
  BY <1>2, <1>6, <1>9, <1>13, <1>14 DEF ups, registry, S, R, name, UpsOf, CalledOf, ListOf

\* Members of groups are names of proxies.
LEMMA MembersAreProxies ==
  ASSUME Computed, Done("render"), NEW i \in DOMAIN input.relays, NEW a \in DOMAIN ListOf(i)
  PROVE  \E p \in Different(UpsOf(i)) :
           /\ Rank(Different(UpsOf(i)), p) = a
           /\ p \in DOMAIN UpsOf(i)
           /\ ListOf(i)[a] = CalledOf(i)[p]
           /\ ListOf(i)[a] # NoName
           /\ \E k \in DOMAIN output.proxies : output.proxies[k].name = ListOf(i)[a]
                                               /\ output.proxies[k].map = UpsOf(i)[p].node.clash
<1> DEFINE ups == UpsOf(i)
           table == Loaded(input).registry.byContent
           called == Called(table, ups)
           list == ListOf(i)
           S == AllUps(input)
           V == UpNames(S, Reserved(input)) \cup {NoName}
<1>1. /\ ups \in Seq(S) /\ Registered(ups, Len(ups), table)
      /\ list \in Seq(V)
      /\ InOrder(called, Different(ups), list)
  BY GroupsAreCalled DEF CalledOf
<1>2. \A u \in S : UpTyped(u)
  BY PlanRendered, PlanUpstreams
<1>3. KeysHaveProxies(table, output.proxies)
  BY PlanRendered DEF Accs, Registries
<1> HIDE DEF table, S, V, ups
<1>4. a \in 1 .. Len(list)
  <2>1. a \in DOMAIN list
    OBVIOUS
  <2> HIDE DEF list
  <2> QED
    BY <1>1, <2>1
<1> HIDE DEF list, called
<1>5. PICK p \in Different(ups) : Rank(Different(ups), p) = a
  BY <1>1, <1>4 DEF InOrder
<1>6. list[a] = called[p]
  BY <1>1, <1>5 DEF InOrder
<1>7. p \in DOMAIN ups /\ ups[p].node.clash # None /\ ups[p].node.clash \notin Unloadable
  BY DEF Different
<1>8. /\ called[p] # NoName
      /\ \E k \in DOMAIN output.proxies : output.proxies[k].name = called[p] /\ output.proxies[k].map = ups[p].node.clash
  BY <1>1, <1>2, <1>3, <1>7, NamesTell DEF called
<1> QED
  BY <1>5, <1>6, <1>7, <1>8 DEF ups, table, called, list, CalledOf

\* The names of mihomo's proxies.
LEMMA ProxyNamesUnique ==
  ASSUME Computed
  PROVE  ProxyNamesAreUnique
<1> SUFFICES ASSUME Done("render")
             PROVE  LET names == [i \in DOMAIN output.proxies |-> output.proxies[i].name]
                    IN /\ IsInjective(names)
                       /\ ToSet(names) \cap (Builtins \cup { input.relays[i].name : i \in DOMAIN input.relays }) = {}
                       /\ \A r \in DOMAIN output.groups : ToSet(output.groups[r].members) \subseteq ToSet(names)
  BY Zenon DEF ProxyNamesAreUnique
<1> DEFINE names == [i \in DOMAIN output.proxies |-> output.proxies[i].name]
<1>1. ProxiesNamed(Reserved(input), Loaded(input).registry) /\ output.proxies = Loaded(input).registry.proxies
  BY PlanRendered DEF Accs, Registries
<1>2. IsInjective(names)
  BY <1>1 DEF ProxiesNamed, Distinct, IsInjective
<1>3. ToSet(names) = NamesOf(output.proxies)
  BY DEF ToSet, NamesOf
<1>4. ToSet(names) \cap (Builtins \cup { input.relays[i].name : i \in DOMAIN input.relays }) = {}
  BY <1>1, <1>3 DEF ProxiesNamed, Reserved
<1> HIDE DEF names
<1>5. ASSUME NEW r \in DOMAIN output.groups
      PROVE  ToSet(output.groups[r].members) \subseteq ToSet(names)
  <2>1. PICK i \in DOMAIN input.relays : input.relays[i].name = r
    <3>1. PlanTyped(input) /\ DOMAIN output.groups \subseteq { input.relays[i].name : i \in 1 .. Len(input.relays) }
      BY PlanRendered DEF GroupsMade
    <3> QED
      BY <3>1 DEF PlanTyped, IsSeq
  <2> DEFINE list == ListOf(i)
  <2>2. output.groups[r].members = list /\ list # <<>>
    BY <2>1, GroupsAreCalled
  <2>3. \A a \in DOMAIN list : \E k \in DOMAIN output.proxies : output.proxies[k].name = list[a]
    BY MembersAreProxies
  <2> HIDE DEF list
  <2> QED
    BY <1>3, <2>2, <2>3 DEF ToSet, NamesOf
<1> QED
  BY <1>2, <1>4, <1>5 DEF names

\* In each of the three namespaces no name is used twice, whatever the user
\* or the sources call things, and no group has a member that is not loaded.
THEOREM NamesStayUnique == Spec => []NamesAreUnique
<1>1. Computed => NamesAreUnique
  BY SubsAreUnique, ClashNamesUnique, ProxyNamesUnique DEF NamesAreUnique
<1> QED
  BY <1>1, ComputedAlways, PTL

\* The places of a list, by the sequence of them the properties use.
LEMMA ListOfPlaces ==
  ASSUME NEW names, NEW places, NEW S, NEW list \in Seq(S), InOrder(names, places, list), NEW p \in places
  PROVE  (CHOOSE q \in places : Cardinality({ x \in places : x <= q }) = Rank(places, p)) = p
<1>1. \A q \in places : Rank(places, q) = Rank(places, p) => q = p
  BY DEF InOrder
<1>2. (CHOOSE q \in places : Rank(places, q) = Rank(places, p)) = p
  BY <1>1
<1> QED
  BY <1>2 DEF Rank

\* The group of a relay is what was wanted.
LEMMA GroupIsWanted ==
  ASSUME Computed, Done("render"), NEW i \in DOMAIN input.relays
  PROVE  LET wanted == Wanted(input.relays[i])
             n == Len(ListOf(i))
         IN /\ DOMAIN wanted = 1 .. n /\ Len(wanted) = n /\ DOMAIN ListOf(i) = 1 .. n
            /\ wanted # <<>> <=> ListOf(i) # <<>>
            /\ \A a \in DOMAIN ListOf(i) :
                 \E p \in DOMAIN UpsOf(i) :
                   /\ wanted[a] = UpsOf(i)[p]
                   /\ ListOf(i)[a] = CalledOf(i)[p]
                   /\ ListOf(i)[a] # NoName
                   /\ \E k \in DOMAIN output.proxies : output.proxies[k].name = ListOf(i)[a]
                                                       /\ output.proxies[k].map = UpsOf(i)[p].node.clash
<1> DEFINE ups == UpsOf(i)
           called == CalledOf(i)
           list == ListOf(i)
           places == Different(ups)
           wanted == Wanted(input.relays[i])
           V == UpNames(AllUps(input), Reserved(input)) \cup {NoName}
<1>1. list \in Seq(V) /\ InOrder(called, places, list)
  BY GroupsAreCalled
<1>2. wanted = [k \in 1 .. Cardinality(places) |->
                  ups[CHOOSE p \in places : Cardinality({ q \in places : q <= p }) = k]]
  BY DEF Wanted, Different, UpsOf
<1>3. Cardinality(places) = Len(list)
  BY <1>1 DEF InOrder
<1>5. ASSUME NEW a \in DOMAIN list
      PROVE  \E p \in DOMAIN ups :
               /\ wanted[a] = ups[p]
               /\ list[a] = called[p]
               /\ list[a] # NoName
               /\ \E k \in DOMAIN output.proxies : output.proxies[k].name = list[a]
                                                   /\ output.proxies[k].map = ups[p].node.clash
  <2>2. PICK p \in places :
          /\ Rank(places, p) = a
          /\ p \in DOMAIN ups
          /\ list[a] = called[p]
          /\ list[a] # NoName
          /\ \E k \in DOMAIN output.proxies : output.proxies[k].name = list[a]
                                              /\ output.proxies[k].map = ups[p].node.clash
    BY MembersAreProxies
  <2>3. (CHOOSE q \in places : Cardinality({ x \in places : x <= q }) = a) = p
    <3> HIDE DEF list, called, places, V
    <3> QED
      BY <1>1, <2>2, ListOfPlaces
  <2>4. a \in 1 .. Len(list)
    <3>1. a \in DOMAIN list
      OBVIOUS
    <3> HIDE DEF list, V
    <3> QED
      BY <1>1, <3>1
  <2> HIDE DEF list, called, places, V, wanted, ups
  <2>5. wanted[a] = ups[p]
    BY <1>2, <1>3, <2>3, <2>4
  <2> QED
    BY <2>2, <2>5
<1> HIDE DEF list, called, places, V, wanted, ups
<1>6. DOMAIN list = 1 .. Len(list) /\ Len(list) \in Nat /\ (list = <<>> <=> Len(list) = 0)
  BY <1>1
<1>7. DOMAIN wanted = 1 .. Len(list) /\ Len(wanted) = Len(list)
  BY <1>2, <1>3, <1>6
<1>8. wanted # <<>> <=> list # <<>>
  <2>1. CASE Len(list) = 0
    BY <1>2, <1>3, <1>6, <2>1
  <2>2. CASE Len(list) # 0
    BY <1>6, <1>7, <2>2
  <2> QED
    BY <2>1, <2>2
<1> QED
  BY <1>5, <1>6, <1>7, <1>8 DEF list, called, wanted, ups

\* The group of a relay is its upstreams that can be loaded, in order and each
\* once, and two relays have a proxy in common exactly if they have the
\* upstream in common.
THEOREM GroupsFollowThePlan == Spec => []GroupsAreTheirUpstreams
<1>1. ASSUME Computed, Done("render")
      PROVE  LET relays == input.relays
                 MapNamed(name) == (CHOOSE p \in ToSet(output.proxies) : p.name = name).map
                 Group(i) == output.groups[relays[i].name].members
                 grouped == { i \in DOMAIN relays : relays[i].name \in DOMAIN output.groups }
             IN /\ grouped = { i \in DOMAIN relays : Wanted(relays[i]) # <<>> }
                /\ \A i \in grouped :
                     /\ Len(Group(i)) = Len(Wanted(relays[i]))
                     /\ \A a \in DOMAIN Group(i) : MapNamed(Group(i)[a]) = Wanted(relays[i])[a].node.clash
                /\ \A i, j \in grouped : \A a \in DOMAIN Group(i), b \in DOMAIN Group(j) :
                     Group(i)[a] = Group(j)[b] <=> Same(Wanted(relays[i])[a], Wanted(relays[j])[b])
  <2> DEFINE relays == input.relays
             MapNamed(name) == (CHOOSE p \in ToSet(output.proxies) : p.name = name).map
             Group(i) == output.groups[relays[i].name].members
             grouped == { i \in DOMAIN relays : relays[i].name \in DOMAIN output.groups }
             table == Loaded(input).registry.byContent
  <2>1. \A i \in DOMAIN relays : relays[i].name \in DOMAIN output.groups <=> Wanted(relays[i]) # <<>>
    BY <1>1, GroupsAreCalled, GroupIsWanted
  <2>2. \A i \in grouped : i \in DOMAIN relays /\ Group(i) = ListOf(i)
    BY <1>1, GroupsAreCalled
  <2>3. Distinct(output.proxies) /\ KeysHaveProxies(table, output.proxies)
        /\ \A u \in AllUps(input) : UpTyped(u)
    BY <1>1, PlanRendered, PlanUpstreams DEF Accs, Registries, ProxiesNamed
  <2>4. ASSUME NEW k \in DOMAIN output.proxies
        PROVE  MapNamed(output.proxies[k].name) = output.proxies[k].map
    <3> DEFINE p == CHOOSE x \in ToSet(output.proxies) : x.name = output.proxies[k].name
    <3>1. output.proxies[k] \in ToSet(output.proxies)
      BY DEF ToSet
    <3>2. p \in ToSet(output.proxies) /\ p.name = output.proxies[k].name
      BY <3>1
    <3> HIDE DEF p
    <3>3. PICK m \in DOMAIN output.proxies : p = output.proxies[m]
      BY <3>2 DEF ToSet
    <3>4. m = k
      BY <2>3, <3>2, <3>3 DEF Distinct
    <3> QED
      BY <3>3, <3>4 DEF p
  <2> HIDE DEF Group, grouped, MapNamed
  <2>5. ASSUME NEW i \in grouped
        PROVE  /\ Len(Group(i)) = Len(Wanted(relays[i]))
               /\ \A a \in DOMAIN Group(i) : MapNamed(Group(i)[a]) = Wanted(relays[i])[a].node.clash
    <3>1. i \in DOMAIN relays /\ Group(i) = ListOf(i)
      BY <2>2
    <3>2. Len(Wanted(relays[i])) = Len(ListOf(i))
      BY <1>1, <3>1, GroupIsWanted
    <3>3. ASSUME NEW a \in DOMAIN ListOf(i)
          PROVE  MapNamed(ListOf(i)[a]) = Wanted(relays[i])[a].node.clash
      <4>1. PICK p \in DOMAIN UpsOf(i) :
              /\ Wanted(relays[i])[a] = UpsOf(i)[p]
              /\ \E k \in DOMAIN output.proxies : output.proxies[k].name = ListOf(i)[a]
                                                  /\ output.proxies[k].map = UpsOf(i)[p].node.clash
        BY <1>1, <3>1, GroupIsWanted
      <4> QED
        BY <2>4, <4>1
    <3> QED
      BY <3>1, <3>2, <3>3
  <2>6. ASSUME NEW i \in grouped, NEW j \in grouped, NEW a \in DOMAIN Group(i), NEW b \in DOMAIN Group(j)
        PROVE  Group(i)[a] = Group(j)[b] <=> Same(Wanted(relays[i])[a], Wanted(relays[j])[b])
    <3>1. /\ i \in DOMAIN relays /\ Group(i) = ListOf(i)
          /\ j \in DOMAIN relays /\ Group(j) = ListOf(j)
      BY <2>2
    <3>2. PICK p \in DOMAIN UpsOf(i) :
            Wanted(relays[i])[a] = UpsOf(i)[p] /\ ListOf(i)[a] = CalledOf(i)[p] /\ ListOf(i)[a] # NoName
      BY <1>1, <3>1, GroupIsWanted
    <3>3. PICK q \in DOMAIN UpsOf(j) :
            Wanted(relays[j])[b] = UpsOf(j)[q] /\ ListOf(j)[b] = CalledOf(j)[q]
      BY <1>1, <3>1, GroupIsWanted
    <3>4. /\ UpsOf(i) \in Seq(AllUps(input)) /\ Registered(UpsOf(i), Len(UpsOf(i)), table)
          /\ UpsOf(j) \in Seq(AllUps(input)) /\ Registered(UpsOf(j), Len(UpsOf(j)), table)
      BY <1>1, <3>1, GroupsAreCalled
    <3> HIDE DEF table
    <3>5. Called(table, UpsOf(i))[p] # NoName =>
            (Called(table, UpsOf(i))[p] = Called(table, UpsOf(j))[q] <=> Same(UpsOf(i)[p], UpsOf(j)[q]))
      BY <2>3, <3>4, NamesTell
    <3>6. CalledOf(i) = Called(table, UpsOf(i)) /\ CalledOf(j) = Called(table, UpsOf(j))
      BY DEF CalledOf, table
    <3> QED
      BY <3>1, <3>2, <3>3, <3>5, <3>6
  <2>7. grouped = { i \in DOMAIN relays : Wanted(relays[i]) # <<>> }
    BY <2>1 DEF grouped
  <2> QED
    BY <2>5, <2>6, <2>7 DEF Group, grouped, MapNamed
<1>2. Computed => GroupsAreTheirUpstreams
  BY <1>1, Zenon DEF GroupsAreTheirUpstreams
<1> QED
  BY <1>2, ComputedAlways, PTL

\* Store.collectLocked: of the nodes of one dedup key the first is kept, and
\* what is kept stays in order, for any subs, nodes and keys.
THEOREM FirstsAreKept == Spec => []MergeKeepsFirst
<1>1. Computed => MergeKeepsFirst
  <2> SUFFICES ASSUME Computed, Done("collect")
               PROVE  LET all == AllNodes(input)
                          FirstAt(x) == Min({ i \in DOMAIN all : KeyOf[all[i]] = KeyOf[x] })
                      IN /\ { KeyOf[output[i]] : i \in DOMAIN output } = { KeyOf[all[i]] : i \in DOMAIN all }
                         /\ \A i \in DOMAIN output : output[i] = all[FirstAt(output[i])]
                         /\ \A i, j \in DOMAIN output : i < j => FirstAt(output[i]) < FirstAt(output[j])
    BY Zenon DEF MergeKeepsFirst, AllNodes
  <2> DEFINE all == AllNodes(input)
             n == Len(all)
             places == FirstKeys(all, n)
             At(x) == { i \in DOMAIN all : KeyOf[all[i]] = KeyOf[x] }
  <2>1. input \in Merges /\ output = Collect(input.lists, input.order)
    BY DEF Computed, Done
  <2>2. PICK S : all \in Seq(S)
    BY <2>1, AllNodesAreSeq
  <2>3. output = FoldAddUnseen(<<>>, all)
    BY <2>1 DEF Collect, AllNodes, FoldAddUnseen
  <2> HIDE DEF all
  <2>4. output \in Seq(S) /\ InOrder(all, places, output) /\ SameKeys(output, all, n)
    BY <2>2, <2>3, MergedInOrder
  <2>5. DOMAIN all = 1 .. n /\ n \in Nat /\ DOMAIN output = 1 .. Len(output)
    BY <2>2, <2>4
  <2>6. { KeyOf[output[i]] : i \in DOMAIN output } = { KeyOf[all[i]] : i \in DOMAIN all }
    <3>1. \A x : x \in { KeyOf[output[i]] : i \in DOMAIN output } <=> x \in { KeyOf[all[i]] : i \in DOMAIN all }
      BY <2>4, <2>5, Zenon DEF SameKeys
    <3> QED
      BY <3>1
  <2>7. ASSUME NEW p \in places
        PROVE  Min(At(all[p])) = p
    <3>1. p \in At(all[p]) /\ p \in 1 .. n /\ \A q \in 1 .. p - 1 : q \notin At(all[p])
      BY <2>5 DEF FirstKeys
    <3>2. \A q \in At(all[p]) : q \in 1 .. n /\ p <= q
      BY <2>5, <3>1
    <3> HIDE DEF At
    <3>3. \A m \in At(all[p]) : (\A q \in At(all[p]) : m <= q) => m = p
      BY <3>1, <3>2
    <3> QED
      BY <3>1, <3>2, <3>3 DEF Min
  <2>8. ASSUME NEW i \in DOMAIN output
        PROVE  \E p \in places : Rank(places, p) = i /\ output[i] = all[p] /\ Min(At(output[i])) = p
    <3>1. PICK p \in places : Rank(places, p) = i
      BY <2>4, <2>5 DEF InOrder
    <3>2. output[i] = all[p]
      BY <2>4, <3>1 DEF InOrder
    <3> HIDE DEF places, At
    <3> QED
      BY <2>7, <3>1, <3>2
  <2>9. \A i \in DOMAIN output : output[i] = all[Min(At(output[i]))]
    <3> HIDE DEF places, At
    <3> QED
      BY <2>8
  <2>10. ASSUME NEW i \in DOMAIN output, NEW j \in DOMAIN output, i < j
         PROVE  Min(At(output[i])) < Min(At(output[j]))
    <3> places \in SUBSET (1 .. n)
      BY DEF FirstKeys
    <3> HIDE DEF places, At, n
    <3>1. PICK p \in places : Rank(places, p) = i /\ Min(At(output[i])) = p
      BY <2>8
    <3>2. PICK q \in places : Rank(places, q) = j /\ Min(At(output[j])) = q
      BY <2>8
    <3>3. p < q
      BY <2>5, <2>10, <3>1, <3>2, RanksRise
    <3> QED
      BY <3>1, <3>2, <3>3
  <2> QED
    BY <2>6, <2>9, <2>10 DEF all
<1> QED
  BY <1>1, ComputedAlways, PTL

\* agg/store.go and parse.go: what one aggregator renders, another one parses
\* without being told the format: every node that a text of that format can
\* have is read, in order, with the name and key it was served with.
THEOREM OwnOutputIsRead == Spec => []ReadsOwnOutput
<1>1. Computed => ReadsOwnOutput
  <2> DEFINE nodes == input.nodes
             clash == input.format = "clash"
             written == { i \in DOMAIN nodes : IF clash THEN nodes[i].clash # None ELSE HasURI(nodes[i]) }
             read == { i \in written : clash => nodes[i].clash.server # "" }
             Got(i) == output.nodes[Cardinality({ j \in read : j <= i })]
             text == Rendered(nodes, input.format, input.full)
             entries == text.entries
  <2> SUFFICES ASSUME Computed, Done("parse")
               PROVE  IF written # {}
                      THEN /\ output.detected = input.format
                           /\ Len(output.nodes) = Cardinality(read)
                           /\ \A i \in read : IF clash THEN ReadInClash(Got(i), nodes[i], UniqueNames(nodes)[i])
                                              ELSE ReadInLink(Got(i), nodes[i])
                      ELSE output = IF clash /\ input.full
                                    THEN [nodes |-> <<FromURI(UrlLine)>>, detected |-> "raw"] ELSE None
    BY Zenon DEF ReadsOwnOutput
  <2>1. /\ nodes \in Lists /\ input.format \in Formats /\ input.full \in BOOLEAN
        /\ output = ParseContent(text, "auto")
    BY DEF Computed, Done
  <2>2. NodesTyped(nodes) /\ \A i \in DOMAIN nodes : Made(nodes[i])
    BY <2>1, NodesAssumption
  <2>3. None \notin {IF clash THEN ClashNodes(entries) ELSE LinkNodes(entries), LinkNodes(<<UrlLine>>)}
    BY <2>1, AbsenceAssumption, Zenon
  <2>4. DOMAIN nodes = 1 .. Len(nodes)
    BY <2>2 DEF NodesTyped, IsSeq
  <2>5. CASE clash
    <3> DEFINE got == ClashNodes(entries)
    <3>1. /\ text.coding = "clash" /\ entries = ClashEntries(nodes) /\ text.urls = input.full
      BY <2>5 DEF Rendered
    <3> HIDE DEF text
    <3>2. written = Mapped(nodes, Len(nodes)) /\ read = WithServer(nodes)
      BY <2>4, <2>5 DEF Mapped, WithServer
    <3>3. /\ entries = <<>> <=> written = {}
          /\ Len(got) = Cardinality(read)
          /\ \A i \in read : ReadInClash(got[Rank(read, i)], nodes[i], UniqueNames(nodes)[i])
      BY <2>2, <3>1, <3>2, ClashIsRead
    <3>4. CASE written # {}
      <4>1. ParseClash(text) = got /\ got # None
        BY <2>3, <2>5, <3>1, <3>3, <3>4 DEF ParseClash
      <4>2. output = [nodes |-> got, detected |-> "clash"]
        BY <2>1, <4>1 DEF ParseContent, Parsed
      <4> HIDE DEF got, read, written
      <4>3. output.nodes = got /\ output.detected = "clash"
        BY <4>2
      <4> QED
        BY <2>5, <3>3, <3>4, <4>3 DEF Rank
    <3>5. CASE written = {}
      <4>1. ParseClash(text) = None
        BY <3>3, <3>5 DEF ParseClash
      <4>2. ParseLines(text) = IF input.full THEN LinkNodes(<<UrlLine>>) ELSE None
        BY <3>1 DEF ParseLines
      <4>3. LinkNodes(<<UrlLine>>) = <<FromURI(UrlLine)>>
        BY DEF LinkNodes
      <4>4. output = Parsed(ParseLines(text), "raw")
        BY <2>1, <3>1, <4>1 DEF ParseContent
      <4> QED
        BY <2>3, <2>5, <3>5, <4>2, <4>3, <4>4 DEF Parsed
    <3> QED
      BY <3>4, <3>5
  <2>6. CASE ~clash
    <3> DEFINE got == LinkNodes(entries)
    <3>1. /\ text.coding = input.format /\ entries = FoldAddLink(<<>>, nodes)
          /\ input.format \in {"base64", "raw"}
      BY <2>1, <2>6 DEF Rendered, FoldAddLink, Formats
    <3> HIDE DEF text
    <3>2. written = Writable(nodes, Len(nodes)) /\ read = written
      BY <2>4, <2>6 DEF Writable
    <3>3. /\ entries = <<>> <=> written = {}
          /\ Len(got) = Cardinality(read)
          /\ \A i \in read : ReadInLink(got[Rank(read, i)], nodes[i])
      BY <2>2, <3>1, <3>2, LinksAreRead
    <3>4. ParseClash(text) = None
      BY <2>6, <3>1 DEF ParseClash
    <3>5. output = Parsed(ParseLines(text), input.format)
      BY <2>1, <3>1, <3>4 DEF ParseContent
    <3>6. ParseLines(text) = IF entries = <<>> THEN None ELSE got
      BY <2>6, <3>1 DEF ParseLines
    <3>7. CASE written # {}
      <4>1. output = [nodes |-> got, detected |-> input.format]
        BY <2>3, <2>6, <3>3, <3>5, <3>6, <3>7 DEF Parsed
      <4> HIDE DEF got, read, written
      <4>2. output.nodes = got /\ output.detected = input.format
        BY <4>1
      <4> QED
        BY <2>6, <3>3, <3>7, <4>2 DEF Rank
    <3>8. CASE written = {}
      <4>1. output = None
        BY <3>3, <3>5, <3>6, <3>8 DEF Parsed
      <4> QED
        BY <2>6, <3>8, <4>1
    <3> QED
      BY <3>7, <3>8
  <2> QED
    BY <2>5, <2>6
<1> QED
  BY <1>1, ComputedAlways, PTL

\* uri.go and build.go: what was understood of a link, of any type and with
\* any parameters, is all in the link made of it, and is understood again.
THEOREM NothingIsLost == Spec => []LinksSurvive
<1>1. Computed => LinksSurvive
  <2> SUFFICES ASSUME Computed, Done("fromURI"), output.clash # None, output.clash.port \in PortNumbers
               PROVE  FromURI(BuildURI(output.clash, output.name)).clash = WithTLS(output.clash)
    BY DEF LinksSurvive
  <2> DEFINE m == MapOf(input)
             k == BuildURI(m, output.name)
  <2>1. output = FromURI(input)
    BY DEF Computed, Done
  <2>2. Parses(input) /\ output.clash = m
    BY <2>1, OnlyParsed
  <2>3. input.port \in PortNumbers
    BY <2>2 DEF MapOf
  <2>4. Parses(k) /\ MapOf(k) = WithTLS(m)
    BY <2>2, <2>3, LinkAgain
  <2> HIDE DEF m
  <2>5. FromURI(k).clash = WithTLS(m)
    BY <2>4, ParsedIs
  <2> QED
    BY <2>2, <2>5
<1> QED
  BY <1>1, ComputedAlways, PTL

\* build.go and uri.go: the link of any complete map is accepted by the
\* parser, and the node read from it has the name it was written with and the
\* key of the map, with the transports a link knows.
THEOREM MapsAreReadBack == Spec => []LinksReadBack
<1>1. Computed => LinksReadBack
  <2> SUFFICES ASSUME Computed, Done("buildURI"), Complete(input)
               PROVE  output.clash # None /\ output.name = MapName /\ output.key = KeyInLink(input)
    BY DEF LinksReadBack
  <2> DEFINE k == BuildURI(input, MapName)
  <2>1. input \in Maps /\ output = FromURI(k)
    BY DEF Computed, Done
  <2>2. FromURI(k) = [name |-> MapName, key |-> KeyInLink(input), clash |-> MapOf(k), raw |-> k]
    BY MapAgain
  <2>3. MapOf(k) # None
    BY <2>1, AbsenceAssumption
  <2> HIDE DEF k
  <2> QED
    BY <2>1, <2>2, <2>3
<1> QED
  BY <1>1, ComputedAlways, PTL

\* A source that describes the proxies in front of the server finds the
\* client, whatever is claimed.
THEOREM ClientsAreFound == Spec => []ClientAddressFound
<1>1. Computed => ClientAddressFound
  <2> SUFFICES ASSUME Computed, Done("clientIP")
               PROVE  /\ input.source.kind = "xff" /\ input.source.hop = Len(input.proxies)
                           => output = input.client
                      /\ /\ input.source.kind = "trusted"
                         /\ ToSet(input.proxies) \subseteq input.source.trusts
                         /\ input.client \notin input.source.trusts
                         => output = input.client
    BY DEF ClientAddressFound
  <2> DEFINE request == Forwarded(input.claimed, input.client, input.proxies)
  <2>1. /\ input \in Calls /\ output = ResolveClient(input.source, request)
        /\ input.claimed \in Seq(Addresses \cup {Junk}) /\ input.client \in Addresses
        /\ input.proxies \in Seq(Addresses) /\ Junk \notin Addresses
        /\ input.source.kind = "xff" => input.source.hop \in Nat \ {0}
    BY CallsAssumption DEF Computed, Done
  <2>2. ASSUME input.source.kind = "xff", input.source.hop = Len(input.proxies)
        PROVE  output = input.client
    <3>1. output = ResolveXFF(request.hops, Len(input.proxies))
      BY <2>1, <2>2 DEF ResolveClient
    <3> QED
      BY <2>1, <2>2, <3>1, CountingFinds
  <2>3. ASSUME input.source.kind = "trusted", ToSet(input.proxies) \subseteq input.source.trusts,
               input.client \notin input.source.trusts
        PROVE  output = input.client
    <3>1. request.peer # Junk
      BY <2>1, Entries
    <3>2. output = ResolveTrustedXFF(input.source.trusts, request.peer, request.hops)
      BY <2>1, <2>3, <3>1 DEF ResolveClient
    <3>3. \A trusts : ToSet(input.proxies) \subseteq trusts /\ input.client \notin trusts
                     => ResolveTrustedXFF(trusts, request.peer, request.hops) = input.client
      BY <2>1, WalkingFinds
    <3> QED
      BY <2>3, <3>2, <3>3
  <2> QED
    BY <2>2, <2>3
<1> QED
  BY <1>1, ComputedAlways, PTL
=============================================================================
