------------------------------ MODULE ListLemmas ------------------------------
(***************************************************************************)
(* Facts about natural numbers, lists and folds that the proofs of several *)
(* components need.  The induction they rest on is stated for sets, which  *)
(* the provers can instantiate, and not for operators.                     *)
(***************************************************************************)
EXTENDS Integers, SequencesExt, FiniteSetsExt, FiniteSetTheorems, SequenceTheorems,
        WellFoundedInduction, TLAPS

-----------------------------------------------------------------------------
(* Natural numbers.                                                        *)

\* The least-number principle.
LEMMA LeastNatural ==
  ASSUME NEW S \in SUBSET Nat, S # {}
  PROVE  \E x \in S : \A y \in S : x <= y
  <1> DEFINE Less == {p \in Nat \X Nat : p[1] < p[2]}
  <1>1. IsWellFoundedOn(Less, Nat)
    BY NatLessThanWellFounded DEF OpToRel
  <1> HIDE DEF Less
  <1>2. PICK x \in S : \A y \in S : ~(<<y, x>> \in Less)
    BY <1>1, WFMin
  <1>3. ASSUME NEW y \in S PROVE x <= y
    <2>1. x \in Nat /\ y \in Nat /\ <<y, x>> \notin Less
      BY <1>2
    <2> QED
      BY <2>1 DEF Less
  <1> QED
    BY <1>3

\* Induction, as a fact about a set: from 0, ...
LEMMA InductionFromZero ==
  ASSUME NEW S, 0 \in S, \A n \in S : n \in Nat => n + 1 \in S
  PROVE  Nat \subseteq S
  <1> DEFINE Rest == Nat \ S
  <1> SUFFICES ASSUME Rest # {} PROVE FALSE
    OBVIOUS
  <1>1. PICK x \in Rest : \A y \in Rest : x <= y
    BY LeastNatural
  <1>2. x \in Nat /\ x # 0 /\ x - 1 \in Nat /\ (x - 1) + 1 = x /\ ~(x <= x - 1)
    BY <1>1
  <1>3. x - 1 \in S
    BY <1>1, <1>2
  <1> QED
    BY <1>1, <1>2, <1>3

\* ... and from 1.
LEMMA Induction ==
  ASSUME NEW S, 1 \in S, \A n \in S : n \in Nat => n + 1 \in S
  PROVE  \A n \in Nat \ {0} : n \in S
  <1> DEFINE T == S \union {0}
  <1>1. 0 \in T /\ \A n \in T : n \in Nat => n + 1 \in T
    OBVIOUS
  <1> HIDE DEF T
  <1>2. Nat \subseteq T
    BY <1>1, InductionFromZero
  <1> QED
    BY <1>2 DEF T

\* Min and Max are what their names say.
LEMMA MinOfNaturals ==
  ASSUME NEW S \in SUBSET Nat, S # {}
  PROVE  Min(S) \in S /\ \A y \in S : Min(S) <= y
  BY LeastNatural DEF Min

LEMMA MaxIsUpper ==
  ASSUME NEW S, NEW x \in S, \A y \in S : x >= y
  PROVE  Max(S) \in S /\ \A y \in S : Max(S) >= y
  BY DEF Max

LEMMA MaxOfTwo ==
  ASSUME NEW a \in Int, NEW b \in Int
  PROVE  Max({a, b}) = IF a >= b THEN a ELSE b
  BY DEF Max

LEMMA MinOfTwo ==
  ASSUME NEW a \in Int, NEW b \in Int
  PROVE  Min({a, b}) = IF a <= b THEN a ELSE b
  BY DEF Min

-----------------------------------------------------------------------------
(* Lists.                                                                  *)

\* The elements of a concatenation.
LEMMA ConcatElements ==
  ASSUME NEW S, NEW p \in Seq(S), NEW q \in Seq(S)
  PROVE  /\ p \o q \in Seq(S)
         /\ Len(p \o q) = Len(p) + Len(q)
         /\ \A i \in 1 .. Len(p) : (p \o q)[i] = p[i]
         /\ \A i \in 1 .. Len(p \o q) :
              i > Len(p) => i - Len(p) \in 1 .. Len(q) /\ (p \o q)[i] = q[i - Len(p)]
         /\ \A i \in 1 .. Len(q) : i + Len(p) \in 1 .. Len(p \o q)
              /\ (p \o q)[i + Len(p)] = q[i]
  <1>1. /\ p \o q \in Seq(S)
        /\ Len(p \o q) = Len(p) + Len(q)
        /\ \A i \in 1 .. Len(p) + Len(q) :
             (p \o q)[i] = IF i <= Len(p) THEN p[i] ELSE q[i - Len(p)]
    BY ConcatProperties
  <1>2. Len(p) \in Nat /\ Len(q) \in Nat
    OBVIOUS
  <1> QED
    BY <1>1, <1>2

\* A sequence is its head and its tail, position by position.
LEMMA HeadAndTail ==
  ASSUME NEW S, NEW q \in Seq(S), q # <<>>
  PROVE  /\ Head(q) = q[1] /\ 1 \in 1 .. Len(q)
         /\ Tail(q) \in Seq(S)
         /\ Len(Tail(q)) = Len(q) - 1
         /\ \A i \in 1 .. Len(Tail(q)) : Tail(q)[i] = q[i + 1] /\ i + 1 \in 2 .. Len(q)
         /\ \A i \in 2 .. Len(q) : i - 1 \in 1 .. Len(Tail(q))
  <1>1. Len(q) \in Nat /\ Len(q) # 0
    BY EmptySeq
  <1>2. /\ Head(q) = q[1] /\ Tail(q) \in Seq(S)
        /\ Len(Tail(q)) = Len(q) - 1
        /\ \A i \in 1 .. Len(Tail(q)) : Tail(q)[i] = q[i + 1]
    BY HeadTailProperties
  <1> QED
    BY <1>1, <1>2

\* ToSet by positions.
LEMMA SetOf ==
  ASSUME NEW S, NEW q \in Seq(S), NEW c
  PROVE  c \in ToSet(q) <=> \E i \in 1 .. Len(q) : q[i] = c
  <1>1. DOMAIN q = 1 .. Len(q)
    OBVIOUS
  <1> QED
    BY <1>1 DEF ToSet, Range

\* A function on 1 .. n is a sequence of length n.
LEMMA FunctionIsSeq ==
  ASSUME NEW n \in Nat, NEW S, NEW s \in [1 .. n -> S]
  PROVE  s \in Seq(S) /\ Len(s) = n
  OBVIOUS

\* One more element, unless it is there already.
LEMMA AppendNew ==
  ASSUME NEW S, NEW q \in Seq(S), IsInjective(q), NEW x \in S
  PROVE  /\ Contains(q, x) <=> x \in ToSet(q)
         /\ Append(q, x) \in Seq(S)
         /\ Len(Append(q, x)) = Len(q) + 1
         /\ ToSet(Append(q, x)) = ToSet(q) \union {x}
         /\ ~Contains(q, x) => IsInjective(Append(q, x))
  <1> DEFINE t == Append(q, x)
             n == Len(q)
  <1>1. n \in Nat /\ DOMAIN q = 1 .. n
    OBVIOUS
  <1>2. t \in Seq(S) /\ Len(t) = n + 1 /\ t[n + 1] = x /\ \A i \in 1 .. n : t[i] = q[i]
    BY AppendProperties
  <1>3. DOMAIN t = 1 .. n + 1
    BY <1>2
  <1>4. Contains(q, x) <=> x \in ToSet(q)
    BY <1>1 DEF Contains, ToSet
  <1> HIDE DEF t, n
  <1>5. ToSet(t) = ToSet(q) \union {x}
    <2>1. ASSUME NEW i \in 1 .. n + 1 PROVE t[i] \in ToSet(q) \union {x}
      BY <1>1, <1>2 DEF ToSet
    <2>2. \A i \in 1 .. n : i \in 1 .. n + 1 /\ n + 1 \in 1 .. n + 1
      BY <1>1
    <2>3. \A y \in ToSet(q) : y \in ToSet(t)
      BY <1>1, <1>2, <1>3, <2>2 DEF ToSet
    <2>4. x \in ToSet(t)
      BY <1>1, <1>2, <1>3 DEF ToSet
    <2> QED
      BY <1>3, <2>1, <2>3, <2>4 DEF ToSet
  <1>6. ASSUME ~Contains(q, x) PROVE IsInjective(t)
    <2>1. \A i \in 1 .. n : q[i] # x
      BY <1>1, <1>6 DEF Contains, n
    <2>2. \A i, j \in 1 .. n : q[i] = q[j] => i = j
      BY <1>1 DEF IsInjective
    <2>3. \A i, j \in 1 .. n + 1 : t[i] = t[j] => i = j
      BY <1>1, <1>2, <2>1, <2>2
    <2> QED
      BY <1>3, <2>3 DEF IsInjective
  <1> QED
    BY <1>2, <1>4, <1>5, <1>6 DEF t, n

\* A list without duplicates has as many elements as positions.
LEMMA InjectiveListSize ==
  ASSUME NEW S, NEW q \in Seq(S), IsInjective(q)
  PROVE  IsFiniteSet(ToSet(q)) /\ Cardinality(ToSet(q)) = Len(q)
  <1>1. DOMAIN q = 1 .. Len(q) /\ Len(q) \in Nat
    OBVIOUS
  <1>2. IsFiniteSet(1 .. Len(q)) /\ Cardinality(1 .. Len(q)) = Len(q)
    BY <1>1, FS_Interval
  <1>3. q \in [1 .. Len(q) -> ToSet(q)]
    BY <1>1 DEF ToSet
  <1>4. \A x \in ToSet(q) : \E i \in 1 .. Len(q) : q[i] = x
    BY <1>1 DEF ToSet
  <1>5. \A i, j \in 1 .. Len(q) : q[i] = q[j] => i = j
    BY <1>1 DEF IsInjective
  <1>6. q \in Bijection(1 .. Len(q), ToSet(q))
    BY <1>3, <1>4, <1>5 DEF Bijection, Injection, Surjection, IsInjective
  <1>7. ExistsBijection(1 .. Len(q), ToSet(q))
    BY <1>6 DEF ExistsBijection
  <1> QED
    BY <1>2, <1>7, FS_Bijection

-----------------------------------------------------------------------------
(* Sorted lists.                                                           *)

\* s lists the elements of S, each of them once, in order.
Sorting(s, S) ==
    /\ s \in [1 .. Cardinality(S) -> S]
    /\ \A i, j \in 1 .. Cardinality(S) : i < j => s[i] < s[j]

Increasing(s) == \A i, j \in 1 .. Len(s) : i < j => s[i] < s[j]

\* Sorted picks an increasing enumeration.
LEMMA SortingIsSorted ==
  ASSUME NEW S \in SUBSET Nat, IsFiniteSet(S), NEW s
  PROVE  Sorting(s, S) <=> s \in SetToSeqs(S) /\ Increasing(s)
  <1> DEFINE n == Cardinality(S)
  <1>1. n \in Nat
    BY FS_CardinalityType
  <1> HIDE DEF n
  <1>2. ASSUME s \in [1 .. n -> S]
        PROVE  Len(s) = n /\ \A i \in 1 .. n : s[i] \in Nat
    BY <1>1, <1>2, FunctionIsSeq
  <1>3. ASSUME Sorting(s, S)
        PROVE  s \in SetToSeqs(S) /\ Increasing(s)
    <2>1. s \in [1 .. n -> S] /\ \A i, j \in 1 .. n : i < j => s[i] < s[j]
      BY <1>3 DEF Sorting, n
    <2>2. \A i, j \in 1 .. n : i # j => s[i] # s[j]
      BY <1>1, <1>2, <2>1
    <2>3. s \in SetToSeqs(S)
      BY <2>1, <2>2 DEF SetToSeqs, n
    <2> QED
      BY <1>2, <2>1, <2>3 DEF Increasing
  <1>4. ASSUME s \in SetToSeqs(S), Increasing(s)
        PROVE  Sorting(s, S)
    <2>1. s \in [1 .. n -> S]
      BY <1>4 DEF SetToSeqs, n
    <2> QED
      BY <1>2, <1>4, <2>1 DEF Sorting, Increasing, n
  <1> QED
    BY <1>3, <1>4

\* It leaves nothing out.
LEMMA SortingIsComplete ==
  ASSUME NEW S \in SUBSET Nat, IsFiniteSet(S), NEW s, Sorting(s, S)
  PROVE  \A x \in S : \E i \in 1 .. Cardinality(S) : s[i] = x
  <1> DEFINE n == Cardinality(S)
  <1>1. n \in Nat /\ IsFiniteSet(1 .. n) /\ Cardinality(1 .. n) = n
    BY FS_CardinalityType, FS_Interval
  <1>2. s \in [1 .. n -> S] /\ \A i, j \in 1 .. n : i < j => s[i] < s[j]
    BY DEF Sorting
  <1> HIDE DEF n
  <1>3. \A i \in 1 .. n : s[i] \in Nat
    BY <1>2
  <1>4. \A i, j \in 1 .. n : s[i] = s[j] => i = j
    BY <1>1, <1>2, <1>3
  <1>5. s \in Injection(1 .. n, S)
    BY <1>2, <1>4 DEF Injection, IsInjective
  <1>6. s \in Surjection(1 .. n, S)
    BY <1>1, <1>5, FS_Injection DEF n
  <1> QED
    BY <1>6 DEF Surjection, n

\* Every finite set of numbers can be sorted: were there one that cannot, one
\* of the smallest such sets less its least element could.
LEMMA SortingExists ==
  ASSUME NEW K \in SUBSET Nat, IsFiniteSet(K)
  PROVE  \A S \in SUBSET K : \E s : Sorting(s, S)
  <1> DEFINE Sizes == {n \in Nat : \E S \in SUBSET K :
                                     Cardinality(S) = n /\ ~\E s : Sorting(s, S)}
  <1>1. \A S \in SUBSET K : IsFiniteSet(S) /\ Cardinality(S) \in Nat
    BY FS_Subset, FS_CardinalityType
  <1>2. ASSUME Sizes # {} PROVE FALSE
    <2>1. PICK n \in Sizes : \A m \in Sizes : n <= m
      BY <1>2, LeastNatural
    <2>2. PICK S \in SUBSET K : Cardinality(S) = n /\ ~\E s : Sorting(s, S)
      BY <2>1
    <2>3. S # {}
      <3>1. Sorting([i \in 1 .. 0 |-> 0], {})
        BY FS_EmptySet DEF Sorting
      <3> QED
        BY <2>2, <3>1
    <2>4. PICK k \in S : \A x \in S : k <= x
      BY <2>3, LeastNatural
    <2>5. Cardinality(S \ {k}) = n - 1 /\ n \in Nat \ {0}
      BY <1>1, <2>1, <2>2, <2>3, FS_RemoveElement, FS_EmptySet
    <2>6. PICK r : Sorting(r, S \ {k})
      <3>1. n - 1 \notin Sizes
        BY <2>1, <2>5
      <3> QED
        BY <2>5, <3>1
    <2> DEFINE t == [i \in 1 .. n |-> IF i = 1 THEN k ELSE r[i - 1]]
    <2>7. ASSUME NEW i \in 2 .. n
          PROVE  i - 1 \in 1 .. n - 1 /\ r[i - 1] \in S \ {k}
      <3>1. i - 1 \in 1 .. n - 1
        BY <2>5
      <3> QED
        BY <2>5, <2>6, <3>1 DEF Sorting
    <2>8. t \in [1 .. n -> S]
      BY <2>5, <2>7
    <2>9. ASSUME NEW i \in 1 .. n, NEW j \in 1 .. n, i < j
          PROVE  t[i] < t[j]
      <3>1. j \in 2 .. n /\ t[j] = r[j - 1]
        BY <2>5, <2>9
      <3>2. CASE i = 1
        <4>1. k <= r[j - 1] /\ r[j - 1] # k /\ k \in Nat /\ r[j - 1] \in Nat
          BY <2>4, <2>7, <3>1
        <4> QED
          BY <3>1, <3>2, <4>1
      <3>3. CASE i # 1
        <4>1. i - 1 \in 1 .. n - 1 /\ j - 1 \in 1 .. n - 1 /\ i - 1 < j - 1
          BY <2>5, <2>9, <3>3
        <4> QED
          BY <2>5, <2>6, <3>1, <3>3, <4>1 DEF Sorting
      <3> QED
        BY <3>2, <3>3
    <2>10. Sorting(t, S)
      BY <2>2, <2>8, <2>9 DEF Sorting
    <2> QED
      BY <2>2, <2>10
  <1> QED
    BY <1>1, <1>2

\* The list that the components sort a set into.
LEMMA SortedListOf ==
  ASSUME NEW S \in SUBSET Nat, IsFiniteSet(S)
  PROVE  Sorting(CHOOSE s \in SetToSeqs(S) : IsSorted(s, <), S)
  <1>1. PICK s : Sorting(s, S)
    BY SortingExists
  <1>2. s \in SetToSeqs(S) /\ Increasing(s)
    BY <1>1, SortingIsSorted
  <1> DEFINE picked == CHOOSE x \in SetToSeqs(S) : Increasing(x)
  <1>3. picked \in SetToSeqs(S) /\ Increasing(picked)
    BY <1>2
  <1>4. (CHOOSE x \in SetToSeqs(S) : IsSorted(x, <)) = picked
    BY DEF IsSorted, Increasing
  <1> HIDE DEF picked
  <1> QED
    BY <1>3, <1>4, SortingIsSorted

-----------------------------------------------------------------------------
(* Folds of sequences.                                                     *)

\* FlattenSeq is reached by partial concatenations: a function with its
\* recursion exists, and it is one of them.
LEMMA FlattenSteps ==
  ASSUME NEW S, NEW seqs \in Seq(Seq(S)), Len(seqs) # 0
  PROVE  \E f :
            /\ f[1] = seqs[1]
            /\ \A i \in 1 .. Len(seqs) - 1 : f[i + 1] = f[i] \o seqs[i + 1]
            /\ FlattenSeq(seqs) = f[Len(seqs)]
  <1> DEFINE L == Len(seqs)
             Partial(n) == {f \in [1 .. n -> Seq(S)] :
                              /\ f[1] = seqs[1]
                              /\ \A i \in 1 .. n - 1 : f[i + 1] = f[i] \o seqs[i + 1]}
             Reached(n) == Partial(n) # {}
             Built == {n \in Nat : n <= L => Reached(n)}
             Recurs(g) == g = [i \in 1 .. L |-> IF i = 1 THEN seqs[i]
                                                ELSE g[i - 1] \o seqs[i]]
  <1>0. L \in Nat /\ L >= 1 /\ \A i \in 1 .. L : seqs[i] \in Seq(S)
    OBVIOUS
  <1> HIDE DEF L, Partial, Reached, Built
  <1>1. Reached(1)
    <2>1. [i \in 1 .. 1 |-> seqs[1]] \in Partial(1)
      BY <1>0 DEF Partial
    <2> QED
      BY <2>1 DEF Reached
  <1>2. ASSUME NEW n \in Nat, n + 1 <= L, n >= 1, Reached(n)
        PROVE  Reached(n + 1)
    <2>1. PICK f : f \in Partial(n)
      BY <1>2 DEF Reached
    <2>2. /\ f \in [1 .. n -> Seq(S)] /\ f[1] = seqs[1]
          /\ \A i \in 1 .. n - 1 : f[i + 1] = f[i] \o seqs[i + 1]
      BY <2>1 DEF Partial
    <2> DEFINE g == [i \in 1 .. n + 1 |->
                       IF i = n + 1 THEN f[n] \o seqs[n + 1] ELSE f[i]]
    <2>3. f[n] \in Seq(S) /\ seqs[n + 1] \in Seq(S)
      BY <1>0, <1>2, <2>2
    <2>4. f[n] \o seqs[n + 1] \in Seq(S)
      BY <2>3, ConcatProperties
    <2>5. g \in [1 .. n + 1 -> Seq(S)]
      BY <1>2, <2>2, <2>4
    <2>6. g[1] = seqs[1]
      BY <1>2, <2>2
    <2>7. \A i \in 1 .. n : g[i + 1] = g[i] \o seqs[i + 1]
      <3> SUFFICES ASSUME NEW i \in 1 .. n PROVE g[i + 1] = g[i] \o seqs[i + 1]
        OBVIOUS
      <3>1. CASE i = n
        <4>1. n \in 1 .. n + 1 /\ n + 1 \in 1 .. n + 1 /\ n # n + 1
          BY <1>2
        <4>2. g[n] = f[n] /\ g[n + 1] = f[n] \o seqs[n + 1]
          BY <4>1
        <4> QED
          BY <3>1, <4>2
      <3>2. CASE i # n
        <4>1. i \in 1 .. n - 1 /\ i # n + 1 /\ i + 1 # n + 1
              /\ i \in 1 .. n + 1 /\ i + 1 \in 1 .. n + 1
          BY <1>2, <3>2
        <4> QED
          BY <2>2, <4>1
      <3> QED
        BY <3>1, <3>2
    <2>8. (n + 1) - 1 = n
      BY <1>2
    <2>9. g \in Partial(n + 1)
      <3> HIDE DEF g
      <3> QED
        BY <2>5, <2>6, <2>7, <2>8 DEF Partial
    <2> QED
      BY <2>9 DEF Reached
  <1>3. ASSUME NEW n \in Built, n \in Nat PROVE n + 1 \in Built
    <2> SUFFICES ASSUME n + 1 <= L PROVE Reached(n + 1)
      BY <1>3 DEF Built
    <2>1. CASE n >= 1
      BY <1>0, <1>2, <1>3, <2>1 DEF Built
    <2>2. CASE n = 0
      BY <1>1, <2>2
    <2> QED
      BY <1>3, <2>1, <2>2
  <1>4. PICK f : f \in Partial(L)
    <2>1. 1 \in Built
      BY <1>1 DEF Built
    <2>2. L \in Built
      BY <1>0, <1>3, <2>1, Induction
    <2> QED
      BY <1>0, <2>2 DEF Built, Reached
  <1>5. /\ f \in [1 .. L -> Seq(S)] /\ f[1] = seqs[1]
        /\ \A i \in 1 .. L - 1 : f[i + 1] = f[i] \o seqs[i + 1]
    BY <1>4 DEF Partial
  <1>6. Recurs(f)
    <2>1. \A i \in 1 .. L : f[i] = IF i = 1 THEN seqs[i] ELSE f[i - 1] \o seqs[i]
      <3> SUFFICES ASSUME NEW i \in 1 .. L, i # 1 PROVE f[i] = f[i - 1] \o seqs[i]
        BY <1>5
      <3>1. i - 1 \in 1 .. L - 1 /\ (i - 1) + 1 = i
        BY <1>0
      <3> QED
        BY <1>5, <3>1
    <2> QED
      BY <1>5, <2>1
  <1>7. PICK g : Recurs(g) /\ FlattenSeq(seqs) = g[L]
    BY <1>0, <1>6 DEF FlattenSeq, L
  <1>8. g[1] = seqs[1]
    BY <1>0, <1>7
  <1>9. \A i \in 1 .. L - 1 : g[i + 1] = g[i] \o seqs[i + 1]
    <2> SUFFICES ASSUME NEW i \in 1 .. L - 1 PROVE g[i + 1] = g[i] \o seqs[i + 1]
      OBVIOUS
    <2>1. i + 1 \in 1 .. L /\ i + 1 # 1 /\ (i + 1) - 1 = i
      BY <1>0
    <2> QED
      BY <1>7, <2>1
  <1> QED
    BY <1>7, <1>8, <1>9 DEF L

\* The greatest of some positions.
LEMMA GreatestPosition ==
  ASSUME NEW n \in Nat, NEW S \in SUBSET (1 .. n), S # {}
  PROVE  Max(S) \in S /\ \A y \in S : Max(S) >= y
  <1> DEFINE Below == {m \in Nat : \E x \in S : m = n - x}
  <1>1. PICK m \in Below : \A k \in Below : m <= k
    <2>1. PICK x \in S : TRUE
      OBVIOUS
    <2>2. n - x \in Below
      BY <2>1
    <2>3. Below \in SUBSET Nat /\ Below # {}
      BY <2>2
    <2> HIDE DEF Below
    <2> QED
      BY <2>3, LeastNatural
  <1>2. PICK x \in S : m = n - x
    BY <1>1
  <1>3. \A y \in S : x >= y
    BY <1>1, <1>2
  <1> QED
    BY <1>3, MaxIsUpper

\* The prefixes of the positions, which is what a fold from the left is
\* defined over.
LEMMA PositionsUpTo ==
  ASSUME NEW n \in Nat, NEW k \in 0 .. n - 1
  PROVE  /\ 1 .. k \in SUBSET (1 .. n) /\ 1 .. k + 1 \in SUBSET (1 .. n)
         /\ 1 .. k + 1 # {}
         /\ Max(1 .. k + 1) = k + 1
         /\ (1 .. k + 1) \ {k + 1} = 1 .. k
  <1> DEFINE P == 1 .. k
             Q == 1 .. k + 1
             N == 1 .. n
  <1>1. k + 1 \in Nat /\ k + 1 \in Q
    OBVIOUS
  <1>2. P \in SUBSET N /\ Q \in SUBSET N
    OBVIOUS
  <1>3. Q \ {k + 1} = P
    OBVIOUS
  <1>4. ASSUME NEW m \in Q, m >= k + 1 PROVE m = k + 1
    BY <1>4
  <1>5. Q # {} /\ Q \in SUBSET (1 .. k + 1)
    BY <1>1
  <1> HIDE DEF P, Q, N
  <1>6. Max(Q) \in Q /\ Max(Q) >= k + 1
    BY <1>1, <1>5, GreatestPosition
  <1>7. Max(Q) = k + 1
    BY <1>4, <1>6
  <1>8. P \in SUBSET N /\ Q \in SUBSET N /\ Q # {} /\ Max(Q) = k + 1 /\ Q \ {k + 1} = P
    BY <1>2, <1>3, <1>5, <1>7
  <1>9. 1 .. k \in SUBSET (1 .. n) /\ 1 .. k + 1 \in SUBSET (1 .. n)
    BY <1>8 DEF P, Q, N
  <1>10. 1 .. k + 1 # {}
    BY <1>8 DEF Q
  <1>11. Max(1 .. k + 1) = k + 1
    BY <1>8, Zenon DEF Q
  <1>12. (1 .. k + 1) \ {k + 1} = 1 .. k
    BY <1>8 DEF P, Q
  <1> QED
    BY <1>9, <1>10, <1>11, <1>12

\* f folds the positions 1 .. n, greatest last, with the step g.
Folds(f, n, base, g) ==
    f = [s \in SUBSET (1 .. n) |->
           IF s = {} THEN base ELSE g[<<Max(s), f[s \ {Max(s)}]>>]]

\* There is a fold with any step, ...
LEMMA FoldExists ==
  ASSUME NEW A, NEW base \in A, NEW n \in Nat, NEW g \in [(1 .. n) \X A -> A]
  PROVE  \E f \in [SUBSET (1 .. n) -> A] : Folds(f, n, base, g)
  <1> DEFINE Fold(k) == {f \in [SUBSET (1 .. k) -> A] : Folds(f, k, base, g)}
             Reached == {k \in Nat : k <= n => Fold(k) # {}}
  <1>1. 0 \in Reached
    <2>1. 1 .. 0 = {} /\ SUBSET (1 .. 0) = {{}}
      OBVIOUS
    <2> DEFINE f == [s \in SUBSET (1 .. 0) |-> base]
    <2>2. f \in [SUBSET (1 .. 0) -> A]
      OBVIOUS
    <2>3. Folds(f, 0, base, g)
      BY <2>1 DEF Folds
    <2> HIDE DEF f
    <2> QED
      BY <2>2, <2>3
  <1>2. ASSUME NEW k \in Nat, k \in Reached, k + 1 <= n
        PROVE  Fold(k + 1) # {}
    <2>1. PICK f \in [SUBSET (1 .. k) -> A] : Folds(f, k, base, g)
      <3>1. Fold(k) # {}
        <4>1. k <= n
          BY <1>2
        <4> HIDE DEF Fold
        <4> QED
          BY <1>2, <4>1
      <3> QED
        BY <3>1
    <2> DEFINE h == [s \in SUBSET (1 .. k + 1) |->
                       IF k + 1 \in s THEN g[<<k + 1, f[s \ {k + 1}]>>] ELSE f[s]]
    <2>2. ASSUME NEW s \in SUBSET (1 .. k + 1)
          PROVE  s \ {k + 1} \in SUBSET (1 .. k)
      OBVIOUS
    <2>3. ASSUME NEW s \in SUBSET (1 .. k + 1), k + 1 \notin s
          PROVE  s \in SUBSET (1 .. k) /\ h[s] = f[s]
      BY <2>2, <2>3
    <2>4. ASSUME NEW s \in SUBSET (1 .. k + 1)
          PROVE  h[s] \in A
      <3>1. CASE k + 1 \in s
        <4>1. f[s \ {k + 1}] \in A /\ k + 1 \in 1 .. n
          BY <1>2, <2>1, <2>2
        <4>2. h[s] = g[<<k + 1, f[s \ {k + 1}]>>]
          BY <3>1
        <4> HIDE DEF h
        <4> QED
          BY <4>1, <4>2
      <3>2. CASE k + 1 \notin s
        BY <2>1, <2>3, <3>2
      <3> QED
        BY <3>1, <3>2
    <2>5. h \in [SUBSET (1 .. k + 1) -> A]
      BY <2>4
    <2>6. ASSUME NEW s \in SUBSET (1 .. k + 1)
          PROVE  h[s] = IF s = {} THEN base ELSE g[<<Max(s), h[s \ {Max(s)}]>>]
      <3>1. CASE s = {}
        <4>1. f[{}] = base
          BY <2>1 DEF Folds
        <4> QED
          BY <2>3, <3>1, <4>1
      <3>2. CASE k + 1 \in s
        <4>1. Max(s) = k + 1
          <5>1. k + 1 \in Nat /\ s # {}
            BY <3>2
          <5>2. Max(s) \in s /\ Max(s) >= k + 1
            BY <3>2, <5>1, GreatestPosition
          <5>3. ASSUME NEW m \in s, m >= k + 1 PROVE m = k + 1
            BY <5>3
          <5> QED
            BY <5>2, <5>3
        <4>2. h[s \ {k + 1}] = f[s \ {k + 1}]
          OBVIOUS
        <4>3. h[s] = g[<<k + 1, f[s \ {k + 1}]>>]
          BY <3>2
        <4> HIDE DEF h
        <4> QED
          BY <3>2, <4>1, <4>2, <4>3
      <3>3. CASE s # {} /\ k + 1 \notin s
        <4>1. s \in SUBSET (1 .. k) /\ h[s] = f[s]
          BY <2>3, <3>3
        <4>2. s \ {Max(s)} \in SUBSET (1 .. k) /\ k + 1 \notin s \ {Max(s)}
          BY <3>3, <4>1
        <4>3. h[s \ {Max(s)}] = f[s \ {Max(s)}]
          BY <2>3, <4>2
        <4>4. f[s] = g[<<Max(s), f[s \ {Max(s)}]>>]
          BY <2>1, <3>3, <4>1 DEF Folds
        <4> HIDE DEF h
        <4> QED
          BY <3>3, <4>1, <4>3, <4>4
      <3> QED
        BY <3>1, <3>2, <3>3
    <2>7. Folds(h, k + 1, base, g)
      <3> HIDE DEF h
      <3> QED
        BY <2>5, <2>6 DEF Folds
    <2> HIDE DEF h
    <2> QED
      BY <2>5, <2>7
  <1>3. \A k \in Reached : k \in Nat => k + 1 \in Reached
    <2> HIDE DEF Fold
    <2> QED
      BY <1>2
  <1>4. n \in Reached
    <2> HIDE DEF Reached
    <2> QED
      BY <1>1, <1>3, InductionFromZero
  <1>5. Fold(n) # {}
    <2> HIDE DEF Fold
    <2> QED
      BY <1>4
  <1> QED
    BY <1>5

=============================================================================
