----------------------------- MODULE DataLemmas -----------------------------
(***************************************************************************)
(* What the operators on data compute, for every argument: the minimum and *)
(* the maximum of a set of numbers (SelectInSeq and SelectLastInSeq return *)
(* them), the removal of an element from a sequence, and sums over finite  *)
(* sets (FoldSet).                                                         *)
(* The inductions take a minimal counterexample: a set has one because     *)
(* strict inclusion of finite sets is well-founded.                        *)
(***************************************************************************)
EXTENDS SequencesExt, FiniteSetTheorems, SequenceTheorems, TLAPS

\* A family of subsets of a finite set has a minimal member.
LEMMA MinimalSubset ==
    ASSUME NEW S, IsFiniteSet(S), NEW B, B \subseteq SUBSET S, B # {}
    PROVE  \E m \in B : \A s \in B : s \subseteq m => s = m
<1>1. B \subseteq FiniteSubsetsOf(S)
  BY FS_FiniteSubsetsOfFinite
<1>2. PICK m \in B : \A s \in B : ~(<<s, m>> \in StrictSubsetOrdering(S))
  BY <1>1, WFMin, FS_StrictSubsetOrderingWellFounded
<1>3. ASSUME NEW s \in B, s \subseteq m
      PROVE  s = m
  BY <1>2, <1>3, Zenon DEF StrictSubsetOrdering
<1> QED BY <1>3

\* A nonempty set of natural numbers has a least element, and Min returns it.
LEMMA LeastElement ==
    ASSUME NEW S, S \subseteq Nat, S # {}
    PROVE  Min(S) \in S /\ \A y \in S : Min(S) <= y
<1> DEFINE T == {1..n : n \in S}
<1>1. T \subseteq FiniteSubsetsOf(Nat)
  <2>1. ASSUME NEW n \in S
        PROVE  1..n \in SUBSET Nat /\ IsFiniteSet(1..n)
    <3>1. n \in Int /\ 1 \in Int
      OBVIOUS
    <3> QED BY <3>1, FS_Interval
  <2> QED BY <2>1 DEF FiniteSubsetsOf
<1>2. T # {}
  OBVIOUS
<1>3. PICK u \in T : \A v \in T : ~(<<v, u>> \in StrictSubsetOrdering(Nat))
  <2> HIDE DEF T
  <2> QED BY <1>1, <1>2, WFMin, FS_StrictSubsetOrderingWellFounded
<1>4. PICK x \in S : u = 1..x
  BY <1>3
<1>5. ASSUME NEW y \in S
      PROVE  x <= y
  <2>1. SUFFICES ASSUME y < x PROVE FALSE
    OBVIOUS
  <2>2. 1..y \subseteq 1..x /\ x \in 1..x /\ x \notin 1..y
    BY <2>1
  <2>3. 1..y \in SUBSET Nat /\ 1..x \in SUBSET Nat /\ 1..y # 1..x
    BY <2>2
  <2>4. <<1..y, 1..x>> \in StrictSubsetOrdering(Nat)
    BY <2>2, <2>3, Zenon DEF StrictSubsetOrdering
  <2> QED BY <2>4, <1>3, <1>4
<1> QED
  BY <1>5 DEF Min

\* A nonempty set of bounded numbers has a greatest element, and Max returns it.
LEMMA GreatestElement ==
    ASSUME NEW N \in Nat, NEW S, S \subseteq 0..N, S # {}
    PROVE  Max(S) \in S /\ \A y \in S : Max(S) >= y
<1> DEFINE T == {N - x : x \in S}
<1>1. T \subseteq Nat /\ T # {}
  OBVIOUS
<1>2. Min(T) \in T /\ \A y \in T : Min(T) <= y
  <2> HIDE DEF T
  <2> QED BY <1>1, LeastElement
<1>3. PICK x \in S : Min(T) = N - x
  BY <1>2
<1>4. ASSUME NEW y \in S
      PROVE  x >= y
  <2>1. N - y \in T /\ N - x <= N - y
    BY <1>2, <1>3
  <2> QED BY <2>1
<1> QED
  BY <1>4 DEF Max

\* Induction up to N, for the set of the numbers that have a property
LEMMA Upward ==
    ASSUME NEW N \in Nat, NEW S, 0 \in S, \A n \in 0..N - 1 : n \in S => n + 1 \in S
    PROVE  0..N \subseteq S
<1> DEFINE B == {n \in 0..N : n \notin S}
<1>1. SUFFICES ASSUME B # {} PROVE FALSE
  OBVIOUS
<1>2. Min(B) \in B /\ \A y \in B : Min(B) <= y
  <2>1. B \subseteq Nat
    OBVIOUS
  <2> HIDE DEF B
  <2> QED BY <2>1, <1>1, LeastElement
<1>3. PICK m \in 0..N : m \notin S /\ \A y \in 0..N : y \notin S => m <= y
  BY <1>2
<1>4. m - 1 \in 0..N - 1 /\ m - 1 \in S
  BY <1>3
<1> QED BY <1>3, <1>4

\* RemoveAt closes the gap: what was behind it moves up by one.
LEMMA RemoveAtProperties ==
    ASSUME NEW S, NEW s \in Seq(S), NEW i \in 1..Len(s)
    PROVE  /\ RemoveAt(s, i) \in Seq(S)
           /\ Len(RemoveAt(s, i)) = Len(s) - 1
           /\ \A j \in 1..Len(s) - 1 :
                RemoveAt(s, i)[j] = IF j < i THEN s[j] ELSE s[j + 1]
<1> DEFINE a == SubSeq(s, 1, i - 1)
           b == SubSeq(s, i + 1, Len(s))
<1>0. Len(s) \in Nat /\ i \in Nat /\ 1 <= i /\ i <= Len(s)
  BY LenProperties
<1>1. /\ a \in Seq(S) /\ Len(a) = i - 1
      /\ \A j \in 1..i - 1 : a[j] = s[j]
  BY <1>0, SubSeqProperties
<1>2. /\ b \in Seq(S) /\ Len(b) = Len(s) - i
      /\ \A j \in 1..Len(s) - i : b[j] = s[i + j]
  BY <1>0, SubSeqProperties
<1> HIDE DEF a, b
<1>3. /\ a \o b \in Seq(S) /\ Len(a \o b) = Len(s) - 1
      /\ \A j \in 1..Len(s) - 1 : (a \o b)[j] = IF j < i THEN a[j] ELSE b[j - (i - 1)]
  <2>1. /\ a \o b \in Seq(S) /\ Len(a \o b) = Len(a) + Len(b)
        /\ \A j \in 1..Len(a) + Len(b) :
              (a \o b)[j] = IF j <= Len(a) THEN a[j] ELSE b[j - Len(a)]
    BY <1>1, <1>2, ConcatProperties, Zenon
  <2>2. Len(a) + Len(b) = Len(s) - 1
    BY <1>0, <1>1, <1>2
  <2> QED BY <2>1, <2>2, <1>0, <1>1, Z3
<1>4. RemoveAt(s, i) = a \o b
  BY DEF RemoveAt, a, b
<1>5. ASSUME NEW j \in 1..Len(s) - 1
      PROVE  (a \o b)[j] = IF j < i THEN s[j] ELSE s[j + 1]
  <2>1. CASE j < i
    BY <2>1, <1>0, <1>1, <1>3
  <2>2. CASE ~(j < i)
    <3>1. j - (i - 1) \in 1..Len(s) - i /\ i + (j - (i - 1)) = j + 1
      BY <2>2, <1>0
    <3> QED BY <3>1, <2>2, <1>2, <1>3
  <2> QED BY <2>1, <2>2
<1> QED
  BY <1>3, <1>4, <1>5

-----------------------------------------------------------------------------
(* Sums *)

Pick(s) == CHOOSE x \in s : TRUE

\* f sums the weights w over the subsets of S, one element at a time.
Sums(f, w, S) ==
    f = [s \in SUBSET S |-> IF s = {} THEN 0 ELSE f[s \ {Pick(s)}] + w[Pick(s)]]

Total(w, S) == (CHOOSE f : Sums(f, w, S))[S]

LEMMA PickIn ==
    ASSUME NEW s, s # {}
    PROVE  Pick(s) \in s
BY DEF Pick

\* The subsets of S with at most n elements
UpTo(S, n) == {s \in SUBSET S : Cardinality(s) <= n}

\* Such a function exists: it is built for ever larger subsets.
LEMMA SumsExist ==
    ASSUME NEW S, IsFiniteSet(S), NEW w \in [S -> Nat]
    PROVE  \E f \in [SUBSET S -> Nat] : Sums(f, w, S)
<1> DEFINE Upto(n, f) ==
             \A s \in UpTo(S, n) :
                f[s] = IF s = {} THEN 0 ELSE f[s \ {Pick(s)}] + w[Pick(s)]
           Built(n) == \E f \in [SUBSET S -> Nat] : Upto(n, f)
           Bad == {n \in Nat : ~Built(n)}
<1>0. \A s \in SUBSET S : /\ IsFiniteSet(s) /\ Cardinality(s) \in Nat
                          /\ s # {} => /\ Pick(s) \in S
                                       /\ Cardinality(s \ {Pick(s)}) = Cardinality(s) - 1
                                       /\ s \ {Pick(s)} \in SUBSET S
                          /\ Cardinality(s) = 0 => s = {}
  BY PickIn, FS_Subset, FS_CardinalityType, FS_RemoveElement, FS_EmptySet
<1>1. Built(0)
  <2> DEFINE f == [s \in SUBSET S |-> 0]
  <2>1. f \in [SUBSET S -> Nat]
    OBVIOUS
  <2>2. ASSUME NEW s \in UpTo(S, 0)
        PROVE  s = {} /\ f[s] = 0
    <3>1. s \in SUBSET S /\ Cardinality(s) <= 0
      BY DEF UpTo
    <3>2. Cardinality(s) \in Nat
      BY <3>1, FS_Subset, FS_CardinalityType
    <3>3. Cardinality(s) = 0
      BY <3>1, <3>2
    <3> QED BY <3>1, <3>3, <1>0
  <2> QED BY <2>1, <2>2
<1>2. ASSUME NEW n \in Nat, Built(n)
      PROVE  Built(n + 1)
  <2>1. PICK f \in [SUBSET S -> Nat] : Upto(n, f)
    BY <1>2
  <2> DEFINE g == [s \in SUBSET S |->
                     IF s \in UpTo(S, n) \/ s = {} THEN f[s] ELSE f[s \ {Pick(s)}] + w[Pick(s)]]
  <2>2. g \in [SUBSET S -> Nat]
    <3>1. ASSUME NEW s \in SUBSET S, s # {}
          PROVE  f[s \ {Pick(s)}] + w[Pick(s)] \in Nat
      <4>1. f[s \ {Pick(s)}] \in Nat /\ w[Pick(s)] \in Nat
        BY <1>0, <3>1
      <4> QED BY <4>1
    <3>2. \A s \in SUBSET S : f[s] \in Nat
      OBVIOUS
    <3> QED BY <3>1, <3>2
  <2>3. ASSUME NEW s \in UpTo(S, n + 1)
        PROVE  g[s] = IF s = {} THEN 0 ELSE g[s \ {Pick(s)}] + w[Pick(s)]
    <3>1. s \in SUBSET S /\ Cardinality(s) <= n + 1
      BY DEF UpTo
    <3>2. CASE s = {}
      <4>1. s \in UpTo(S, n)
        BY <3>1, <3>2, FS_EmptySet DEF UpTo
      <4> QED BY <4>1, <3>1, <3>2, <2>1
    <3>3. CASE s # {}
      <4>1. s \ {Pick(s)} \in UpTo(S, n)
        BY <1>0, <3>1, <3>3 DEF UpTo
      <4>2. g[s \ {Pick(s)}] = f[s \ {Pick(s)}]
        BY <4>1, <1>0, <3>1, <3>3
      <4>3. g[s] = f[s \ {Pick(s)}] + w[Pick(s)]
        BY <2>1, <3>1, <3>3
      <4> QED BY <4>2, <4>3, <3>3
    <3> QED BY <3>2, <3>3
  <2> HIDE DEF g
  <2> QED BY <2>2, <2>3
<1>3. Bad = {}
  <2>1. SUFFICES ASSUME Bad # {} PROVE FALSE
    OBVIOUS
  <2>2. Min(Bad) \in Bad /\ \A y \in Bad : Min(Bad) <= y
    <3>1. Bad \subseteq Nat
      OBVIOUS
    <3> HIDE DEF Bad
    <3> QED BY <3>1, <2>1, LeastElement
  <2>3. PICK m \in Nat : ~Built(m) /\ \A y \in Nat : ~Built(y) => m <= y
    BY <2>2
  <2> HIDE DEF Built, Bad
  <2>4. m # 0 /\ m - 1 \in Nat
    BY <1>1, <2>3
  <2>5. Built(m - 1)
    BY <2>3, <2>4
  <2>6. Built(m - 1 + 1)
    BY <2>4, <2>5, <1>2
  <2> QED BY <2>6, <2>3
<1>4. PICK f \in [SUBSET S -> Nat] : Upto(Cardinality(S), f)
  <2>1. Cardinality(S) \in Nat
    BY FS_CardinalityType
  <2>2. Built(Cardinality(S))
    <3> HIDE DEF Built
    <3> QED BY <2>1, <1>3
  <2> QED BY <2>2
<1>5. UpTo(S, Cardinality(S)) = SUBSET S
  BY FS_Subset DEF UpTo
<1>6. \A s \in SUBSET S : f[s] = IF s = {} THEN 0 ELSE f[s \ {Pick(s)}] + w[Pick(s)]
  BY <1>4, <1>5
<1>7. Sums(f, w, S)
  BY <1>6 DEF Sums
<1> QED BY <1>7

\* It is the only one: where the weights agree, the sums do.
LEMMA SumsAgree ==
    ASSUME NEW S, IsFiniteSet(S), NEW T, NEW U, S \subseteq T, S \subseteq U,
           NEW w, NEW v, \A x \in S : w[x] = v[x],
           NEW f, Sums(f, w, T), NEW g, Sums(g, v, U)
    PROVE  f[S] = g[S]
<1> DEFINE B == {s \in SUBSET S : f[s] # g[s]}
<1>1. SUFFICES ASSUME B # {} PROVE FALSE
  OBVIOUS
<1>2. PICK m \in B : \A s \in B : s \subseteq m => s = m
  <2>1. B \subseteq SUBSET S
    OBVIOUS
  <2> HIDE DEF B
  <2> QED BY <2>1, <1>1, MinimalSubset
<1>3. /\ f[m] = IF m = {} THEN 0 ELSE f[m \ {Pick(m)}] + w[Pick(m)]
      /\ g[m] = IF m = {} THEN 0 ELSE g[m \ {Pick(m)}] + v[Pick(m)]
  <2>1. m \in SUBSET T /\ m \in SUBSET U
    OBVIOUS
  <2> QED BY <2>1 DEF Sums
<1>4. m # {}
  BY <1>3
<1>5. Pick(m) \in m
  BY <1>4, PickIn
<1>6. f[m \ {Pick(m)}] = g[m \ {Pick(m)}]
  BY <1>2, <1>5
<1> QED BY <1>3, <1>4, <1>5, <1>6

LEMMA TotalSums ==
    ASSUME NEW S, IsFiniteSet(S), NEW w \in [S -> Nat], NEW f, Sums(f, w, S)
    PROVE  f[S] = Total(w, S) /\ Total(w, S) \in Nat
<1>1. PICK g \in [SUBSET S -> Nat] : Sums(g, w, S)
  BY SumsExist
<1>2. Sums(CHOOSE h : Sums(h, w, S), w, S)
  BY <1>1
<1>3. f[S] = g[S]
  BY <1>1, SumsAgree
<1>4. Total(w, S) = g[S]
  <2> DEFINE h == CHOOSE h : Sums(h, w, S)
  <2>1. Sums(h, w, S) /\ Total(w, S) = h[S]
    BY <1>2 DEF Total
  <2> HIDE DEF h
  <2> QED BY <2>1, <1>1, SumsAgree
<1> QED BY <1>3, <1>4

\* The empty sum
LEMMA TotalEmpty ==
    ASSUME NEW w
    PROVE  Total(w, {}) = 0
<1> DEFINE f == [s \in SUBSET {} |-> 0]
<1>1. Sums(f, w, {})
  BY DEF Sums
<1>2. PICK h : Sums(h, w, {}) /\ Total(w, {}) = h[{}]
  BY <1>1 DEF Total
<1> QED BY <1>2 DEF Sums

\* The sum depends on the weights of the members only.
LEMMA TotalSame ==
    ASSUME NEW S, IsFiniteSet(S), NEW w \in [S -> Nat], NEW v \in [S -> Nat],
           \A x \in S : w[x] = v[x]
    PROVE  Total(w, S) = Total(v, S)
<1>1. w = v
  OBVIOUS
<1> QED BY <1>1

\* Any member may be taken out first.
LEMMA SumsAnyOrder ==
    ASSUME NEW S, IsFiniteSet(S), NEW w \in [S -> Nat], NEW f \in [SUBSET S -> Nat],
           Sums(f, w, S), NEW z \in S
    PROVE  f[S] = f[S \ {z}] + w[z]
<1> DEFINE B == {s \in SUBSET S : \E x \in s : f[s] # f[s \ {x}] + w[x]}
<1>1. SUFFICES ASSUME B # {} PROVE FALSE
  OBVIOUS
<1>2. PICK m \in B : \A s \in B : s \subseteq m => s = m
  <2>1. B \subseteq SUBSET S
    OBVIOUS
  <2> HIDE DEF B
  <2> QED BY <2>1, <1>1, MinimalSubset
<1>3. PICK x \in m : f[m] # f[m \ {x}] + w[x]
  BY <1>2
<1> DEFINE y == Pick(m)
<1>4. y \in m /\ f[m] = f[m \ {y}] + w[y]
  BY <1>3, PickIn DEF Sums
<1> HIDE DEF y
<1>5. x # y
  BY <1>3, <1>4
<1>6. f[m \ {y}] = f[(m \ {y}) \ {x}] + w[x]
  <2>1. m \ {y} \in SUBSET S /\ m \ {y} \notin B /\ x \in m \ {y}
    BY <1>2, <1>4, <1>5
  <2> QED BY <2>1
<1>7. f[m \ {x}] = f[(m \ {x}) \ {y}] + w[y]
  <2>1. m \ {x} \in SUBSET S /\ m \ {x} \notin B /\ y \in m \ {x}
    BY <1>2, <1>4, <1>5
  <2> QED BY <2>1
<1>8. (m \ {x}) \ {y} = (m \ {y}) \ {x}
  OBVIOUS
<1>9. /\ f[(m \ {y}) \ {x}] \in Nat /\ w[x] \in Nat /\ w[y] \in Nat
  BY <1>4
<1>10. f[m] = f[(m \ {y}) \ {x}] + w[x] + w[y]
  BY <1>4, <1>6
<1>11. f[m \ {x}] = f[(m \ {y}) \ {x}] + w[y]
  BY <1>7, <1>8
<1> QED BY <1>3, <1>9, <1>10, <1>11

\* A new member adds its weight.
LEMMA TotalAdd ==
    ASSUME NEW S, IsFiniteSet(S), NEW x, x \notin S,
           NEW w \in [S -> Nat], NEW v \in [S \cup {x} -> Nat], \A y \in S : v[y] = w[y]
    PROVE  Total(v, S \cup {x}) = Total(w, S) + v[x]
<1> DEFINE U == S \cup {x}
<1>1. IsFiniteSet(U)
  BY FS_AddElement
<1>2. PICK f \in [SUBSET U -> Nat] : Sums(f, v, U)
  BY <1>1, SumsExist
<1>3. PICK g \in [SUBSET S -> Nat] : Sums(g, w, S)
  BY SumsExist
<1>4. f[U] = Total(v, U)
  BY <1>1, <1>2, TotalSums
<1>5. g[S] = Total(w, S)
  BY <1>3, TotalSums
<1>6. f[S] = g[S]
  BY <1>2, <1>3, SumsAgree
<1>7. f[U] = f[U \ {x}] + v[x] /\ U \ {x} = S
  <2>1. v \in [U -> Nat] /\ x \in U /\ U \ {x} = S
    OBVIOUS
  <2>2. f[U] = f[U \ {x}] + v[x]
    <3> HIDE DEF U
    <3> QED BY <2>1, <1>1, <1>2, SumsAnyOrder
  <2> QED BY <2>1, <2>2
<1> QED BY <1>4, <1>5, <1>6, <1>7

\* A leaving member takes its weight along.
LEMMA TotalRemove ==
    ASSUME NEW S, IsFiniteSet(S), NEW x \in S, NEW w \in [S -> Nat],
           NEW v \in [S \ {x} -> Nat], \A y \in S \ {x} : v[y] = w[y]
    PROVE  Total(w, S) = Total(v, S \ {x}) + w[x]
<1>1. IsFiniteSet(S \ {x}) /\ (S \ {x}) \cup {x} = S /\ x \notin S \ {x}
  BY FS_RemoveElement
<1> QED BY <1>1, TotalAdd
=============================================================================
