----------------------------- MODULE Sums_proofs -----------------------------
(***************************************************************************)
(* What a sum over a finite set does when the set or the function changes. *)
(* FoldSet goes through the subsets of the set by a recursive function; it *)
(* is shown to exist by induction on the size of the subsets.              *)
(***************************************************************************)
EXTENDS Sums, FiniteSetTheorems, WellFoundedInduction, TLAPS

-------------------------------------------------------------------------------
(* Induction, for a set of numbers and for a set of finite sets *)

\* A non-empty set of naturals has a least member.
LEMMA LeastNat ==
  ASSUME NEW T, T \subseteq Nat, T # {}
  PROVE  \E x \in T : \A y \in T : x <= y
<1>1. \E x \in T : \A y \in T : ~(<<y, x>> \in OpToRel(<, Nat))
  BY NatLessThanWellFounded, WFMin, Zenon
<1>2. PICK x \in T : \A y \in T : ~(<<y, x>> \in OpToRel(<, Nat))
  BY <1>1, Zenon
<1>3. \A y \in T : ~(y < x) BY <1>2 DEF OpToRel
<1> QED BY <1>3

\* A set that has 0, and with a number its successor, has all naturals.
LEMMA NatSet ==
  ASSUME NEW T, 0 \in T, \A n \in Nat : n \in T => n + 1 \in T
  PROVE  \A n \in Nat : n \in T
<1> SUFFICES ASSUME Nat \ T # {} PROVE FALSE
  OBVIOUS
<1>1. PICK n \in Nat \ T : \A m \in Nat \ T : n <= m BY LeastNat
<1>2. n # 0 /\ n - 1 \in Nat /\ (n - 1) + 1 = n BY <1>1
<1>3. n - 1 \in T BY <1>1, <1>2
<1> QED BY <1>1, <1>2, <1>3

\* What holds for a finite set whenever it holds for all smaller ones.
LEMMA FiniteSetInduction ==
  ASSUME NEW S, IsFiniteSet(S), NEW F,
         \A T \in SUBSET S : (\A U \in SUBSET T : U # T => U \in F) => T \in F
  PROVE  S \in F
<1> SUFFICES ASSUME S \notin F PROVE FALSE
  OBVIOUS
<1> DEFINE bad == {T \in SUBSET S : T \notin F}
<1>1. bad \subseteq FiniteSubsetsOf(S) /\ S \in bad BY FS_Subset DEF FiniteSubsetsOf
<1>2. \E T \in bad : \A U \in bad : ~(<<U, T>> \in StrictSubsetOrdering(S))
  <2> DEFINE smaller == StrictSubsetOrdering(S)
             sets == FiniteSubsetsOf(S)
  <2>1. bad # {} /\ bad \subseteq sets BY <1>1
  <2>2. IsWellFoundedOn(smaller, sets) BY FS_StrictSubsetOrderingWellFounded
  <2> HIDE DEF bad, smaller, sets
  <2>3. \E T \in bad : \A U \in bad : ~(<<U, T>> \in smaller) BY <2>1, <2>2, WFMin
  <2> QED BY <2>3 DEF smaller
<1>3. PICK T \in bad : \A U \in bad : ~(<<U, T>> \in StrictSubsetOrdering(S)) BY <1>2
<1>4. ASSUME NEW U \in SUBSET T, U # T PROVE U \in F
  BY <1>3, <1>4 DEF StrictSubsetOrdering
<1> QED BY <1>3, <1>4

-------------------------------------------------------------------------------
(* The recursive function in FoldSet *)

Pick(s) == CHOOSE x \in s : TRUE
Recursion(f, S, g) == g = [s \in SUBSET S |-> IF s = {} THEN 0 ELSE f[Pick(s)] + g[s \ {Pick(s)}]]
Iter(f, S) == CHOOSE g : Recursion(f, S, g)

LEMMA TotalIsIter ==
  ASSUME NEW f, NEW S
  PROVE  Total(f, S) = Iter(f, S)[S]
BY Zenon DEF Total, FoldSet, MapThenFoldSet, Iter, Recursion, Pick

LEMMA PickIn == \A s : s # {} => Pick(s) \in s
BY DEF Pick

LEMMA IterExists ==
  ASSUME NEW S, IsFiniteSet(S), NEW f
  PROVE  Recursion(f, S, Iter(f, S))
<1> DEFINE step(g, s) == IF s = {} THEN 0 ELSE f[Pick(s)] + g[s \ {Pick(s)}]
           upTo(g, n) == \A s \in SUBSET S : Cardinality(s) <= n => g[s] = step(g, s)
           T == {n \in Nat : \E g : g = [s \in SUBSET S |-> g[s]] /\ upTo(g, n)}
<1>0. \A s \in SUBSET S : IsFiniteSet(s) /\ Cardinality(s) \in Nat
  BY FS_Subset, FS_CardinalityType
<1>1. 0 \in T
  <2> DEFINE g == [s \in SUBSET S |-> 0]
  <2>1. \A s \in SUBSET S : Cardinality(s) <= 0 => s = {} BY <1>0, FS_EmptySet
  <2>2. upTo(g, 0) BY <2>1
  <2>3. g = [s \in SUBSET S |-> g[s]] OBVIOUS
  <2> QED BY <2>2, <2>3
<1>2. ASSUME NEW n \in Nat, n \in T PROVE n + 1 \in T
  <2>1. PICK g : g = [s \in SUBSET S |-> g[s]] /\ upTo(g, n) BY <1>2
  <2> DEFINE h == [s \in SUBSET S |-> IF Cardinality(s) <= n THEN g[s] ELSE step(g, s)]
  <2>2. ASSUME NEW s \in SUBSET S, Cardinality(s) <= n + 1 PROVE h[s] = step(h, s)
    <3>1. CASE s = {}
      <4>1. Cardinality(s) <= n BY <3>1, FS_EmptySet
      <4> QED BY <2>1, <3>1, <4>1
    <3>2. CASE s # {}
      <4> DEFINE u == s \ {Pick(s)}
      <4>1. u \in SUBSET S /\ Cardinality(u) = Cardinality(s) - 1 BY <1>0, <3>2, PickIn, FS_RemoveElement
      <4>2. Cardinality(u) <= n BY <1>0, <2>2, <4>1
      <4>3. h[u] = g[u] BY <4>1, <4>2
      <4>4. h[s] = step(g, s) BY <2>1
      <4> QED BY <3>2, <4>3, <4>4
    <3> QED BY <3>1, <3>2
  <2>3. h = [s \in SUBSET S |-> h[s]] OBVIOUS
  <2>4. upTo(h, n + 1) BY <2>2
  <2>5. n + 1 \in Nat OBVIOUS
  <2> HIDE DEF h, upTo
  <2> QED BY <2>3, <2>4, <2>5
<1>3. Cardinality(S) \in T
  <2> HIDE DEF T
  <2> QED BY <1>0, <1>1, <1>2, NatSet
<1>4. PICK g : g = [s \in SUBSET S |-> g[s]] /\ upTo(g, Cardinality(S)) BY <1>3
<1>5. \A s \in SUBSET S : g[s] = step(g, s) BY <1>4, FS_Subset
<1>6. g = [s \in SUBSET S |-> step(g, s)]
  <2> HIDE DEF step
  <2> QED BY <1>4, <1>5
<1>7. Recursion(f, S, g) BY <1>6 DEF Recursion
<1> QED BY <1>7, Zenon DEF Iter

\* The same subset has the same sum within any set.
LEMMA IterAgrees ==
  ASSUME NEW S, IsFiniteSet(S), NEW f, NEW R \in SUBSET S
  PROVE  Iter(f, S)[R] = Iter(f, R)[R]
<1> DEFINE a == Iter(f, S)
           b == Iter(f, R)
           F == {T \in SUBSET R : a[T] = b[T]}
<1>1. IsFiniteSet(R) BY FS_Subset
<1>2. Recursion(f, S, a) /\ Recursion(f, R, b) BY <1>1, IterExists
<1> HIDE DEF a, b
<1>3. ASSUME NEW T \in SUBSET R, \A U \in SUBSET T : U # T => U \in F PROVE T \in F
  <2>1. T = {} \/ a[T \ {Pick(T)}] = b[T \ {Pick(T)}] BY <1>3, PickIn
  <2>2. a[T] = IF T = {} THEN 0 ELSE f[Pick(T)] + a[T \ {Pick(T)}] BY <1>2 DEF Recursion
  <2>3. b[T] = IF T = {} THEN 0 ELSE f[Pick(T)] + b[T \ {Pick(T)}] BY <1>2 DEF Recursion
  <2> QED BY <2>1, <2>2, <2>3
<1> HIDE DEF F
<1>4. R \in F BY <1>1, <1>3, FiniteSetInduction
<1> QED BY <1>4 DEF F, a, b

-------------------------------------------------------------------------------
(* Sums *)

LEMMA TotalEmpty ==
  ASSUME NEW f
  PROVE  Total(f, {}) = 0
<1>1. Recursion(f, {}, Iter(f, {})) BY FS_EmptySet, IterExists
<1>2. Iter(f, {})[{}] = 0 BY <1>1 DEF Recursion
<1> QED BY <1>2, TotalIsIter

LEMMA TotalPick ==
  ASSUME NEW S, IsFiniteSet(S), NEW f, S # {}
  PROVE  Total(f, S) = f[Pick(S)] + Total(f, S \ {Pick(S)})
<1>1. Iter(f, S)[S] = f[Pick(S)] + Iter(f, S)[S \ {Pick(S)}] 
  <2>1. Recursion(f, S, Iter(f, S)) BY IterExists
  <2> QED BY <2>1 DEF Recursion
<1>2. Iter(f, S)[S \ {Pick(S)}] = Iter(f, S \ {Pick(S)})[S \ {Pick(S)}] BY IterAgrees
<1> QED BY <1>1, <1>2, TotalIsIter

LEMMA TotalType ==
  ASSUME NEW S, IsFiniteSet(S), NEW f, \A x \in S : f[x] \in Int
  PROVE  Total(f, S) \in Int
<1> DEFINE F == {T \in SUBSET S : Total(f, T) \in Int}
<1>1. ASSUME NEW T \in SUBSET S, \A U \in SUBSET T : U # T => U \in F PROVE T \in F
  <2>1. CASE T = {} BY <2>1, TotalEmpty
  <2>2. CASE T # {}
    <3>1. IsFiniteSet(T) BY FS_Subset
    <3>2. Pick(T) \in T /\ T \ {Pick(T)} \in F BY <1>1, <2>2, PickIn
    <3>3. Total(f, T) = f[Pick(T)] + Total(f, T \ {Pick(T)}) BY <2>2, <3>1, TotalPick
    <3> QED BY <3>2, <3>3
  <2> QED BY <2>1, <2>2
<1> HIDE DEF F
<1>2. S \in F BY <1>1, FiniteSetInduction
<1> QED BY <1>2 DEF F

\* Any member may be taken out first.
LEMMA TotalRemove ==
  ASSUME NEW S, IsFiniteSet(S), NEW f, \A x \in S : f[x] \in Int, NEW x \in S
  PROVE  Total(f, S) = f[x] + Total(f, S \ {x})
<1> DEFINE F == {T \in SUBSET S : \A y \in T : Total(f, T) = f[y] + Total(f, T \ {y})}
<1>1. ASSUME NEW T \in SUBSET S, \A U \in SUBSET T : U # T => U \in F PROVE T \in F
  <2> SUFFICES ASSUME NEW y \in T PROVE Total(f, T) = f[y] + Total(f, T \ {y})
    OBVIOUS
  <2> DEFINE p == Pick(T)
  <2>1. \A U \in SUBSET T : IsFiniteSet(U) /\ Total(f, U) \in Int
    <3> TAKE U \in SUBSET T
    <3>1. IsFiniteSet(U) BY FS_Subset
    <3> QED BY <3>1, TotalType
  <2>2. p \in T /\ Total(f, T) = f[p] + Total(f, T \ {p}) BY <2>1, PickIn, TotalPick
  <2> HIDE DEF p
  <2>3. CASE y = p BY <2>2, <2>3
  <2>4. CASE y # p
    <3>1. T \ {p} \in F /\ T \ {y} \in F BY <1>1, <2>2
    <3>2. Total(f, T \ {p}) = f[y] + Total(f, (T \ {p}) \ {y}) BY <2>4, <3>1
    <3>3. Total(f, T \ {y}) = f[p] + Total(f, (T \ {y}) \ {p}) BY <2>2, <2>4, <3>1
    <3>4. Total(f, (T \ {p}) \ {y}) = Total(f, (T \ {y}) \ {p})
      <4>1. (T \ {p}) \ {y} = (T \ {y}) \ {p} OBVIOUS
      <4> QED BY <4>1
    <3>5. f[p] \in Int /\ f[y] \in Int /\ Total(f, (T \ {y}) \ {p}) \in Int BY <2>1, <2>2
    <3> HIDE DEF F
    <3> QED BY <2>2, <3>2, <3>3, <3>4, <3>5
  <2> QED BY <2>3, <2>4
<1> HIDE DEF F
<1>2. S \in F BY <1>1, FiniteSetInduction
<1> QED BY <1>2 DEF F

LEMMA TotalAdd ==
  ASSUME NEW S, IsFiniteSet(S), NEW f, NEW x, x \notin S, \A y \in S \cup {x} : f[y] \in Int
  PROVE  Total(f, S \cup {x}) = f[x] + Total(f, S)
<1>1. IsFiniteSet(S \cup {x}) BY FS_AddElement
<1>2. (S \cup {x}) \ {x} = S OBVIOUS
<1>3. Total(f, S \cup {x}) = f[x] + Total(f, (S \cup {x}) \ {x}) BY <1>1, TotalRemove
<1> QED BY <1>2, <1>3

\* Only the values on S count.
LEMMA TotalSame ==
  ASSUME NEW S, IsFiniteSet(S), NEW f, NEW g, \A x \in S : f[x] = g[x]
  PROVE  Total(f, S) = Total(g, S)
<1> DEFINE F == {T \in SUBSET S : Total(f, T) = Total(g, T)}
<1>1. ASSUME NEW T \in SUBSET S, \A U \in SUBSET T : U # T => U \in F PROVE T \in F
  <2>1. CASE T = {} BY <2>1, TotalEmpty
  <2>2. CASE T # {}
    <3>1. IsFiniteSet(T) BY FS_Subset
    <3>2. Pick(T) \in T /\ T \ {Pick(T)} \in F BY <1>1, <2>2, PickIn
    <3>3. Total(f, T) = f[Pick(T)] + Total(f, T \ {Pick(T)}) BY <2>2, <3>1, TotalPick
    <3>4. Total(g, T) = g[Pick(T)] + Total(g, T \ {Pick(T)}) BY <2>2, <3>1, TotalPick
    <3> QED BY <3>2, <3>3, <3>4
  <2> QED BY <2>1, <2>2
<1> HIDE DEF F
<1>2. S \in F BY <1>1, FiniteSetInduction
<1> QED BY <1>2 DEF F

\* One value changes.
LEMMA TotalChange ==
  ASSUME NEW S, IsFiniteSet(S), NEW f, NEW g, NEW x \in S, \A y \in S : f[y] \in Int,
         g[x] \in Int, \A y \in S \ {x} : g[y] = f[y]
  PROVE  Total(g, S) = Total(f, S) - f[x] + g[x]
<1>1. \A y \in S : g[y] \in Int OBVIOUS
<1>2. IsFiniteSet(S \ {x}) BY FS_RemoveElement
<1>3. Total(f, S \ {x}) = Total(g, S \ {x}) BY <1>2, TotalSame
<1>4. Total(f, S) = f[x] + Total(f, S \ {x}) /\ Total(g, S) = g[x] + Total(g, S \ {x})
  BY <1>1, TotalRemove
<1>5. Total(f, S \ {x}) \in Int BY <1>2, TotalType
<1> QED BY <1>3, <1>4, <1>5

\* The sum of a sum.
LEMMA TotalPlus ==
  ASSUME NEW S, IsFiniteSet(S), NEW f, NEW g, NEW h,
         \A x \in S : f[x] \in Int /\ g[x] \in Int /\ h[x] = f[x] + g[x]
  PROVE  Total(h, S) = Total(f, S) + Total(g, S)
<1> DEFINE F == {T \in SUBSET S : Total(h, T) = Total(f, T) + Total(g, T)}
<1>1. ASSUME NEW T \in SUBSET S, \A U \in SUBSET T : U # T => U \in F PROVE T \in F
  <2>1. CASE T = {} BY <2>1, TotalEmpty
  <2>2. CASE T # {}
    <3> DEFINE p == Pick(T)
               U == T \ {p}
    <3>1. IsFiniteSet(T) /\ IsFiniteSet(U) BY FS_Subset
    <3>2. p \in T /\ U \in F BY <1>1, <2>2, PickIn
    <3>3. Total(f, T) = f[p] + Total(f, U) BY <2>2, <3>1, TotalPick
    <3>4. Total(g, T) = g[p] + Total(g, U) BY <2>2, <3>1, TotalPick
    <3>5. Total(h, T) = h[p] + Total(h, U) BY <2>2, <3>1, TotalPick
    <3>6. Total(f, U) \in Int /\ Total(g, U) \in Int BY <3>1, TotalType
    <3> HIDE DEF p, U
    <3>7. h[p] = f[p] + g[p] /\ f[p] \in Int /\ g[p] \in Int BY <3>2
    <3>8. Total(h, U) = Total(f, U) + Total(g, U) BY <3>2
    <3> QED BY <3>3, <3>4, <3>5, <3>6, <3>7, <3>8
  <2> QED BY <2>1, <2>2
<1> HIDE DEF F
<1>2. S \in F BY <1>1, FiniteSetInduction
<1> QED BY <1>2 DEF F

LEMMA TotalAtMost ==
  ASSUME NEW S, IsFiniteSet(S), NEW f, NEW g,
         \A x \in S : f[x] \in Int /\ g[x] \in Int /\ f[x] <= g[x]
  PROVE  Total(f, S) <= Total(g, S)
<1> DEFINE F == {T \in SUBSET S : Total(f, T) <= Total(g, T)}
<1>1. ASSUME NEW T \in SUBSET S, \A U \in SUBSET T : U # T => U \in F PROVE T \in F
  <2>1. CASE T = {} BY <2>1, TotalEmpty
  <2>2. CASE T # {}
    <3> DEFINE p == Pick(T)
               U == T \ {p}
    <3>1. IsFiniteSet(T) /\ IsFiniteSet(U) BY FS_Subset
    <3>2. p \in T /\ U \in F BY <1>1, <2>2, PickIn
    <3>3. Total(f, T) = f[p] + Total(f, U) BY <2>2, <3>1, TotalPick
    <3>4. Total(g, T) = g[p] + Total(g, U) BY <2>2, <3>1, TotalPick
    <3>5. Total(f, U) \in Int /\ Total(g, U) \in Int BY <3>1, TotalType
    <3> HIDE DEF p, U
    <3>6. f[p] <= g[p] /\ f[p] \in Int /\ g[p] \in Int BY <3>2
    <3>7. Total(f, U) <= Total(g, U) BY <3>2
    <3> QED BY <3>3, <3>4, <3>5, <3>6, <3>7
  <2> QED BY <2>1, <2>2
<1> HIDE DEF F
<1>2. S \in F BY <1>1, FiniteSetInduction
<1> QED BY <1>2 DEF F

LEMMA TotalZero ==
  ASSUME NEW S, IsFiniteSet(S), NEW f, \A x \in S : f[x] = 0
  PROVE  Total(f, S) = 0
<1> DEFINE F == {T \in SUBSET S : Total(f, T) = 0}
<1>1. ASSUME NEW T \in SUBSET S, \A U \in SUBSET T : U # T => U \in F PROVE T \in F
  <2>1. CASE T = {} BY <2>1, TotalEmpty
  <2>2. CASE T # {}
    <3>1. IsFiniteSet(T) BY FS_Subset
    <3>2. Pick(T) \in T /\ T \ {Pick(T)} \in F BY <1>1, <2>2, PickIn
    <3>3. Total(f, T) = f[Pick(T)] + Total(f, T \ {Pick(T)}) BY <2>2, <3>1, TotalPick
    <3> QED BY <3>2, <3>3
  <2> QED BY <2>1, <2>2
<1> HIDE DEF F
<1>2. S \in F BY <1>1, FiniteSetInduction
<1> QED BY <1>2 DEF F

LEMMA TotalAlike ==
  ASSUME NEW S, IsFiniteSet(S), NEW f, NEW c \in Nat, \A x \in S : f[x] = c
  PROVE  Total(f, S) = Cardinality(S) * c
<1> DEFINE F == {T \in SUBSET S : Total(f, T) = Cardinality(T) * c}
<1>1. ASSUME NEW T \in SUBSET S, \A U \in SUBSET T : U # T => U \in F PROVE T \in F
  <2>1. CASE T = {} BY <2>1, TotalEmpty, FS_EmptySet
  <2>2. CASE T # {}
    <3> DEFINE p == Pick(T)
               U == T \ {p}
    <3>1. IsFiniteSet(T) /\ IsFiniteSet(U) BY FS_Subset
    <3>2. p \in T /\ U \in F BY <1>1, <2>2, PickIn
    <3>3. Total(f, T) = c + Total(f, U) BY <2>2, <3>1, <3>2, TotalPick
    <3>4. Cardinality(U) = Cardinality(T) - 1 BY <3>1, <3>2, FS_RemoveElement
    <3>5. Cardinality(T) \in Nat BY <3>1, FS_CardinalityType
    <3>6. Total(f, U) = Cardinality(U) * c BY <3>2
    <3> DEFINE n == Cardinality(T)
    <3>7. c + (n - 1) * c = n * c
      <4> HIDE DEF n
      <4>1. n \in Nat BY <3>5 DEF n
      <4> QED BY <4>1
    <3> QED BY <3>3, <3>4, <3>6, <3>7
  <2> QED BY <2>1, <2>2
<1> HIDE DEF F
<1>2. S \in F BY <1>1, FiniteSetInduction
<1> QED BY <1>2 DEF F

LEMMA TotalOnes ==
  ASSUME NEW n \in Nat
  PROVE  Total([i \in 1 .. n |-> 1], 1 .. n) = n
<1> DEFINE h == [i \in 1 .. n |-> 1]
<1>1. IsFiniteSet(1 .. n) /\ Cardinality(1 .. n) = n
  <2>1. 1 \in Int /\ n \in Int /\ (1 > n => n = 0) /\ n - 1 + 1 = n OBVIOUS
  <2> QED BY <2>1, FS_Interval
<1>2. \A i \in 1 .. n : h[i] = 1 OBVIOUS
<1> HIDE DEF h
<1>3. Total(h, 1 .. n) = Cardinality(1 .. n) * 1 BY <1>1, <1>2, TotalAlike
<1> QED BY <1>1, <1>3 DEF h

\* The distinct members s[1], ..., s[n] of S, the values h of f at them, and f where
\* it is not listed replaced by 0.
Listed(S, f, n, s, h, d) ==
  /\ n \in Nat /\ IsFiniteSet(S)
  /\ \A x \in S : f[x] \in Int
  /\ \A i \in 1 .. n : s[i] \in S /\ h[i] = f[s[i]]
  /\ \A i, j \in 1 .. n : s[i] = s[j] => i = j
  /\ \A x \in S : d[x] = IF \E i \in 1 .. n : s[i] = x THEN f[x] ELSE 0

\* A sum over an enumeration is a sum over the set it enumerates.
LEMMA TotalListed ==
  ASSUME NEW S, NEW f, NEW n, NEW s, NEW h, NEW d, Listed(S, f, n, s, h, d)
  PROVE  Total(h, 1 .. n) = Total(d, S)
<1> SUFFICES ASSUME n \in Nat, IsFiniteSet(S), \A x \in S : f[x] \in Int,
                    \A i \in 1 .. n : s[i] \in S /\ h[i] = f[s[i]],
                    \A i, j \in 1 .. n : s[i] = s[j] => i = j,
                    \A x \in S : d[x] = IF \E i \in 1 .. n : s[i] = x THEN f[x] ELSE 0
             PROVE  Total(h, 1 .. n) = Total(d, S)
  BY DEF Listed
<1> DEFINE a == [i \in 1 .. n |-> f[s[i]]]
           g(m) == [x \in S |-> IF \E i \in 1 .. m : s[i] = x THEN f[x] ELSE 0]
           T == {m \in Nat : m <= n => Total(a, 1 .. m) = Total(g(m), S)}
<1>1. 0 \in T
  <2>1. 1 .. 0 = {} OBVIOUS
  <2>2. \A x \in S : g(0)[x] = 0 BY <2>1
  <2> HIDE DEF g
  <2>3. Total(g(0), S) = 0 BY <2>2, TotalZero
  <2>4. Total(a, 1 .. 0) = 0 BY <2>1, TotalEmpty
  <2> QED BY <2>3, <2>4
<1>2. ASSUME NEW m \in Nat, m \in T PROVE m + 1 \in T
  <2> SUFFICES ASSUME m + 1 <= n PROVE Total(a, 1 .. m + 1) = Total(g(m + 1), S)
    OBVIOUS
  <2> DEFINE x == s[m + 1]
  <2>1. m + 1 \in 1 .. n /\ x \in S /\ m + 1 \notin 1 .. m /\ 1 .. m + 1 = (1 .. m) \cup {m + 1}
    <3>1. m + 1 \in 1 .. n OBVIOUS
    <3>2. m + 1 \notin 1 .. m /\ 1 .. m + 1 = (1 .. m) \cup {m + 1} OBVIOUS
    <3> QED BY <3>1, <3>2
  <2>2. \A i \in 1 .. m : i \in 1 .. n /\ i # m + 1 OBVIOUS
  <2>3. a[m + 1] = f[x] /\ f[x] \in Int BY <2>1
  <2>4. \A i \in (1 .. m) \cup {m + 1} : a[i] \in Int BY <2>1, <2>2
  <2>5. \A i \in 1 .. m : s[i] # x BY <2>1, <2>2
  <2>6. g(m)[x] = 0 /\ g(m + 1)[x] = f[x]
    <3>1. m + 1 \in 1 .. m + 1 OBVIOUS
    <3> QED BY <2>1, <2>5, <3>1
  <2>7. \A y \in S : g(m)[y] \in Int OBVIOUS
  <2>8. \A y \in S \ {x} : g(m + 1)[y] = g(m)[y]
    <3>1. \A y \in S \ {x} : (\E i \in 1 .. m + 1 : s[i] = y) <=> (\E i \in 1 .. m : s[i] = y) BY <2>1
    <3> QED BY <3>1
  <2>9. IsFiniteSet(1 .. m) BY FS_Interval
  <2> HIDE DEF a
  <2>10. Total(a, (1 .. m) \cup {m + 1}) = a[m + 1] + Total(a, 1 .. m)
    <3> HIDE DEF g, x, T
    <3> QED BY <2>1, <2>4, <2>9, TotalAdd
  <2> HIDE DEF g, x
  <2>11. Total(g(m + 1), S) = Total(g(m), S) - g(m)[x] + g(m + 1)[x]
    BY <2>1, <2>3, <2>6, <2>7, <2>8, TotalChange
  <2>12. m <= n /\ Total(a, 1 .. m) = Total(g(m), S) BY <1>2
  <2>13. Total(g(m), S) \in Int BY <2>7, TotalType
  <2>14. Total(a, 1 .. m + 1) = Total(a, (1 .. m) \cup {m + 1}) BY <2>1, Zenon
  <2>15. Total(a, 1 .. m + 1) = f[x] + Total(a, 1 .. m) BY <2>3, <2>10, <2>14
  <2> QED BY <2>3, <2>6, <2>11, <2>12, <2>13, <2>15
<1>3. n \in T
  <2> HIDE DEF T
  <2> QED BY <1>1, <1>2, NatSet
<1>4. Total(a, 1 .. n) = Total(g(n), S) BY <1>3
<1>5. (\A i \in 1 .. n : h[i] = a[i]) /\ (\A x \in S : d[x] = g(n)[x]) /\ IsFiniteSet(1 .. n)
  BY FS_Interval
<1> HIDE DEF a, g, T
<1>6. Total(h, 1 .. n) = Total(a, 1 .. n) BY <1>5, TotalSame
<1>7. Total(d, S) = Total(g(n), S) BY <1>5, TotalSame
<1> QED BY <1>4, <1>6, <1>7
===============================================================================
