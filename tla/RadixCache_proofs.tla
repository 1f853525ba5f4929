-------------------------- MODULE RadixCache_proofs --------------------------
(***************************************************************************)
(* Proofs about the radix cache: for every set of tokens, slots and        *)
(* requests, the rows of the requests are the tree's (RowsFit), the lock   *)
(* counters count (LocksAreCounted), no slot is lost or doubled            *)
(* (NoSlotIsLost), what the scheduler was promised is there when it        *)
(* allocates (PromisesAreKept), and all of it is a cache of prefixes       *)
(* (TreeIsACache).                                                         *)
(*                                                                         *)
(* The tree is a set of words closed under prefixes (Shape) in which each  *)
(* word has one owner, the nearest node below it; what is locked is the    *)
(* set of words on the paths of the requests (HeldBy).  Both survive a     *)
(* split, which is why lock_ref may be counted by words.                   *)
(***************************************************************************)
EXTENDS RadixCache, Sums_proofs

-------------------------------------------------------------------------------
(* Words and their prefixes *)

Word == Seq(Token)

LEMMA TakeType ==
  ASSUME NEW s \in Word, NEW n \in 0 .. Len(s)
  PROVE  Take(s, n) \in Word /\ Len(Take(s, n)) = n /\ \A i \in 1 .. n : Take(s, n)[i] = s[i]
<1>1. n \in Nat /\ Len(s) \in Nat /\ n <= Len(s) BY DEF Word
<1>2. Take(s, n) \in Seq(Token) BY <1>1 DEF Word, Take
<1>3. Len(SubSeq(s, 1, n)) = n BY <1>1 DEF Word
<1>4. \A i \in 1 .. n : SubSeq(s, 1, n)[i] = s[i] BY <1>1 DEF Word
<1> QED BY <1>2, <1>3, <1>4 DEF Word, Take

LEMMA WordEqual ==
  ASSUME NEW s \in Word, NEW t \in Word, Len(s) = Len(t), \A i \in 1 .. Len(s) : s[i] = t[i]
  PROVE  s = t
BY DEF Word

LEMMA PrefixIs ==
  ASSUME NEW p \in Word, NEW s \in Word
  PROVE  IsPrefix(p, s) <=> Len(p) <= Len(s) /\ \A i \in 1 .. Len(p) : p[i] = s[i]
<1>1. Len(p) \in Nat /\ Len(s) \in Nat BY DEF Word
<1>2. SubSeq(p, 1, Len(p)) = p
  <2>1. Len(p) \in 0 .. Len(p) BY <1>1
  <2>2. Take(p, Len(p)) \in Word /\ Len(Take(p, Len(p))) = Len(p)
        /\ \A i \in 1 .. Len(p) : Take(p, Len(p))[i] = p[i]
    BY <2>1, TakeType
  <2>3. Take(p, Len(p)) = p BY <2>2, WordEqual
  <2> QED BY <2>3 DEF Take
<1>3. CASE Len(p) <= Len(s)
  <2>1. Len(p) \in 0 .. Len(s) BY <1>1, <1>3
  <2>2. Take(s, Len(p)) \in Word /\ Len(Take(s, Len(p))) = Len(p)
        /\ \A i \in 1 .. Len(p) : Take(s, Len(p))[i] = s[i]
    BY <2>1, TakeType
  <2>3. p = Take(s, Len(p)) <=> \A i \in 1 .. Len(p) : p[i] = s[i] BY <2>2, WordEqual
  <2> QED BY <1>2, <1>3, <2>3 DEF IsPrefix, Take
<1>4. CASE ~(Len(p) <= Len(s)) BY <1>4 DEF IsPrefix
<1> QED BY <1>3, <1>4

LEMMA PrefixRefl == ASSUME NEW s \in Word PROVE IsPrefix(s, s)
<1>1. Len(s) \in Nat BY DEF Word
<1> QED BY <1>1, PrefixIs

LEMMA PrefixTrans ==
  ASSUME NEW p \in Word, NEW q \in Word, NEW s \in Word, IsPrefix(p, q), IsPrefix(q, s)
  PROVE  IsPrefix(p, s)
<1>1. Len(p) \in Nat /\ Len(q) \in Nat /\ Len(s) \in Nat BY DEF Word
<1>2. Len(p) <= Len(q) /\ \A i \in 1 .. Len(p) : p[i] = q[i] BY PrefixIs
<1>3. Len(q) <= Len(s) /\ \A i \in 1 .. Len(q) : q[i] = s[i] BY PrefixIs
<1>4. Len(p) <= Len(s) /\ \A i \in 1 .. Len(p) : p[i] = s[i] BY <1>1, <1>2, <1>3
<1> QED BY <1>4, PrefixIs

LEMMA PrefixAntisym ==
  ASSUME NEW p \in Word, NEW q \in Word, IsPrefix(p, q), Len(q) <= Len(p)
  PROVE  p = q
<1>1. Len(p) \in Nat /\ Len(q) \in Nat BY DEF Word
<1>2. Len(p) <= Len(q) /\ \A i \in 1 .. Len(p) : p[i] = q[i] BY PrefixIs
<1> QED BY <1>1, <1>2, WordEqual

LEMMA PrefixLen ==
  ASSUME NEW p \in Word, NEW q \in Word, IsPrefix(p, q)
  PROVE  Len(p) \in Nat /\ Len(q) \in Nat /\ Len(p) <= Len(q)
BY PrefixIs DEF Word

\* Two prefixes of one word.
LEMMA PrefixComparable ==
  ASSUME NEW p \in Word, NEW q \in Word, NEW s \in Word, IsPrefix(p, s), IsPrefix(q, s), Len(p) <= Len(q)
  PROVE  IsPrefix(p, q)
<1>1. Len(p) \in Nat /\ Len(q) \in Nat BY DEF Word
<1>2. (\A i \in 1 .. Len(p) : p[i] = s[i]) /\ (\A i \in 1 .. Len(q) : q[i] = s[i]) BY PrefixIs
<1>3. \A i \in 1 .. Len(p) : p[i] = q[i] BY <1>1, <1>2
<1> QED BY <1>3, PrefixIs

LEMMA TakeIsPrefix ==
  ASSUME NEW s \in Word, NEW n \in 0 .. Len(s)
  PROVE  IsPrefix(Take(s, n), s)
<1>1. Take(s, n) \in Word /\ Len(Take(s, n)) = n /\ \A i \in 1 .. n : Take(s, n)[i] = s[i] BY TakeType
<1> QED BY <1>1, PrefixIs

LEMMA PrefixIsTake ==
  ASSUME NEW p \in Word, NEW s \in Word, IsPrefix(p, s)
  PROVE  Len(p) \in 0 .. Len(s) /\ p = Take(s, Len(p))
<1>1. Len(p) \in Nat /\ Len(s) \in Nat BY DEF Word
<1>2. Len(p) <= Len(s) /\ \A i \in 1 .. Len(p) : p[i] = s[i] BY PrefixIs
<1>3. Len(p) \in 0 .. Len(s) BY <1>1, <1>2
<1>4. Take(s, Len(p)) \in Word /\ Len(Take(s, Len(p))) = Len(p)
      /\ \A i \in 1 .. Len(p) : Take(s, Len(p))[i] = s[i]
  BY <1>3, TakeType
<1> QED BY <1>2, <1>3, <1>4, WordEqual

LEMMA TakeTake ==
  ASSUME NEW s \in Word, NEW n \in 0 .. Len(s), NEW m \in 0 .. n
  PROVE  Take(Take(s, n), m) = Take(s, m)
<1>1. Len(s) \in Nat /\ m \in 0 .. Len(s) BY DEF Word
<1>2. Take(s, n) \in Word /\ Len(Take(s, n)) = n /\ \A i \in 1 .. n : Take(s, n)[i] = s[i] BY TakeType
<1>3. Take(s, m) \in Word /\ Len(Take(s, m)) = m /\ \A i \in 1 .. m : Take(s, m)[i] = s[i] BY <1>1, TakeType
<1>4. /\ Take(Take(s, n), m) \in Word /\ Len(Take(Take(s, n), m)) = m
      /\ \A i \in 1 .. m : Take(Take(s, n), m)[i] = Take(s, n)[i]
  BY <1>2, TakeType
<1>5. \A i \in 1 .. m : Take(Take(s, n), m)[i] = Take(s, m)[i] BY <1>1, <1>2, <1>3, <1>4
<1> QED BY <1>3, <1>4, <1>5, WordEqual

LEMMA TakeAll == ASSUME NEW s \in Word PROVE Take(s, Len(s)) = s /\ Len(s) \in 0 .. Len(s)
BY PrefixRefl, PrefixIsTake

LEMMA EmptyWord == <<>> \in Word /\ (\A s \in Word : IsPrefix(<<>>, s)) /\ (\A s \in Word : s = <<>> <=> Len(s) = 0)
<1>1. <<>> \in Word /\ Len(<<>>) = 0 BY DEF Word
<1>2. ASSUME NEW s \in Word PROVE IsPrefix(<<>>, s)
  <2>1. Len(s) \in Nat BY DEF Word
  <2> QED BY <1>1, <2>1, PrefixIs
<1> QED BY <1>1, <1>2, WordEqual

LEMMA PathsAre ==
  ASSUME NEW s \in Word
  PROVE  /\ Paths(s) = {p \in Word : p # <<>> /\ IsPrefix(p, s)}
         /\ \A n \in 1 .. Len(s) : Take(s, n) \in Paths(s)
<1>1. Len(s) \in Nat BY DEF Word
<1>2. ASSUME NEW n \in 1 .. Len(s)
      PROVE  Take(s, n) \in Word /\ Take(s, n) # <<>> /\ IsPrefix(Take(s, n), s)
  <2>1. n \in 0 .. Len(s) BY <1>1
  <2> QED BY <2>1, TakeType, TakeIsPrefix, EmptyWord
<1>3. ASSUME NEW p \in Word, p # <<>>, IsPrefix(p, s) PROVE p \in Paths(s)
  <2>1. Len(p) \in 0 .. Len(s) /\ p = Take(s, Len(p)) BY <1>3, PrefixIsTake
  <2>2. Len(p) # 0 BY <1>3, EmptyWord
  <2>3. Len(p) \in 1 .. Len(s) BY <1>1, <2>1, <2>2
  <2> QED BY <2>1, <2>3 DEF Paths
<1> QED BY <1>2, <1>3 DEF Paths

LEMMA PathsOfPrefix ==
  ASSUME NEW p \in Word, NEW s \in Word, IsPrefix(p, s)
  PROVE  Paths(p) \subseteq Paths(s)
BY PathsAre, PrefixTrans

\* The image of an interval under an injection.
LEMMA ImageOfInterval ==
  ASSUME NEW a \in Int, NEW b \in Int, NEW f, \A i, j \in a .. b : f[i] = f[j] => i = j,
         NEW T, \A y : y \in T <=> \E i \in a .. b : y = f[i]
  PROVE  IsFiniteSet(T) /\ Cardinality(T) = IF a > b THEN 0 ELSE b - a + 1
<1> DEFINE g == [i \in a .. b |-> f[i]]
<1>1. g \in Bijection(a .. b, T) BY DEF Bijection, Injection, Surjection, IsInjective
<1>2. ExistsBijection(a .. b, T) BY <1>1 DEF ExistsBijection
<1>3. IsFiniteSet(a .. b) /\ Cardinality(a .. b) = IF a > b THEN 0 ELSE b - a + 1 BY FS_Interval
<1> QED BY <1>2, <1>3, FS_Bijection

LEMMA PathsFinite ==
  ASSUME NEW s \in Word
  PROVE  IsFiniteSet(Paths(s)) /\ Cardinality(Paths(s)) = Len(s) /\ Len(s) \in Nat
<1>1. Len(s) \in Nat BY DEF Word
<1> DEFINE f == [n \in 1 .. Len(s) |-> Take(s, n)]
<1>2. \A n \in 1 .. Len(s) : f[n] = Take(s, n) /\ Len(f[n]) = n
  <2> TAKE n \in 1 .. Len(s)
  <2>1. n \in 0 .. Len(s) BY <1>1
  <2> QED BY <2>1, TakeType
<1>3. \A y : y \in Paths(s) <=> \E n \in 1 .. Len(s) : y = f[n] BY <1>2 DEF Paths
<1> HIDE DEF f
<1>4. \A i, j \in 1 .. Len(s) : f[i] = f[j] => i = j BY <1>2
<1>5. 1 \in Int /\ Len(s) \in Int BY <1>1
<1>6. IsFiniteSet(Paths(s)) /\ Cardinality(Paths(s)) = IF 1 > Len(s) THEN 0 ELSE Len(s) - 1 + 1
  BY <1>3, <1>4, <1>5, ImageOfInterval
<1> QED BY <1>1, <1>6
-------------------------------------------------------------------------------
(* The shape of the tree: the cached words are closed under prefixes, and the
   nodes above which a cached word ends have a first one, its owner. *)

IsOwner(t, n, p) ==
  n \in Nodes(t) /\ IsPrefix(p, n) /\ \A m \in Nodes(t) : IsPrefix(p, m) => IsPrefix(n, m)

Shape(t) ==
  /\ t = [ref |-> t.ref, slot |-> t.slot, evictable |-> t.evictable, protected |-> t.protected]
  /\ t.ref \in [Nodes(t) -> Nat] /\ t.slot \in [DOMAIN t.slot -> Slot]
  /\ IsFiniteSet(DOMAIN t.slot)
  /\ DOMAIN t.slot \subseteq Word \ {<<>>}
  /\ Nodes(t) \subseteq DOMAIN t.slot
  /\ \A p \in DOMAIN t.slot : Paths(p) \subseteq DOMAIN t.slot
  /\ \A p \in DOMAIN t.slot : \E n \in Nodes(t) : IsOwner(t, n, p)

LEMMA EmptyShape == Shape(EmptyTree)
BY FS_EmptySet DEF Shape, EmptyTree, Nodes

LEMMA OwnerUnique ==
  ASSUME NEW t, Shape(t), NEW p, NEW n, NEW m, IsOwner(t, n, p), IsOwner(t, m, p)
  PROVE  n = m
<1>1. n \in Word /\ m \in Word /\ IsPrefix(n, m) /\ IsPrefix(m, n) BY DEF IsOwner, Shape
<1>2. Len(m) <= Len(n) BY <1>1, PrefixLen
<1> QED BY <1>1, <1>2, PrefixAntisym

LEMMA ClosedUnderPrefix ==
  ASSUME NEW t, Shape(t), NEW q \in DOMAIN t.slot, NEW p \in Word, p # <<>>, IsPrefix(p, q)
  PROVE  p \in DOMAIN t.slot
<1>1. q \in Word BY DEF Shape
<1>2. p \in Paths(q) BY <1>1, PathsAre
<1> QED BY <1>2 DEF Shape

LEMMA OwnIs ==
  ASSUME NEW t, Shape(t), NEW m \in Nodes(t)
  PROVE  Own(t, m) = {p \in DOMAIN t.slot : IsOwner(t, m, p)}
<1>1. m \in DOMAIN t.slot /\ m \in Word BY DEF Shape
<1>2. \A n \in Nodes(t) : n \in Word BY DEF Shape
<1>3. ASSUME NEW p \in DOMAIN t.slot, IsOwner(t, m, p) PROVE p \in Own(t, m)
  <2>1. p \in Word /\ p # <<>> /\ IsPrefix(p, m) BY <1>3 DEF IsOwner, Shape
  <2>2. p \in Paths(m) BY <1>1, <2>1, PathsAre
  <2>3. ASSUME NEW n \in Above(t, m) \ {m} PROVE p \notin Paths(n)
    <3>1. n \in Nodes(t) /\ IsPrefix(n, m) /\ n # m BY DEF Above
    <3>2. n \in Word BY <1>2, <3>1
    <3>3. ASSUME p \in Paths(n) PROVE FALSE
      <4>1. IsPrefix(p, n) BY <3>2, <3>3, PathsAre
      <4>2. IsPrefix(m, n) BY <1>3, <3>1, <4>1 DEF IsOwner
      <4>3. Len(m) <= Len(n) BY <1>1, <3>2, <4>2, PrefixLen
      <4> QED BY <1>1, <3>1, <3>2, <4>3, PrefixAntisym
    <3> QED BY <3>3
  <2> QED BY <2>2, <2>3 DEF Own
<1>4. ASSUME NEW p \in Own(t, m) PROVE p \in DOMAIN t.slot /\ IsOwner(t, m, p)
  <2>1. p \in Paths(m) /\ \A n \in Above(t, m) \ {m} : p \notin Paths(n) BY DEF Own
  <2>2. p \in Word /\ p # <<>> /\ IsPrefix(p, m) BY <1>1, <2>1, PathsAre
  <2>3. p \in DOMAIN t.slot BY <1>1, <2>1 DEF Shape
  <2>4. PICK n \in Nodes(t) : IsOwner(t, n, p) BY <2>3 DEF Shape
  <2>5. IsPrefix(n, m) /\ IsPrefix(p, n) BY <2>2, <2>4 DEF IsOwner
  <2>6. p \in Paths(n) BY <1>2, <2>2, <2>5, PathsAre
  <2>7. n = m BY <2>1, <2>5, <2>6 DEF Above
  <2> QED BY <2>3, <2>4, <2>7
<1> QED BY <1>3, <1>4

LEMMA SizeIs ==
  ASSUME NEW t, Shape(t), NEW N, N \subseteq Nodes(t)
  PROVE  Size(t, N) = Cardinality({p \in DOMAIN t.slot : \E m \in N : IsOwner(t, m, p)})
<1>1. \A m \in N : Own(t, m) = {p \in DOMAIN t.slot : IsOwner(t, m, p)} BY OwnIs
<1>2. UNION {Own(t, m) : m \in N} = {p \in DOMAIN t.slot : \E m \in N : IsOwner(t, m, p)}
  <2>1. \A p : p \in UNION {Own(t, m) : m \in N} <=> \E m \in N : p \in Own(t, m) OBVIOUS
  <2> QED BY <1>1, <2>1
<1> QED BY <1>2 DEF Size

\* A word below which a node lies belongs to the path of the node.
LEMMA OwnerOnPath ==
  ASSUME NEW t, Shape(t), NEW p \in DOMAIN t.slot, NEW n, IsOwner(t, n, p), NEW m \in Nodes(t) \cup {<<>>}
  PROVE  IsPrefix(p, m) <=> IsPrefix(n, m)
<1>1. p \in Word /\ p # <<>> /\ n \in Word /\ m \in Word BY EmptyWord DEF Shape, IsOwner
<1>2. ASSUME IsPrefix(n, m) PROVE IsPrefix(p, m) BY <1>1, <1>2, PrefixTrans DEF IsOwner
<1>3. ASSUME IsPrefix(p, m) PROVE IsPrefix(n, m)
  <2>1. m # <<>>
    <3>1. Len(p) <= Len(m) /\ Len(p) \in Nat BY <1>1, <1>3, PrefixLen
    <3>2. Len(p) # 0 BY <1>1, EmptyWord
    <3> QED BY <1>1, <3>1, <3>2, EmptyWord
  <2> QED BY <1>3, <2>1 DEF IsOwner
<1> QED BY <1>2, <1>3

-------------------------------------------------------------------------------
(* match_prefix *)

LEMMA GreatestOf ==
  ASSUME NEW M \in Nat, NEW S, S \subseteq 0 .. M, S # {}
  PROVE  Max(S) \in S /\ \A y \in S : Max(S) >= y
<1> DEFINE T == {n \in Nat : \A y \in S : n >= y}
<1>1. M \in T /\ T \subseteq Nat OBVIOUS
<1> HIDE DEF T
<1>2. PICK x \in T : \A y \in T : x <= y BY <1>1, LeastNat
<1>3. x \in Nat /\ \A y \in S : x >= y BY <1>2 DEF T
<1>4. x \in S
  <2> SUFFICES ASSUME x \notin S PROVE FALSE
    OBVIOUS
  <2>1. PICK y \in S : TRUE OBVIOUS
  <2>2. x > 0 BY <1>3, <2>1
  <2>3. x - 1 \in T BY <1>3, <2>2 DEF T
  <2> QED BY <1>2, <1>3, <2>3
<1>5. \E z \in S : \A y \in S : z >= y BY <1>3, <1>4
<1> QED BY <1>5 DEF Max

LEMMA MatchedIs ==
  ASSUME NEW t, Shape(t), NEW s \in Word
  PROVE  /\ MatchLen(t, s) \in 0 .. Len(s) /\ Len(s) \in Nat
         /\ Matched(t, s) \in Word /\ IsPrefix(Matched(t, s), s) /\ Len(Matched(t, s)) = MatchLen(t, s)
         /\ Matched(t, s) \in DOMAIN t.slot \cup {<<>>}
         /\ \A p \in Word : IsPrefix(p, s) /\ p # <<>> => (p \in DOMAIN t.slot <=> Len(p) <= MatchLen(t, s))
<1> DEFINE S == {n \in 0 .. Len(s) : Paths(Take(s, n)) \subseteq DOMAIN t.slot}
<1>1. Len(s) \in Nat BY DEF Word
<1>2. 0 \in S
  <2>1. 0 \in 0 .. Len(s) BY <1>1
  <2>2. Take(s, 0) \in Word /\ Len(Take(s, 0)) = 0 BY <2>1, TakeType
  <2>3. Paths(Take(s, 0)) = {} BY <2>2 DEF Paths
  <2> QED BY <2>1, <2>3
<1> DEFINE k == MatchLen(t, s)
<1>3. k \in S /\ \A n \in S : k >= n
  <2>1. S \subseteq 0 .. Len(s) /\ S # {} BY <1>2
  <2>2. k = Max(S) BY DEF MatchLen
  <2> HIDE DEF S, k
  <2> QED BY <1>1, <2>1, <2>2, GreatestOf
<1>4. k \in 0 .. Len(s) /\ Paths(Take(s, k)) \subseteq DOMAIN t.slot BY <1>3
<1>5. k \in Nat BY <1>1, <1>4
<1> HIDE DEF k
<1>6. Matched(t, s) = Take(s, k) BY DEF Matched, k
<1>7. Take(s, k) \in Word /\ Len(Take(s, k)) = k /\ IsPrefix(Take(s, k), s) BY <1>4, TakeType, TakeIsPrefix
<1>8. Take(s, k) \in DOMAIN t.slot \cup {<<>>}
  <2>1. CASE Take(s, k) = <<>> BY <2>1
  <2>2. CASE Take(s, k) # <<>>
    <3>1. Take(s, k) \in Paths(Take(s, k)) BY <1>7, <2>2, PathsAre, PrefixRefl
    <3> QED BY <1>4, <3>1
  <2> QED BY <2>1, <2>2
<1>9. ASSUME NEW p \in Word, IsPrefix(p, s), p # <<>> PROVE p \in DOMAIN t.slot <=> Len(p) <= k
  <2>1. Len(p) \in 0 .. Len(s) /\ p = Take(s, Len(p)) BY <1>9, PrefixIsTake
  <2>2. ASSUME p \in DOMAIN t.slot PROVE Len(p) <= k
    <3>1. Paths(Take(s, Len(p))) \subseteq DOMAIN t.slot BY <2>1, <2>2 DEF Shape
    <3>2. Len(p) \in S BY <2>1, <3>1
    <3>3. Len(p) \in Nat BY DEF Word
    <3> QED BY <1>3, <1>5, <3>2, <3>3
  <2>3. ASSUME Len(p) <= k PROVE p \in DOMAIN t.slot
    <3>1. IsPrefix(p, Take(s, k)) BY <1>7, <1>9, <2>3, PrefixComparable
    <3>2. p \in Paths(Take(s, k)) BY <1>7, <1>9, <3>1, PathsAre
    <3> QED BY <1>4, <3>2
  <2> QED BY <2>2, <2>3
<1> QED BY <1>1, <1>4, <1>6, <1>7, <1>8, <1>9 DEF k
-------------------------------------------------------------------------------
(* _split_node and insert *)

LEMMA ChildIs ==
  ASSUME NEW t, Shape(t), NEW s \in DOMAIN t.slot
  PROVE  IsOwner(t, Child(t, s), s)
<1>1. PICK n \in Nodes(t) : IsOwner(t, n, s) BY DEF Shape
<1>2. IsPrefix(s, n) /\ s \in Own(t, n) BY <1>1, OwnIs DEF IsOwner
<1>3. \E c \in Nodes(t) : IsPrefix(s, c) /\ s \in Own(t, c) BY <1>2
<1>4. Child(t, s) \in Nodes(t) /\ s \in Own(t, Child(t, s)) BY <1>3 DEF Child
<1> QED BY <1>4, OwnIs

\* The new node is the owner of what is above it, down from the last node.
LEMMA OneNodeMore ==
  ASSUME NEW t, Shape(t), NEW s \in Word, s # <<>>, NEW u, Nodes(u) = Nodes(t) \cup {s},
         NEW p \in Word, p # <<>>, NEW n, IsOwner(t, n, p), IsPrefix(s, n) \/ IsPrefix(n, s)
  PROVE  IsOwner(u, IF IsPrefix(p, s) /\ IsPrefix(s, n) THEN s ELSE n, p)
<1>1. n \in Word /\ \A m \in Nodes(u) : m \in Word BY DEF IsOwner, Shape
<1>2. CASE IsPrefix(p, s) /\ IsPrefix(s, n)
  <2>1. ASSUME NEW m \in Nodes(u), IsPrefix(p, m) PROVE IsPrefix(s, m)
    <3>1. CASE m = s BY <3>1, PrefixRefl
    <3>2. CASE m # s
      <4>1. IsPrefix(n, m) BY <2>1, <3>2 DEF IsOwner
      <4> QED BY <1>1, <1>2, <4>1, PrefixTrans
    <3> QED BY <3>1, <3>2
  <2> QED BY <1>2, <2>1 DEF IsOwner
<1>3. CASE ~(IsPrefix(p, s) /\ IsPrefix(s, n))
  <2>1. ASSUME NEW m \in Nodes(u), IsPrefix(p, m) PROVE IsPrefix(n, m)
    <3>1. CASE m = s BY <1>3, <2>1, <3>1
    <3>2. CASE m # s BY <2>1, <3>2 DEF IsOwner
    <3> QED BY <3>1, <3>2
  <2> QED BY <1>3, <2>1 DEF IsOwner
<1> QED BY <1>2, <1>3

LEMMA SplitIs ==
  ASSUME NEW t, Shape(t), NEW s \in DOMAIN t.slot \cup {<<>>}, NEW u, u = Split(t, s)
  PROVE  /\ Shape(u)
         /\ u.slot = t.slot /\ u.evictable = t.evictable /\ u.protected = t.protected
         /\ Nodes(u) = Nodes(t) \cup ({s} \ {<<>>})
         /\ \A n \in Nodes(t) : u.ref[n] = t.ref[n]
         /\ s \notin Nodes(t) \cup {<<>>} => IsOwner(t, Child(t, s), s) /\ u.ref[s] = t.ref[Child(t, s)]
<1>1. CASE s \in Nodes(t) \cup {<<>>} BY <1>1 DEF Split
<1>2. CASE s \notin Nodes(t) \cup {<<>>}
  <2>1. s \in DOMAIN t.slot /\ s \in Word /\ s # <<>> BY <1>2 DEF Shape
  <2>2. IsOwner(t, Child(t, s), s) BY <2>1, ChildIs
  <2> DEFINE c == Child(t, s)
             r == [n \in Nodes(t) \cup {s} |-> IF n = s THEN t.ref[c] ELSE t.ref[n]]
  <2>3. u = [ref |-> r, slot |-> t.slot, evictable |-> t.evictable, protected |-> t.protected]
    <3>1. t = [ref |-> t.ref, slot |-> t.slot, evictable |-> t.evictable, protected |-> t.protected] BY DEF Shape
    <3>2. u = [t EXCEPT !.ref = r] BY <1>2 DEF Split
    <3> HIDE DEF r
    <3> QED BY <3>1, <3>2
  <2>4. r \in [Nodes(t) \cup {s} -> Nat] /\ r[s] = t.ref[c] /\ \A n \in Nodes(t) : r[n] = t.ref[n]
    <3>1. c \in Nodes(t) BY <2>2 DEF IsOwner
    <3> HIDE DEF c
    <3> QED BY <1>2, <3>1 DEF Shape
  <2> HIDE DEF r, c
  <2>5. Nodes(u) = Nodes(t) \cup {s} BY <2>3, <2>4 DEF Nodes
  <2>6. ASSUME NEW p \in DOMAIN t.slot PROVE \E n \in Nodes(u) : IsOwner(u, n, p)
    <3>1. p \in Word /\ p # <<>> BY DEF Shape
    <3>2. PICK n \in Nodes(t) : IsOwner(t, n, p) BY DEF Shape
    <3>3. CASE IsPrefix(p, s)
      <4>1. IsPrefix(n, c) /\ IsPrefix(s, c) /\ c \in Word /\ n \in Word
        <5>1. c \in Nodes(t) /\ IsPrefix(s, c) /\ c \in Word BY <2>2 DEF IsOwner, c, Shape
        <5>2. IsPrefix(p, c) BY <2>1, <3>1, <3>3, <5>1, PrefixTrans
        <5> QED BY <3>2, <5>1, <5>2 DEF IsOwner, Shape
      <4>2. IsPrefix(s, n) \/ IsPrefix(n, s)
        <5>1. Len(s) \in Nat /\ Len(n) \in Nat BY <2>1, <4>1 DEF Word
        <5>2. CASE Len(s) <= Len(n) BY <2>1, <4>1, <5>2, PrefixComparable
        <5>3. CASE Len(n) <= Len(s) BY <2>1, <4>1, <5>3, PrefixComparable
        <5> QED BY <5>1, <5>2, <5>3
      <4>3. IsOwner(u, IF IsPrefix(p, s) /\ IsPrefix(s, n) THEN s ELSE n, p)
        BY <2>1, <2>5, <3>1, <3>2, <4>2, OneNodeMore
      <4> QED BY <4>3 DEF IsOwner
    <3>4. CASE ~IsPrefix(p, s)
      <4>1. IsOwner(u, n, p) BY <2>5, <3>2, <3>4 DEF IsOwner
      <4> QED BY <4>1 DEF IsOwner
    <3> QED BY <3>3, <3>4
  <2>7. Shape(u)
    <3>1. u = [ref |-> u.ref, slot |-> u.slot, evictable |-> u.evictable, protected |-> u.protected]
          /\ u.ref = r /\ u.slot = t.slot
      BY <2>3
    <3>2. u.ref \in [Nodes(u) -> Nat] BY <2>4, <2>5, <3>1
    <3>3. Nodes(u) \subseteq DOMAIN u.slot BY <2>1, <2>5, <3>1 DEF Shape
    <3> QED BY <2>6, <3>1, <3>2, <3>3 DEF Shape
  <2> QED BY <2>1, <2>2, <2>3, <2>4, <2>5, <2>7 DEF c
<1> QED BY <1>1, <1>2
LEMMA NewWords ==
  ASSUME NEW t, Shape(t), NEW s \in Word
  PROVE  /\ Cardinality(Paths(s) \ DOMAIN t.slot) = Len(s) - MatchLen(t, s)
         /\ Paths(s) \cap DOMAIN t.slot = Paths(Matched(t, s))
<1>1. /\ Matched(t, s) \in Word /\ IsPrefix(Matched(t, s), s) /\ Len(Matched(t, s)) = MatchLen(t, s)
      /\ Matched(t, s) \in DOMAIN t.slot \cup {<<>>}
      /\ \A p \in Word : IsPrefix(p, s) /\ p # <<>> => (p \in DOMAIN t.slot <=> Len(p) <= MatchLen(t, s))
  BY MatchedIs
<1>2. Paths(s) \cap DOMAIN t.slot = Paths(Matched(t, s))
  <2>1. ASSUME NEW p \in Paths(s), p \in DOMAIN t.slot PROVE p \in Paths(Matched(t, s))
    <3>1. p \in Word /\ p # <<>> /\ IsPrefix(p, s) BY PathsAre
    <3>2. IsPrefix(p, Matched(t, s)) BY <1>1, <2>1, <3>1, PrefixComparable
    <3> QED BY <1>1, <3>1, <3>2, PathsAre
  <2>2. ASSUME NEW p \in Paths(Matched(t, s)) PROVE p \in Paths(s) /\ p \in DOMAIN t.slot
    <3>1. p \in Word /\ p # <<>> /\ IsPrefix(p, Matched(t, s)) BY <1>1, PathsAre
    <3>2. IsPrefix(p, s) /\ Len(p) <= MatchLen(t, s) BY <1>1, <3>1, PrefixTrans, PrefixLen
    <3> QED BY <1>1, <3>1, <3>2, PathsAre
  <2> QED BY <2>1, <2>2
<1>3. Cardinality(Paths(s) \cap DOMAIN t.slot) = MatchLen(t, s) BY <1>1, <1>2, PathsFinite
<1>4. IsFiniteSet(Paths(s)) /\ Cardinality(Paths(s)) = Len(s) BY PathsFinite
<1>5. Cardinality(Paths(s) \ DOMAIN t.slot) = Cardinality(Paths(s)) - Cardinality(Paths(s) \cap DOMAIN t.slot)
  BY <1>4, FS_Difference
<1> QED BY <1>2, <1>3, <1>4, <1>5

Inserted(t, s, row, u) ==
  LET old == Split(t, Matched(t, s)) IN
  /\ Shape(u)
  /\ DOMAIN u.slot = DOMAIN t.slot \cup Paths(s)
  /\ \A p \in DOMAIN t.slot : u.slot[p] = t.slot[p]
  /\ \A p \in Paths(s) \ DOMAIN t.slot : u.slot[p] = row[Len(p)]
  /\ Nodes(u) = Nodes(old) \cup ({s} \ {<<>>})
  /\ \A n \in Nodes(old) : u.ref[n] = old.ref[n]
  /\ s \notin DOMAIN t.slot \cup {<<>>} => s \notin Nodes(old) /\ u.ref[s] = 0
  /\ u.evictable = t.evictable + Cardinality(Paths(s) \ DOMAIN t.slot) /\ u.protected = t.protected

LEMMA InsertIs ==
  ASSUME NEW t, Shape(t), t.evictable \in Nat, NEW s \in Word, NEW row, Len(row) = Len(s),
         \A i \in 1 .. Len(s) : row[i] \in Slot,
         NEW u, u = Insert(t, s, row)
  PROVE  Inserted(t, s, row, u)
<1> DEFINE q == Matched(t, s)
           old == Split(t, q)
           k == MatchLen(t, s)
<1>1. /\ k \in 0 .. Len(s) /\ Len(s) \in Nat
      /\ q \in Word /\ IsPrefix(q, s) /\ Len(q) = k
      /\ q \in DOMAIN t.slot \cup {<<>>}
      /\ \A p \in Word : IsPrefix(p, s) /\ p # <<>> => (p \in DOMAIN t.slot <=> Len(p) <= k)
  BY MatchedIs
<1> HIDE DEF q, k
<1>2. /\ Shape(old)
      /\ old.slot = t.slot /\ old.evictable = t.evictable /\ old.protected = t.protected
      /\ Nodes(old) = Nodes(t) \cup ({q} \ {<<>>})
  BY <1>1, SplitIs
<1> HIDE DEF old
<1>3. Cardinality(Paths(s) \ DOMAIN t.slot) = Len(s) - k BY NewWords DEF k
<1>4. CASE s \in DOMAIN t.slot \cup {<<>>}
  <2>1. u = old BY <1>4 DEF Insert, old, q
  <2>2. q = s /\ k = Len(s)
    <3>1. CASE s = <<>>
      <4>1. Len(s) = 0 BY <3>1, EmptyWord
      <4>2. k = 0 BY <1>1, <4>1
      <4> QED BY <1>1, <3>1, <4>1, <4>2, EmptyWord
    <3>2. CASE s # <<>>
      <4>1. IsPrefix(s, s) /\ s \in DOMAIN t.slot BY <1>4, <3>2, PrefixRefl
      <4>2. Len(s) <= k BY <1>1, <3>2, <4>1
      <4>3. Len(s) <= Len(q) BY <1>1, <4>2
      <4>4. q = s BY <1>1, <4>3, PrefixAntisym
      <4> QED BY <1>1, <4>4
    <3> QED BY <3>1, <3>2
  <2>3. Paths(s) \subseteq DOMAIN t.slot
    <3>1. CASE s = <<>>
      <4>1. Len(s) = 0 BY <3>1, EmptyWord
      <4> QED BY <4>1 DEF Paths
    <3>2. CASE s # <<>> BY <1>4, <3>2 DEF Shape
    <3> QED BY <3>1, <3>2
  <2>4. u.evictable = t.evictable + Cardinality(Paths(s) \ DOMAIN t.slot)
    <3>1. Cardinality(Paths(s) \ DOMAIN t.slot) = 0 BY <1>1, <1>3, <2>2
    <3> QED BY <1>2, <2>1, <3>1
  <2> QED BY <1>2, <1>4, <2>1, <2>2, <2>3, <2>4 DEF Inserted, old, q
<1>5. CASE s \notin DOMAIN t.slot \cup {<<>>}
  <2> DEFINE r == [n \in Nodes(old) \cup {s} |-> IF n = s THEN 0 ELSE old.ref[n]]
             f == [p \in DOMAIN t.slot \cup Paths(s) |-> IF p \in DOMAIN t.slot THEN t.slot[p] ELSE row[Len(p)]]
             e == t.evictable + Len(s) - k
  <2>1. u = [ref |-> r, slot |-> f, evictable |-> e, protected |-> t.protected]
    BY <1>5 DEF Insert, old, q, k
  <2>2. s \notin Nodes(old) BY <1>2, <1>5 DEF Shape
  <2>3. /\ r \in [Nodes(old) \cup {s} -> Nat] /\ r[s] = 0 /\ \A n \in Nodes(old) : r[n] = old.ref[n]
    BY <1>2, <2>2 DEF Shape
  <2>4. \A p \in Paths(s) : p \in Word /\ p # <<>> /\ Len(p) \in 1 .. Len(s)
    <3> TAKE p \in Paths(s)
    <3>1. p \in Word /\ p # <<>> /\ IsPrefix(p, s) BY PathsAre
    <3>2. Len(p) \in Nat /\ Len(p) <= Len(s) /\ Len(p) # 0 BY <3>1, PrefixLen, EmptyWord
    <3> QED BY <1>1, <3>1, <3>2
  <2>5. /\ f \in [DOMAIN t.slot \cup Paths(s) -> Slot]
        /\ \A p \in DOMAIN t.slot : f[p] = t.slot[p]
        /\ \A p \in Paths(s) \ DOMAIN t.slot : f[p] = row[Len(p)]
    BY <2>4 DEF Shape
  <2>6. e = t.evictable + Cardinality(Paths(s) \ DOMAIN t.slot)
    <3>1. k \in Nat BY <1>1
    <3> QED BY <1>1, <1>3, <3>1
  <2> HIDE DEF r, f, e
  <2>7. /\ u.ref = r /\ u.slot = f /\ u.evictable = e /\ u.protected = t.protected
        /\ Nodes(u) = Nodes(old) \cup {s} /\ DOMAIN u.slot = DOMAIN t.slot \cup Paths(s)
    BY <2>1, <2>3, <2>5 DEF Nodes
  <2>8. IsFiniteSet(DOMAIN u.slot)
    <3>1. IsFiniteSet(DOMAIN t.slot) /\ IsFiniteSet(Paths(s)) BY PathsFinite DEF Shape
    <3>2. IsFiniteSet(DOMAIN t.slot \cup Paths(s)) BY <3>1, FS_Union
    <3> QED BY <2>7, <3>2
  <2>9. s \in Paths(s) BY <1>5, PrefixRefl, PathsAre
  <2>10. ASSUME NEW p \in DOMAIN u.slot PROVE Paths(p) \subseteq DOMAIN u.slot
    <3>1. CASE p \in DOMAIN t.slot BY <2>7, <3>1 DEF Shape
    <3>2. CASE p \in Paths(s)
      <4>1. p \in Word /\ IsPrefix(p, s) BY <3>2, PathsAre
      <4>2. Paths(p) \subseteq Paths(s) BY <4>1, PathsOfPrefix
      <4> QED BY <2>7, <4>2
    <3> QED BY <2>7, <3>1, <3>2
  <2>11. ASSUME NEW p \in DOMAIN u.slot PROVE \E n \in Nodes(u) : IsOwner(u, n, p)
    <3>1. CASE p \in DOMAIN t.slot
      <4>1. p \in Word /\ p # <<>> BY <3>1 DEF Shape
      <4>2. PICK n \in Nodes(old) : IsOwner(old, n, p) BY <1>2, <3>1 DEF Shape
      <4>3. CASE IsPrefix(p, s)
        <5>1. Len(p) <= Len(q) BY <1>1, <3>1, <4>1, <4>3
        <5>2. IsPrefix(p, q) BY <1>1, <4>1, <4>3, <5>1, PrefixComparable
        <5>3. q # <<>>
          <6>1. Len(p) \in Nat /\ Len(p) # 0 BY <4>1, EmptyWord DEF Word
          <6> QED BY <1>1, <5>1, <6>1, EmptyWord
        <5>4. IsPrefix(n, q) BY <1>2, <4>2, <5>2, <5>3 DEF IsOwner
        <5>5. n \in Word BY <1>2, <4>2 DEF Shape
        <5>6. IsPrefix(n, s) BY <1>1, <5>4, <5>5, PrefixTrans
        <5>7. ~IsPrefix(s, n)
          <6>1. n \in DOMAIN t.slot BY <1>2, <4>2 DEF Shape
          <6>2. s # <<>> /\ s \notin DOMAIN t.slot BY <1>5
          <6> QED BY <6>1, <6>2, ClosedUnderPrefix
        <5>8. IsOwner(u, n, p) BY <1>5, <1>2, <2>7, <4>1, <4>2, <5>6, <5>7, OneNodeMore
        <5> QED BY <5>8 DEF IsOwner
      <4>4. CASE ~IsPrefix(p, s)
        <5>1. IsOwner(u, n, p) BY <2>7, <4>2, <4>4 DEF IsOwner
        <5> QED BY <5>1 DEF IsOwner
      <4> QED BY <4>3, <4>4
    <3>2. CASE p \in Paths(s) \ DOMAIN t.slot
      <4>1. p \in Word /\ p # <<>> /\ IsPrefix(p, s) BY <3>2, PathsAre
      <4>2. ASSUME NEW m \in Nodes(u), IsPrefix(p, m) PROVE m = s
        <5>1. CASE m \in Nodes(old)
          <6>1. m \in DOMAIN t.slot BY <1>2, <5>1 DEF Shape
          <6> QED BY <3>2, <4>1, <4>2, <6>1, ClosedUnderPrefix
        <5> QED BY <2>7, <5>1
      <4>3. IsOwner(u, s, p) BY <2>7, <4>1, <4>2, PrefixRefl DEF IsOwner
      <4> QED BY <4>3 DEF IsOwner
    <3> QED BY <2>7, <3>1, <3>2
  <2>12. Shape(u)
    <3>1. u = [ref |-> u.ref, slot |-> u.slot, evictable |-> u.evictable, protected |-> u.protected] BY <2>1
    <3>2. u.ref \in [Nodes(u) -> Nat] /\ u.slot \in [DOMAIN u.slot -> Slot] BY <2>3, <2>5, <2>7
    <3>3. DOMAIN u.slot \subseteq Word \ {<<>>} BY <2>4, <2>7 DEF Shape
    <3>4. Nodes(u) \subseteq DOMAIN u.slot BY <1>2, <2>7, <2>9 DEF Shape
    <3> QED BY <2>8, <2>10, <2>11, <3>1, <3>2, <3>3, <3>4 DEF Shape
  <2> QED BY <1>5, <2>2, <2>3, <2>5, <2>6, <2>7, <2>12 DEF Inserted, old, q
<1> QED BY <1>4, <1>5
-------------------------------------------------------------------------------
(* inc_lock_ref and dec_lock_ref: the requests R hold the paths f tells. *)

LEMMA CardDisjoint ==
  ASSUME NEW A, NEW B, IsFiniteSet(A), IsFiniteSet(B), A \cap B = {}, NEW C, C = A \cup B
  PROVE  /\ IsFiniteSet(C) /\ Cardinality(C) = Cardinality(A) + Cardinality(B)
         /\ Cardinality(A) \in Nat /\ Cardinality(B) \in Nat
<1>1. Cardinality(A) \in Nat /\ Cardinality(B) \in Nat BY FS_CardinalityType
<1>2. Cardinality(A \cap B) = 0 BY FS_EmptySet
<1>3. IsFiniteSet(C) /\ Cardinality(C) = Cardinality(A) + Cardinality(B) - Cardinality(A \cap B) BY FS_Union
<1> QED BY <1>1, <1>2, <1>3

HeldBy(R, f) == UNION {Paths(f[r]) : r \in R}

Locked(t, R, f) ==
  /\ \A r \in R : f[r] \in Nodes(t) \cup {<<>>}
  /\ \A n \in Nodes(t) : t.ref[n] = Cardinality({r \in R : IsPrefix(n, f[r])})
  /\ t.evictable = Cardinality(DOMAIN t.slot \ HeldBy(R, f))
  /\ t.protected = Cardinality(HeldBy(R, f))

LEMMA HeldIs ==
  ASSUME NEW t, Shape(t), NEW R, NEW f, \A r \in R : f[r] \in Nodes(t) \cup {<<>>}
  PROVE  /\ HeldBy(R, f) \subseteq DOMAIN t.slot /\ IsFiniteSet(HeldBy(R, f))
         /\ \A p \in DOMAIN t.slot : p \in HeldBy(R, f) <=> \E r \in R : IsPrefix(p, f[r])
<1>1. ASSUME NEW r \in R PROVE f[r] \in Word /\ Paths(f[r]) \subseteq DOMAIN t.slot
  <2>1. CASE f[r] = <<>>
    <3>1. Len(f[r]) = 0 /\ f[r] \in Word BY <2>1, EmptyWord
    <3> QED BY <3>1 DEF Paths
  <2>2. CASE f[r] # <<>> BY <2>2 DEF Shape
  <2> QED BY <2>1, <2>2
<1>2. HeldBy(R, f) \subseteq DOMAIN t.slot BY <1>1 DEF HeldBy
<1>3. IsFiniteSet(HeldBy(R, f)) BY <1>2, FS_Subset DEF Shape
<1>4. ASSUME NEW p \in DOMAIN t.slot PROVE p \in HeldBy(R, f) <=> \E r \in R : IsPrefix(p, f[r])
  <2>1. p \in Word /\ p # <<>> BY DEF Shape
  <2>2. \A r \in R : p \in Paths(f[r]) <=> IsPrefix(p, f[r]) BY <1>1, <2>1, PathsAre
  <2> QED BY <2>2 DEF HeldBy
<1> QED BY <1>2, <1>3, <1>4

LEMMA EmptyLocked == ASSUME NEW f PROVE Locked(EmptyTree, {}, f)
<1>1. HeldBy({}, f) = {} BY DEF HeldBy
<1> QED BY <1>1, FS_EmptySet DEF Locked, EmptyTree, Nodes

\* Nobody holds what the counter of its owner says nobody holds.
LEMMA RefIsZero ==
  ASSUME NEW t, Shape(t), NEW R, IsFiniteSet(R), NEW f, Locked(t, R, f),
         NEW p \in DOMAIN t.slot, NEW n, IsOwner(t, n, p)
  PROVE  t.ref[n] = 0 <=> p \notin HeldBy(R, f)
<1>1. \A r \in R : f[r] \in Nodes(t) \cup {<<>>} BY DEF Locked
<1>2. \A r \in R : IsPrefix(p, f[r]) <=> IsPrefix(n, f[r]) BY <1>1, OwnerOnPath
<1>3. IsFiniteSet({r \in R : IsPrefix(n, f[r])}) BY FS_Subset
<1>4. t.ref[n] = 0 <=> {r \in R : IsPrefix(n, f[r])} = {} BY <1>3, FS_EmptySet DEF Locked, IsOwner
<1>5. p \in HeldBy(R, f) <=> \E r \in R : IsPrefix(p, f[r]) BY <1>1, HeldIs
<1> QED BY <1>2, <1>4, <1>5

LEMMA SplitLocked ==
  ASSUME NEW t, Shape(t), NEW R, NEW f, Locked(t, R, f), NEW s \in DOMAIN t.slot \cup {<<>>},
         NEW u, u = Split(t, s)
  PROVE  Locked(u, R, f)
<1>1. /\ u.slot = t.slot /\ u.evictable = t.evictable /\ u.protected = t.protected
      /\ Nodes(u) = Nodes(t) \cup ({s} \ {<<>>})
      /\ \A n \in Nodes(t) : u.ref[n] = t.ref[n]
      /\ s \notin Nodes(t) \cup {<<>>} => IsOwner(t, Child(t, s), s) /\ u.ref[s] = t.ref[Child(t, s)]
  BY SplitIs
<1>2. \A r \in R : f[r] \in Nodes(t) \cup {<<>>} BY DEF Locked
<1>3. ASSUME NEW n \in Nodes(u) PROVE u.ref[n] = Cardinality({r \in R : IsPrefix(n, f[r])})
  <2>1. CASE n \in Nodes(t) BY <1>1, <2>1 DEF Locked
  <2>2. CASE n \notin Nodes(t)
    <3> DEFINE c == Child(t, s)
    <3>1. n = s /\ s \in DOMAIN t.slot /\ IsOwner(t, c, s) /\ u.ref[s] = t.ref[c] BY <1>1, <2>2
    <3> HIDE DEF c
    <3>2. \A r \in R : IsPrefix(s, f[r]) <=> IsPrefix(c, f[r]) BY <1>2, <3>1, OwnerOnPath
    <3>3. {r \in R : IsPrefix(s, f[r])} = {r \in R : IsPrefix(c, f[r])} BY <3>2
    <3>4. t.ref[c] = Cardinality({r \in R : IsPrefix(c, f[r])}) BY <3>1 DEF Locked, IsOwner
    <3> QED BY <3>1, <3>3, <3>4
  <2> QED BY <2>1, <2>2
<1> QED BY <1>1, <1>2, <1>3 DEF Locked

LEMMA InsertLocked ==
  ASSUME NEW t, Shape(t), NEW R, NEW f, Locked(t, R, f), NEW s \in Word, NEW row, NEW u, Inserted(t, s, row, u)
  PROVE  Locked(u, R, f)
<1> DEFINE old == Split(t, Matched(t, s))
<1>1. Matched(t, s) \in DOMAIN t.slot \cup {<<>>} BY MatchedIs
<1>2. Locked(old, R, f) /\ Shape(old) BY <1>1, SplitLocked, SplitIs
<1>3. old.slot = t.slot /\ old.evictable = t.evictable /\ old.protected = t.protected BY <1>1, SplitIs
<1>4. /\ DOMAIN u.slot = DOMAIN t.slot \cup Paths(s) /\ Nodes(u) = Nodes(old) \cup ({s} \ {<<>>})
      /\ \A n \in Nodes(old) : u.ref[n] = old.ref[n]
      /\ s \notin DOMAIN t.slot \cup {<<>>} => u.ref[s] = 0
      /\ u.evictable = t.evictable + Cardinality(Paths(s) \ DOMAIN t.slot) /\ u.protected = t.protected
      /\ Shape(u)
  BY DEF Inserted
<1> HIDE DEF old
<1>5. \A r \in R : f[r] \in Nodes(u) \cup {<<>>} BY <1>2, <1>4 DEF Locked
<1>6. HeldBy(R, f) \subseteq DOMAIN t.slot /\ IsFiniteSet(HeldBy(R, f))
  BY <1>2, <1>3, HeldIs DEF Locked
<1>7. ASSUME NEW n \in Nodes(u) PROVE u.ref[n] = Cardinality({r \in R : IsPrefix(n, f[r])})
  <2>1. CASE n \in Nodes(old) BY <1>2, <1>4, <2>1 DEF Locked
  <2>2. CASE n \notin Nodes(old)
    <3>1. n = s /\ s # <<>> BY <1>4, <2>2
    <3>2. CASE s \in DOMAIN t.slot
      <4>1. Len(s) <= MatchLen(t, s) /\ Len(Matched(t, s)) = MatchLen(t, s) /\ Matched(t, s) \in Word
            /\ IsPrefix(Matched(t, s), s)
        BY <3>1, <3>2, PrefixRefl, MatchedIs
      <4>2. Matched(t, s) = s BY <4>1, PrefixAntisym
      <4>3. s \in Nodes(old) BY <1>1, <3>1, <4>2, SplitIs DEF old
      <4> QED BY <2>2, <3>1, <4>3
    <3>3. CASE s \notin DOMAIN t.slot
      <4>1. ASSUME NEW r \in R, IsPrefix(s, f[r]) PROVE FALSE
        <5>1. f[r] \in Nodes(old) \cup {<<>>} BY <1>2 DEF Locked
        <5>2. f[r] # <<>>
          <6>1. f[r] = <<>> => Len(s) <= 0 /\ Len(s) \in Nat BY <4>1, PrefixLen, EmptyWord
          <6> QED BY <3>1, <6>1, EmptyWord
        <5>3. f[r] \in DOMAIN old.slot BY <1>2, <5>1, <5>2 DEF Shape
        <5> QED BY <1>2, <1>3, <3>1, <3>3, <4>1, <5>3, ClosedUnderPrefix
      <4>2. {r \in R : IsPrefix(s, f[r])} = {} BY <4>1
      <4>3. Cardinality({r \in R : IsPrefix(s, f[r])}) = 0 BY <4>2, FS_EmptySet
      <4> QED BY <1>4, <3>1, <3>3, <4>3
    <3> QED BY <3>2, <3>3
  <2> QED BY <2>1, <2>2
<1>8. u.evictable = Cardinality(DOMAIN u.slot \ HeldBy(R, f))
  <2> DEFINE A == DOMAIN t.slot \ HeldBy(R, f)
             B == Paths(s) \ DOMAIN t.slot
             C == DOMAIN u.slot \ HeldBy(R, f)
  <2>1. A \cap B = {} /\ C = A \cup B BY <1>4, <1>6
  <2>2. IsFiniteSet(A) /\ IsFiniteSet(B) BY PathsFinite, FS_Subset DEF Shape
  <2>3. u.evictable = Cardinality(A) + Cardinality(B) BY <1>4 DEF Locked
  <2> HIDE DEF A, B, C
  <2>4. u.evictable = Cardinality(C) BY <2>1, <2>2, <2>3, CardDisjoint
  <2> QED BY <2>4 DEF C
<1>9. u.protected = Cardinality(HeldBy(R, f)) BY <1>4 DEF Locked
<1> QED BY <1>5, <1>7, <1>8, <1>9 DEF Locked
LEMMA IncShape ==
  ASSUME NEW t, Shape(t), NEW n
  PROVE  Shape(IncLockRef(t, n)) /\ IncLockRef(t, n).slot = t.slot
<1> DEFINE ref == [m \in Nodes(t) |-> IF IsPrefix(m, n) THEN t.ref[m] + 1 ELSE t.ref[m]]
           moved == Size(t, {m \in Above(t, n) : t.ref[m] = 0})
           u == IncLockRef(t, n)
<1>1. u = [t EXCEPT !.ref = ref, !.evictable = @ - moved, !.protected = @ + moved] BY DEF IncLockRef
<1>2. t = [ref |-> t.ref, slot |-> t.slot, evictable |-> t.evictable, protected |-> t.protected] BY DEF Shape
<1>3. ref \in [Nodes(t) -> Nat] BY DEF Shape
<1> HIDE DEF moved, ref, u
<1>4. u = [ref |-> ref, slot |-> t.slot, evictable |-> t.evictable - moved, protected |-> t.protected + moved]
  BY <1>1, <1>2
<1>5. /\ u = [ref |-> u.ref, slot |-> u.slot, evictable |-> u.evictable, protected |-> u.protected]
      /\ u.slot = t.slot /\ u.ref = ref
  BY <1>4
<1>6. Nodes(u) = Nodes(t) BY <1>3, <1>5 DEF Nodes
<1>7. u.ref \in [Nodes(u) -> Nat] BY <1>3, <1>5, <1>6
<1>8. \A m, p : IsOwner(u, m, p) <=> IsOwner(t, m, p) BY <1>6 DEF IsOwner
<1>9. Shape(u) BY <1>5, <1>6, <1>7, <1>8 DEF Shape
<1> QED BY <1>5, <1>9 DEF u

LEMMA IncLocked ==
  ASSUME NEW t, Shape(t), NEW R, IsFiniteSet(R), NEW f, Locked(t, R, f),
         NEW r, r \notin R, f[r] \in Nodes(t) \cup {<<>>}
  PROVE  Locked(IncLockRef(t, f[r]), R \cup {r}, f)
<1> DEFINE n == f[r]
           u == IncLockRef(t, n)
           H == HeldBy(R, f)
           N == {m \in Above(t, n) : t.ref[m] = 0}
           moved == Size(t, N)
           ref == [m \in Nodes(t) |-> IF IsPrefix(m, n) THEN t.ref[m] + 1 ELSE t.ref[m]]
<1>1. u = [ref |-> ref, slot |-> t.slot, evictable |-> t.evictable - moved, protected |-> t.protected + moved]
  <2>1. u = [t EXCEPT !.ref = ref, !.evictable = @ - moved, !.protected = @ + moved] BY DEF IncLockRef
  <2>2. t = [ref |-> t.ref, slot |-> t.slot, evictable |-> t.evictable, protected |-> t.protected] BY DEF Shape
  <2> HIDE DEF ref, moved, u
  <2> QED BY <2>1, <2>2
<1> HIDE DEF u
<1>2. /\ H \subseteq DOMAIN t.slot /\ IsFiniteSet(H)
      /\ \A p \in DOMAIN t.slot : p \in H <=> \E q \in R : IsPrefix(p, f[q])
  BY HeldIs DEF Locked
<1>3. Paths(n) \subseteq DOMAIN t.slot /\ n \in Word /\ IsFiniteSet(Paths(n))
  <2>1. n = <<>> \/ n \in DOMAIN t.slot BY DEF Shape
  <2>2. n \in Word BY <2>1, EmptyWord DEF Shape
  <2>3. n = <<>> => Len(n) = 0 BY EmptyWord
  <2>4. n = <<>> => Paths(n) = {} BY <2>3 DEF Paths
  <2> QED BY <2>1, <2>2, <2>4, PathsFinite DEF Shape
<1>4. moved = Cardinality(Paths(n) \ H)
  <2>1. N \subseteq Nodes(t) BY DEF Above
  <2>2. ASSUME NEW p \in DOMAIN t.slot PROVE (\E m \in N : IsOwner(t, m, p)) <=> p \in Paths(n) /\ p \notin H
    <3>1. PICK m \in Nodes(t) : IsOwner(t, m, p) BY DEF Shape
    <3>2. (\E k \in N : IsOwner(t, k, p)) <=> m \in N BY <2>1, <3>1, OwnerUnique
    <3>3. m \in N <=> IsPrefix(m, n) /\ t.ref[m] = 0 BY DEF Above
    <3>4. t.ref[m] = 0 <=> p \notin H BY <3>1, RefIsZero
    <3>5. IsPrefix(p, n) <=> IsPrefix(m, n) BY <3>1, OwnerOnPath
    <3>6. p \in Word /\ p # <<>> BY DEF Shape
    <3>7. IsPrefix(p, n) <=> p \in Paths(n) BY <1>3, <3>6, PathsAre
    <3> QED BY <3>2, <3>3, <3>4, <3>5, <3>7
  <2> HIDE DEF n, N, H
  <2>3. {p \in DOMAIN t.slot : \E m \in N : IsOwner(t, m, p)} = Paths(n) \ H BY <1>3, <2>2
  <2> QED BY <2>1, <2>3, SizeIs
<1> HIDE DEF moved, N
<1>5. HeldBy(R \cup {r}, f) = H \cup Paths(n) BY DEF HeldBy
<1>6. /\ u.evictable = Cardinality(DOMAIN t.slot \ HeldBy(R \cup {r}, f))
      /\ u.protected = Cardinality(HeldBy(R \cup {r}, f))
  <2> DEFINE P == Paths(n) \ H
             A == DOMAIN t.slot \ H
             B == DOMAIN t.slot \ HeldBy(R \cup {r}, f)
             C == HeldBy(R \cup {r}, f)
  <2>1. /\ A = B \cup P /\ B \cap P = {} /\ C = H \cup P /\ H \cap P = {} BY <1>3, <1>5
  <2>2. IsFiniteSet(P) /\ IsFiniteSet(B) BY <1>3, FS_Subset, FS_Difference DEF Shape
  <2>3. u.evictable = Cardinality(A) - Cardinality(P) /\ u.protected = Cardinality(H) + Cardinality(P)
    BY <1>1, <1>4 DEF Locked
  <2> HIDE DEF P, A, B, C, H
  <2>4. Cardinality(A) = Cardinality(B) + Cardinality(P) /\ Cardinality(B) \in Nat /\ Cardinality(P) \in Nat
    BY <2>1, <2>2, CardDisjoint
  <2>5. Cardinality(C) = Cardinality(H) + Cardinality(P) BY <1>2, <2>1, <2>2, CardDisjoint
  <2>6. u.evictable = Cardinality(B) /\ u.protected = Cardinality(C) BY <2>3, <2>4, <2>5
  <2> QED BY <2>6 DEF B, C
<1>7. Nodes(u) = Nodes(t) /\ u.slot = t.slot /\ u.ref = ref BY <1>1 DEF Nodes
<1>8. ASSUME NEW m \in Nodes(t) PROVE u.ref[m] = Cardinality({q \in R \cup {r} : IsPrefix(m, f[q])})
  <2> DEFINE S == {q \in R : IsPrefix(m, f[q])}
             S2 == {q \in R \cup {r} : IsPrefix(m, f[q])}
  <2>1. t.ref[m] = Cardinality(S) /\ IsFiniteSet(S) /\ r \notin S BY FS_Subset DEF Locked
  <2>2. Cardinality(S) \in Nat BY <2>1, FS_CardinalityType
  <2>3. u.ref[m] = IF IsPrefix(m, n) THEN t.ref[m] + 1 ELSE t.ref[m] BY <1>7
  <2>4. S2 = IF IsPrefix(m, n) THEN S \cup {r} ELSE S OBVIOUS
  <2>5. Cardinality(S \cup {r}) = Cardinality(S) + 1
    <3> HIDE DEF S
    <3> QED BY <2>1, FS_AddElement
  <2> HIDE DEF S, S2
  <2>6. u.ref[m] = Cardinality(S2) BY <2>1, <2>2, <2>3, <2>4, <2>5
  <2> QED BY <2>6 DEF S2
<1>10. \A q \in R \cup {r} : f[q] \in Nodes(u) \cup {<<>>} BY <1>7 DEF Locked
<1>11. Locked(u, R \cup {r}, f) BY <1>6, <1>7, <1>8, <1>10 DEF Locked
<1> QED BY <1>11 DEF u

LEMMA DecNodes ==
  ASSUME NEW t, Shape(t), NEW n
  PROVE  Nodes(DecLockRef(t, n)) = Nodes(t) /\ DecLockRef(t, n).slot = t.slot
<1> DEFINE ref == [m \in Nodes(t) |-> IF IsPrefix(m, n) THEN t.ref[m] - 1 ELSE t.ref[m]]
           moved == Size(t, {m \in Above(t, n) : t.ref[m] = 1})
<1>1. DecLockRef(t, n) = [t EXCEPT !.ref = ref, !.evictable = @ + moved, !.protected = @ - moved] BY DEF DecLockRef
<1>2. t = [ref |-> t.ref, slot |-> t.slot, evictable |-> t.evictable, protected |-> t.protected] BY DEF Shape
<1> HIDE DEF moved
<1>3. DecLockRef(t, n).ref = ref /\ DecLockRef(t, n).slot = t.slot
  <2> HIDE DEF ref
  <2> QED BY <1>1, <1>2
<1> QED BY <1>3 DEF Nodes

LEMMA DecLocked ==
  ASSUME NEW t, Shape(t), NEW R, IsFiniteSet(R), NEW f, Locked(t, R, f),
         NEW r \in R
  PROVE  Shape(DecLockRef(t, f[r])) /\ Locked(DecLockRef(t, f[r]), R \ {r}, f)
<1> DEFINE n == f[r]
           u == DecLockRef(t, n)
           Q == R \ {r}
           H == HeldBy(Q, f)
           N == {m \in Above(t, n) : t.ref[m] = 1}
           moved == Size(t, N)
           ref == [m \in Nodes(t) |-> IF IsPrefix(m, n) THEN t.ref[m] - 1 ELSE t.ref[m]]
<1>1. u = [ref |-> ref, slot |-> t.slot, evictable |-> t.evictable + moved, protected |-> t.protected - moved]
  <2>1. u = [t EXCEPT !.ref = ref, !.evictable = @ + moved, !.protected = @ - moved] BY DEF DecLockRef
  <2>2. t = [ref |-> t.ref, slot |-> t.slot, evictable |-> t.evictable, protected |-> t.protected] BY DEF Shape
  <2> HIDE DEF ref, moved, u
  <2> QED BY <2>1, <2>2
<1> HIDE DEF u
<1>2. /\ H \subseteq DOMAIN t.slot /\ IsFiniteSet(H)
      /\ \A p \in DOMAIN t.slot : p \in H <=> \E q \in Q : IsPrefix(p, f[q])
  BY HeldIs DEF Locked
<1>3. Paths(n) \subseteq DOMAIN t.slot /\ n \in Word /\ IsFiniteSet(Paths(n)) /\ n \in Nodes(t) \cup {<<>>}
  <2>1. n = <<>> \/ n \in DOMAIN t.slot BY DEF Shape, Locked
  <2>2. n \in Word BY <2>1, EmptyWord DEF Shape
  <2>3. n = <<>> => Len(n) = 0 BY EmptyWord
  <2>4. n = <<>> => Paths(n) = {} BY <2>3 DEF Paths
  <2>5. n \in Nodes(t) \cup {<<>>} BY DEF Locked
  <2> QED BY <2>1, <2>2, <2>4, <2>5, PathsFinite DEF Shape
\* The counter of a node, by whether the request that goes holds it.
<1>4. ASSUME NEW m \in Nodes(t)
      PROVE  /\ Cardinality({q \in Q : IsPrefix(m, f[q])}) \in Nat
             /\ t.ref[m] = IF IsPrefix(m, n) THEN Cardinality({q \in Q : IsPrefix(m, f[q])}) + 1
                                             ELSE Cardinality({q \in Q : IsPrefix(m, f[q])})
  <2> DEFINE S == {q \in R : IsPrefix(m, f[q])}
             S2 == {q \in Q : IsPrefix(m, f[q])}
  <2>1. t.ref[m] = Cardinality(S) /\ IsFiniteSet(S2) /\ r \notin S2 BY FS_Subset DEF Locked
  <2>2. Cardinality(S2) \in Nat BY <2>1, FS_CardinalityType
  <2>3. S = IF IsPrefix(m, n) THEN S2 \cup {r} ELSE S2 OBVIOUS
  <2>4. Cardinality(S2 \cup {r}) = Cardinality(S2) + 1
    <3> HIDE DEF S2
    <3> QED BY <2>1, FS_AddElement
  <2> HIDE DEF S, S2
  <2>5. Cardinality(S2) \in Nat /\ t.ref[m] = IF IsPrefix(m, n) THEN Cardinality(S2) + 1 ELSE Cardinality(S2)
    BY <2>1, <2>2, <2>3, <2>4
  <2> QED BY <2>5 DEF S2
<1>5. moved = Cardinality(Paths(n) \ H)
  <2>1. N \subseteq Nodes(t) BY DEF Above
  <2>2. ASSUME NEW p \in DOMAIN t.slot PROVE (\E m \in N : IsOwner(t, m, p)) <=> p \in Paths(n) /\ p \notin H
    <3>1. PICK m \in Nodes(t) : IsOwner(t, m, p) BY DEF Shape
    <3>2. (\E k \in N : IsOwner(t, k, p)) <=> m \in N BY <2>1, <3>1, OwnerUnique
    <3>3. m \in N <=> IsPrefix(m, n) /\ t.ref[m] = 1 BY DEF Above
    <3>4. IsPrefix(m, n) => (t.ref[m] = 1 <=> p \notin H)
      <4>1. IsFiniteSet({q \in Q : IsPrefix(m, f[q])}) BY FS_Subset
      <4>2. Cardinality({q \in Q : IsPrefix(m, f[q])}) = 0 <=> {q \in Q : IsPrefix(m, f[q])} = {}
        BY <4>1, FS_EmptySet
      <4>3. IsPrefix(m, n) => (t.ref[m] = 1 <=> Cardinality({q \in Q : IsPrefix(m, f[q])}) = 0) BY <1>4
      <4>4. \A q \in Q : f[q] \in Nodes(t) \cup {<<>>} BY DEF Locked
      <4>5. \A q \in Q : IsPrefix(p, f[q]) <=> IsPrefix(m, f[q]) BY <3>1, <4>4, OwnerOnPath
      <4> QED BY <1>2, <4>2, <4>3, <4>5
    <3>5. IsPrefix(p, n) <=> IsPrefix(m, n) BY <1>3, <3>1, OwnerOnPath
    <3>6. p \in Word /\ p # <<>> BY DEF Shape
    <3>7. IsPrefix(p, n) <=> p \in Paths(n) BY <1>3, <3>6, PathsAre
    <3> QED BY <3>2, <3>3, <3>4, <3>5, <3>7
  <2> HIDE DEF n, N, H
  <2>3. {p \in DOMAIN t.slot : \E m \in N : IsOwner(t, m, p)} = Paths(n) \ H BY <1>3, <2>2
  <2> QED BY <2>1, <2>3, SizeIs
<1> HIDE DEF moved, N
<1>6. HeldBy(R, f) = H \cup Paths(n) BY DEF HeldBy
<1>7. u.evictable = Cardinality(DOMAIN t.slot \ H) /\ u.protected = Cardinality(H)
  <2> DEFINE P == Paths(n) \ H
             A == DOMAIN t.slot \ H
             B == DOMAIN t.slot \ HeldBy(R, f)
             C == HeldBy(R, f)
  <2>1. /\ A = B \cup P /\ B \cap P = {} /\ C = H \cup P /\ H \cap P = {} BY <1>3, <1>6
  <2>2. IsFiniteSet(P) /\ IsFiniteSet(B) BY <1>3, FS_Subset, FS_Difference DEF Shape
  <2>3. u.evictable = Cardinality(B) + Cardinality(P) /\ u.protected = Cardinality(C) - Cardinality(P)
    BY <1>1, <1>5 DEF Locked
  <2> HIDE DEF P, A, B, C, H
  <2>4. Cardinality(A) = Cardinality(B) + Cardinality(P) BY <2>1, <2>2, CardDisjoint
  <2>5. Cardinality(C) = Cardinality(H) + Cardinality(P) /\ Cardinality(H) \in Nat /\ Cardinality(P) \in Nat
    BY <1>2, <2>1, <2>2, CardDisjoint
  <2>6. u.evictable = Cardinality(A) /\ u.protected = Cardinality(H) BY <2>3, <2>4, <2>5
  <2> QED BY <2>6 DEF A
<1>8. Nodes(u) = Nodes(t) /\ u.slot = t.slot /\ u.ref = ref BY <1>1 DEF Nodes
<1>9. ASSUME NEW m \in Nodes(t) PROVE u.ref[m] = Cardinality({q \in Q : IsPrefix(m, f[q])}) /\ u.ref[m] \in Nat
  <2> DEFINE c == Cardinality({q \in Q : IsPrefix(m, f[q])})
  <2>1. c \in Nat /\ t.ref[m] = IF IsPrefix(m, n) THEN c + 1 ELSE c BY <1>4
  <2>2. u.ref[m] = IF IsPrefix(m, n) THEN t.ref[m] - 1 ELSE t.ref[m] BY <1>8
  <2> HIDE DEF c
  <2>3. u.ref[m] = c /\ u.ref[m] \in Nat BY <2>1, <2>2
  <2> QED BY <2>3 DEF c
<1>10. Shape(u)
  <2>1. u = [ref |-> u.ref, slot |-> u.slot, evictable |-> u.evictable, protected |-> u.protected]
    <3> HIDE DEF ref
    <3> QED BY <1>1
  <2>2. u.ref \in [Nodes(u) -> Nat] BY <1>8, <1>9
  <2>3. \A a, p : IsOwner(u, a, p) <=> IsOwner(t, a, p) BY <1>8 DEF IsOwner
  <2> QED BY <1>8, <2>1, <2>2, <2>3 DEF Shape
<1>11. \A q \in Q : f[q] \in Nodes(u) \cup {<<>>} BY <1>8 DEF Locked
<1>12. Locked(u, Q, f) BY <1>7, <1>8, <1>9, <1>11 DEF Locked
<1> QED BY <1>10, <1>12 DEF u
-------------------------------------------------------------------------------
(* Counting *)

LEMMA Bijected ==
  ASSUME NEW S, IsFiniteSet(S), NEW g, \A i, j \in S : g[i] = g[j] => i = j,
         NEW T, \A y : y \in T <=> \E i \in S : y = g[i]
  PROVE  IsFiniteSet(T) /\ Cardinality(T) = Cardinality(S)
<1> DEFINE h == [i \in S |-> g[i]]
<1>1. h \in Bijection(S, T) BY DEF Bijection, Injection, Surjection, IsInjective
<1>2. ExistsBijection(S, T) BY <1>1 DEF ExistsBijection
<1> QED BY <1>2, FS_Bijection

\* What is counted value by value is counted.
LEMMA Fibres ==
  ASSUME NEW P, IsFiniteSet(P), NEW X, IsFiniteSet(X), NEW g, \A p \in P : g[p] \in X,
         NEW c, \A x \in X : c[x] = Cardinality({p \in P : g[p] = x})
  PROVE  Total(c, X) = Cardinality(P)
<1> DEFINE cnt(Q) == [x \in X |-> Cardinality({p \in Q : g[p] = x})]
           F == {Q \in SUBSET P : Total(cnt(Q), X) = Cardinality(Q)}
<1>0. ASSUME NEW Q \in SUBSET P
      PROVE  IsFiniteSet(Q) /\ \A x \in X : IsFiniteSet({p \in Q : g[p] = x}) /\ cnt(Q)[x] \in Nat
                                            /\ cnt(Q)[x] = Cardinality({p \in Q : g[p] = x})
  <2>1. IsFiniteSet(Q) BY FS_Subset
  <2>2. ASSUME NEW x \in X PROVE IsFiniteSet({p \in Q : g[p] = x}) BY <2>1, FS_Subset
  <2> QED BY <2>1, <2>2, FS_CardinalityType
<1>1. ASSUME NEW Q \in SUBSET P, \A U \in SUBSET Q : U # Q => U \in F PROVE Q \in F
  <2>1. CASE Q = {}
    <3>1. \A x \in X : {p \in Q : g[p] = x} = {} BY <2>1
    <3>2. \A x \in X : cnt(Q)[x] = 0 BY <3>1, FS_EmptySet
    <3> HIDE DEF cnt
    <3>3. Total(cnt(Q), X) = 0 BY <3>2, TotalZero
    <3> QED BY <2>1, <3>3, FS_EmptySet
  <2>2. CASE Q # {}
    <3>1. PICK q \in Q : TRUE BY <2>2
    <3> DEFINE U == Q \ {q}
               y == g[q]
    <3>2. U \in SUBSET Q /\ U # Q /\ U \in SUBSET P /\ Q = U \cup {q} /\ q \notin U /\ y \in X BY <3>1
    <3>3. Total(cnt(U), X) = Cardinality(U) BY <1>1, <3>2
    <3>4. Cardinality(Q) = Cardinality(U) + 1 /\ Cardinality(U) \in Nat
      <4>1. IsFiniteSet(U) BY <1>0, <3>2
      <4> HIDE DEF U
      <4> QED BY <3>2, <4>1, FS_AddElement, FS_CardinalityType
    <3>5. cnt(Q)[y] = cnt(U)[y] + 1
      <4> DEFINE A == {p \in U : g[p] = y}
                 B == {p \in Q : g[p] = y}
      <4>1. B = A \cup {q} /\ q \notin A BY <3>2
      <4>2. IsFiniteSet(A) /\ cnt(U)[y] = Cardinality(A) /\ cnt(Q)[y] = Cardinality(B) BY <1>0, <3>2
      <4> HIDE DEF A, B, cnt
      <4> QED BY <4>1, <4>2, FS_AddElement
    <3>6. ASSUME NEW x \in X \ {y} PROVE cnt(Q)[x] = cnt(U)[x]
      <4>1. {p \in Q : g[p] = x} = {p \in U : g[p] = x} BY <3>2, <3>6
      <4> QED BY <4>1
    <3>7. (\A x \in X : cnt(U)[x] \in Nat) /\ cnt(Q)[y] \in Nat BY <1>0, <3>2
    <3> HIDE DEF cnt, U, y
    <3>8. Total(cnt(Q), X) = Total(cnt(U), X) - cnt(U)[y] + cnt(Q)[y]
      <4>1. \A x \in X : cnt(U)[x] \in Int BY <3>7
      <4>2. cnt(Q)[y] \in Int BY <3>7
      <4>3. \A x \in X \ {y} : cnt(Q)[x] = cnt(U)[x] BY <3>6
      <4>4. y \in X BY <3>2
      <4> QED BY <4>1, <4>2, <4>3, <4>4, TotalChange
    <3>9. cnt(U)[y] \in Nat BY <3>2, <3>7
    <3> QED BY <3>3, <3>4, <3>5, <3>8, <3>9
  <2> QED BY <2>1, <2>2
<1> HIDE DEF F
<1>2. P \in F BY <1>1, FiniteSetInduction
<1>3. Total(cnt(P), X) = Cardinality(P) BY <1>2 DEF F
<1>4. Total(c, X) = Total(cnt(P), X) BY TotalSame
<1> QED BY <1>3, <1>4

\* The positions above a and up to b at which the row r has x.
Places(r, a, b, x) == {i \in a + 1 .. b : r[i] = x}

LEMMA PlacesType ==
  ASSUME NEW r, NEW a \in Int, NEW b \in Int, NEW x
  PROVE  IsFiniteSet(Places(r, a, b, x)) /\ Cardinality(Places(r, a, b, x)) \in Nat
<1>1. IsFiniteSet(a + 1 .. b) BY FS_Interval
<1>2. IsFiniteSet(Places(r, a, b, x)) BY <1>1, FS_Subset DEF Places
<1> QED BY <1>2, FS_CardinalityType

LEMMA PlacesSplit ==
  ASSUME NEW r, NEW a \in Int, NEW b \in Int, NEW c \in Int, a <= b, b <= c, NEW x
  PROVE  Cardinality(Places(r, a, c, x)) = Cardinality(Places(r, a, b, x)) + Cardinality(Places(r, b, c, x))
<1>1. IsFiniteSet(Places(r, a, b, x)) /\ IsFiniteSet(Places(r, b, c, x)) BY PlacesType
<1>2. Places(r, a, b, x) \cap Places(r, b, c, x) = {}
      /\ Places(r, a, c, x) = Places(r, a, b, x) \cup Places(r, b, c, x)
  BY DEF Places
<1> QED BY <1>1, <1>2, CardDisjoint

\* In a part cut out of the row they are as many.
LEMMA PlacesOfPart ==
  ASSUME NEW r \in Seq(Slot), NEW a \in Nat, NEW b \in Nat, a <= b, b <= Len(r), NEW x
  PROVE  Cardinality({i \in DOMAIN SubSeq(r, a + 1, b) : SubSeq(r, a + 1, b)[i] = x})
           = Cardinality(Places(r, a, b, x))
<1> DEFINE s == SubSeq(r, a + 1, b)
           S == {i \in DOMAIN s : s[i] = x}
           T == Places(r, a, b, x)
           g == [i \in 1 .. b - a |-> i + a]
<1>1. DOMAIN s = 1 .. b - a /\ \A i \in 1 .. b - a : s[i] = r[i + a]
  <2>1. DOMAIN s = 1 .. Len(s) /\ Len(s) = b - a
    <3>1. a + 1 \in 1 .. Len(r) + 1 /\ b \in 0 .. Len(r) OBVIOUS
    <3>2. s \in Seq(Slot) BY <3>1
    <3>3. Len(s) = IF a + 1 <= b THEN b - (a + 1) + 1 ELSE 0 BY <3>1
    <3> QED BY <3>2, <3>3
  <2>2. \A i \in 1 .. b - a : s[i] = r[i + a]
    <3>1. \A i \in 1 .. b - a : s[i] = r[a + 1 + i - 1] OBVIOUS
    <3>2. \A i \in 1 .. b - a : a + 1 + i - 1 = i + a OBVIOUS
    <3> QED BY <3>1, <3>2
  <2> QED BY <2>1, <2>2
<1> HIDE DEF s
<1>2. S = {i \in 1 .. b - a : r[i + a] = x} BY <1>1
<1>3. IsFiniteSet(S)
  <2>1. IsFiniteSet(1 .. b - a) BY FS_Interval
  <2> QED BY <1>2, <2>1, FS_Subset
<1>4. \A i, j \in S : g[i] = g[j] => i = j BY <1>2
<1>5. ASSUME NEW y PROVE y \in T <=> \E i \in S : y = g[i]
  <2>1. ASSUME y \in T PROVE \E i \in S : y = g[i]
    <3>1. y \in a + 1 .. b /\ r[y] = x BY <2>1 DEF Places
    <3>2. y - a \in 1 .. b - a /\ (y - a) + a = y BY <3>1
    <3>3. y - a \in S BY <1>2, <3>1, <3>2
    <3> QED BY <3>2, <3>3
  <2>2. ASSUME NEW i \in S, y = g[i] PROVE y \in T
    <3>1. i \in 1 .. b - a /\ r[i + a] = x /\ y = i + a BY <1>2, <2>2
    <3> QED BY <3>1 DEF Places
  <2> QED BY <2>1, <2>2
<1> HIDE DEF S, T, g
<1>6. Cardinality(T) = Cardinality(S) BY <1>3, <1>4, <1>5, Bijected
<1> QED BY <1>6 DEF S, T, s

\* With the request at whose row they are they are as many.
PairsAt(A, M, q, r, a, b, x) == {g \in A \X (1 .. M) : g[1] = q /\ g[2] \in a + 1 .. b /\ r[g[2]] = x}

LEMMA PlacesOfPairs ==
  ASSUME NEW q, NEW A, q \in A, NEW M \in Nat, NEW r, NEW a \in Nat, NEW b \in Nat, b <= M, NEW x
  PROVE  /\ IsFiniteSet(PairsAt(A, M, q, r, a, b, x))
         /\ Cardinality(PairsAt(A, M, q, r, a, b, x)) = Cardinality(Places(r, a, b, x))
<1> DEFINE T == {g \in A \X (1 .. M) : g[1] = q /\ g[2] \in a + 1 .. b /\ r[g[2]] = x}
           S == Places(r, a, b, x)
           h == [i \in a + 1 .. b |-> <<q, i>>]
<1>1. IsFiniteSet(S) BY PlacesType DEF S
<1>2. \A i \in S : h[i] = <<q, i>> /\ i \in 1 .. M /\ i \in a + 1 .. b /\ r[i] = x BY DEF Places
<1>3. \A i, j \in S : h[i] = h[j] => i = j BY <1>2
<1>4. ASSUME NEW y PROVE y \in T <=> \E i \in S : y = h[i]
  <2>1. ASSUME y \in T PROVE \E i \in S : y = h[i]
    <3>1. y \in A \X (1 .. M) /\ y[1] = q /\ y[2] \in a + 1 .. b /\ r[y[2]] = x BY <2>1
    <3>2. y = <<y[1], y[2]>> BY <3>1
    <3>3. y[2] \in S BY <3>1 DEF Places
    <3>4. y = h[y[2]] BY <1>2, <3>1, <3>2, <3>3
    <3> QED BY <3>3, <3>4
  <2>2. ASSUME NEW i \in S, y = h[i] PROVE y \in T
    <3>1. y = <<q, i>> /\ i \in 1 .. M /\ i \in a + 1 .. b /\ r[i] = x BY <1>2, <2>2
    <3>2. y[1] = q /\ y[2] = i /\ y \in A \X (1 .. M) BY <3>1
    <3> QED BY <3>1, <3>2
  <2> QED BY <2>1, <2>2
<1> HIDE DEF S, T, h
<1>5. IsFiniteSet(T) /\ Cardinality(T) = Cardinality(S) BY <1>1, <1>3, <1>4, Bijected
<1> QED BY <1>5 DEF S, T, PairsAt

\* The words insert adds, by the slot they get.
LEMMA PlacesOfWords ==
  ASSUME NEW t, Shape(t), NEW s \in Word, NEW r, NEW x
  PROVE  Cardinality({p \in Paths(s) \ DOMAIN t.slot : r[Len(p)] = x})
           = Cardinality(Places(r, MatchLen(t, s), Len(s), x))
<1> DEFINE k == MatchLen(t, s)
           T == {p \in Paths(s) \ DOMAIN t.slot : r[Len(p)] = x}
           S == Places(r, k, Len(s), x)
           h == [i \in k + 1 .. Len(s) |-> Take(s, i)]
<1>1. /\ k \in Nat /\ Len(s) \in Nat /\ k <= Len(s)
      /\ \A p \in Word : IsPrefix(p, s) /\ p # <<>> => (p \in DOMAIN t.slot <=> Len(p) <= k)
  BY MatchedIs
<1> HIDE DEF k
<1>2. IsFiniteSet(S) BY <1>1, PlacesType
<1>3. ASSUME NEW i \in S
      PROVE  /\ i \in 1 .. Len(s) /\ i > k /\ r[i] = x
             /\ h[i] = Take(s, i) /\ h[i] \in Word /\ Len(h[i]) = i /\ h[i] \in Paths(s) /\ h[i] \notin DOMAIN t.slot
  <2>1. i \in 1 .. Len(s) /\ i > k /\ i \in 0 .. Len(s) /\ r[i] = x /\ h[i] = Take(s, i) BY <1>1 DEF Places
  <2> HIDE DEF h
  <2>2. h[i] \in Word /\ Len(h[i]) = i BY <2>1, TakeType
  <2>3. h[i] \in Paths(s) BY <2>1, PathsAre
  <2>4. IsPrefix(h[i], s) /\ h[i] # <<>> BY <2>3, PathsAre
  <2>5. h[i] \notin DOMAIN t.slot BY <1>1, <2>1, <2>2, <2>4
  <2> QED BY <2>1, <2>2, <2>3, <2>5
<1>4. \A i, j \in S : h[i] = h[j] => i = j BY <1>3
<1>5. ASSUME NEW y PROVE y \in T <=> \E i \in S : y = h[i]
  <2>1. ASSUME y \in T PROVE \E i \in S : y = h[i]
    <3>1. y \in Word /\ y # <<>> /\ IsPrefix(y, s) /\ y \notin DOMAIN t.slot /\ r[Len(y)] = x BY <2>1, PathsAre
    <3>2. Len(y) \in Nat /\ Len(y) <= Len(s) /\ Len(y) > k BY <1>1, <3>1, PrefixLen
    <3>3. Len(y) \in S BY <1>1, <3>1, <3>2 DEF Places
    <3>4. y = Take(s, Len(y)) BY <3>1, PrefixIsTake
    <3> QED BY <1>3, <3>3, <3>4
  <2>2. ASSUME NEW i \in S, y = h[i] PROVE y \in T BY <1>3, <2>2
  <2> QED BY <2>1, <2>2
<1> HIDE DEF S, T, h
<1>6. Cardinality(T) = Cardinality(S) BY <1>2, <1>4, <1>5, Bijected
<1> QED BY <1>6 DEF S, T, k
-------------------------------------------------------------------------------
(* evict *)

Cut(t, n) == [ref  |-> [m \in Nodes(t) \ {n} |-> t.ref[m]],
              slot |-> [p \in DOMAIN t.slot \ Own(t, n) |-> t.slot[p]],
              evictable |-> t.evictable - Cardinality(Own(t, n)),
              protected |-> t.protected]

LEMMA CutIs ==
  ASSUME NEW t, Shape(t), NEW R, IsFiniteSet(R), NEW f, Locked(t, R, f), NEW n \in Leaves(t), NEW u, u = Cut(t, n)
  PROVE  /\ Shape(u) /\ Locked(u, R, f)
         /\ DOMAIN u.slot = DOMAIN t.slot \ Own(t, n) /\ \A p \in DOMAIN u.slot : u.slot[p] = t.slot[p]
         /\ Own(t, n) \subseteq DOMAIN t.slot /\ IsFiniteSet(Own(t, n)) /\ Own(t, n) \cap HeldBy(R, f) = {}
<1> DEFINE O == Own(t, n)
           H == HeldBy(R, f)
           ref == [m \in Nodes(t) \ {n} |-> t.ref[m]]
           slot == [p \in DOMAIN t.slot \ Own(t, n) |-> t.slot[p]]
<1>1. n \in Nodes(t) /\ t.ref[n] = 0 /\ \A m \in Nodes(t) : IsPrefix(n, m) => m = n BY DEF Leaves
<1>2. O = {p \in DOMAIN t.slot : IsOwner(t, n, p)} BY <1>1, OwnIs
<1>3. O \cap H = {} BY <1>1, <1>2, RefIsZero
<1>4. H \subseteq DOMAIN t.slot /\ IsFiniteSet(H) BY HeldIs DEF Locked
<1> HIDE DEF O, H
<1>5. u = [ref |-> ref, slot |-> slot, evictable |-> t.evictable - Cardinality(O), protected |-> t.protected]
  BY DEF Cut, O
<1>6. /\ Nodes(u) = Nodes(t) \ {n} /\ DOMAIN u.slot = DOMAIN t.slot \ O
      /\ (\A m \in Nodes(u) : u.ref[m] = t.ref[m]) /\ (\A p \in DOMAIN u.slot : u.slot[p] = t.slot[p])
      /\ u.evictable = t.evictable - Cardinality(O) /\ u.protected = t.protected
  BY <1>5 DEF Nodes, O
<1>7. u = [ref |-> u.ref, slot |-> u.slot, evictable |-> u.evictable, protected |-> u.protected]
  <2> HIDE DEF ref, slot
  <2> QED BY <1>5
<1>8. u.ref \in [Nodes(u) -> Nat] /\ u.slot \in [DOMAIN u.slot -> Slot]
  <2>1. u.ref = ref /\ u.slot = slot BY <1>5
  <2>2. ref \in [Nodes(t) \ {n} -> Nat] BY DEF Shape
  <2>3. slot \in [DOMAIN t.slot \ O -> Slot] BY DEF Shape, O
  <2> QED BY <1>6, <2>1, <2>2, <2>3
<1>9. IsFiniteSet(DOMAIN u.slot) /\ IsFiniteSet(O) BY <1>2, <1>6, FS_Subset DEF Shape
<1>10. ASSUME NEW m \in Nodes(u) PROVE m \in DOMAIN u.slot
  <2>1. m \in Nodes(t) /\ m # n /\ m \in DOMAIN t.slot /\ m \in Word BY <1>6 DEF Shape
  <2>2. IsOwner(t, m, m) BY <2>1, PrefixRefl DEF IsOwner
  <2>3. m \notin O BY <1>2, <2>1, <2>2, OwnerUnique
  <2> QED BY <1>6, <2>1, <2>3
<1>11. ASSUME NEW p \in DOMAIN u.slot PROVE \E m \in Nodes(u) : IsOwner(u, m, p)
  <2>1. p \in DOMAIN t.slot /\ p \notin O BY <1>6
  <2>2. PICK m \in Nodes(t) : IsOwner(t, m, p) BY <2>1 DEF Shape
  <2>3. m # n BY <1>2, <2>1, <2>2
  <2>4. IsOwner(u, m, p) BY <1>6, <2>2, <2>3 DEF IsOwner
  <2> QED BY <1>6, <2>3, <2>4
<1>12. ASSUME NEW p \in DOMAIN u.slot, NEW q \in Paths(p) PROVE q \in DOMAIN u.slot
  <2>1. p \in DOMAIN t.slot /\ p \notin O /\ p \in Word BY <1>6 DEF Shape
  <2>2. q \in DOMAIN t.slot /\ q \in Word /\ IsPrefix(q, p) BY <2>1, PathsAre DEF Shape
  <2>3. ASSUME q \in O PROVE FALSE
    <3>1. IsOwner(t, n, q) BY <1>2, <2>3
    <3>2. PICK m \in Nodes(t) : IsOwner(t, m, p) BY <2>1 DEF Shape
    <3>3. m \in Word /\ IsPrefix(p, m) BY <3>2 DEF IsOwner, Shape
    <3>4. IsPrefix(q, m) BY <2>1, <2>2, <3>3, PrefixTrans
    <3>5. m = n BY <1>1, <3>1, <3>2, <3>4 DEF IsOwner
    <3> QED BY <1>2, <2>1, <3>2, <3>5
  <2> QED BY <1>6, <2>2, <2>3
<1>13. Shape(u)
  <2>1. Nodes(u) \subseteq DOMAIN u.slot BY <1>10
  <2>2. \A p \in DOMAIN u.slot : Paths(p) \subseteq DOMAIN u.slot BY <1>12
  <2>3. DOMAIN u.slot \subseteq Word \ {<<>>} BY <1>6 DEF Shape
  <2> QED BY <1>7, <1>8, <1>9, <1>11, <2>1, <2>2, <2>3 DEF Shape
<1>14. \A r \in R : f[r] \in Nodes(u) \cup {<<>>}
  <2> TAKE r \in R
  <2>1. f[r] \in Nodes(t) \cup {<<>>} BY DEF Locked
  <2>2. f[r] # n
    <3> SUFFICES ASSUME f[r] = n PROVE FALSE
      OBVIOUS
    <3>1. n \in DOMAIN t.slot /\ n \in Word BY <1>1 DEF Shape
    <3>2. IsOwner(t, n, n) BY <1>1, <3>1, PrefixRefl DEF IsOwner
    <3>3. n \notin H BY <1>1, <3>1, <3>2, RefIsZero DEF H
    <3>4. n \in Paths(f[r]) BY <3>1, PrefixRefl, PathsAre DEF Shape
    <3> QED BY <3>3, <3>4 DEF H, HeldBy
  <2> QED BY <1>6, <2>1, <2>2
<1>15. u.evictable = Cardinality(DOMAIN u.slot \ H)
  <2> DEFINE B == DOMAIN u.slot \ H
             C == DOMAIN t.slot \ H
  <2>1. C = B \cup O /\ B \cap O = {} BY <1>2, <1>3, <1>6
  <2>2. IsFiniteSet(B) BY <1>9, FS_Subset
  <2>3. t.evictable = Cardinality(C) BY DEF Locked, H
  <2> HIDE DEF B, C
  <2>4. Cardinality(C) = Cardinality(B) + Cardinality(O) /\ Cardinality(B) \in Nat /\ Cardinality(O) \in Nat
    BY <1>9, <2>1, <2>2, CardDisjoint
  <2>5. u.evictable = Cardinality(B) BY <1>6, <2>3, <2>4
  <2> QED BY <2>5 DEF B
<1>16. Locked(u, R, f) BY <1>6, <1>14, <1>15 DEF Locked, H
<1> QED BY <1>2, <1>3, <1>6, <1>9, <1>13, <1>16 DEF O, H

\* When nothing may go, nothing is evictable: below a node nobody holds there is a
\* leaf nobody holds.
LEMMA LeavesFound ==
  ASSUME NEW t, Shape(t), NEW R, IsFiniteSet(R), NEW f, Locked(t, R, f), Leaves(t) = {}
  PROVE  t.evictable = 0 /\ DOMAIN t.slot = HeldBy(R, f)
<1> DEFINE Z == {n \in Nodes(t) : t.ref[n] = 0}
           below(n) == {m \in Nodes(t) : IsPrefix(n, m)}
           C == {Cardinality(below(n)) : n \in Z}
<1>0. \A n \in Nodes(t) : n \in Word BY DEF Shape
<1>1. \A n \in Nodes(t) : IsFiniteSet(below(n)) /\ Cardinality(below(n)) \in Nat
  <2> TAKE n \in Nodes(t)
  <2>1. IsFiniteSet(Nodes(t)) BY FS_Subset DEF Shape
  <2>2. IsFiniteSet(below(n)) BY <2>1, FS_Subset
  <2> QED BY <2>2, FS_CardinalityType
<1>2. Z = {}
  <2> SUFFICES ASSUME Z # {} PROVE FALSE
    OBVIOUS
  <2>1. C \subseteq Nat /\ C # {} BY <1>1
  <2>2. PICK c \in C : \A d \in C : c <= d BY <2>1, LeastNat
  <2>3. PICK n \in Z : c = Cardinality(below(n)) BY <2>2
  <2>4. PICK m \in Nodes(t) : IsPrefix(n, m) /\ m # n BY <2>3 DEF Leaves
  <2>5. m \in Z
    <3>1. t.ref[n] = Cardinality({r \in R : IsPrefix(n, f[r])}) /\ t.ref[n] = 0
          /\ t.ref[m] = Cardinality({r \in R : IsPrefix(m, f[r])})
      BY <2>3 DEF Locked
    <3>2. IsFiniteSet({r \in R : IsPrefix(n, f[r])}) BY FS_Subset
    <3>3. {r \in R : IsPrefix(n, f[r])} = {} BY <3>1, <3>2, FS_EmptySet
    <3>4. \A r \in R : f[r] \in Word BY <1>0, EmptyWord DEF Locked
    <3>5. \A r \in R : IsPrefix(m, f[r]) => IsPrefix(n, f[r]) BY <1>0, <2>3, <2>4, <3>4, PrefixTrans
    <3>6. {r \in R : IsPrefix(m, f[r])} = {} BY <3>3, <3>5
    <3> QED BY <3>1, <3>6, FS_EmptySet
  <2>6. below(m) \subseteq below(n) /\ n \in below(n) /\ n \notin below(m)
    <3>1. n \in Word /\ m \in Word BY <1>0, <2>3
    <3>2. \A k \in Nodes(t) : IsPrefix(m, k) => IsPrefix(n, k) BY <1>0, <2>4, <3>1, PrefixTrans
    <3>3. ~IsPrefix(m, n)
      <4> SUFFICES ASSUME IsPrefix(m, n) PROVE FALSE
        OBVIOUS
      <4>1. Len(n) <= Len(m) /\ Len(m) <= Len(n) BY <2>4, <3>1, PrefixLen
      <4> QED BY <2>4, <3>1, <4>1, PrefixAntisym
    <3> QED BY <2>3, <3>1, <3>2, <3>3, PrefixRefl
  <2>7. Cardinality(below(m)) < Cardinality(below(n))
    <3> DEFINE X == below(m)
               Y == below(n)
    <3>1. X \subseteq Y /\ X # Y /\ IsFiniteSet(Y) BY <1>1, <2>3, <2>6
    <3> HIDE DEF X, Y
    <3>2. IsFiniteSet(X) /\ Cardinality(X) <= Cardinality(Y) /\ Cardinality(X) # Cardinality(Y) BY <3>1, FS_Subset
    <3>3. Cardinality(X) \in Nat /\ Cardinality(Y) \in Nat BY <3>1, <3>2, FS_CardinalityType
    <3>4. Cardinality(X) < Cardinality(Y) BY <3>2, <3>3
    <3> QED BY <3>4 DEF X, Y
  <2>8. Cardinality(below(m)) \in C BY <2>5
  <2>9. c <= Cardinality(below(m)) /\ c \in Nat /\ Cardinality(below(m)) \in Nat BY <1>1, <2>1, <2>2, <2>4, <2>8
  <2> HIDE DEF below, C, Z
  <2> QED BY <2>3, <2>7, <2>9
<1>3. DOMAIN t.slot \ HeldBy(R, f) = {}
  <2> SUFFICES ASSUME NEW p \in DOMAIN t.slot, p \notin HeldBy(R, f) PROVE FALSE
    OBVIOUS
  <2>1. PICK n \in Nodes(t) : IsOwner(t, n, p) BY DEF Shape
  <2>2. t.ref[n] = 0 BY <2>1, RefIsZero
  <2> QED BY <1>2, <2>2
<1>4. HeldBy(R, f) \subseteq DOMAIN t.slot BY HeldIs DEF Locked
<1> QED BY <1>3, <1>4, FS_EmptySet DEF Locked
-------------------------------------------------------------------------------
(* The inductive invariant *)

Request ==
  [ids : Word, row : Seq(Slot), prefix : Nat, last : Word, at : {"out", "admitted", "computed", "running"}]

Typed ==
  /\ free \in [Slot -> Nat]
  /\ req \in [Req -> Request]
  /\ job \in [for : {"none", "extend", "decode"}, batch : SUBSET Req, evict : Int, retracted : BOOLEAN]

\* What is true of a request q with the tree t, where more is what a running request
\* waits for: the row goes as far as the phase says, and below the prefix it is the tree's.
Fits(t, q, more) ==
  /\ q.prefix <= Len(q.row) /\ q.prefix <= Len(q.ids) /\ Len(q.ids) <= MaxLen
  /\ q.last = Take(q.ids, q.prefix)
  /\ \A i \in 1 .. q.prefix : Take(q.ids, i) \in DOMAIN t.slot /\ t.slot[Take(q.ids, i)] = q.row[i]
  /\ q.at = "out" => q = Out
  /\ q.at = "admitted" => Len(q.row) = q.prefix
  /\ q.at = "computed" => Len(q.row) = Len(q.ids)
  /\ q.at = "running" => Len(q.ids) = Len(q.row) + more

More == IF job.for = "decode" THEN 1 ELSE 0

\* The two kinds of batch never overlap.
Phased ==
  /\ job.for = "none" => job = NoJob
  /\ job.for = "none" => At("admitted") = {} \/ At("computed") = {}
  /\ job.for = "extend" => job.batch = At("admitted") /\ At("computed") = {} /\ job.retracted = FALSE
  /\ job.for = "decode" => job.batch = At("running") /\ At("admitted") = {} /\ At("computed") = {}

Lasts == [r \in Req |-> req[r].last]

Sound ==
  /\ Typed /\ Phased
  /\ Shape(tree) /\ Locked(tree, Admitted, Lasts)
  /\ \A r \in Req : Fits(tree, req[r], More)

\* What was promised to a prefill is there or evictable; what a batch needs is there
\* or still to be evicted.
Promised == Lacking(At("admitted")) <= Available + tree.evictable
Pending ==
  /\ job.for = "extend" => Lacking(job.batch) <= Available + job.evict
  /\ job.for = "decode" => Cardinality(job.batch) <= Available + job.evict
LEMMA NoJobIs ==
  /\ NoJob.for = "none" /\ NoJob.batch = {} /\ NoJob.evict = 0 /\ NoJob.retracted = FALSE
  /\ NoJob \in [for : {"none", "extend", "decode"}, batch : SUBSET Req, evict : Int, retracted : BOOLEAN]
BY DEF NoJob

LEMMA OutIs ==
  /\ Out.ids = <<>> /\ Out.row = <<>> /\ Out.prefix = 0 /\ Out.last = <<>> /\ Out.at = "out"
  /\ Out \in Request
  /\ \A t, m : Fits(t, Out, m)
<1>1. Out.ids = <<>> /\ Out.row = <<>> /\ Out.prefix = 0 /\ Out.last = <<>> /\ Out.at = "out" BY DEF Out
<1>2. Out \in Request
  <2>1. <<>> \in Word /\ <<>> \in Seq(Slot) /\ 0 \in Nat BY EmptyWord
  <2> QED BY <2>1 DEF Out, Request
<1>3. Len(<<>>) = 0 /\ 0 <= MaxLen BY CacheAssumption
<1>4. <<>> = Take(<<>>, 0)
  <2>1. <<>> \in Word /\ Len(<<>>) = 0 BY EmptyWord
  <2> QED BY <2>1, TakeAll
<1>5. ASSUME NEW t, NEW m PROVE Fits(t, Out, m) BY <1>1, <1>3, <1>4 DEF Fits
<1> QED BY <1>1, <1>2, <1>5

LEMMA KeysAre ==
  ASSUME NEW s \in Keys
  PROVE  s \in Word /\ Len(s) \in 1 .. MaxLen /\ MaxLen \in Nat
<1>1. PICK n \in 1 .. MaxLen : s \in [1 .. n -> Token] BY DEF Keys
<1>2. n \in Nat /\ MaxLen \in Nat BY CacheAssumption
<1>3. s \in Seq(Token) /\ Len(s) = n BY <1>1, <1>2
<1> QED BY <1>1, <1>2, <1>3 DEF Word

LEMMA LockedSame ==
  ASSUME NEW t, NEW R, NEW f, NEW g, Locked(t, R, f), \A r \in R : g[r] = f[r]
  PROVE  Locked(t, R, g)
<1>1. HeldBy(R, g) = HeldBy(R, f) BY DEF HeldBy
<1>2. \A n : {r \in R : IsPrefix(n, g[r])} = {r \in R : IsPrefix(n, f[r])} OBVIOUS
<1> QED BY <1>1, <1>2 DEF Locked

LEMMA LockedType ==
  ASSUME NEW t, Shape(t), NEW R, NEW f, Locked(t, R, f)
  PROVE  t.evictable \in Nat /\ t.protected \in Nat
<1>1. IsFiniteSet(HeldBy(R, f)) BY HeldIs DEF Locked
<1>2. IsFiniteSet(DOMAIN t.slot \ HeldBy(R, f)) BY FS_Subset DEF Shape
<1> QED BY <1>1, <1>2, FS_CardinalityType DEF Locked

\* Where the words it holds have the slots they had, a request stays as it was.
LEMMA FitsOn ==
  ASSUME NEW t, NEW u, NEW q \in Request, NEW m, NEW k, Fits(t, q, m), q.at = "running" => k = m,
         \A i \in 1 .. q.prefix : Take(q.ids, i) \in DOMAIN u.slot /\ u.slot[Take(q.ids, i)] = t.slot[Take(q.ids, i)]
  PROVE  Fits(u, q, k)
BY DEF Fits

\* What a request holds.
LEMMA FitsWords ==
  ASSUME NEW t, NEW q \in Request, NEW m, Fits(t, q, m)
  PROVE  /\ Len(q.ids) \in Nat /\ Len(q.row) \in Nat /\ Len(q.ids) <= MaxLen
         /\ q.prefix \in Nat /\ q.prefix <= Len(q.ids) /\ q.prefix <= Len(q.row)
         /\ Len(q.last) = q.prefix /\ IsPrefix(q.last, q.ids)
         /\ \A i \in 1 .. q.prefix : Take(q.ids, i) \in Paths(q.last)
         /\ \A i \in 1 .. Len(q.row) : q.row[i] \in Slot
<1>1. q.ids \in Word /\ q.last \in Word /\ q.row \in Seq(Slot) /\ q.prefix \in Nat BY DEF Request
<1>2. q.prefix <= Len(q.ids) /\ q.prefix <= Len(q.row) /\ Len(q.ids) <= MaxLen /\ q.last = Take(q.ids, q.prefix)
  BY DEF Fits
<1>3. Len(q.ids) \in Nat /\ Len(q.row) \in Nat /\ q.prefix \in 0 .. Len(q.ids) BY <1>1, <1>2 DEF Word
<1>4. Len(q.last) = q.prefix /\ IsPrefix(q.last, q.ids) BY <1>1, <1>2, <1>3, TakeType, TakeIsPrefix
<1>5. ASSUME NEW i \in 1 .. q.prefix PROVE Take(q.ids, i) \in Paths(q.last)
  <2>1. i \in 0 .. q.prefix /\ i \in 1 .. Len(q.last) BY <1>4
  <2>2. Take(q.last, i) = Take(q.ids, i) BY <1>1, <1>2, <1>3, <2>1, TakeTake
  <2> QED BY <1>1, <2>1, <2>2, PathsAre
<1>6. \A i \in 1 .. Len(q.row) : q.row[i] \in Slot BY <1>1
<1> QED BY <1>1, <1>2, <1>3, <1>4, <1>5, <1>6

LEMMA FitsRow ==
  ASSUME NEW t, NEW q \in Request, NEW m \in Nat, Fits(t, q, m)
  PROVE  Len(q.row) <= Len(q.ids) /\ Len(q.row) <= MaxLen
<1>1. q.at \in {"out", "admitted", "computed", "running"} BY DEF Request
<1>2. q.at = "out" => Len(q.row) = 0 /\ Len(q.ids) = 0 BY OutIs DEF Fits
<1>3. q.prefix \in Nat /\ q.prefix <= Len(q.ids) /\ Len(q.ids) \in Nat /\ Len(q.row) \in Nat /\ Len(q.ids) <= MaxLen
  BY FitsWords
<1>4. /\ q.at = "admitted" => Len(q.row) = q.prefix
      /\ q.at = "computed" => Len(q.row) = Len(q.ids)
      /\ q.at = "running" => Len(q.ids) = Len(q.row) + m
  BY DEF Fits
<1>5. MaxLen \in Nat BY CacheAssumption
<1> QED BY <1>1, <1>2, <1>3, <1>4, <1>5

LEMMA ReqFinite ==
  /\ IsFiniteSet(Req) /\ IsFiniteSet(Slot) /\ IsFiniteSet(Admitted)
  /\ \A R \in SUBSET Req : IsFiniteSet(R)
  /\ \A place : At(place) \in SUBSET Req
<1>1. \A R \in SUBSET Req : IsFiniteSet(R) BY CacheAssumption, FS_Subset
<1>2. Admitted \in SUBSET Req BY DEF Admitted
<1> QED BY <1>1, <1>2, CacheAssumption DEF At

LEMMA CountsType ==
  ASSUME Sound
  PROVE  /\ Available \in Int
         /\ \A R \in SUBSET Req : Lacking(R) \in Int /\ Cardinality(R) \in Nat
<1>1. Available \in Int
  <2>1. \A x \in Slot : free[x] \in Int BY DEF Sound, Typed
  <2> QED BY <2>1, ReqFinite, TotalType DEF Available
<1>2. ASSUME NEW R \in SUBSET Req PROVE Lacking(R) \in Int /\ Cardinality(R) \in Nat
  <2> DEFINE d == [r \in R |-> Len(req[r].ids) - Len(req[r].row)]
  <2>1. \A r \in R : req[r] \in Request /\ Fits(tree, req[r], More) BY DEF Sound, Typed
  <2>2. \A r \in R : Len(req[r].ids) \in Nat /\ Len(req[r].row) \in Nat BY <2>1, FitsWords
  <2>3. \A r \in R : d[r] \in Int BY <2>2
  <2>4. Lacking(R) = Total(d, R) BY DEF Lacking
  <2> HIDE DEF d
  <2>5. IsFiniteSet(R) BY ReqFinite
  <2> QED BY <2>3, <2>4, <2>5, TotalType, FS_CardinalityType
<1> QED BY <1>1, <1>2

LEMMA SoundInit == ASSUME Init PROVE Sound
<1>1. Typed BY NoJobIs, OutIs DEF Init, Typed
<1>2. \A r \in Req : req[r] = Out BY DEF Init
<1>3. Admitted = {} BY <1>2, OutIs DEF Admitted
<1>4. \A place : place # "out" => At(place) = {} BY <1>2, OutIs DEF At
<1>5. Phased BY <1>4, NoJobIs DEF Init, Phased
<1> QED BY <1>1, <1>2, <1>3, <1>5, OutIs, EmptyShape, EmptyLocked DEF Init, Sound
-------------------------------------------------------------------------------
(* The steps *)

SoundParts ==
  /\ free \in [Slot -> Nat] /\ req \in [Req -> Request]
  /\ job \in [for : {"none", "extend", "decode"}, batch : SUBSET Req, evict : Int, retracted : BOOLEAN]
  /\ Phased /\ Shape(tree) /\ Locked(tree, Admitted, Lasts)
  /\ \A r \in Req : Fits(tree, req[r], More)

LEMMA SoundIs == ASSUME Sound PROVE SoundParts
BY DEF Sound, SoundParts, Typed

LEMMA RefuseSound == ASSUME Sound, NEW s \in Keys, Refuse(s) PROVE Sound'
<1>0. SoundParts BY SoundIs
<1> USE <1>0 DEF SoundParts
<1>1. tree' = Split(tree, Matched(tree, s)) /\ req' = req /\ free' = free /\ job' = job BY DEF Refuse
<1>2. Matched(tree, s) \in DOMAIN tree.slot \cup {<<>>} BY KeysAre, MatchedIs
<1>3. Shape(tree') /\ tree'.slot = tree.slot BY <1>1, <1>2, SplitIs
<1>4. Locked(tree', Admitted, Lasts) BY <1>1, <1>2, SplitLocked
<1>5. Admitted' = Admitted /\ Lasts' = Lasts /\ More' = More /\ Phased'
  BY <1>1 DEF Admitted, Lasts, More, Phased, At
<1>6. \A r \in Req : Fits(tree', req[r], More)
  <2> TAKE r \in Req
  <2>1. req[r] \in Request /\ Fits(tree, req[r], More) OBVIOUS
  <2>2. \A i \in 1 .. req[r].prefix : Take(req[r].ids, i) \in DOMAIN tree'.slot
          /\ tree'.slot[Take(req[r].ids, i)] = tree.slot[Take(req[r].ids, i)]
    BY <1>3, <2>1 DEF Fits
  <2> QED BY <2>1, <2>2, FitsOn
<1> QED BY <1>1, <1>3, <1>4, <1>5, <1>6 DEF Sound, Typed

\* The request a match admits.
LEMMA AdmitIs ==
  ASSUME Sound, NEW r \in Req, NEW s \in Keys, NEW limit \in 0 .. MaxLen - 1, Admit(r, s, limit),
         NEW p, p = Matched(tree, Take(s, limit))
  PROVE  /\ p \in Word /\ Len(p) \in Nat /\ p \in DOMAIN tree.slot \cup {<<>>} /\ IsPrefix(p, s)
         /\ Len(p) <= Len(s) /\ Len(s) <= MaxLen /\ Take(s, Len(p)) = p
         /\ DOMAIN p = 1 .. Len(p)
         /\ \A i \in 1 .. Len(p) : Take(s, i) \in DOMAIN tree.slot
<1>1. s \in Word /\ Len(s) \in Nat /\ limit \in 0 .. Len(s) /\ Len(s) <= MaxLen BY KeysAre DEF Admit
<1>2. Take(s, limit) \in Word /\ IsPrefix(Take(s, limit), s) BY <1>1, TakeType, TakeIsPrefix
<1>3. Shape(tree) BY DEF Sound
<1> DEFINE w == Take(s, limit)
<1> HIDE DEF w
<1>4. w \in Word /\ IsPrefix(w, s) /\ p = Matched(tree, w) BY <1>2 DEF w
<1>5. /\ p \in Word /\ IsPrefix(p, w) /\ Len(p) = MatchLen(tree, w) /\ p \in DOMAIN tree.slot \cup {<<>>}
      /\ \A q \in Word : IsPrefix(q, w) /\ q # <<>> => (q \in DOMAIN tree.slot <=> Len(q) <= MatchLen(tree, w))
  BY <1>3, <1>4, MatchedIs
<1>6. IsPrefix(p, s) BY <1>1, <1>4, <1>5, PrefixTrans
<1>7. Len(p) \in Nat /\ Len(p) <= Len(s) /\ Take(s, Len(p)) = p BY <1>1, <1>5, <1>6, PrefixLen, PrefixIsTake
<1>8. ASSUME NEW i \in 1 .. Len(p) PROVE Take(s, i) \in DOMAIN tree.slot
  <2>1. i \in 0 .. Len(s) /\ i \in 1 .. Len(s) BY <1>1, <1>7
  <2>2. Take(s, i) \in Word /\ Len(Take(s, i)) = i /\ Take(s, i) # <<>> /\ IsPrefix(Take(s, i), s)
    BY <1>1, <2>1, TakeType, PathsAre
  <2>3. IsPrefix(Take(s, i), p) BY <1>1, <1>5, <1>6, <2>2, PrefixComparable
  <2>4. IsPrefix(Take(s, i), w) BY <1>4, <1>5, <2>2, <2>3, PrefixTrans
  <2> QED BY <1>5, <2>2, <2>4
<1>9. DOMAIN p = 1 .. Len(p) BY <1>5 DEF Word
<1> QED BY <1>1, <1>5, <1>6, <1>7, <1>8, <1>9

LEMMA AdmitTree ==
  ASSUME NEW t, Shape(t), NEW R, IsFiniteSet(R), NEW f, Locked(t, R, f),
         NEW p \in DOMAIN t.slot \cup {<<>>}, NEW r, r \notin R, NEW g, g[r] = p, \A o \in R : g[o] = f[o]
  PROVE  Locked(IncLockRef(Split(t, p), p), R \cup {r}, g)
<1> DEFINE v == Split(t, p)
<1>1. Shape(v) /\ p \in Nodes(v) \cup {<<>>} /\ Locked(v, R, f) BY SplitIs, SplitLocked
<1> HIDE DEF v
<1>2. Locked(v, R, g) BY <1>1, LockedSame
<1>3. g[r] \in Nodes(v) \cup {<<>>} BY <1>1
<1>4. Locked(IncLockRef(v, p), R \cup {r}, g) BY <1>1, <1>2, <1>3, IncLocked
<1> QED BY <1>4 DEF v

LEMMA AdmitSound ==
  ASSUME Sound, NEW r \in Req, NEW s \in Keys, NEW limit \in 0 .. MaxLen - 1, Admit(r, s, limit)
  PROVE  Sound'
<1>0. SoundParts BY SoundIs
<1> USE <1>0 DEF SoundParts
<1> DEFINE p == Matched(tree, Take(s, limit))
           row == [i \in DOMAIN p |-> tree.slot[Take(s, i)]]
           q == [ids |-> s, row |-> row, prefix |-> Len(p), last |-> p, at |-> "admitted"]
<1>1. /\ tree' = IncLockRef(Split(tree, p), p) /\ req' = [req EXCEPT ![r] = q] /\ free' = free /\ job' = job
      /\ job = NoJob /\ At("computed") = {} /\ r \notin Admitted
  BY DEF Admit, Idle
<1>2. /\ p \in Word /\ Len(p) \in Nat /\ p \in DOMAIN tree.slot \cup {<<>>} /\ IsPrefix(p, s)
      /\ Len(p) <= Len(s) /\ Len(s) <= MaxLen /\ Take(s, Len(p)) = p
      /\ DOMAIN p = 1 .. Len(p)
      /\ \A i \in 1 .. Len(p) : Take(s, i) \in DOMAIN tree.slot
  BY AdmitIs
<1>3. s \in Word BY KeysAre
<1> HIDE DEF p
<1>4. row \in Seq(Slot) /\ Len(row) = Len(p) /\ \A i \in 1 .. Len(p) : row[i] = tree.slot[Take(s, i)]
  <2>1. row = [i \in 1 .. Len(p) |-> tree.slot[Take(s, i)]] BY <1>2
  <2>2. \A i \in 1 .. Len(p) : tree.slot[Take(s, i)] \in Slot BY <1>2 DEF Shape
  <2> QED BY <1>2, <2>1, <2>2
<1> HIDE DEF row
<1>5. q \in Request /\ q.at = "admitted" /\ q.last = p BY <1>2, <1>3, <1>4 DEF Request
<1>6. /\ req' \in [Req -> Request] /\ req'[r] = q /\ \A o \in Req \ {r} : req'[o] = req[o]
  <2> HIDE DEF q
  <2> QED BY <1>1, <1>5
<1>7. /\ q.ids = s /\ q.row = row /\ q.prefix = Len(p) OBVIOUS
<1> HIDE DEF q
<1>8. Admitted' = Admitted \cup {r} /\ Lasts'[r] = p /\ \A o \in Admitted : Lasts'[o] = Lasts[o]
  BY <1>1, <1>5, <1>6 DEF Admitted, Lasts
<1>9. At("computed")' = {} /\ More' = More /\ More = 0 /\ Phased'
  <2>1. At("computed")' = {} BY <1>1, <1>5, <1>6 DEF At
  <2> QED BY <1>1, <2>1, NoJobIs DEF More, Phased
<1>10. IsFiniteSet(Admitted) /\ r \notin Admitted BY <1>1, ReqFinite
<1>14. Shape(tree') /\ Locked(tree', Admitted \cup {r}, Lasts') /\ tree'.slot = tree.slot
  <2>1. Lasts'[r] = p /\ \A o \in Admitted : Lasts'[o] = Lasts[o] BY <1>8
  <2> DEFINE g == Lasts'
  <2>2. g[r] = p /\ \A o \in Admitted : g[o] = Lasts[o] BY <2>1
  <2>3. p \in DOMAIN tree.slot \cup {<<>>} BY <1>2
  <2> HIDE DEF g
  <2>4. Locked(IncLockRef(Split(tree, p), p), Admitted \cup {r}, g) BY <1>10, <2>2, <2>3, AdmitTree
  <2>5. Shape(Split(tree, p)) /\ Split(tree, p).slot = tree.slot BY <2>3, SplitIs
  <2> QED BY <1>1, <2>4, <2>5, IncShape DEF g
<1>15. ASSUME NEW o \in Req PROVE Fits(tree', req'[o], 0)
  <2>1. CASE o = r
    <3> SUFFICES Fits(tree', q, 0) BY <1>6, <2>1
    <3>1. \A i \in 1 .. Len(p) : Take(s, i) \in DOMAIN tree'.slot /\ tree'.slot[Take(s, i)] = row[i]
      BY <1>2, <1>4, <1>14
    <3> QED BY <1>2, <1>4, <1>5, <1>7, <3>1 DEF Fits
  <2>2. CASE o # r
    <3>1. req[o] \in Request /\ Fits(tree, req[o], 0) BY <1>9
    <3>2. \A i \in 1 .. req[o].prefix : Take(req[o].ids, i) \in DOMAIN tree'.slot
            /\ tree'.slot[Take(req[o].ids, i)] = tree.slot[Take(req[o].ids, i)]
      BY <1>14, <3>1 DEF Fits
    <3>3. Fits(tree', req[o], 0) BY <3>1, <3>2, FitsOn
    <3> QED BY <1>6, <2>2, <3>3
  <2> QED BY <2>1, <2>2
<1> QED BY <1>1, <1>6, <1>8, <1>9, <1>14, <1>15 DEF Sound, Typed

LEMMA ExtendSound == ASSUME Sound, Extend PROVE Sound'
<1>0. SoundParts BY SoundIs
<1> USE <1>0 DEF SoundParts
<1>1. /\ job' = [NoJob EXCEPT !.for = "extend", !.batch = At("admitted"), !.evict = ToEvict(Lacking(At("admitted")))]
      /\ tree' = tree /\ free' = free /\ req' = req /\ job = NoJob /\ At("computed") = {}
  BY DEF Extend, Idle
<1>2. ToEvict(Lacking(At("admitted"))) \in Int BY ReqFinite, CountsType DEF ToEvict
<1>3. job' = [for |-> "extend", batch |-> At("admitted"), evict |-> ToEvict(Lacking(At("admitted"))), retracted |-> FALSE]
  BY <1>1 DEF NoJob
<1>4. At("admitted") \in SUBSET Req BY ReqFinite
<1>5. job' \in [for : {"none", "extend", "decode"}, batch : SUBSET Req, evict : Int, retracted : BOOLEAN]
  BY <1>2, <1>3, <1>4
<1>6. job'.for = "extend" /\ job'.batch = At("admitted") /\ job'.retracted = FALSE BY <1>3
<1>7. At("admitted")' = At("admitted") /\ At("computed")' = {} BY <1>1 DEF At
<1>8. Phased' BY <1>6, <1>7 DEF Phased
<1>9. More' = More /\ Admitted' = Admitted /\ Lasts' = Lasts BY <1>1, <1>6, NoJobIs DEF More, Admitted, Lasts
<1> QED BY <1>1, <1>5, <1>8, <1>9 DEF Sound, Typed

LEMMA DecodeSound == ASSUME Sound, NEW next \in [At("running") -> Token], Decode(next) PROVE Sound'
<1>0. SoundParts BY SoundIs
<1> USE <1>0 DEF SoundParts
<1> DEFINE R == At("running")
<1>1. /\ job' = [NoJob EXCEPT !.for = "decode", !.batch = R, !.evict = ToEvict(Cardinality(R))]
      /\ req' = [r \in Req |-> IF req[r].at = "running" THEN [req[r] EXCEPT !.ids = Append(@, next[r])] ELSE req[r]]
      /\ tree' = tree /\ free' = free /\ job = NoJob /\ At("computed") = {} /\ At("admitted") = {}
      /\ \A r \in R : Len(req[r].ids) < MaxLen
  BY DEF Decode, Idle
<1>2. R \in SUBSET Req /\ ToEvict(Cardinality(R)) \in Int
  <2>1. R \in SUBSET Req BY ReqFinite
  <2>2. Cardinality(R) \in Nat BY <2>1, CountsType
  <2> QED BY <2>1, <2>2 DEF ToEvict
<1>3. \A r \in Req : r \in R <=> req[r].at = "running" BY DEF At
<1> HIDE DEF R
<1>4. job' = [for |-> "decode", batch |-> R, evict |-> ToEvict(Cardinality(R)), retracted |-> FALSE]
  BY <1>1 DEF NoJob
<1>5. job' \in [for : {"none", "extend", "decode"}, batch : SUBSET Req, evict : Int, retracted : BOOLEAN]
  BY <1>2, <1>4
<1>6. job'.for = "decode" /\ job'.batch = R /\ job.for = "none" BY <1>1, <1>4, NoJobIs
<1>7. ASSUME NEW r \in Req
      PROVE  /\ req'[r] \in Request /\ req'[r].at = req[r].at /\ req'[r].last = req[r].last
             /\ Fits(tree', req'[r], 1)
  <2>1. req[r] \in Request /\ Fits(tree, req[r], 0) BY <1>6 DEF More
  <2>2. CASE r \notin R
    <3>1. req'[r] = req[r] /\ req[r].at # "running" BY <1>1, <1>3, <2>2
    <3>2. Fits(tree, req[r], 1) BY <2>1, <3>1 DEF Fits
    <3> QED BY <1>1, <2>1, <3>1, <3>2
  <2>3. CASE r \in R
    <3> DEFINE q == req[r]
               x == next[r]
               ids == Append(q.ids, x)
               o == [ids |-> ids, row |-> q.row, prefix |-> q.prefix, last |-> q.last, at |-> q.at]
    <3>1. q \in Request /\ q.at = "running" /\ Fits(tree, q, 0) /\ Len(q.ids) < MaxLen /\ x \in Token
      BY <1>1, <1>3, <2>1, <2>3 DEF R
    <3>2. req'[r] = o
      <4>1. req'[r] = [q EXCEPT !.ids = ids] BY <1>1, <1>3, <2>3
      <4> HIDE DEF ids
      <4> QED BY <3>1, <4>1 DEF Request
    <3>3. /\ Len(q.ids) \in Nat /\ Len(q.row) \in Nat
          /\ q.prefix \in Nat /\ q.prefix <= Len(q.ids) /\ q.prefix <= Len(q.row)
      BY <3>1, FitsWords
    <3>4. /\ q.ids \in Word /\ ids \in Word /\ Len(ids) = Len(q.ids) + 1 /\ \A i \in 1 .. Len(q.ids) : ids[i] = q.ids[i]
      BY <3>1 DEF Word, Request
    <3> HIDE DEF ids, x
    <3>5. ASSUME NEW i \in 0 .. Len(q.ids) PROVE Take(ids, i) = Take(q.ids, i)
      <4> HIDE DEF q
      <4>1. i \in 0 .. Len(ids) BY <3>3, <3>4
      <4>2. Take(ids, i) \in Word /\ Len(Take(ids, i)) = i /\ \A j \in 1 .. i : Take(ids, i)[j] = ids[j]
        BY <3>4, <4>1, TakeType
      <4>3. Take(q.ids, i) \in Word /\ Len(Take(q.ids, i)) = i /\ \A j \in 1 .. i : Take(q.ids, i)[j] = q.ids[j]
        BY <3>4, TakeType
      <4>4. \A j \in 1 .. i : Take(ids, i)[j] = Take(q.ids, i)[j] BY <3>3, <3>4, <4>2, <4>3
      <4> QED BY <4>2, <4>3, <4>4, WordEqual
    <3>6. o \in Request BY <3>1, <3>4 DEF Request
    <3>7. Fits(tree, o, 1)
      <4>1. o.ids = ids /\ o.row = q.row /\ o.prefix = q.prefix /\ o.last = q.last /\ o.at = "running" BY <3>1
      <4>2. Len(q.ids) = Len(q.row) /\ q.last = Take(q.ids, q.prefix) BY <3>1, <3>3 DEF Fits
      <4>3. Take(ids, q.prefix) = Take(q.ids, q.prefix) BY <3>3, <3>5
      <4>4. \A i \in 1 .. q.prefix : Take(ids, i) = Take(q.ids, i) BY <3>3, <3>5
      <4>5. \A i \in 1 .. q.prefix : Take(q.ids, i) \in DOMAIN tree.slot /\ tree.slot[Take(q.ids, i)] = q.row[i]
        BY <3>1 DEF Fits
      <4> HIDE DEF o, q
      <4>6. o.prefix <= Len(o.ids) /\ Len(o.ids) <= MaxLen /\ o.prefix <= Len(o.row) /\ Len(o.ids) = Len(o.row) + 1
        BY <3>1, <3>3, <3>4, <4>1, <4>2, CacheAssumption
      <4> QED BY <4>1, <4>2, <4>3, <4>4, <4>5, <4>6 DEF Fits
    <3> QED BY <1>1, <3>1, <3>2, <3>6, <3>7
  <2> QED BY <2>2, <2>3
<1>8. req' \in [Req -> Request]
  <2> DEFINE F == [r \in Req |-> IF req[r].at = "running" THEN [req[r] EXCEPT !.ids = Append(@, next[r])] ELSE req[r]]
  <2>1. req' = F BY <1>1
  <2>2. \A r \in Req : F[r] \in Request BY <1>7, <2>1
  <2>3. F = [r \in Req |-> F[r]] OBVIOUS
  <2> HIDE DEF F
  <2> QED BY <2>1, <2>2, <2>3
<1>9. /\ \A place : At(place)' = At(place)
      /\ Admitted' = Admitted /\ \A r \in Admitted : Lasts'[r] = Lasts[r]
  BY <1>7 DEF At, Admitted, Lasts
<1>10. Phased' BY <1>1, <1>6, <1>9 DEF Phased, R
<1>11. More' = 1 BY <1>6 DEF More
<1>12. Locked(tree', Admitted', Lasts')
  <2>1. Locked(tree, Admitted, Lasts') BY <1>9, LockedSame
  <2> QED BY <1>1, <1>9, <2>1
<1> QED BY <1>1, <1>5, <1>7, <1>8, <1>10, <1>11, <1>12 DEF Sound, Typed

\* The words a request holds are among those held.
LEMMA HeldWords ==
  ASSUME Sound, NEW r \in Req
  PROVE  /\ \A i \in 1 .. req[r].prefix : Take(req[r].ids, i) \in HeldBy(Admitted, Lasts)
         /\ req[r] \in Request /\ Fits(tree, req[r], More) /\ Lasts[r] = req[r].last
         /\ r \notin Admitted => req[r] = Out
<1>1. req[r] \in Request /\ Fits(tree, req[r], More) BY DEF Sound, Typed
<1>2. Lasts[r] = req[r].last BY DEF Lasts
<1>3. CASE r \notin Admitted
  <2>1. req[r].at = "out" BY <1>3 DEF Admitted
  <2>2. req[r] = Out BY <1>1, <2>1 DEF Fits
  <2> QED BY <1>1, <1>2, <2>2, OutIs
<1>4. CASE r \in Admitted
  <2>1. \A i \in 1 .. req[r].prefix : Take(req[r].ids, i) \in Paths(req[r].last) BY <1>1, FitsWords
  <2>2. \A i \in 1 .. req[r].prefix : Take(req[r].ids, i) \in HeldBy(Admitted, Lasts) BY <1>2, <1>4, <2>1 DEF HeldBy
  <2> QED BY <1>1, <1>2, <1>4, <2>2
<1> QED BY <1>3, <1>4

LEMMA EvictIs ==
  ASSUME Sound, NEW n \in Nodes(tree), EvictLeaf(n)
  PROVE  /\ Shape(tree') /\ Locked(tree', Admitted, Lasts)
         /\ DOMAIN tree'.slot = DOMAIN tree.slot \ Own(tree, n)
         /\ \A p \in DOMAIN tree'.slot : tree'.slot[p] = tree.slot[p]
         /\ Own(tree, n) \subseteq DOMAIN tree.slot /\ IsFiniteSet(Own(tree, n))
         /\ Own(tree, n) \cap HeldBy(Admitted, Lasts) = {}
         /\ Cardinality(Own(tree, n)) \in Nat
         /\ tree'.evictable = tree.evictable - Cardinality(Own(tree, n))
<1>1. tree' = Cut(tree, n) /\ n \in Leaves(tree) BY DEF EvictLeaf, Cut
<1>2. Shape(tree) /\ Locked(tree, Admitted, Lasts) /\ IsFiniteSet(Admitted) BY ReqFinite DEF Sound
<1> DEFINE u == Cut(tree, n)
           f == Lasts
<1>3. u.evictable = tree.evictable - Cardinality(Own(tree, n)) BY DEF Cut
<1>4. Locked(tree, Admitted, f) BY <1>2
<1> HIDE DEF u, f
<1>5. u = Cut(tree, n) BY DEF u
<1>6. /\ Shape(u) /\ Locked(u, Admitted, f)
      /\ DOMAIN u.slot = DOMAIN tree.slot \ Own(tree, n) /\ (\A p \in DOMAIN u.slot : u.slot[p] = tree.slot[p])
      /\ Own(tree, n) \subseteq DOMAIN tree.slot /\ IsFiniteSet(Own(tree, n))
      /\ Own(tree, n) \cap HeldBy(Admitted, f) = {}
  BY <1>1, <1>2, <1>4, <1>5, CutIs
<1>7. tree' = u BY <1>1, <1>5
<1> QED BY <1>3, <1>6, <1>7, FS_CardinalityType DEF f

LEMMA EvictSound == ASSUME Sound, NEW n \in Nodes(tree), EvictLeaf(n) PROVE Sound'
<1>0. SoundParts BY SoundIs
<1> USE <1>0 DEF SoundParts
<1> DEFINE c == Cardinality(Own(tree, n))
<1>1. /\ Shape(tree') /\ Locked(tree', Admitted, Lasts)
      /\ DOMAIN tree'.slot = DOMAIN tree.slot \ Own(tree, n)
      /\ (\A p \in DOMAIN tree'.slot : tree'.slot[p] = tree.slot[p])
      /\ Own(tree, n) \cap HeldBy(Admitted, Lasts) = {}
      /\ c \in Nat /\ IsFiniteSet(Own(tree, n))
  BY EvictIs
<1>2. /\ job.evict > 0 /\ job' = [job EXCEPT !.evict = @ - c] /\ req' = req
      /\ free' = [x \in Slot |-> free[x] + Cardinality({p \in Own(tree, n) : tree.slot[p] = x})]
  BY DEF EvictLeaf
<1> HIDE DEF c
<1>3. free' \in [Slot -> Nat]
  <2>1. \A x \in Slot : Cardinality({p \in Own(tree, n) : tree.slot[p] = x}) \in Nat
    <3> TAKE x \in Slot
    <3>1. IsFiniteSet({p \in Own(tree, n) : tree.slot[p] = x}) BY <1>1, FS_Subset
    <3> QED BY <3>1, FS_CardinalityType
  <2>2. \A x \in Slot : free[x] + Cardinality({p \in Own(tree, n) : tree.slot[p] = x}) \in Nat BY <2>1
  <2> QED BY <1>2, <2>2
<1>4. job' \in [for : {"none", "extend", "decode"}, batch : SUBSET Req, evict : Int, retracted : BOOLEAN]
      /\ job'.for = job.for /\ job'.batch = job.batch /\ job'.retracted = job.retracted
  BY <1>1, <1>2
<1>5. job.for # "none" BY <1>2, NoJobIs DEF Phased
<1>6. \A place : At(place)' = At(place) BY <1>2 DEF At
<1>7. Phased' BY <1>4, <1>5, <1>6 DEF Phased
<1>8. Admitted' = Admitted /\ Lasts' = Lasts /\ More' = More BY <1>2, <1>4 DEF Admitted, Lasts, More
<1>9. ASSUME NEW r \in Req PROVE Fits(tree', req[r], More)
  <2>1. req[r] \in Request /\ Fits(tree, req[r], More) OBVIOUS
  <2>2. \A i \in 1 .. req[r].prefix : Take(req[r].ids, i) \in HeldBy(Admitted, Lasts) BY HeldWords
  <2>3. \A i \in 1 .. req[r].prefix : Take(req[r].ids, i) \in DOMAIN tree'.slot
          /\ tree'.slot[Take(req[r].ids, i)] = tree.slot[Take(req[r].ids, i)]
    BY <1>1, <2>1, <2>2 DEF Fits
  <2> QED BY <2>1, <2>3, FitsOn
<1> QED BY <1>1, <1>2, <1>3, <1>4, <1>7, <1>8, <1>9 DEF Sound, Typed

\* The slots a batch gets, and its rows with them.
Gets == {g \in job.batch \X (1 .. MaxLen) : g[2] \in Len(req[g[1]].row) + 1 .. Len(req[g[1]].ids)}
Used(new, x) == Cardinality({g \in Gets : new[g] = x})
AllocWith(new) ==
  /\ new \in [Gets -> {x \in Slot : free[x] > 0}]
  /\ \A x \in Slot : Used(new, x) <= free[x]
  /\ free' = [x \in Slot |-> free[x] - Used(new, x)]
  /\ req' = [r \in Req |->
        IF r \notin job.batch THEN req[r]
        ELSE [req[r] EXCEPT !.row = [i \in DOMAIN req[r].ids |-> IF i \in DOMAIN @ THEN @[i] ELSE new[<<r, i>>]],
                            !.at = IF @ = "admitted" THEN "computed" ELSE @]]

LEMMA AllocIs ==
  ASSUME Alloc
  PROVE  Evicted /\ Enough /\ job' = NoJob /\ tree' = tree /\ \E new : AllocWith(new)
<1>1. Evicted /\ Enough /\ job' = NoJob /\ tree' = tree BY DEF Alloc
<1>2. PICK new \in [Gets -> {x \in Slot : free[x] > 0}] :
        /\ \A x \in Slot : Used(new, x) <= free[x]
        /\ free' = [x \in Slot |-> free[x] - Used(new, x)]
        /\ req' = [r \in Req |->
              IF r \notin job.batch THEN req[r]
              ELSE [req[r] EXCEPT !.row = [i \in DOMAIN req[r].ids |-> IF i \in DOMAIN @ THEN @[i] ELSE new[<<r, i>>]],
                                  !.at = IF @ = "admitted" THEN "computed" ELSE @]]
  BY Zenon DEF Alloc, Used, Gets
<1>3. AllocWith(new) BY <1>2 DEF AllocWith
<1> QED BY <1>1, <1>3

LEMMA GetsAre ==
  ASSUME Sound
  PROVE  /\ job.batch \in SUBSET Req /\ IsFiniteSet(Gets)
         /\ \A g \in Gets : g = <<g[1], g[2]>> /\ g[1] \in job.batch /\ g[2] \in 1 .. MaxLen
                              /\ g[2] \in Len(req[g[1]].row) + 1 .. Len(req[g[1]].ids)
         /\ \A r \in job.batch : \A i \in Len(req[r].row) + 1 .. Len(req[r].ids) : <<r, i>> \in Gets
<1>1. job.batch \in SUBSET Req BY DEF Sound, Typed
<1>2. IsFiniteSet(Gets)
  <2>1. IsFiniteSet(job.batch) /\ IsFiniteSet(1 .. MaxLen) BY <1>1, ReqFinite, FS_Interval, CacheAssumption
  <2>2. IsFiniteSet(job.batch \X (1 .. MaxLen)) BY <2>1, FS_Product
  <2> QED BY <2>2, FS_Subset DEF Gets
<1>3. \A g \in Gets : g = <<g[1], g[2]>> /\ g[1] \in job.batch /\ g[2] \in 1 .. MaxLen
                              /\ g[2] \in Len(req[g[1]].row) + 1 .. Len(req[g[1]].ids)
  BY DEF Gets
<1>4. ASSUME NEW r \in job.batch, NEW i \in Len(req[r].row) + 1 .. Len(req[r].ids) PROVE <<r, i>> \in Gets
  <2>1. req[r] \in Request /\ Fits(tree, req[r], More) BY <1>1 DEF Sound, Typed
  <2>2. Len(req[r].ids) \in Nat /\ Len(req[r].row) \in Nat /\ Len(req[r].ids) <= MaxLen BY <2>1, FitsWords
  <2>3. i \in 1 .. MaxLen BY <2>2, CacheAssumption
  <2> QED BY <2>3 DEF Gets
<1> QED BY <1>1, <1>2, <1>3, <1>4

\* What the allocation makes of a request.
Given(q, o) ==
  /\ o \in Request /\ o.ids = q.ids /\ o.prefix = q.prefix /\ o.last = q.last
  /\ o.at = IF q.at = "admitted" THEN "computed" ELSE q.at
  /\ Len(o.row) = Len(q.ids) /\ \A i \in 1 .. Len(q.row) : o.row[i] = q.row[i]

LEMMA AllocRows ==
  ASSUME Sound, NEW new, AllocWith(new), NEW r \in job.batch
  PROVE  /\ Given(req[r], req'[r])
         /\ \A i \in Len(req[r].row) + 1 .. Len(req[r].ids) : req'[r].row[i] = new[<<r, i>>]
<1> DEFINE q == req[r]
           row == [i \in DOMAIN q.ids |-> IF i \in DOMAIN q.row THEN q.row[i] ELSE new[<<r, i>>]]
           at == IF q.at = "admitted" THEN "computed" ELSE q.at
           o == [ids |-> q.ids, row |-> row, prefix |-> q.prefix, last |-> q.last, at |-> at]
<1>1. job.batch \in SUBSET Req BY GetsAre
<1>2. q \in Request /\ Fits(tree, q, More) BY <1>1 DEF Sound, Typed
<1>3. req'[r] = [q EXCEPT !.row = row, !.at = at] BY <1>1 DEF AllocWith
<1>4. req'[r] = o
  <2> HIDE DEF row, at, q
  <2> QED BY <1>2, <1>3 DEF Request
<1>5. Len(q.ids) \in Nat /\ Len(q.row) \in Nat BY <1>2, FitsWords
<1>6. DOMAIN q.ids = 1 .. Len(q.ids) /\ DOMAIN q.row = 1 .. Len(q.row) BY <1>2 DEF Request, Word
<1>6a. Len(q.row) <= Len(q.ids)
  <2>1. More \in Nat BY DEF More
  <2> QED BY <1>2, <2>1, FitsRow
<1>7. \A i \in 1 .. Len(q.ids) : row[i] = IF i <= Len(q.row) THEN q.row[i] ELSE new[<<r, i>>] BY <1>5, <1>6
<1>8. \A i \in 1 .. Len(q.ids) : row[i] \in Slot
  <2> TAKE i \in 1 .. Len(q.ids)
  <2>1. CASE i <= Len(q.row)
    <3>1. \A j \in 1 .. Len(q.row) : q.row[j] \in Slot BY <1>2, FitsWords
    <3>2. row[i] = q.row[i] BY <1>7, <2>1
    <3> HIDE DEF q, row
    <3> QED BY <1>5, <2>1, <3>1, <3>2
  <2>2. CASE ~(i <= Len(q.row))
    <3>1. i \in Len(q.row) + 1 .. Len(q.ids) BY <1>5, <2>2
    <3>2. <<r, i>> \in Gets BY <3>1, GetsAre
    <3>3. new[<<r, i>>] \in Slot BY <3>2 DEF AllocWith
    <3> QED BY <1>7, <2>2, <3>3
  <2> QED BY <2>1, <2>2
<1>9. row \in Seq(Slot) /\ Len(row) = Len(q.ids)
  <2>1. row = [i \in 1 .. Len(q.ids) |-> row[i]] BY <1>6
  <2> HIDE DEF row
  <2> QED BY <1>5, <1>8, <2>1
<1>10. at \in {"out", "admitted", "computed", "running"} BY <1>2 DEF Request
<1> HIDE DEF row, at
<1>11. o \in Request BY <1>2, <1>9, <1>10 DEF Request
<1>12. Given(q, o)
  <2>1. o.ids = q.ids /\ o.row = row /\ o.prefix = q.prefix /\ o.last = q.last /\ o.at = at OBVIOUS
  <2> HIDE DEF q, o
  <2>2. ASSUME NEW i \in 1 .. Len(q.row) PROVE row[i] = q.row[i]
    <3>1. i \in 1 .. Len(q.ids) /\ i <= Len(q.row) BY <1>5, <1>6a
    <3> QED BY <1>7, <3>1
  <2> QED BY <1>9, <1>11, <2>1, <2>2 DEF Given, at
<1>13. \A i \in Len(q.row) + 1 .. Len(q.ids) : o.row[i] = new[<<r, i>>] BY <1>5, <1>7
<1> QED BY <1>4, <1>12, <1>13

LEMMA AllocSound == ASSUME Sound, Alloc PROVE Sound'
<1>0. SoundParts BY SoundIs
<1> USE <1>0 DEF SoundParts
<1>1. job' = NoJob /\ tree' = tree /\ Evicted /\ job.batch \in SUBSET Req BY AllocIs, GetsAre
<1>2. PICK new : AllocWith(new) BY AllocIs
<1>3. \A r \in Req \ job.batch : req'[r] = req[r] BY <1>2 DEF AllocWith
<1>4. \A r \in job.batch : Given(req[r], req'[r]) BY <1>2, AllocRows
<1>5. /\ \A r \in job.batch : req[r].at \in {"admitted", "running"}
      /\ \A r \in Req : req[r].at = "admitted" => r \in job.batch
      /\ \A r \in Req : More = 1 /\ req[r].at = "running" => r \in job.batch
      /\ At("computed") = {}
  BY <1>1 DEF Evicted, Phased, At, More
<1>6. \A r \in Req : /\ req'[r] \in Request /\ req'[r].last = req[r].last
                      /\ (req'[r].at = "out" <=> req[r].at = "out") /\ req'[r].at # "admitted"
  <2> TAKE r \in Req
  <2>1. CASE r \in job.batch BY <1>4, <1>5, <2>1 DEF Given
  <2>2. CASE r \notin job.batch BY <1>3, <1>5, <2>2
  <2> QED BY <2>1, <2>2
<1>7. req' \in [Req -> Request]
  <2>1. req' = [r \in Req |-> req'[r]]
    <3> DEFINE F == [r \in Req |->
        IF r \notin job.batch THEN req[r]
        ELSE [req[r] EXCEPT !.row = [i \in DOMAIN req[r].ids |-> IF i \in DOMAIN @ THEN @[i] ELSE new[<<r, i>>]],
                            !.at = IF @ = "admitted" THEN "computed" ELSE @]]
    <3>1. req' = F BY <1>2 DEF AllocWith
    <3>2. F = [r \in Req |-> F[r]] OBVIOUS
    <3> HIDE DEF F
    <3> QED BY <3>1, <3>2
  <2> QED BY <1>6, <2>1
<1>8. free' \in [Slot -> Nat]
  <2>1. \A x \in Slot : Used(new, x) \in Nat /\ Used(new, x) <= free[x]
    <3> TAKE x \in Slot
    <3>1. IsFiniteSet({g \in Gets : new[g] = x}) BY GetsAre, FS_Subset
    <3> QED BY <1>2, <3>1, FS_CardinalityType DEF Used, AllocWith
  <2>2. \A x \in Slot : free[x] - Used(new, x) \in Nat BY <2>1
  <2> QED BY <1>2, <2>2 DEF AllocWith
<1>9. At("admitted")' = {} BY <1>6 DEF At
<1>10. Phased' BY <1>1, <1>9, NoJobIs DEF Phased
<1>11. More' = 0 BY <1>1, NoJobIs DEF More
<1>12. Admitted' = Admitted /\ Lasts' = Lasts BY <1>6 DEF Admitted, Lasts
<1>13. ASSUME NEW r \in Req PROVE Fits(tree, req'[r], 0)
  <2>1. req[r] \in Request /\ Fits(tree, req[r], More) OBVIOUS
  <2>2. CASE r \notin job.batch
    <3>1. req[r].at = "running" => More = 0 BY <1>5, <2>2 DEF More
    <3>2. Fits(tree, req[r], 0) BY <2>1, <3>1 DEF Fits
    <3> QED BY <1>3, <2>2, <3>2
  <2>3. CASE r \in job.batch
    <3> DEFINE q == req[r]
               o == req'[r]
    <3>1. Given(q, o) /\ q.at \in {"admitted", "running"} BY <1>4, <1>5, <2>3
    <3>2. /\ Len(q.ids) \in Nat /\ Len(q.row) \in Nat /\ Len(q.ids) <= MaxLen
          /\ q.prefix \in Nat /\ q.prefix <= Len(q.ids) /\ q.prefix <= Len(q.row)
      BY <2>1, FitsWords
    <3>3. Fits(tree, q, More) BY <2>1
    <3> HIDE DEF q, o
    <3>4. \A i \in 1 .. q.prefix : o.row[i] = q.row[i] BY <3>1, <3>2 DEF Given
    <3>5. Fits(tree, o, 0) BY <3>1, <3>2, <3>3, <3>4 DEF Fits, Given
    <3> QED BY <3>5 DEF o
  <2> QED BY <2>2, <2>3
<1> QED BY <1>1, <1>7, <1>8, <1>10, <1>11, <1>12, <1>13, NoJobIs DEF Sound, Typed

LEMMA FreedType ==
  ASSUME Sound, NEW s \in Seq(Slot)
  PROVE  Freed(s) \in [Slot -> Nat]
<1>1. ASSUME NEW x \in Slot PROVE free[x] + Cardinality({i \in DOMAIN s : s[i] = x}) \in Nat
  <2>1. DOMAIN s = 1 .. Len(s) /\ Len(s) \in Nat OBVIOUS
  <2>2. IsFiniteSet(1 .. Len(s)) BY <2>1, FS_Interval
  <2>3. IsFiniteSet({i \in DOMAIN s : s[i] = x}) BY <2>1, <2>2, FS_Subset
  <2>4. Cardinality({i \in DOMAIN s : s[i] = x}) \in Nat BY <2>3, FS_CardinalityType
  <2>5. free[x] \in Nat BY DEF Sound, Typed
  <2> QED BY <2>4, <2>5
<1> QED BY <1>1 DEF Freed

LEMMA MaxZero ==
  ASSUME NEW n \in Int
  PROVE  Max({0, n}) \in Nat /\ Max({0, n}) >= n
<1>1. \E x \in {0, n} : \A y \in {0, n} : x >= y
  <2>1. CASE n >= 0 BY <2>1
  <2>2. CASE ~(n >= 0) BY <2>2
  <2> QED BY <2>1, <2>2
<1>2. Max({0, n}) \in {0, n} /\ \A y \in {0, n} : Max({0, n}) >= y BY <1>1 DEF Max
<1> QED BY <1>2

\* What the tree is when a request has left.
LEMMA LeaveTree ==
  ASSUME NEW t, Shape(t), NEW R, IsFiniteSet(R), NEW f, Locked(t, R, f), NEW r \in R, NEW g, \A o \in R \ {r} : g[o] = f[o]
  PROVE  Shape(DecLockRef(t, f[r])) /\ Locked(DecLockRef(t, f[r]), R \ {r}, g)
<1> DEFINE u == DecLockRef(t, f[r])
<1>1. Shape(u) /\ Locked(u, R \ {r}, f) BY DecLocked
<1> HIDE DEF u
<1>2. Locked(u, R \ {r}, g) BY <1>1, LockedSame
<1> QED BY <1>1, <1>2 DEF u

\* A request leaves and its slots go; the others stay as they were.
LEMMA LeaveSound ==
  ASSUME Sound, NEW r \in Admitted, NEW t, Shape(t), Locked(t, Admitted, Lasts),
         DOMAIN tree.slot \subseteq DOMAIN t.slot, \A p \in DOMAIN tree.slot : t.slot[p] = tree.slot[p],
         tree' = DecLockRef(t, req[r].last), req' = [req EXCEPT ![r] = Out], free' \in [Slot -> Nat],
         job' \in [for : {"none", "extend", "decode"}, batch : SUBSET Req, evict : Int, retracted : BOOLEAN],
         job'.for = job.for, Phased'
  PROVE  Sound'
<1>0. SoundParts BY SoundIs
<1> USE <1>0 DEF SoundParts
<1>1. r \in Req BY DEF Admitted
<1>2. req' \in [Req -> Request] /\ req'[r] = Out /\ \A o \in Req \ {r} : req'[o] = req[o] BY <1>1, OutIs
<1>3. Admitted' = Admitted \ {r} /\ \A o \in Admitted \ {r} : Lasts'[o] = Lasts[o]
  BY <1>1, <1>2, OutIs DEF Admitted, Lasts
<1>4. tree' = DecLockRef(t, Lasts[r]) BY <1>1 DEF Lasts
<1>5. Shape(tree') /\ Locked(tree', Admitted', Lasts') /\ tree'.slot = t.slot
  <2> DEFINE g == Lasts'
             f == Lasts
  <2>1. (\A o \in Admitted \ {r} : g[o] = f[o]) /\ Locked(t, Admitted, f) BY <1>3
  <2> HIDE DEF f, g
  <2>2. IsFiniteSet(Admitted) BY ReqFinite
  <2>3. Shape(DecLockRef(t, f[r])) /\ Locked(DecLockRef(t, f[r]), Admitted \ {r}, g)
    BY <2>1, <2>2, LeaveTree
  <2>4. DecLockRef(t, f[r]).slot = t.slot BY DecNodes
  <2> QED BY <1>3, <1>4, <2>3, <2>4 DEF f, g
<1>6. More' = More BY DEF More
<1>7. ASSUME NEW o \in Req PROVE Fits(tree', req'[o], More)
  <2>1. CASE o = r BY <1>2, <2>1, OutIs
  <2>2. CASE o # r
    <3>1. req[o] \in Request /\ Fits(tree, req[o], More) OBVIOUS
    <3>2. \A i \in 1 .. req[o].prefix : Take(req[o].ids, i) \in DOMAIN tree'.slot
            /\ tree'.slot[Take(req[o].ids, i)] = tree.slot[Take(req[o].ids, i)]
      BY <1>5, <3>1 DEF Fits
    <3>3. PICK q, u, m : q = req[o] /\ u = tree' /\ m = More OBVIOUS
    <3>4. q \in Request /\ Fits(tree, q, m) BY <3>1, <3>3
    <3>5. \A i \in 1 .. q.prefix :
            Take(q.ids, i) \in DOMAIN u.slot /\ u.slot[Take(q.ids, i)] = tree.slot[Take(q.ids, i)]
      BY <3>2, <3>3
    <3>6. Fits(u, q, m) BY <3>4, <3>5, FitsOn
    <3> QED BY <1>2, <2>2, <3>3, <3>6
  <2> QED BY <2>1, <2>2
<1> QED BY <1>2, <1>5, <1>6, <1>7 DEF Sound, Typed

LEMMA RetractIs ==
  ASSUME Sound, NEW r \in Req, Retract(r)
  PROVE  /\ r \in Admitted /\ req[r].at = "running" /\ job.for = "decode" /\ r \in job.batch
         /\ free' = Freed(SubSeq(req[r].row, req[r].prefix + 1, Len(req[r].row))) /\ free' \in [Slot -> Nat]
         /\ tree' = DecLockRef(tree, req[r].last) /\ req' = [req EXCEPT ![r] = Out]
         /\ job' \in [for : {"none", "extend", "decode"}, batch : SUBSET Req, evict : Int, retracted : BOOLEAN]
         /\ job'.for = "decode" /\ job'.batch = job.batch \ {r} /\ job'.retracted = TRUE /\ job'.evict \in Nat
         /\ job'.evict >= Cardinality(job.batch \ {r}) * RetractSteps - Total(free', Slot)
<1>1. /\ job.for = "decode" /\ r \in job.batch /\ job.batch = At("running") /\ job.batch \in SUBSET Req
      /\ job \in [for : {"none", "extend", "decode"}, batch : SUBSET Req, evict : Int, retracted : BOOLEAN]
  BY DEF Retract, Sound, Phased, Typed
<1>2. r \in Admitted /\ req[r].at = "running" BY <1>1 DEF At, Admitted
<1>3. req[r] \in Request BY DEF Sound, Typed
<1>4. SubSeq(req[r].row, req[r].prefix + 1, Len(req[r].row)) \in Seq(Slot)
  <2>1. req[r].row \in Seq(Slot) /\ req[r].prefix \in Nat BY <1>3 DEF Request
  <2>2. req[r].prefix <= Len(req[r].row) BY DEF Sound, Fits
  <2> QED BY <2>1, <2>2
<1> DEFINE s == SubSeq(req[r].row, req[r].prefix + 1, Len(req[r].row))
           rest == job.batch \ {r}
           n == Cardinality(rest) * RetractSteps - Total(Freed(s), Slot)
<1>5. /\ free' = Freed(s) /\ tree' = DecLockRef(tree, req[r].last) /\ req' = [req EXCEPT ![r] = Out]
      /\ job' = [job EXCEPT !.batch = rest, !.retracted = TRUE, !.evict = Max({0, n})]
  BY DEF Retract
<1> HIDE DEF s
<1>6. Freed(s) \in [Slot -> Nat] BY <1>4, FreedType DEF s
<1>7. n \in Int
  <2> DEFINE g == Freed(s)
  <2>1. \A x \in Slot : g[x] \in Int BY <1>6
  <2> HIDE DEF g
  <2>2. Total(g, Slot) \in Int BY <2>1, ReqFinite, TotalType
  <2>3. Cardinality(rest) \in Nat
    <3>1. rest \in SUBSET Req BY <1>1
    <3> HIDE DEF rest
    <3> QED BY <3>1, CountsType
  <2>4. RetractSteps \in Nat BY CacheAssumption
  <2> HIDE DEF rest
  <2>5. Cardinality(rest) * RetractSteps \in Int BY <2>3, <2>4
  <2> QED BY <2>2, <2>5 DEF g
<1> HIDE DEF n
<1>8. Max({0, n}) \in Nat /\ Max({0, n}) >= n BY <1>7, MaxZero
<1>9. /\ job' \in [for : {"none", "extend", "decode"}, batch : SUBSET Req, evict : Int, retracted : BOOLEAN]
      /\ job'.for = "decode" /\ job'.batch = rest /\ job'.retracted = TRUE /\ job'.evict = Max({0, n})
  <2> DEFINE k == Max({0, n})
  <2>1. k \in Int BY <1>8
  <2> HIDE DEF k
  <2>2. job' = [job EXCEPT !.batch = rest, !.retracted = TRUE, !.evict = k] BY <1>5 DEF k
  <2>3. rest \in SUBSET Req BY <1>1
  <2> HIDE DEF rest
  <2>4. job' = [for |-> job.for, batch |-> rest, evict |-> k, retracted |-> TRUE] BY <1>1, <2>2
  <2> QED BY <1>1, <2>1, <2>3, <2>4 DEF k
<1>10. Max({0, n}) >= Cardinality(rest) * RetractSteps - Total(free', Slot) BY <1>5, <1>8 DEF n
<1> QED BY <1>1, <1>2, <1>5, <1>6, <1>8, <1>9, <1>10 DEF s

LEMMA RetractSound == ASSUME Sound, NEW r \in Req, Retract(r) PROVE Sound'
<1>1. /\ r \in Admitted /\ req[r].at = "running" /\ job.for = "decode" /\ r \in job.batch
      /\ free' \in [Slot -> Nat]
      /\ tree' = DecLockRef(tree, req[r].last) /\ req' = [req EXCEPT ![r] = Out]
      /\ job' \in [for : {"none", "extend", "decode"}, batch : SUBSET Req, evict : Int, retracted : BOOLEAN]
      /\ job'.for = "decode" /\ job'.batch = job.batch \ {r}
  BY RetractIs
<1>2. Shape(tree) /\ Locked(tree, Admitted, Lasts) /\ req \in [Req -> Request] /\ Phased BY DEF Sound, Typed
<1>3. req'[r] = Out /\ \A o \in Req \ {r} : req'[o] = req[o] BY <1>1, <1>2
<1>4. Phased'
  <2>1. At("admitted") = {} /\ At("computed") = {} /\ job.batch = At("running") BY <1>1, <1>2 DEF Phased
  <2>2. At("admitted")' = {} /\ At("computed")' = {} /\ At("running")' = At("running") \ {r}
    BY <1>3, <2>1, OutIs DEF At
  <2> QED BY <1>1, <2>1, <2>2 DEF Phased
<1>5. job'.for = job.for BY <1>1
<1> QED BY <1>1, <1>2, <1>4, <1>5, LeaveSound

\* insert, as both callers use it.
Grown(r) == Insert(tree, req[r].ids, req[r].row)

LEMMA GrownIs ==
  ASSUME Sound, NEW r \in Req, job = NoJob, req[r].at \in {"computed", "running"}
  PROVE  /\ Shape(Grown(r)) /\ Locked(Grown(r), Admitted, Lasts)
         /\ DOMAIN Grown(r).slot = DOMAIN tree.slot \cup Paths(req[r].ids)
         /\ \A p \in DOMAIN tree.slot : Grown(r).slot[p] = tree.slot[p]
         /\ \A p \in Paths(req[r].ids) \ DOMAIN tree.slot : Grown(r).slot[p] = req[r].row[Len(p)]
         /\ req[r].ids \in Nodes(Grown(r)) \cup {<<>>}
<1>1. req[r] \in Request /\ Fits(tree, req[r], 0) /\ Shape(tree) /\ Locked(tree, Admitted, Lasts)
  BY NoJobIs DEF Sound, Typed, More
<1> DEFINE s == req[r].ids
           row == req[r].row
           u == Grown(r)
<1>2. s \in Word /\ row \in Seq(Slot) /\ Len(row) = Len(s) /\ Len(s) \in Nat
  <2>1. s \in Word /\ row \in Seq(Slot) BY <1>1 DEF Request
  <2>2. Len(row) \in Nat /\ Len(s) \in Nat BY <1>1, FitsWords
  <2>3. req[r].at = "running" => Len(s) = Len(row) + 0 BY <1>1 DEF Fits
  <2>4. req[r].at = "computed" => Len(s) = Len(row) BY <1>1 DEF Fits
  <2> QED BY <2>1, <2>2, <2>3, <2>4
<1>3. \A i \in 1 .. Len(s) : row[i] \in Slot BY <1>2
<1>4. tree.evictable \in Nat BY <1>1, LockedType
<1>5. u = Insert(tree, s, row) BY DEF Grown
<1> HIDE DEF s, row, u
<1>6. Inserted(tree, s, row, u) BY <1>1, <1>2, <1>3, <1>4, <1>5, InsertIs
<1> DEFINE f == Lasts
<1>7. Locked(tree, Admitted, f) BY <1>1
<1> HIDE DEF f
<1>8. Locked(u, Admitted, f) BY <1>1, <1>2, <1>6, <1>7, InsertLocked
<1>9. s \in Nodes(u) \cup {<<>>} BY <1>6 DEF Inserted
<1> QED BY <1>6, <1>8, <1>9 DEF s, row, u, f, Inserted

LEMMA DoublesType ==
  ASSUME Sound, NEW r \in Req, req[r].at \in {"computed", "running"}, job = NoJob
  PROVE  /\ Doubles(r) \in Seq(Slot) /\ Freed(Doubles(r)) \in [Slot -> Nat]
         /\ req[r].prefix <= MatchLen(tree, req[r].ids) /\ MatchLen(tree, req[r].ids) <= Len(req[r].row)
         /\ MatchLen(tree, req[r].ids) \in Nat /\ Len(req[r].row) = Len(req[r].ids) /\ Len(req[r].ids) \in Nat
         /\ req[r].prefix \in Nat
<1> DEFINE s == req[r].ids
           k == MatchLen(tree, s)
<1>1. req[r] \in Request /\ Fits(tree, req[r], 0) /\ Shape(tree)
  BY NoJobIs DEF Sound, Typed, More
<1>2. s \in Word /\ req[r].row \in Seq(Slot) BY <1>1 DEF Request
<1>3. /\ Len(s) \in Nat /\ Len(req[r].row) \in Nat /\ req[r].prefix \in Nat /\ req[r].prefix <= Len(s)
  BY <1>1, FitsWords
<1>3a. Len(req[r].row) = Len(s)
  <2>1. req[r].at = "running" => Len(s) = Len(req[r].row) + 0 BY <1>1 DEF Fits
  <2>2. req[r].at = "computed" => Len(s) = Len(req[r].row) BY <1>1 DEF Fits
  <2> QED BY <1>3, <2>1, <2>2
<1>4. /\ k \in 0 .. Len(s)
      /\ \A p \in Word : IsPrefix(p, s) /\ p # <<>> => (p \in DOMAIN tree.slot <=> Len(p) <= k)
  BY <1>1, <1>2, MatchedIs
<1>5. req[r].prefix <= k
  <2> DEFINE a == req[r].prefix
  <2>1. CASE a = 0 BY <1>3, <1>4, <2>1
  <2>2. CASE a # 0
    <3>1. a \in 1 .. Len(s) /\ a \in 0 .. Len(s) BY <1>3, <2>2
    <3>2. Take(s, a) \in DOMAIN tree.slot
      <4>1. a \in 1 .. a BY <3>1
      <4> QED BY <1>1, <4>1 DEF Fits
    <3>3. Take(s, a) \in Word /\ Len(Take(s, a)) = a /\ IsPrefix(Take(s, a), s) /\ Take(s, a) # <<>>
      BY <1>2, <3>1, TakeType, PathsAre
    <3> QED BY <1>4, <3>2, <3>3
  <2> QED BY <2>1, <2>2
<1> HIDE DEF k
<1>6. SubSeq(req[r].row, req[r].prefix + 1, k) \in Seq(Slot) BY <1>2, <1>3, <1>3a, <1>4, <1>5
<1>7. Doubles(r) \in Seq(Slot) BY <1>6 DEF Doubles, k
<1> QED BY <1>3, <1>3a, <1>4, <1>5, <1>7, FreedType DEF k

LEMMA FinishedSound == ASSUME Sound, NEW r \in Req, CacheFinishedReq(r) PROVE Sound'
<1>1. /\ job = NoJob /\ At("admitted") = {} /\ req[r].at \in {"computed", "running"}
      /\ free' = Freed(Doubles(r)) /\ job' = job /\ req' = [req EXCEPT ![r] = Out]
      /\ tree' = DecLockRef(Grown(r), req[r].last)
  BY DEF CacheFinishedReq, Finishes, Grown
<1>2. r \in Admitted BY <1>1 DEF Admitted
<1>3. free' \in [Slot -> Nat] BY <1>1, DoublesType
<1>4. /\ Shape(Grown(r)) /\ Locked(Grown(r), Admitted, Lasts)
      /\ DOMAIN tree.slot \subseteq DOMAIN Grown(r).slot
      /\ \A p \in DOMAIN tree.slot : Grown(r).slot[p] = tree.slot[p]
  BY <1>1, GrownIs
<1>5. job \in [for : {"none", "extend", "decode"}, batch : SUBSET Req, evict : Int, retracted : BOOLEAN]
      /\ req \in [Req -> Request]
  BY DEF Sound, Typed
<1>6. req'[r] = Out /\ \A o \in Req \ {r} : req'[o] = req[o] BY <1>1, <1>5
<1>7. At("admitted")' = {} BY <1>1, <1>6, OutIs DEF At
<1>8. Phased' BY <1>1, <1>7, NoJobIs DEF Phased
<1> DEFINE t == Grown(r)
<1>9. /\ Shape(t) /\ Locked(t, Admitted, Lasts) /\ DOMAIN tree.slot \subseteq DOMAIN t.slot
      /\ (\A p \in DOMAIN tree.slot : t.slot[p] = tree.slot[p]) /\ tree' = DecLockRef(t, req[r].last)
  BY <1>1, <1>4
<1> HIDE DEF t
<1> QED BY <1>1, <1>2, <1>3, <1>5, <1>8, <1>9, LeaveSound

\* The tree after cache_unfinished_req.
LEMMA ShareTree ==
  ASSUME NEW t, Shape(t), NEW R, IsFiniteSet(R), NEW f, Locked(t, R, f), NEW r \in R,
         NEW s \in Nodes(t) \cup {<<>>}, NEW g, g[r] = s, \A o \in R \ {r} : g[o] = f[o]
  PROVE  Locked(IncLockRef(DecLockRef(t, f[r]), s), R, g)
<1> DEFINE u == DecLockRef(t, f[r])
<1>1. Shape(u) /\ Locked(u, R \ {r}, g) /\ Nodes(u) = Nodes(t) BY LeaveTree, DecNodes
<1> HIDE DEF u
<1>2. g[r] \in Nodes(u) \cup {<<>>} /\ r \notin R \ {r} /\ IsFiniteSet(R \ {r}) BY <1>1, FS_Subset
<1> DEFINE Q == R \ {r}
<1>3. Q \cup {r} = R OBVIOUS
<1> HIDE DEF Q
<1>4. Locked(IncLockRef(u, s), Q \cup {r}, g) BY <1>1, <1>2, IncLocked DEF Q
<1> QED BY <1>3, <1>4 DEF u

Renew(q, row, n, w, a) == [q EXCEPT !.row = row, !.prefix = n, !.last = w, !.at = a]

LEMMA Renewed ==
  ASSUME NEW q \in Request, NEW row, NEW n, NEW w, NEW a
  PROVE  Renew(q, row, n, w, a)
           = [ids |-> q.ids, row |-> row, prefix |-> n, last |-> w, at |-> a]
<1> DEFINE o == [ids |-> q.ids, row |-> row, prefix |-> n, last |-> w, at |-> a]
           e == [q EXCEPT !.row = row, !.prefix = n, !.last = w, !.at = a]
           F == {"ids", "row", "prefix", "last", "at"}
<1>1. e.ids = q.ids /\ e.row = row /\ e.prefix = n /\ e.last = w /\ e.at = a BY DEF Request
<1>2. DOMAIN e = F BY DEF Request
<1>3. o = [x \in F |-> o[x]] OBVIOUS
<1>4. o.ids = q.ids /\ o.row = row /\ o.prefix = n /\ o.last = w /\ o.at = a OBVIOUS
<1>5. e = [x \in F |-> e[x]] BY <1>2
<1> HIDE DEF e, o
<1>6. \A x \in F : e[x] = o[x] BY <1>1, <1>4
<1>7. e = o BY <1>3, <1>5, <1>6
<1> QED BY <1>7 DEF e, o, Renew

\* A cached word, read off the tree slot by slot, is a row.
LEMMA RowOfPath ==
  ASSUME NEW w \in Word, NEW f, f \in [DOMAIN f -> Slot], Paths(w) \subseteq DOMAIN f
  PROVE  /\ [i \in DOMAIN w |-> f[Take(w, i)]] \in Seq(Slot)
         /\ Len([i \in DOMAIN w |-> f[Take(w, i)]]) = Len(w)
         /\ \A i \in 1 .. Len(w) :
              Take(w, i) \in DOMAIN f /\ [n \in DOMAIN w |-> f[Take(w, n)]][i] = f[Take(w, i)]
<1>1. DOMAIN w = 1 .. Len(w) /\ Len(w) \in Nat BY DEF Word
<1>2. \A i \in 1 .. Len(w) : Take(w, i) \in DOMAIN f BY PathsAre
<1>3. \A i \in 1 .. Len(w) : f[Take(w, i)] \in Slot BY <1>2
<1>4. [i \in DOMAIN w |-> f[Take(w, i)]] = [i \in 1 .. Len(w) |-> f[Take(w, i)]] BY <1>1
<1> QED BY <1>1, <1>2, <1>3, <1>4

\* What cache_unfinished_req leaves of the request.
LEMMA UnfinishedIs ==
  ASSUME Sound, NEW r \in Req, CacheUnfinishedReq(r)
  PROVE  /\ job = NoJob /\ job' = job /\ r \in Admitted /\ req[r].at = "computed"
         /\ free' = Freed(Doubles(r)) /\ free' \in [Slot -> Nat]
         /\ tree' = IncLockRef(DecLockRef(Grown(r), req[r].last), req[r].ids) /\ tree'.slot = Grown(r).slot
         /\ req' \in [Req -> Request] /\ \A q \in Req \ {r} : req'[q] = req[q]
         /\ req'[r].ids = req[r].ids /\ req'[r].prefix = Len(req[r].ids) /\ req'[r].last = req[r].ids
         /\ req'[r].at = "running" /\ Len(req'[r].row) = Len(req[r].ids) /\ Len(req[r].ids) \in 0 .. MaxLen
         /\ \A i \in 1 .. Len(req[r].ids) :
              Take(req[r].ids, i) \in DOMAIN Grown(r).slot /\ req'[r].row[i] = Grown(r).slot[Take(req[r].ids, i)]
<1>0. SoundParts BY SoundIs
<1> USE <1>0 DEF SoundParts
<1> DEFINE s == req[r].ids
           t == Grown(r)
           row == [i \in DOMAIN s |-> t.slot[Take(s, i)]]
           part == [i \in DOMAIN s |-> IF i <= req[r].prefix THEN req[r].row[i] ELSE t.slot[Take(s, i)]]
           o == [ids |-> s, row |-> row, prefix |-> Len(s), last |-> s, at |-> "running"]
<1>1. /\ job = NoJob /\ req[r].at = "computed" /\ free' = Freed(Doubles(r)) /\ job' = job
      /\ tree' = IncLockRef(DecLockRef(t, req[r].last), s)
      /\ req' = [req EXCEPT ![r].row = part, ![r].prefix = Len(s), ![r].last = s, ![r].at = "running"]
  BY DEF CacheUnfinishedReq, Grown
<1>2. r \in Admitted BY <1>1 DEF Admitted
<1>3. free' \in [Slot -> Nat] BY <1>1, DoublesType
<1>4. /\ Shape(t) /\ Locked(t, Admitted, Lasts) /\ s \in Nodes(t) \cup {<<>>}
      /\ DOMAIN t.slot = DOMAIN tree.slot \cup Paths(s)
      /\ \A p \in DOMAIN tree.slot : t.slot[p] = tree.slot[p]
  BY <1>1, GrownIs
<1>5. s \in Word /\ Len(s) \in Nat /\ Len(s) <= MaxLen
  <2>1. req[r] \in Request /\ Fits(tree, req[r], More) OBVIOUS
  <2> QED BY <2>1, FitsWords DEF Request
<1> HIDE DEF t
<1>r. part = row
  <2>1. req[r] \in Request /\ Fits(tree, req[r], More) OBVIOUS
  <2>2. req[r].prefix \in Nat /\ DOMAIN s = 1 .. Len(s) BY <1>5, <2>1 DEF Request
  <2>3. \A i \in 1 .. req[r].prefix : t.slot[Take(s, i)] = req[r].row[i] BY <1>4, <2>1 DEF Fits
  <2>4. \A i \in DOMAIN s : (IF i <= req[r].prefix THEN req[r].row[i] ELSE t.slot[Take(s, i)]) = t.slot[Take(s, i)]
    BY <2>2, <2>3
  <2> QED BY <2>4
<1>p. req' = [req EXCEPT ![r].row = row, ![r].prefix = Len(s), ![r].last = s, ![r].at = "running"]
  BY <1>1, <1>r
<1> HIDE DEF part
<1>6. row \in Seq(Slot) /\ Len(row) = Len(s)
      /\ \A i \in 1 .. Len(s) : Take(s, i) \in DOMAIN t.slot /\ row[i] = t.slot[Take(s, i)]
  <2>1. PICK w : w = s OBVIOUS
  <2>2. PICK f : f = t.slot OBVIOUS
  <2>3. w \in Word /\ Paths(w) \subseteq DOMAIN f BY <1>4, <1>5, <2>1, <2>2
  <2>4. f \in [DOMAIN f -> Slot] BY <1>4, <2>2 DEF Shape
  <2>5. /\ [i \in DOMAIN w |-> f[Take(w, i)]] \in Seq(Slot)
        /\ Len([i \in DOMAIN w |-> f[Take(w, i)]]) = Len(w)
        /\ \A i \in 1 .. Len(w) :
             Take(w, i) \in DOMAIN f /\ [n \in DOMAIN w |-> f[Take(w, n)]][i] = f[Take(w, i)]
    BY <2>3, <2>4, RowOfPath
  <2>6. row = [i \in DOMAIN w |-> f[Take(w, i)]] BY <2>1, <2>2
  <2> HIDE DEF row
  <2> QED BY <2>1, <2>2, <2>5, <2>6
<1>7. req' \in [Req -> Request] /\ req'[r] = o /\ \A q \in Req \ {r} : req'[q] = req[q]
  <2> HIDE DEF row
  <2>1. o \in Request BY <1>5, <1>6 DEF Request
  <2>2. req' = [req EXCEPT ![r] = o]
    <3> DEFINE q == Renew(req[r], row, Len(s), s, "running")
    <3>1. req[r] \in Request OBVIOUS
    <3>2. Renew(req[r], row, Len(s), s, "running") = o
      <4> DEFINE p == req[r]
      <4>1. p \in Request BY <3>1
      <4> HIDE DEF p
      <4>2. Renew(p, row, Len(s), s, "running")
              = [ids |-> p.ids, row |-> row, prefix |-> Len(s), last |-> s, at |-> "running"]
        BY <4>1, Renewed
      <4> QED BY <4>2 DEF p
    <3>3. req' = [req EXCEPT ![r] = q] BY <1>p DEF Renew
    <3>4. q = o BY <3>2
    <3> HIDE DEF q, o
    <3> QED BY <3>3, <3>4
  <2> HIDE DEF o
  <2> QED BY <2>1, <2>2
<1>8. o.ids = s /\ o.row = row /\ o.prefix = Len(s) /\ o.last = s /\ o.at = "running" OBVIOUS
<1> HIDE DEF o, row, s
<1>9. tree'.slot = t.slot
  <2> DEFINE f == Lasts
             d == DecLockRef(t, f[r])
  <2>1. tree' = IncLockRef(d, s) BY <1>1 DEF Lasts
  <2>2. Locked(t, Admitted, f) BY <1>4
  <2>3. IsFiniteSet(Admitted) BY ReqFinite
  <2> HIDE DEF f
  <2>4. Shape(d) BY <1>2, <1>4, <2>2, <2>3, DecLocked
  <2>5. d.slot = t.slot BY <1>4, DecNodes
  <2> HIDE DEF d
  <2> QED BY <2>1, <2>4, <2>5, IncShape
<1>10. MaxLen \in Nat BY CacheAssumption
<1>11. /\ req'[r].ids = s /\ req'[r].prefix = Len(s) /\ req'[r].last = s /\ req'[r].at = "running"
       /\ Len(req'[r].row) = Len(s) /\ Len(s) \in 0 .. MaxLen
       /\ \A i \in 1 .. Len(s) : Take(s, i) \in DOMAIN t.slot /\ req'[r].row[i] = t.slot[Take(s, i)]
  BY <1>5, <1>6, <1>7, <1>8, <1>10
<1>12. req' \in [Req -> Request] /\ \A q \in Req \ {r} : req'[q] = req[q] BY <1>7
<1>13. /\ job = NoJob /\ req[r].at = "computed" /\ free' = Freed(Doubles(r)) /\ job' = job
       /\ tree' = IncLockRef(DecLockRef(t, req[r].last), s)
  BY <1>1
<1> QED BY <1>2, <1>3, <1>9, <1>11, <1>12, <1>13 DEF s, t

LEMMA UnfinishedSound == ASSUME Sound, NEW r \in Req, CacheUnfinishedReq(r) PROVE Sound'
<1>0. SoundParts BY SoundIs
<1> USE <1>0 DEF SoundParts
<1> DEFINE s == req[r].ids
           t == Grown(r)
<1>1. /\ job = NoJob /\ job' = job /\ r \in Admitted /\ req[r].at = "computed" /\ free' \in [Slot -> Nat]
      /\ tree' = IncLockRef(DecLockRef(t, req[r].last), s) /\ tree'.slot = t.slot
      /\ req' \in [Req -> Request] /\ \A q \in Req \ {r} : req'[q] = req[q]
  BY UnfinishedIs
<1>2. /\ req'[r].ids = s /\ req'[r].prefix = Len(s) /\ req'[r].last = s /\ req'[r].at = "running"
      /\ Len(req'[r].row) = Len(s) /\ Len(s) \in 0 .. MaxLen
      /\ \A i \in 1 .. Len(s) : Take(s, i) \in DOMAIN t.slot /\ req'[r].row[i] = t.slot[Take(s, i)]
  BY UnfinishedIs
<1>3. /\ Shape(t) /\ Locked(t, Admitted, Lasts) /\ s \in Nodes(t) \cup {<<>>}
      /\ DOMAIN t.slot = DOMAIN tree.slot \cup Paths(s)
      /\ \A p \in DOMAIN tree.slot : t.slot[p] = tree.slot[p]
  BY <1>1, GrownIs
<1>4. s \in Word BY DEF Request
<1> HIDE DEF t, s
<1>5. Admitted' = Admitted /\ Lasts'[r] = s /\ \A q \in Admitted \ {r} : Lasts'[q] = Lasts[q]
  <2>1. r \in Req BY <1>1 DEF Admitted
  <2>2. \A q \in Req \ {r} : req'[q] = req[q] BY <1>1
  <2>3. Admitted' = {q \in Req : req'[q].at # "out"} BY DEF Admitted
  <2>4. Admitted' = Admitted BY <1>1, <1>2, <2>1, <2>2, <2>3 DEF Admitted
  <2>5. \A q \in Req : Lasts'[q] = req'[q].last /\ Lasts[q] = req[q].last BY DEF Lasts
  <2> QED BY <1>2, <2>1, <2>2, <2>4, <2>5 DEF Admitted
<1>6. Shape(tree') /\ Locked(tree', Admitted, Lasts')
  <2> DEFINE f == Lasts
             g == Lasts'
  <2>1. tree' = IncLockRef(DecLockRef(t, f[r]), s) BY <1>1 DEF Lasts
  <2>2. Locked(t, Admitted, f) BY <1>3
  <2>3. g[r] = s /\ \A q \in Admitted \ {r} : g[q] = f[q] BY <1>5
  <2>4. IsFiniteSet(Admitted) BY ReqFinite
  <2> HIDE DEF f, g
  <2>5. Locked(IncLockRef(DecLockRef(t, f[r]), s), Admitted, g) BY <1>1, <1>3, <2>2, <2>3, <2>4, ShareTree
  <2>6. Shape(DecLockRef(t, f[r])) BY <1>1, <1>3, <2>2, <2>4, DecLocked
  <2> QED BY <2>1, <2>5, <2>6, IncShape DEF g
<1>7. At("admitted") = {} BY <1>1, NoJobIs DEF Phased, At
<1>8. At("admitted")' = {} BY <1>1, <1>2, <1>7 DEF At
<1>9. Phased' BY <1>1, <1>8, NoJobIs DEF Phased
<1>10. More' = More /\ More = 0 BY <1>1, NoJobIs DEF More
<1>11. ASSUME NEW q \in Req PROVE Fits(tree', req'[q], 0)
  <2>1. CASE q = r
    <3>1. s = Take(s, Len(s)) BY <1>4, TakeAll
    <3>2. Fits(tree', req'[r], 0) BY <1>1, <1>2, <3>1 DEF Fits
    <3> QED BY <2>1, <3>2
  <2>2. CASE q # r
    <3>1. req[q] \in Request /\ Fits(tree, req[q], 0) BY <1>10
    <3>2. \A i \in 1 .. req[q].prefix : Take(req[q].ids, i) \in DOMAIN tree'.slot
            /\ tree'.slot[Take(req[q].ids, i)] = tree.slot[Take(req[q].ids, i)]
      BY <1>1, <1>3, <3>1 DEF Fits
    <3>3. Fits(tree', req[q], 0) BY <3>1, <3>2, FitsOn
    <3> QED BY <1>1, <2>2, <3>3
  <2> QED BY <2>1, <2>2
<1> QED BY <1>1, <1>5, <1>6, <1>9, <1>10, <1>11 DEF Sound, Typed

LEMMA FlushSound == ASSUME Sound, Flush PROVE Sound'
<1>1. /\ job = NoJob /\ job' = job /\ req' = req /\ tree' = EmptyTree /\ free' = [x \in Slot |-> 1] /\ Admitted = {}
  BY DEF Flush, Idle
<1>2. \A r \in Req : req[r] = Out BY <1>1, HeldWords
<1>3. Admitted' = {} /\ Phased' /\ More' = More
  BY <1>1 DEF Admitted, Sound, Phased, At, More
<1>4. Locked(tree', {}, Lasts')
  <2> DEFINE f == Lasts'
  <2> HIDE DEF f
  <2>1. Locked(EmptyTree, {}, f) BY EmptyLocked
  <2> QED BY <1>1, <2>1 DEF f
<1>5. free' \in [Slot -> Nat] BY <1>1
<1>6. \A r \in Req : Fits(tree', req'[r], More') BY <1>1, <1>2, OutIs
<1> QED BY <1>1, <1>3, <1>4, <1>5, <1>6, EmptyShape DEF Sound, Typed

LEMMA StutterSound == ASSUME Sound, UNCHANGED vars PROVE Sound'
<1>1. tree' = tree /\ free' = free /\ req' = req /\ job' = job BY DEF vars
<1>2. Admitted' = Admitted /\ Lasts' = Lasts /\ More' = More /\ Phased'
  BY <1>1 DEF Sound, Admitted, Lasts, More, Phased, At
<1> QED BY <1>1, <1>2 DEF Sound, Typed

LEMMA SoundNext == ASSUME Sound, [Next]_vars PROVE Sound'
<1>1. CASE Next
  BY <1>1, RefuseSound, AdmitSound, ExtendSound, DecodeSound, EvictSound, AllocSound, RetractSound,
     UnfinishedSound, FinishedSound, FlushSound DEF Next
<1>2. CASE UNCHANGED vars BY <1>2, StutterSound
<1> QED BY <1>1, <1>2

\* What a request reads below its prefix are the tree's slots for its own tokens: no slot
\* it uses has been evicted, replaced by a double or given to another request.
THEOREM RowsFit == Spec => []RowsAreTheTrees
<1>1. ASSUME Sound PROVE RowsAreTheTrees
  <2> SUFFICES ASSUME NEW r \in Admitted
               PROVE  /\ req[r].last = Take(req[r].ids, req[r].prefix)
                      /\ req[r].last \in Nodes(tree) \cup {<<>>}
                      /\ \A i \in 1 .. req[r].prefix :
                           Take(req[r].ids, i) \in DOMAIN tree.slot /\ tree.slot[Take(req[r].ids, i)] = req[r].row[i]
    BY DEF RowsAreTheTrees
  <2>1. r \in Req BY DEF Admitted
  <2>2. Fits(tree, req[r], More) /\ Lasts[r] = req[r].last BY <1>1, <2>1, HeldWords
  <2>3. Lasts[r] \in Nodes(tree) \cup {<<>>} BY <1>1 DEF Sound, Locked
  <2> QED BY <2>2, <2>3 DEF Fits
<1>2. Spec => []Sound BY SoundInit, SoundNext, PTL DEF Spec
<1> QED BY <1>1, <1>2, PTL

\* lock_ref counts the holders of each node, through splits of locked nodes too, and
\* evictable_size and protected_size, with which the scheduler plans, are exact.
THEOREM LocksAreCounted == Spec => []CountersExact
<1>1. ASSUME Sound PROVE CountersExact
  <2>1. Shape(tree) /\ Locked(tree, Admitted, Lasts) /\ IsFiniteSet(Admitted) BY <1>1, ReqFinite DEF Sound
  <2>2. \A r \in Admitted : Lasts[r] = req[r].last BY DEF Admitted, Lasts
  <2> DEFINE H == HeldBy(Admitted, Lasts)
             Z == {n \in Nodes(tree) : tree.ref[n] = 0}
             P == {n \in Nodes(tree) : tree.ref[n] > 0}
  <2>3. ASSUME NEW n \in Nodes(tree)
        PROVE  tree.ref[n] = Cardinality({r \in Admitted : IsPrefix(n, req[r].last)})
    <3>1. {r \in Admitted : IsPrefix(n, req[r].last)} = {r \in Admitted : IsPrefix(n, Lasts[r])} BY <2>2
    <3> QED BY <2>1, <3>1 DEF Locked
  <2>4. ASSUME NEW p \in DOMAIN tree.slot
        PROVE  /\ (\E m \in Z : IsOwner(tree, m, p)) <=> p \notin H
               /\ (\E m \in P : IsOwner(tree, m, p)) <=> p \in H
    <3>1. PICK m \in Nodes(tree) : IsOwner(tree, m, p) BY <2>1 DEF Shape
    <3>2. \A k \in Nodes(tree) : IsOwner(tree, k, p) => k = m BY <2>1, <3>1, OwnerUnique
    <3>3. tree.ref[m] = 0 <=> p \notin H
      <4> DEFINE f == Lasts
      <4>1. Locked(tree, Admitted, f) BY <2>1
      <4> HIDE DEF f
      <4>2. tree.ref[m] = 0 <=> p \notin HeldBy(Admitted, f) BY <2>1, <3>1, <4>1, RefIsZero
      <4> QED BY <4>2 DEF f
    <3>4. tree.ref[m] \in Nat BY <2>1 DEF Shape
    <3> HIDE DEF H
    <3> QED BY <3>1, <3>2, <3>3, <3>4
  <2>5. H \subseteq DOMAIN tree.slot
    <3> DEFINE f == Lasts
    <3>1. \A r \in Admitted : f[r] \in Nodes(tree) \cup {<<>>} BY <2>1 DEF Locked
    <3> HIDE DEF f
    <3>2. HeldBy(Admitted, f) \subseteq DOMAIN tree.slot BY <2>1, <3>1, HeldIs
    <3> QED BY <3>2 DEF f
  <2>6. tree.evictable = Cardinality(DOMAIN tree.slot \ H) /\ tree.protected = Cardinality(H) BY <2>1 DEF Locked
  <2>7. Z \subseteq Nodes(tree) /\ P \subseteq Nodes(tree) OBVIOUS
  <2> HIDE DEF H, Z, P
  <2>8. {p \in DOMAIN tree.slot : \E m \in Z : IsOwner(tree, m, p)} = DOMAIN tree.slot \ H BY <2>4
  <2>9. {p \in DOMAIN tree.slot : \E m \in P : IsOwner(tree, m, p)} = H BY <2>4, <2>5
  <2>10. tree.evictable = Size(tree, Z) BY <2>1, <2>6, <2>7, <2>8, SizeIs
  <2>11. tree.protected = Size(tree, P) BY <2>1, <2>6, <2>7, <2>9, SizeIs
  <2> QED BY <2>3, <2>10, <2>11 DEF CountersExact, Z, P
<1>2. Spec => []Sound BY SoundInit, SoundNext, PTL DEF Spec
<1> QED BY <1>1, <1>2, PTL
-------------------------------------------------------------------------------
(* Conservation of the slots *)

\* The pairs of a request of R and a place of its own where rq has the slot x.
Pairs(rq, R, x) ==
  {g \in R \X (1 .. MaxLen) : g[2] \in rq[g[1]].prefix + 1 .. Len(rq[g[1]].row) /\ rq[g[1]].row[g[2]] = x}
Cached(t, x) == {p \in DOMAIN t.slot : t.slot[p] = x}

LEMMA PairsFinite ==
  ASSUME NEW rq, NEW R \in SUBSET Req, NEW x
  PROVE  IsFiniteSet(Pairs(rq, R, x)) /\ Cardinality(Pairs(rq, R, x)) \in Nat
<1>1. IsFiniteSet(R) /\ IsFiniteSet(1 .. MaxLen) BY ReqFinite, FS_Interval, CacheAssumption
<1>2. IsFiniteSet(R \X (1 .. MaxLen)) BY <1>1, FS_Product
<1>3. IsFiniteSet(Pairs(rq, R, x)) BY <1>2, FS_Subset DEF Pairs
<1> QED BY <1>3, FS_CardinalityType

LEMMA CachedFinite ==
  ASSUME NEW t, Shape(t), NEW x
  PROVE  IsFiniteSet(Cached(t, x)) /\ Cardinality(Cached(t, x)) \in Nat
<1>1. IsFiniteSet(Cached(t, x)) BY FS_Subset DEF Shape, Cached
<1> QED BY <1>1, FS_CardinalityType

LEMMA PairsSame ==
  ASSUME NEW rq, NEW rp, NEW R, \A r \in R : rp[r].prefix = rq[r].prefix /\ rp[r].row = rq[r].row, NEW x
  PROVE  Pairs(rp, R, x) = Pairs(rq, R, x)
BY DEF Pairs

\* The pairs of one request.
LEMMA PairsOf ==
  ASSUME NEW rq, NEW r \in Req, rq[r].prefix \in Nat, Len(rq[r].row) \in Nat, Len(rq[r].row) <= MaxLen, NEW x
  PROVE  Cardinality(Pairs(rq, Req, x)) = Cardinality(Pairs(rq, Req \ {r}, x))
                                          + Cardinality(Places(rq[r].row, rq[r].prefix, Len(rq[r].row), x))
<1> DEFINE row == rq[r].row
           a == rq[r].prefix
           n == Len(row)
           A == Pairs(rq, Req \ {r}, x)
           B == PairsAt(Req, MaxLen, r, row, a, n, x)
           C == Pairs(rq, Req, x)
<1>1. C = A \cup B
  <2>1. \A g \in Req \X (1 .. MaxLen) : g \in C <=> g \in A \/ g \in B
    <3> TAKE g \in Req \X (1 .. MaxLen)
    <3>1. CASE g[1] = r
      <4>1. g \in C <=> g[2] \in a + 1 .. n /\ row[g[2]] = x BY <3>1 DEF Pairs
      <4>2. g \notin A BY <3>1 DEF Pairs
      <4> QED BY <3>1, <4>1, <4>2 DEF PairsAt
    <3>2. CASE g[1] # r
      <4>1. g \in (Req \ {r}) \X (1 .. MaxLen) BY <3>2
      <4> QED BY <3>2, <4>1 DEF Pairs, PairsAt
    <3> QED BY <3>1, <3>2
  <2>2. C \subseteq Req \X (1 .. MaxLen) /\ A \subseteq Req \X (1 .. MaxLen) /\ B \subseteq Req \X (1 .. MaxLen)
    BY DEF Pairs, PairsAt
  <2> HIDE DEF A, B, C
  <2> QED BY <2>1, <2>2
<1>2. A \cap B = {} BY DEF Pairs, PairsAt
<1>3. IsFiniteSet(A) BY PairsFinite
<1>4. IsFiniteSet(B) /\ Cardinality(B) = Cardinality(Places(row, a, n, x))
  <2>1. MaxLen \in Nat BY CacheAssumption
  <2> QED BY <2>1, PlacesOfPairs
<1> HIDE DEF A, B, C
<1>5. Cardinality(C) = Cardinality(A) + Cardinality(B) BY <1>1, <1>2, <1>3, <1>4, CardDisjoint
<1> QED BY <1>4, <1>5 DEF A, C

LEMMA NoPlaces ==
  ASSUME NEW row, NEW a \in Nat, NEW x
  PROVE  Cardinality(Places(row, a, a, x)) = 0
<1>1. Places(row, a, a, x) = {} BY DEF Places
<1> QED BY <1>1, FS_EmptySet

Conserved(f, t, rq) ==
  \A x \in Slot : f[x] + Cardinality(Cached(t, x)) + Cardinality(Pairs(rq, Req, x)) = 1

LEMMA ConservedIs == (SlotsConserved <=> Conserved(free, tree, req)) /\ (SlotsConserved <=> Conserved(free, tree, req))'
BY DEF SlotsConserved, Holders, Conserved, Cached, Pairs

\* All slots free, no cache, no request.
LEMMA ConservedEmpty ==
  ASSUME NEW rq, \A r \in Req : rq[r] = Out
  PROVE  Conserved([x \in Slot |-> 1], EmptyTree, rq)
<1> SUFFICES ASSUME NEW x \in Slot
             PROVE  1 + Cardinality(Cached(EmptyTree, x)) + Cardinality(Pairs(rq, Req, x)) = 1
  BY DEF Conserved
<1>1. Cached(EmptyTree, x) = {} BY DEF Cached, EmptyTree
<1>2. Pairs(rq, Req, x) = {}
  <2>1. Len(<<>>) = 0 OBVIOUS
  <2>2. \A r \in Req : rq[r].prefix + 1 .. Len(rq[r].row) = {} BY <2>1, OutIs
  <2> QED BY <2>2 DEF Pairs
<1> QED BY <1>1, <1>2, FS_EmptySet

\* Steps that move no slot.
LEMMA ConservedSame ==
  ASSUME Conserved(free, tree, req), NEW t, t.slot = tree.slot, NEW rq,
         \A r \in Req : rq[r].prefix = req[r].prefix /\ rq[r].row = req[r].row
  PROVE  Conserved(free, t, rq)
<1>1. \A x : Cached(t, x) = Cached(tree, x) BY DEF Cached
<1>2. \A x : Pairs(rq, Req, x) = Pairs(req, Req, x) BY PairsSame
<1> QED BY <1>1, <1>2 DEF Conserved

LEMMA AdmitConserved ==
  ASSUME Sound, SlotsConserved, NEW r \in Req, NEW s \in Keys, NEW limit \in 0 .. MaxLen - 1, Admit(r, s, limit)
  PROVE  SlotsConserved'
<1> DEFINE p == Matched(tree, Take(s, limit))
           row == [i \in DOMAIN p |-> tree.slot[Take(s, i)]]
           q == [ids |-> s, row |-> row, prefix |-> Len(p), last |-> p, at |-> "admitted"]
<1>1. tree' = IncLockRef(Split(tree, p), p) /\ req' = [req EXCEPT ![r] = q] /\ free' = free /\ r \notin Admitted
  BY DEF Admit
<1>2. /\ p \in DOMAIN tree.slot \cup {<<>>} /\ Len(p) \in Nat /\ DOMAIN p = 1 .. Len(p) /\ Len(p) <= MaxLen
  <2>1. Len(p) <= Len(s) /\ Len(s) <= MaxLen /\ Len(p) \in Nat /\ DOMAIN p = 1 .. Len(p)
        /\ p \in DOMAIN tree.slot \cup {<<>>}
    BY AdmitIs
  <2>2. Len(s) \in Nat /\ MaxLen \in Nat BY KeysAre, CacheAssumption
  <2> HIDE DEF p
  <2> QED BY <2>1, <2>2
<1> HIDE DEF p
<1>3. q.row = row /\ q.prefix = Len(p) OBVIOUS
<1>4. Len(row) = Len(p) BY <1>2
<1> HIDE DEF row, q
<1>5. req'[r] = q /\ (\A o \in Req \ {r} : req'[o] = req[o]) /\ req[r] = Out BY <1>1, HeldWords DEF Sound, Typed
<1>6. tree'.slot = tree.slot
  <2>1. Shape(tree) BY DEF Sound
  <2>2. Shape(Split(tree, p)) /\ Split(tree, p).slot = tree.slot BY <1>2, <2>1, SplitIs
  <2> QED BY <1>1, <2>2, IncShape
<1> DEFINE rq == req'
<1>7. rq[r].row = row /\ rq[r].prefix = Len(p) /\ \A o \in Req \ {r} : rq[o] = req[o] BY <1>3, <1>5
<1> HIDE DEF rq
<1>8. ASSUME NEW x \in Slot PROVE Cardinality(Pairs(rq, Req, x)) = Cardinality(Pairs(req, Req, x))
  <2>1. Cardinality(Pairs(rq, Req, x))
          = Cardinality(Pairs(rq, Req \ {r}, x)) + Cardinality(Places(row, Len(p), Len(p), x))
    <3>1. rq[r].prefix \in Nat /\ Len(rq[r].row) \in Nat /\ Len(rq[r].row) <= MaxLen BY <1>2, <1>4, <1>7
    <3>2. Cardinality(Pairs(rq, Req, x)) = Cardinality(Pairs(rq, Req \ {r}, x))
                                          + Cardinality(Places(rq[r].row, rq[r].prefix, Len(rq[r].row), x))
      BY <3>1, PairsOf
    <3> QED BY <1>4, <1>7, <3>2
  <2>2. Cardinality(Pairs(req, Req, x))
          = Cardinality(Pairs(req, Req \ {r}, x)) + Cardinality(Places(<<>>, 0, 0, x))
    <3>1. req[r].prefix = 0 /\ req[r].row = <<>> /\ Len(<<>>) = 0 /\ 0 <= MaxLen BY <1>5, OutIs, CacheAssumption
    <3>2. req[r].prefix \in Nat /\ Len(req[r].row) \in Nat /\ Len(req[r].row) <= MaxLen BY <3>1
    <3>3. Cardinality(Pairs(req, Req, x)) = Cardinality(Pairs(req, Req \ {r}, x))
                                          + Cardinality(Places(req[r].row, req[r].prefix, Len(req[r].row), x))
      BY <3>2, PairsOf
    <3> QED BY <3>1, <3>3
  <2>3. Pairs(rq, Req \ {r}, x) = Pairs(req, Req \ {r}, x) BY <1>7, PairsSame
  <2>4. Cardinality(Places(row, Len(p), Len(p), x)) = 0 /\ Cardinality(Places(<<>>, 0, 0, x)) = 0 BY <1>2, NoPlaces
  <2> QED BY <2>1, <2>2, <2>3, <2>4
<1>9. \A x : Cached(tree', x) = Cached(tree, x) BY <1>6 DEF Cached
<1>10. Conserved(free', tree', rq) BY <1>1, <1>8, <1>9, ConservedIs DEF Conserved
<1> QED BY <1>10, ConservedIs DEF rq

LEMMA DecodeConserved ==
  ASSUME Sound, SlotsConserved, NEW next \in [At("running") -> Token], Decode(next)
  PROVE  SlotsConserved'
<1>1. /\ req' = [r \in Req |-> IF req[r].at = "running" THEN [req[r] EXCEPT !.ids = Append(@, next[r])] ELSE req[r]]
      /\ tree' = tree /\ free' = free
  BY DEF Decode
<1>2. ASSUME NEW r \in Req PROVE req'[r].prefix = req[r].prefix /\ req'[r].row = req[r].row
  <2>1. req[r] \in Request BY DEF Sound, Typed
  <2>2. CASE req[r].at # "running" BY <1>1, <2>2
  <2>3. CASE req[r].at = "running"
    <3> DEFINE q == req[r]
               ids == Append(q.ids, next[r])
    <3>1. req'[r] = [q EXCEPT !.ids = ids] BY <1>1, <2>3
    <3> HIDE DEF ids
    <3> QED BY <2>1, <3>1 DEF Request
  <2> QED BY <2>2, <2>3
<1> DEFINE rq == req'
<1>3. \A r \in Req : rq[r].prefix = req[r].prefix /\ rq[r].row = req[r].row BY <1>2
<1> HIDE DEF rq
<1>4. Conserved(free, tree, rq) BY <1>3, ConservedIs, ConservedSame
<1> QED BY <1>1, <1>4, ConservedIs DEF rq

LEMMA EvictConserved == ASSUME Sound, SlotsConserved, NEW n \in Nodes(tree), EvictLeaf(n) PROVE SlotsConserved'
<1>1. /\ free' = [x \in Slot |-> free[x] + Cardinality({p \in Own(tree, n) : tree.slot[p] = x})] /\ req' = req
  BY DEF EvictLeaf
<1>2. /\ DOMAIN tree'.slot = DOMAIN tree.slot \ Own(tree, n)
      /\ (\A p \in DOMAIN tree'.slot : tree'.slot[p] = tree.slot[p])
      /\ Own(tree, n) \subseteq DOMAIN tree.slot /\ IsFiniteSet(Own(tree, n)) /\ Shape(tree')
  BY EvictIs
<1> DEFINE O == Own(tree, n)
<1>3. ASSUME NEW x \in Slot
      PROVE  free'[x] + Cardinality(Cached(tree', x)) = free[x] + Cardinality(Cached(tree, x))
  <2> DEFINE A == Cached(tree', x)
             B == {p \in Own(tree, n) : tree.slot[p] = x}
             C == Cached(tree, x)
  <2>1. A \cap B = {} /\ C = A \cup B BY <1>2 DEF Cached
  <2>2. IsFiniteSet(A) /\ IsFiniteSet(B) BY <1>2, CachedFinite, FS_Subset
  <2>3. free'[x] = free[x] + Cardinality(B) /\ free[x] \in Nat BY <1>1 DEF Sound, Typed
  <2> HIDE DEF A, B, C
  <2>4. Cardinality(C) = Cardinality(A) + Cardinality(B) /\ Cardinality(A) \in Nat /\ Cardinality(B) \in Nat
    BY <2>1, <2>2, CardDisjoint
  <2>5. free'[x] + Cardinality(A) = free[x] + Cardinality(C) BY <2>3, <2>4
  <2> QED BY <2>5 DEF A, C
<1>4. Conserved(free', tree', req) BY <1>3, ConservedIs DEF Conserved
<1> QED BY <1>1, <1>4, ConservedIs

LEMMA AllocConserved == ASSUME Sound, SlotsConserved, Alloc PROVE SlotsConserved'
<1>1. tree' = tree /\ job.batch \in SUBSET Req BY AllocIs, GetsAre
<1>2. PICK new : AllocWith(new) BY AllocIs
<1>3. \A r \in Req \ job.batch : req'[r] = req[r] BY <1>2 DEF AllocWith
<1>4. \A r \in job.batch : /\ Given(req[r], req'[r])
                           /\ \A i \in Len(req[r].row) + 1 .. Len(req[r].ids) : req'[r].row[i] = new[<<r, i>>]
  BY <1>2, AllocRows
<1>5. ASSUME NEW r \in job.batch
      PROVE  /\ Len(req[r].ids) \in Nat /\ Len(req[r].row) \in Nat /\ req[r].prefix \in Nat
             /\ req[r].prefix <= Len(req[r].row) /\ Len(req[r].row) <= Len(req[r].ids)
  <2>1. req[r] \in Request /\ Fits(tree, req[r], More) /\ More \in Nat BY <1>1 DEF Sound, Typed, More
  <2> QED BY <2>1, FitsWords, FitsRow
<1> DEFINE rq == req'
<1>6. ASSUME NEW x \in Slot
      PROVE  Cardinality(Pairs(rq, Req, x)) = Cardinality(Pairs(req, Req, x)) + Used(new, x)
  <2> DEFINE A == Pairs(req, Req, x)
             B == {g \in Gets : new[g] = x}
             C == Pairs(rq, Req, x)
  <2>1. ASSUME NEW g \in Req \X (1 .. MaxLen)
        PROVE  (g \in C <=> g \in A \/ g \in B) /\ ~(g \in A /\ g \in B)
    <3> DEFINE r == g[1]
               i == g[2]
    <3>1. r \in Req /\ i \in 1 .. MaxLen /\ g = <<r, i>> OBVIOUS
    <3> HIDE DEF r, i
    <3>2. g[1] = r /\ g[2] = i BY DEF r, i
    <3>3. g \in A <=> i \in req[r].prefix + 1 .. Len(req[r].row) /\ req[r].row[i] = x BY <3>2 DEF Pairs
    <3>4. g \in C <=> i \in rq[r].prefix + 1 .. Len(rq[r].row) /\ rq[r].row[i] = x BY <3>2 DEF Pairs
    <3>5. CASE r \notin job.batch
      <4>1. g \notin B BY <3>2, <3>5, GetsAre
      <4>2. rq[r] = req[r] BY <1>3, <3>1, <3>5
      <4> QED BY <3>3, <3>4, <4>1, <4>2
    <3>6. CASE r \in job.batch
      <4> DEFINE a == req[r].prefix
                 m == Len(req[r].row)
                 n == Len(req[r].ids)
      <4>1. a \in Nat /\ m \in Nat /\ n \in Nat /\ a <= m /\ m <= n BY <1>5, <3>6
      <4>2. rq[r].prefix = a /\ Len(rq[r].row) = n BY <1>4, <3>6 DEF Given
      <4>3. \A j \in 1 .. m : rq[r].row[j] = req[r].row[j] BY <1>4, <3>6 DEF Given
      <4>4. \A j \in m + 1 .. n : rq[r].row[j] = new[<<r, j>>] BY <1>4, <3>6
      <4>5. g \in B <=> i \in m + 1 .. n /\ new[g] = x
        <5>1. g \in Gets => i \in m + 1 .. n BY <3>2, GetsAre
        <5>2. i \in m + 1 .. n => g \in Gets BY <3>1, <3>6, GetsAre
        <5> QED BY <5>1, <5>2
      <4> HIDE DEF A, B, C, rq
      <4>6. g \in A <=> i \in a + 1 .. m /\ req[r].row[i] = x BY <3>3
      <4>7. g \in C <=> i \in a + 1 .. n /\ rq[r].row[i] = x BY <3>4, <4>2
      <4>8. i \in Nat BY <3>1
      <4> HIDE DEF a, m, n
      <4>9. CASE i \in m + 1 .. n
        <5>1. rq[r].row[i] = new[g] BY <3>1, <4>4, <4>9
        <5>2. i \in a + 1 .. n /\ ~(i \in a + 1 .. m) BY <4>1, <4>8, <4>9
        <5> QED BY <4>5, <4>6, <4>7, <4>9, <5>1, <5>2
      <4>10. CASE ~(i \in m + 1 .. n)
        <5>1. i \in a + 1 .. n <=> i \in a + 1 .. m BY <4>1, <4>8, <4>10
        <5>2. i \in a + 1 .. m => i \in 1 .. m BY <4>1, <4>8
        <5>3. i \in a + 1 .. m => rq[r].row[i] = req[r].row[i] BY <4>3, <5>2
        <5> QED BY <4>5, <4>6, <4>7, <4>10, <5>1, <5>3
      <4> QED BY <4>9, <4>10
    <3> QED BY <3>5, <3>6
  <2>2. A \subseteq Req \X (1 .. MaxLen) /\ C \subseteq Req \X (1 .. MaxLen) BY DEF Pairs
  <2>3. B \subseteq Req \X (1 .. MaxLen)
    <3>1. \A g \in B : g = <<g[1], g[2]>> /\ g[1] \in Req /\ g[2] \in 1 .. MaxLen BY <1>1, GetsAre
    <3> QED BY <3>1
  <2>4. IsFiniteSet(A) /\ IsFiniteSet(B) BY PairsFinite, GetsAre, FS_Subset
  <2>5. Used(new, x) = Cardinality(B) BY DEF Used
  <2> HIDE DEF A, B, C
  <2>6. A \cap B = {} /\ C = A \cup B BY <2>1, <2>2, <2>3
  <2>7. Cardinality(C) = Cardinality(A) + Used(new, x) BY <2>4, <2>5, <2>6, CardDisjoint
  <2> QED BY <2>7 DEF A, C
<1> HIDE DEF rq
<1>7. Conserved(free', tree', rq)
  <2> SUFFICES ASSUME NEW x \in Slot
               PROVE  free'[x] + Cardinality(Cached(tree', x)) + Cardinality(Pairs(rq, Req, x)) = 1
    BY DEF Conserved
  <2>1. free'[x] = free[x] - Used(new, x) /\ free[x] \in Nat BY <1>2 DEF AllocWith, Sound, Typed
  <2>2. Used(new, x) \in Nat
    <3>1. IsFiniteSet({g \in Gets : new[g] = x}) BY GetsAre, FS_Subset
    <3> QED BY <3>1, FS_CardinalityType DEF Used
  <2>3. Cardinality(Cached(tree, x)) \in Nat /\ Cardinality(Pairs(req, Req, x)) \in Nat
    BY CachedFinite, PairsFinite DEF Sound
  <2>4. free[x] + Cardinality(Cached(tree, x)) + Cardinality(Pairs(req, Req, x)) = 1 BY ConservedIs DEF Conserved
  <2> QED BY <1>1, <1>6, <2>1, <2>2, <2>3, <2>4
<1> QED BY <1>7, ConservedIs DEF rq

\* What is freed is counted where it was.
LEMMA FreedIs ==
  ASSUME Sound, NEW row \in Seq(Slot), NEW a \in Nat, NEW b \in Nat, a <= b, b <= Len(row), NEW x \in Slot
  PROVE  /\ Freed(SubSeq(row, a + 1, b))[x] = free[x] + Cardinality(Places(row, a, b, x))
         /\ free[x] \in Nat /\ Cardinality(Places(row, a, b, x)) \in Nat
<1>1. Cardinality({i \in DOMAIN SubSeq(row, a + 1, b) : SubSeq(row, a + 1, b)[i] = x})
        = Cardinality(Places(row, a, b, x))
  BY PlacesOfPart
<1>2. Cardinality(Places(row, a, b, x)) \in Nat BY PlacesType
<1>3. free[x] \in Nat BY DEF Sound, Typed
<1> QED BY <1>1, <1>2, <1>3 DEF Freed

LEMMA RowOf ==
  ASSUME Sound, NEW r \in Req, NEW x
  PROVE  Cardinality(Pairs(req, Req, x)) = Cardinality(Pairs(req, Req \ {r}, x))
                                          + Cardinality(Places(req[r].row, req[r].prefix, Len(req[r].row), x))
<1>1. req[r] \in Request /\ Fits(tree, req[r], More) /\ More \in Nat BY HeldWords DEF More
<1>2. req[r].prefix \in Nat /\ Len(req[r].row) \in Nat /\ Len(req[r].row) <= MaxLen
  BY <1>1, FitsWords, FitsRow
<1> QED BY <1>2, PairsOf

\* A request that has no slots of its own any more.
LEMMA NoneOf ==
  ASSUME NEW rq, NEW r \in Req, \A o \in Req \ {r} : rq[o] = req[o], NEW x,
         rq[r].prefix \in Nat, Len(rq[r].row) = rq[r].prefix, rq[r].prefix <= MaxLen
  PROVE  Cardinality(Pairs(rq, Req, x)) = Cardinality(Pairs(req, Req \ {r}, x))
<1>1. Cardinality(Pairs(rq, Req, x)) = Cardinality(Pairs(rq, Req \ {r}, x))
                                      + Cardinality(Places(rq[r].row, rq[r].prefix, Len(rq[r].row), x))
  <2>1. Len(rq[r].row) \in Nat /\ Len(rq[r].row) <= MaxLen OBVIOUS
  <2> QED BY <2>1, PairsOf
<1>2. Cardinality(Places(rq[r].row, rq[r].prefix, Len(rq[r].row), x)) = 0 BY NoPlaces
<1>3. Pairs(rq, Req \ {r}, x) = Pairs(req, Req \ {r}, x) BY PairsSame
<1>4. Cardinality(Pairs(req, Req \ {r}, x)) \in Nat BY PairsFinite
<1> QED BY <1>1, <1>2, <1>3, <1>4

LEMMA RetractConserved == ASSUME Sound, SlotsConserved, NEW r \in Req, Retract(r) PROVE SlotsConserved'
<1> DEFINE q == req[r]
           row == q.row
           a == q.prefix
           b == Len(q.row)
           rq == req'
<1>1. /\ free' = Freed(SubSeq(row, a + 1, b)) /\ tree' = DecLockRef(tree, q.last) /\ req' = [req EXCEPT ![r] = Out]
  BY RetractIs
<1>2. row \in Seq(Slot) /\ a \in Nat /\ b \in Nat /\ a <= b
  <2>1. req[r] \in Request /\ Fits(tree, req[r], More) BY HeldWords
  <2>2. row \in Seq(Slot) BY <2>1 DEF Request
  <2> QED BY <2>1, <2>2, FitsWords
<1>3. tree'.slot = tree.slot BY <1>1, DecNodes DEF Sound
<1>4. rq[r] = Out /\ \A o \in Req \ {r} : rq[o] = req[o] BY <1>1 DEF Sound, Typed
<1> HIDE DEF rq
<1>5. rq[r].prefix \in Nat /\ Len(rq[r].row) = rq[r].prefix /\ rq[r].prefix <= MaxLen
  <2>1. Len(<<>>) = 0 OBVIOUS
  <2> QED BY <1>4, <2>1, OutIs, CacheAssumption
<1>6. ASSUME NEW x \in Slot
      PROVE  free'[x] + Cardinality(Cached(tree', x)) + Cardinality(Pairs(rq, Req, x)) = 1
  <2>1. Cardinality(Pairs(rq, Req, x)) = Cardinality(Pairs(req, Req \ {r}, x)) BY <1>4, <1>5, NoneOf
  <2>2. Cardinality(Pairs(req, Req, x)) = Cardinality(Pairs(req, Req \ {r}, x)) + Cardinality(Places(row, a, b, x))
    BY RowOf
  <2>3. b <= Len(row) BY <1>2
  <2>4. free'[x] = free[x] + Cardinality(Places(row, a, b, x)) /\ free[x] \in Nat
        /\ Cardinality(Places(row, a, b, x)) \in Nat
    <3> HIDE DEF row, a, b
    <3> QED BY <1>1, <1>2, <2>3, FreedIs
  <2>5. Cached(tree', x) = Cached(tree, x) BY <1>3 DEF Cached
  <2>6. free[x] + Cardinality(Cached(tree, x)) + Cardinality(Pairs(req, Req, x)) = 1 BY ConservedIs DEF Conserved
  <2>7. Cardinality(Pairs(req, Req \ {r}, x)) \in Nat /\ Cardinality(Cached(tree, x)) \in Nat
    BY PairsFinite, CachedFinite DEF Sound
  <2> QED BY <2>1, <2>2, <2>4, <2>5, <2>6, <2>7
<1>7. Conserved(free', tree', rq) BY <1>6 DEF Conserved
<1> QED BY <1>7, ConservedIs DEF rq

\* What both callers of insert do to the slots: the doubles are freed, what the tree did
\* not have it takes over, and the request has none of its own any more.
LEMMA GrownConserved ==
  ASSUME Sound, SlotsConserved, NEW r \in Req, job = NoJob, req[r].at \in {"computed", "running"},
         NEW rq, \A o \in Req \ {r} : rq[o] = req[o],
         rq[r].prefix \in Nat, Len(rq[r].row) = rq[r].prefix, rq[r].prefix <= MaxLen,
         NEW t, t.slot = Grown(r).slot
  PROVE  Conserved(Freed(Doubles(r)), t, rq)
<1> DEFINE q == req[r]
           row == q.row
           a == q.prefix
           m == MatchLen(tree, q.ids)
           b == Len(q.row)
<1>1. row \in Seq(Slot) /\ a \in Nat /\ m \in Nat /\ b \in Nat /\ a <= m /\ m <= b /\ b = Len(q.ids) /\ q.ids \in Word
      /\ b = Len(row) /\ Doubles(r) = SubSeq(row, a + 1, m)
  <2>1. req[r] \in Request BY HeldWords
  <2>2. row \in Seq(Slot) /\ q.ids \in Word BY <2>1 DEF Request
  <2> QED BY <2>2, DoublesType DEF Doubles
<1>2. /\ DOMAIN Grown(r).slot = DOMAIN tree.slot \cup Paths(q.ids)
      /\ \A p \in DOMAIN tree.slot : Grown(r).slot[p] = tree.slot[p]
      /\ \A p \in Paths(q.ids) \ DOMAIN tree.slot : Grown(r).slot[p] = row[Len(p)]
  BY GrownIs
<1> DEFINE D == Paths(q.ids) \ DOMAIN tree.slot
<1>3. ASSUME NEW x \in Slot
      PROVE  /\ Cardinality(Cached(t, x)) = Cardinality(Cached(tree, x)) + Cardinality(Places(row, m, b, x))
             /\ Cardinality(Cached(tree, x)) \in Nat
  <2> DEFINE A == Cached(tree, x)
             B == {p \in D : row[Len(p)] = x}
             C == Cached(t, x)
  <2>1. A \cap B = {} /\ C = A \cup B BY <1>2 DEF Cached
  <2>2. IsFiniteSet(A) BY CachedFinite DEF Sound
  <2>3. IsFiniteSet(B)
    <3>1. IsFiniteSet(Paths(q.ids)) BY <1>1, PathsFinite
    <3> QED BY <3>1, FS_Subset
  <2>4. Cardinality(B) = Cardinality(Places(row, m, b, x))
    <3>1. Cardinality(B) = Cardinality(Places(row, MatchLen(tree, q.ids), Len(q.ids), x))
      <4>1. Shape(tree) /\ q.ids \in Word BY <1>1 DEF Sound
      <4> QED BY <4>1, PlacesOfWords
    <3> QED BY <1>1, <3>1
  <2> HIDE DEF A, B, C, D, row, m, b
  <2>5. Cardinality(C) = Cardinality(A) + Cardinality(B) /\ Cardinality(A) \in Nat BY <2>1, <2>2, <2>3, CardDisjoint
  <2> QED BY <2>4, <2>5 DEF A, C
<1>4. ASSUME NEW x \in Slot
      PROVE  Freed(Doubles(r))[x] + Cardinality(Cached(t, x)) + Cardinality(Pairs(rq, Req, x)) = 1
  <2>1. Cardinality(Pairs(rq, Req, x)) = Cardinality(Pairs(req, Req \ {r}, x)) BY NoneOf
  <2>2. Cardinality(Pairs(req, Req, x)) = Cardinality(Pairs(req, Req \ {r}, x)) + Cardinality(Places(row, a, b, x))
    BY RowOf
  <2>3. free[x] + Cardinality(Cached(tree, x)) + Cardinality(Pairs(req, Req, x)) = 1 BY ConservedIs DEF Conserved
  <2>4. Cardinality(Pairs(req, Req \ {r}, x)) \in Nat BY PairsFinite
  <2> HIDE DEF row, a, m, b, q
  <2>5. Freed(Doubles(r))[x] = free[x] + Cardinality(Places(row, a, m, x)) /\ free[x] \in Nat
        /\ Cardinality(Places(row, a, m, x)) \in Nat
    BY <1>1, FreedIs
  <2>6. Cardinality(Places(row, a, b, x)) = Cardinality(Places(row, a, m, x)) + Cardinality(Places(row, m, b, x))
    <3>1. a \in Int /\ m \in Int /\ b \in Int BY <1>1
    <3> QED BY <1>1, <3>1, PlacesSplit
  <2>7. Cardinality(Places(row, m, b, x)) \in Nat BY <1>1, PlacesType
  <2> QED BY <1>3, <2>1, <2>2, <2>3, <2>4, <2>5, <2>6, <2>7
<1> QED BY <1>4 DEF Conserved

LEMMA FinishedConserved == ASSUME Sound, SlotsConserved, NEW r \in Req, CacheFinishedReq(r) PROVE SlotsConserved'
<1> DEFINE rq == req'
           t == tree'
<1>1. /\ job = NoJob /\ req[r].at \in {"computed", "running"} /\ free' = Freed(Doubles(r))
      /\ req' = [req EXCEPT ![r] = Out] /\ tree' = DecLockRef(Grown(r), req[r].last)
  BY DEF CacheFinishedReq, Finishes, Grown
<1>2. rq[r] = Out /\ \A o \in Req \ {r} : rq[o] = req[o] BY <1>1 DEF Sound, Typed
<1>3. t.slot = Grown(r).slot BY <1>1, GrownIs, DecNodes
<1> HIDE DEF rq, t
<1>4. rq[r].prefix \in Nat /\ Len(rq[r].row) = rq[r].prefix /\ rq[r].prefix <= MaxLen
  <2>1. Len(<<>>) = 0 OBVIOUS
  <2> QED BY <1>2, <2>1, OutIs, CacheAssumption
<1>5. Conserved(Freed(Doubles(r)), t, rq) BY <1>1, <1>2, <1>3, <1>4, GrownConserved
<1> QED BY <1>1, <1>5, ConservedIs DEF rq, t

LEMMA UnfinishedConserved == ASSUME Sound, SlotsConserved, NEW r \in Req, CacheUnfinishedReq(r) PROVE SlotsConserved'
<1> DEFINE rq == req'
           t == tree'
<1>1. /\ job = NoJob /\ req[r].at \in {"computed", "running"} /\ free' = Freed(Doubles(r))
      /\ t.slot = Grown(r).slot /\ \A o \in Req \ {r} : rq[o] = req[o]
  BY UnfinishedIs
<1>2. rq[r].prefix \in Nat /\ Len(rq[r].row) = rq[r].prefix /\ rq[r].prefix <= MaxLen
  BY UnfinishedIs, CacheAssumption
<1> HIDE DEF rq, t
<1>3. Conserved(Freed(Doubles(r)), t, rq) BY <1>1, <1>2, GrownConserved
<1> QED BY <1>1, <1>3, ConservedIs DEF rq, t

\* The steps that leave every slot where it is.
LEMMA StillConserved ==
  ASSUME Sound, SlotsConserved, free' = free, req' = req, tree'.slot = tree.slot
  PROVE  SlotsConserved'
<1> DEFINE t == tree'
<1>1. t.slot = tree.slot OBVIOUS
<1> HIDE DEF t
<1>2. Conserved(free, t, req) BY <1>1, ConservedIs, ConservedSame
<1> QED BY <1>2, ConservedIs DEF t

LEMMA FlushConserved == ASSUME Sound, SlotsConserved, Flush PROVE SlotsConserved'
<1>1. req' = req /\ tree' = EmptyTree /\ free' = [x \in Slot |-> 1] /\ Admitted = {} BY DEF Flush
<1>2. \A r \in Req : req[r] = Out BY <1>1, HeldWords
<1>3. Conserved([x \in Slot |-> 1], EmptyTree, req) BY <1>2, ConservedEmpty
<1> QED BY <1>1, <1>3, ConservedIs

LEMMA ConservedNext == ASSUME Sound, SlotsConserved, [Next]_vars PROVE SlotsConserved'
<1>1. ASSUME NEW s \in Keys, Refuse(s) PROVE SlotsConserved'
  <2>1. tree' = Split(tree, Matched(tree, s)) /\ req' = req /\ free' = free BY <1>1 DEF Refuse
  <2>2. Shape(tree) BY DEF Sound
  <2>3. Matched(tree, s) \in DOMAIN tree.slot \cup {<<>>} BY <2>2, KeysAre, MatchedIs
  <2>4. tree'.slot = tree.slot BY <2>1, <2>2, <2>3, SplitIs
  <2> QED BY <2>1, <2>4, StillConserved
<1>2. CASE Extend BY <1>2, StillConserved DEF Extend
<1>3. CASE UNCHANGED vars BY <1>3, StillConserved DEF vars
<1> QED BY <1>1, <1>2, <1>3, AdmitConserved, DecodeConserved, EvictConserved, AllocConserved, RetractConserved,
           UnfinishedConserved, FinishedConserved, FlushConserved DEF Next

LEMMA ConservedInit == ASSUME Init PROVE SlotsConserved
<1>1. free = [x \in Slot |-> 1] /\ tree = EmptyTree /\ \A r \in Req : req[r] = Out BY DEF Init
<1>2. Conserved([x \in Slot |-> 1], EmptyTree, req) BY <1>1, ConservedEmpty
<1> QED BY <1>1, <1>2, ConservedIs

\* No slot of the KV pool is lost or in two places: of the free list, the tree and the
\* requests' own rows exactly one has it, whatever is computed twice, evicted or retracted.
THEOREM NoSlotIsLost == Spec => []SlotsConserved
<1>1. Spec => [](Sound /\ SlotsConserved)
  BY ConservedInit, SoundInit, SoundNext, ConservedNext, PTL DEF Spec
<1> QED BY <1>1, PTL

-------------------------------------------------------------------------------
(* The balance of the pool *)

LEMMA FibresAre ==
  ASSUME NEW P, IsFiniteSet(P), NEW X, IsFiniteSet(X), NEW g, \A p \in P : g[p] \in X
  PROVE  Total([x \in X |-> Cardinality({p \in P : g[p] = x})], X) = Cardinality(P)
<1> DEFINE c == [x \in X |-> Cardinality({p \in P : g[p] = x})]
<1>1. \A x \in X : c[x] = Cardinality({p \in P : g[p] = x}) OBVIOUS
<1> HIDE DEF c
<1>2. Total(c, X) = Cardinality(P) BY <1>1, Fibres
<1> QED BY <1>2 DEF c

\* The slots of its own that each request has.
Private(rq) == [r \in Req |-> Len(rq[r].row) - rq[r].prefix]
Whole(rq) ==
  \A r \in Req : /\ rq[r].prefix \in Nat /\ Len(rq[r].row) \in Nat
                 /\ rq[r].prefix <= Len(rq[r].row) /\ Len(rq[r].row) <= MaxLen
                 /\ \A i \in 1 .. Len(rq[r].row) : rq[r].row[i] \in Slot

LEMMA SoundWhole == ASSUME Sound PROVE Whole(req)
<1> SUFFICES ASSUME NEW r \in Req
             PROVE  /\ req[r].prefix \in Nat /\ Len(req[r].row) \in Nat
                    /\ req[r].prefix <= Len(req[r].row) /\ Len(req[r].row) <= MaxLen
                    /\ \A i \in 1 .. Len(req[r].row) : req[r].row[i] \in Slot
  BY DEF Whole
<1>1. req[r] \in Request /\ Fits(tree, req[r], More) /\ More \in Nat BY HeldWords DEF More
<1> QED BY <1>1, FitsWords, FitsRow

LEMMA PrivateSlots ==
  ASSUME NEW rq, Whole(rq)
  PROVE  Total([x \in Slot |-> Cardinality(Pairs(rq, Req, x))], Slot) = Total(Private(rq), Req)
<1> DEFINE G == Req \X (1 .. MaxLen)
           P == {g \in G : g[2] \in rq[g[1]].prefix + 1 .. Len(rq[g[1]].row)}
           h == [g \in G |-> rq[g[1]].row[g[2]]]
           k == [g \in G |-> g[1]]
           c == [x \in Slot |-> Cardinality(Pairs(rq, Req, x))]
           e == [r \in Req |-> Cardinality({g \in P : k[g] = r})]
<1>1. IsFiniteSet(P)
  <2>1. 1 \in Int /\ MaxLen \in Int BY CacheAssumption
  <2>2. IsFiniteSet(1 .. MaxLen) BY <2>1, FS_Interval
  <2>3. IsFiniteSet(G) BY <2>2, ReqFinite, FS_Product
  <2> QED BY <2>3, FS_Subset
<1>2. \A g \in P : g \in G /\ g[1] \in Req /\ g[2] \in 1 .. Len(rq[g[1]].row)
  <2> SUFFICES ASSUME NEW g \in P PROVE g \in G /\ g[1] \in Req /\ g[2] \in 1 .. Len(rq[g[1]].row)
    OBVIOUS
  <2>1. g \in G /\ g[1] \in Req /\ g[2] \in rq[g[1]].prefix + 1 .. Len(rq[g[1]].row) OBVIOUS
  <2>2. rq[g[1]].prefix \in Nat /\ Len(rq[g[1]].row) \in Nat BY <2>1 DEF Whole
  <2> QED BY <2>1, <2>2
<1>3. \A g \in P : h[g] \in Slot BY <1>2 DEF Whole
<1>4. \A x \in Slot : {g \in P : h[g] = x} = Pairs(rq, Req, x) BY DEF Pairs
<1>5. Total(c, Slot) = Cardinality(P)
  <2> DEFINE d == [x \in Slot |-> Cardinality({g \in P : h[g] = x})]
  <2>1. d = c BY <1>4
  <2> HIDE DEF h, P, c
  <2>2. Total(d, Slot) = Cardinality(P) BY <1>1, <1>3, ReqFinite, FibresAre
  <2> QED BY <2>1, <2>2
<1>6. Total(e, Req) = Cardinality(P)
  <2>1. \A g \in P : k[g] \in Req BY <1>2
  <2> HIDE DEF k, P
  <2> QED BY <1>1, <2>1, ReqFinite, FibresAre
<1>7. ASSUME NEW r \in Req PROVE e[r] = Len(rq[r].row) - rq[r].prefix
  <2> DEFINE a == rq[r].prefix
             b == Len(rq[r].row)
             T == {g \in P : k[g] = r}
             j == [i \in a + 1 .. b |-> <<r, i>>]
  <2>1. a \in Nat /\ b \in Nat /\ a <= b /\ b <= MaxLen /\ MaxLen \in Nat BY CacheAssumption DEF Whole
  <2>2. \A y : y \in T <=> \E i \in a + 1 .. b : y = <<r, i>>
    <3> SUFFICES ASSUME NEW y PROVE y \in T <=> \E i \in a + 1 .. b : y = <<r, i>>
      OBVIOUS
    <3>1. ASSUME y \in T PROVE \E i \in a + 1 .. b : y = <<r, i>>
      <4>1. y \in G /\ y[1] = r /\ y[2] \in rq[y[1]].prefix + 1 .. Len(rq[y[1]].row) BY <3>1
      <4>2. y = <<r, y[2]>> /\ y[2] \in a + 1 .. b BY <4>1
      <4> QED BY <4>2
    <3>2. ASSUME NEW i \in a + 1 .. b, y = <<r, i>> PROVE y \in T
      <4>1. i \in 1 .. MaxLen BY <2>1
      <4>2. y \in G /\ y[1] = r /\ y[2] = i BY <3>2, <4>1
      <4> QED BY <4>2
    <3> QED BY <3>1, <3>2
  <2>3. \A i, l \in a + 1 .. b : j[i] = j[l] => i = l
    <3> TAKE i, l \in a + 1 .. b
    <3>1. j[i] = <<r, i>> /\ j[l] = <<r, l>> OBVIOUS
    <3> QED BY <3>1
  <2>4. \A y : y \in T <=> \E i \in a + 1 .. b : y = j[i] BY <2>2
  <2>5. e[r] = Cardinality(T) OBVIOUS
  <2> HIDE DEF T, j, a, b, e
  <2>6. Cardinality(T) = IF a + 1 > b THEN 0 ELSE b - (a + 1) + 1
    <3>1. a + 1 \in Int /\ b \in Int BY <2>1
    <3> QED BY <2>3, <2>4, <3>1, ImageOfInterval
  <2>7. Cardinality(T) = b - a BY <2>1, <2>6
  <2> QED BY <2>5, <2>7 DEF a, b
<1>8. Total(e, Req) = Total(Private(rq), Req)
  <2>1. \A r \in Req : e[r] = Private(rq)[r] BY <1>7 DEF Private
  <2> HIDE DEF e
  <2> QED BY <2>1, ReqFinite, TotalSame
<1> QED BY <1>5, <1>6, <1>8

\* Free, cached and private slots are all there are.
LEMMA Balance ==
  ASSUME NEW f \in [Slot -> Nat], NEW t, Shape(t), NEW rq, Whole(rq), Conserved(f, t, rq)
  PROVE  /\ Total(f, Slot) + Cardinality(DOMAIN t.slot) + Total(Private(rq), Req) = Cardinality(Slot)
         /\ Total(f, Slot) \in Nat /\ Cardinality(DOMAIN t.slot) \in Nat /\ Total(Private(rq), Req) \in Nat
<1> DEFINE c == [x \in Slot |-> Cardinality(Cached(t, x))]
           d == [x \in Slot |-> Cardinality(Pairs(rq, Req, x))]
           g == [x \in Slot |-> f[x] + c[x]]
           h == [x \in Slot |-> 1]
           S == t.slot
<1>1. \A x \in Slot : f[x] \in Nat /\ c[x] \in Nat /\ d[x] \in Nat /\ f[x] + c[x] + d[x] = 1
  BY CachedFinite, PairsFinite DEF Conserved
<1>2. IsFiniteSet(DOMAIN S) /\ (\A p \in DOMAIN S : S[p] \in Slot) /\ Cardinality(DOMAIN S) \in Nat
  BY FS_CardinalityType DEF Shape
<1>3. Total(c, Slot) = Cardinality(DOMAIN S)
  <2> DEFINE b == [x \in Slot |-> Cardinality({p \in DOMAIN S : S[p] = x})]
  <2>1. b = c BY DEF Cached
  <2> HIDE DEF S, c
  <2>2. Total(b, Slot) = Cardinality(DOMAIN S) BY <1>2, ReqFinite, FibresAre
  <2> QED BY <2>1, <2>2
<1>4. Total(d, Slot) = Total(Private(rq), Req) BY PrivateSlots
<1>5. (\A x \in Slot : g[x] = f[x] + c[x] /\ h[x] = 1 /\ h[x] = g[x] + d[x] /\ g[x] \in Nat) /\ 1 \in Nat BY <1>1
<1> HIDE DEF c, d, g, h
<1>6. IsFiniteSet(Slot) BY ReqFinite
<1>7. Total(g, Slot) = Total(f, Slot) + Total(c, Slot)
  <2>1. \A x \in Slot : f[x] \in Int /\ c[x] \in Int /\ g[x] = f[x] + c[x] BY <1>1, <1>5
  <2> QED BY <1>6, <2>1, TotalPlus
<1>8. Total(h, Slot) = Total(g, Slot) + Total(d, Slot)
  <2>1. \A x \in Slot : g[x] \in Int /\ d[x] \in Int /\ h[x] = g[x] + d[x] BY <1>1, <1>5
  <2> QED BY <1>6, <2>1, TotalPlus
<1>9. Total(h, Slot) = Cardinality(Slot) * 1 BY <1>5, <1>6, TotalAlike
<1>10. Cardinality(Slot) \in Nat BY <1>6, FS_CardinalityType
<1>11. Total(f, Slot) \in Nat /\ Total(d, Slot) \in Nat
  <2> DEFINE z == [x \in Slot |-> 0]
  <2>1. \A x \in Slot : z[x] = 0 /\ z[x] \in Int /\ f[x] \in Int /\ d[x] \in Int /\ z[x] <= f[x] /\ z[x] <= d[x] BY <1>1
  <2> HIDE DEF z
  <2>2. Total(z, Slot) = 0 BY <1>6, <2>1, TotalZero
  <2>3. Total(z, Slot) <= Total(f, Slot) /\ Total(z, Slot) <= Total(d, Slot) BY <1>6, <2>1, TotalAtMost
  <2>4. Total(f, Slot) \in Int /\ Total(d, Slot) \in Int BY <1>6, <2>1, TotalType
  <2> QED BY <2>2, <2>3, <2>4
<1> QED BY <1>2, <1>3, <1>4, <1>7, <1>8, <1>9, <1>10, <1>11 DEF S

\* The same for the program's own state, before and after a step.
LEMMA PoolIs ==
  ASSUME Sound, SlotsConserved
  PROVE  /\ Available + Cardinality(DOMAIN tree.slot) + Total(Private(req), Req) = Cardinality(Slot)
         /\ Available \in Nat /\ Cardinality(DOMAIN tree.slot) \in Nat /\ Total(Private(req), Req) \in Nat
         /\ Cardinality(Slot) \in Nat
<1>1. Conserved(free, tree, req) /\ free \in [Slot -> Nat] /\ Shape(tree) /\ Whole(req)
  BY ConservedIs, SoundWhole DEF Sound, Typed
<1>2. Cardinality(Slot) \in Nat BY ReqFinite, FS_CardinalityType
<1> QED BY <1>1, <1>2, Balance DEF Available

LEMMA PoolNext ==
  ASSUME Sound, SlotsConserved, [Next]_vars
  PROVE  /\ Available' + Cardinality(DOMAIN tree'.slot) + Total(Private(req'), Req) = Cardinality(Slot)
         /\ Available' \in Nat /\ Cardinality(DOMAIN tree'.slot) \in Nat /\ Total(Private(req'), Req) \in Nat
<1> USE SoundNext, ConservedNext
<1> DEFINE f == free'
           t == tree'
           rq == req'
<1>1. f \in [Slot -> Nat] /\ Shape(t) BY DEF Sound, Typed
<1>2. Conserved(f, t, rq) BY ConservedIs
<1>3. Whole(rq)
  <2>1. ASSUME NEW r \in Req
        PROVE  /\ rq[r].prefix \in Nat /\ Len(rq[r].row) \in Nat
               /\ rq[r].prefix <= Len(rq[r].row) /\ Len(rq[r].row) <= MaxLen
               /\ \A i \in 1 .. Len(rq[r].row) : rq[r].row[i] \in Slot
    <3> DEFINE q == req'[r]
               m == More'
    <3>1. q \in Request /\ Fits(t, q, m) BY DEF Sound, Typed
    <3>2. m \in Nat BY DEF More
    <3> HIDE DEF q, m, t
    <3>3. /\ q.prefix \in Nat /\ Len(q.row) \in Nat /\ q.prefix <= Len(q.row) /\ Len(q.row) <= MaxLen
          /\ \A i \in 1 .. Len(q.row) : q.row[i] \in Slot
      BY <3>1, <3>2, FitsWords, FitsRow
    <3> QED BY <3>3 DEF q
  <2> HIDE DEF rq
  <2> QED BY <2>1 DEF Whole
<1> HIDE DEF f, t, rq
<1>4. /\ Total(f, Slot) + Cardinality(DOMAIN t.slot) + Total(Private(rq), Req) = Cardinality(Slot)
      /\ Total(f, Slot) \in Nat /\ Cardinality(DOMAIN t.slot) \in Nat /\ Total(Private(rq), Req) \in Nat
  BY <1>1, <1>2, <1>3, Balance
<1> QED BY <1>4 DEF f, t, rq, Available

-------------------------------------------------------------------------------
(* What was promised to a batch is delivered *)

Short(rq, R) == Total([r \in R |-> Len(rq[r].ids) - Len(rq[r].row)], R)

LEMMA ShortSame ==
  ASSUME NEW rq, NEW rp, NEW R, \A r \in R : rp[r] = rq[r]
  PROVE  Short(rp, R) = Short(rq, R)
<1>1. [r \in R |-> Len(rp[r].ids) - Len(rp[r].row)] = [r \in R |-> Len(rq[r].ids) - Len(rq[r].row)] OBVIOUS
<1> QED BY <1>1 DEF Short

LEMMA ShortAdd ==
  ASSUME NEW rq, NEW R \in SUBSET Req, NEW r \in Req, r \notin R,
         \A o \in R \cup {r} : Len(rq[o].ids) \in Int /\ Len(rq[o].row) \in Int
  PROVE  Short(rq, R \cup {r}) = Short(rq, R) + Len(rq[r].ids) - Len(rq[r].row) /\ Short(rq, R) \in Int
<1> DEFINE f == [o \in R \cup {r} |-> Len(rq[o].ids) - Len(rq[o].row)]
           g == [o \in R |-> Len(rq[o].ids) - Len(rq[o].row)]
<1> DEFINE gap(o) == Len(rq[o].ids) - Len(rq[o].row)
<1>0. \A o \in R \cup {r} : gap(o) \in Int OBVIOUS
<1>1. \A o \in R \cup {r} : f[o] = gap(o) OBVIOUS
<1>2. \A o \in R : g[o] = gap(o) OBVIOUS
<1>6. gap(r) = Len(rq[r].ids) - Len(rq[r].row) /\ Len(rq[r].ids) \in Int /\ Len(rq[r].row) \in Int
      /\ IsFiniteSet(R) BY ReqFinite
<1>3. Short(rq, R \cup {r}) = Total(f, R \cup {r}) /\ Short(rq, R) = Total(g, R) BY DEF Short
<1> HIDE DEF f, g, gap
<1>4. Total(f, R \cup {r}) = f[r] + Total(f, R)
  <2>1. \A o \in R \cup {r} : f[o] \in Int BY <1>0, <1>1
  <2> QED BY <1>6, <2>1, TotalAdd
<1>5. Total(f, R) = Total(g, R) /\ Total(g, R) \in Int
  <2>1. \A o \in R : f[o] = g[o] /\ g[o] \in Int BY <1>0, <1>1, <1>2
  <2> QED BY <1>6, <2>1, TotalSame, TotalType
<1>7. f[r] = gap(r) /\ gap(r) \in Int BY <1>0, <1>1
<1> DEFINE u == Short(rq, R)
           v == Short(rq, R \cup {r})
           x == Len(rq[r].ids)
           y == Len(rq[r].row)
<1>8. v = f[r] + u /\ u \in Int BY <1>3, <1>4, <1>5
<1>9. f[r] = x - y /\ x \in Int /\ y \in Int BY <1>6, <1>7
<1> HIDE DEF u, v, x, y
<1>10. v = u + x - y BY <1>8, <1>9
<1> QED BY <1>8, <1>10 DEF u, v, x, y

LEMMA ShortNone == \A rq : Short(rq, {}) = 0
BY TotalEmpty DEF Short

\* In a decode each request of the batch waits for one slot.
LEMMA ShortDecode ==
  ASSUME Sound, job.for = "decode"
  PROVE  Short(req, job.batch) = Cardinality(job.batch) /\ Cardinality(job.batch) \in Nat
<1>1. job.batch = At("running") /\ IsFiniteSet(job.batch) /\ job.batch \in SUBSET Req
  BY ReqFinite DEF Sound, Phased
<1> DEFINE R == job.batch
           f == [r \in R |-> Len(req[r].ids) - Len(req[r].row)]
<1>2. ASSUME NEW r \in R PROVE f[r] = 1
  <2>1. r \in Req /\ req[r].at = "running" BY <1>1 DEF At
  <2>2. req[r] \in Request /\ Fits(tree, req[r], More) /\ More = 1 BY <2>1, HeldWords DEF More
  <2>3. Len(req[r].ids) = Len(req[r].row) + 1 BY <2>1, <2>2 DEF Fits
  <2>4. Len(req[r].row) \in Nat BY <2>2, FitsWords
  <2> QED BY <2>3, <2>4
<1>3. Short(req, R) = Total(f, R) BY DEF Short
<1>4. Cardinality(R) \in Nat /\ 1 \in Nat BY <1>1, FS_CardinalityType
<1> HIDE DEF f, R
<1>5. Total(f, R) = Cardinality(R) * 1
  <2>1. IsFiniteSet(R) BY <1>1 DEF R
  <2> QED BY <1>2, <1>4, <2>1, TotalAlike
<1> QED BY <1>3, <1>4, <1>5 DEF R

LEMMA PromisedIs ==
  /\ Promised <=> Short(req, At("admitted")) <= Available + tree.evictable
  /\ Promised' <=> Short(req', At("admitted")') <= Available' + tree'.evictable
BY DEF Promised, Lacking, Short

LEMMA PendingIs ==
  /\ Pending <=> /\ job.for = "extend" => Short(req, job.batch) <= Available + job.evict
                 /\ job.for = "decode" => Cardinality(job.batch) <= Available + job.evict
  /\ Pending' <=> /\ job'.for = "extend" => Short(req', job'.batch) <= Available' + job'.evict
                  /\ job'.for = "decode" => Cardinality(job'.batch) <= Available' + job'.evict
BY DEF Pending, Lacking, Short

LEMMA CountersType ==
  ASSUME Sound, SlotsConserved
  PROVE  tree.evictable \in Nat /\ Available \in Nat /\ job.evict \in Int
<1>1. tree.evictable \in Nat BY LockedType DEF Sound
<1> QED BY <1>1, PoolIs DEF Sound, Typed

LEMMA CountersNext ==
  ASSUME Sound, SlotsConserved, [Next]_vars
  PROVE  tree'.evictable \in Nat /\ Available' \in Nat
<1> DEFINE t == tree'
           R == Admitted'
           f == Lasts'
<1>1. Shape(t) /\ Locked(t, R, f) BY SoundNext DEF Sound
<1> HIDE DEF t, R, f
<1>2. t.evictable \in Nat BY <1>1, LockedType
<1> QED BY <1>2, PoolNext DEF t

\* Most steps leave no request admitted that waits for its slots.
LEMMA NoneAdmitted ==
  ASSUME Sound, SlotsConserved, [Next]_vars, At("admitted")' = {}
  PROVE  Promised'
<1>1. Short(req', At("admitted")') = 0 BY ShortNone
<1>2. tree'.evictable \in Nat /\ Available' \in Nat BY CountersNext
<1> QED BY <1>1, <1>2, PromisedIs

\* And most leave no allocation under way.
LEMMA NothingPending == ASSUME job' = NoJob PROVE Pending'
BY NoJobIs, PendingIs

\* One turn of evict: what becomes free was evictable.
LEMMA EvictBalance ==
  ASSUME Sound, SlotsConserved, NEW n \in Nodes(tree), EvictLeaf(n)
  PROVE  /\ Available' + tree'.evictable = Available + tree.evictable
         /\ Available' + job'.evict = Available + job.evict
         /\ job'.for = job.for /\ job'.batch = job.batch /\ job'.retracted = job.retracted
<1> DEFINE k == Cardinality(Own(tree, n))
           S == DOMAIN tree.slot
           O == Own(tree, n)
<1>1. req' = req /\ job' = [job EXCEPT !.evict = @ - k] BY DEF EvictLeaf
<1>2. /\ DOMAIN tree'.slot = S \ O /\ O \subseteq S /\ IsFiniteSet(O) /\ k \in Nat
      /\ tree'.evictable = tree.evictable - k
  BY EvictIs
<1>3. IsFiniteSet(S) BY DEF Sound, Shape
<1>4. Cardinality(S) = Cardinality(S \ O) + k
  <2>1. S = (S \ O) \cup O /\ (S \ O) \cap O = {} /\ IsFiniteSet(S \ O) BY <1>2, <1>3, FS_Subset
  <2> HIDE DEF S, O
  <2>2. Cardinality(S) = Cardinality(S \ O) + Cardinality(O) BY <1>2, <2>1, CardDisjoint
  <2> QED BY <2>2 DEF O
<1>5. job'.evict = job.evict - k /\ job'.for = job.for /\ job'.batch = job.batch /\ job'.retracted = job.retracted
      /\ job.evict \in Int
  BY <1>1 DEF Sound, Typed
<1>6. [Next]_vars BY DEF Next
<1> HIDE DEF k, S, O
<1>7. Available + Cardinality(S) + Total(Private(req), Req) = Cardinality(Slot)
      /\ Available' + Cardinality(S \ O) + Total(Private(req), Req) = Cardinality(Slot)
  BY <1>1, <1>2, <1>6, PoolIs, PoolNext DEF S
<1>8. Available \in Nat /\ Available' \in Nat /\ Total(Private(req), Req) \in Nat /\ Cardinality(S) \in Nat
      /\ Cardinality(S \ O) \in Nat /\ Cardinality(Slot) \in Nat
  <2>1. Cardinality(S \ O) \in Nat BY <1>2, <1>3, FS_Subset, FS_CardinalityType
  <2> QED BY <1>6, <2>1, PoolIs, PoolNext DEF S
<1>9. tree.evictable \in Nat BY CountersType
<1>10. Available' = Available + k BY <1>2, <1>4, <1>7, <1>8
<1> QED BY <1>2, <1>5, <1>8, <1>9, <1>10

LEMMA AdmitPromised ==
  ASSUME Sound, SlotsConserved, Promised, NEW r \in Req, NEW s \in Keys, NEW limit \in 0 .. MaxLen - 1,
         Admit(r, s, limit)
  PROVE  Promised'
<1> DEFINE p == Matched(tree, Take(s, limit))
           row == [i \in DOMAIN p |-> tree.slot[Take(s, i)]]
           q == [ids |-> s, row |-> row, prefix |-> Len(p), last |-> p, at |-> "admitted"]
           A == At("admitted")
           rq == req'
<1>1. /\ tree' = IncLockRef(Split(tree, p), p) /\ req' = [req EXCEPT ![r] = q] /\ free' = free /\ r \notin Admitted
      /\ Lacking(A) + Len(s) - Len(p) <= Available + IncLockRef(Split(tree, p), p).evictable
  BY DEF Admit
<1>2. Len(p) \in Nat /\ DOMAIN p = 1 .. Len(p) /\ Len(s) \in Int
  <2>1. Len(p) \in Nat /\ DOMAIN p = 1 .. Len(p) BY AdmitIs
  <2>2. Len(s) \in Int BY KeysAre
  <2> HIDE DEF p
  <2> QED BY <2>1, <2>2
<1> HIDE DEF p
<1>3. Len(row) = Len(p) BY <1>2
<1>4. q.ids = s /\ q.row = row /\ q.at = "admitted" OBVIOUS
<1> HIDE DEF row, q
<1>5. rq[r] = q /\ \A o \in Req \ {r} : rq[o] = req[o] BY <1>1 DEF Sound, Typed
<1>6. At("admitted")' = A \cup {r} /\ r \notin A /\ A \in SUBSET Req
  BY <1>1, <1>4, <1>5, ReqFinite DEF At, Admitted
<1>7. ASSUME NEW o \in A \cup {r} PROVE Len(rq[o].ids) \in Int /\ Len(rq[o].row) \in Int
  <2>1. CASE o = r BY <1>2, <1>3, <1>4, <1>5, <2>1
  <2>2. CASE o # r
    <3>1. o \in Req /\ rq[o] = req[o] BY <1>5, <1>6, <2>2
    <3>2. req[o] \in Request /\ Fits(tree, req[o], More) BY <3>1, HeldWords
    <3> QED BY <3>1, <3>2, FitsWords
  <2> QED BY <2>1, <2>2
<1>8. Short(req, A) = Lacking(A) BY DEF Short, Lacking
<1> HIDE DEF rq, A
<1>9. Short(rq, A \cup {r}) = Short(rq, A) + Len(rq[r].ids) - Len(rq[r].row) /\ Short(rq, A) \in Int
  BY <1>6, <1>7, ShortAdd
<1>10. Short(rq, A) = Short(req, A)
  <2>1. \A o \in A : rq[o] = req[o] BY <1>5, <1>6
  <2> QED BY <2>1, ShortSame
<1>11. Short(rq, A \cup {r}) = Lacking(A) + Len(s) - Len(p) BY <1>3, <1>4, <1>5, <1>8, <1>9, <1>10
<1>12. Available' = Available BY <1>1 DEF Available
<1>13. Short(rq, A \cup {r}) <= Available' + tree'.evictable BY <1>1, <1>11, <1>12
<1> QED BY <1>6, <1>13, PromisedIs DEF rq

LEMMA PromisedNext == ASSUME Sound, SlotsConserved, Promised, [Next]_vars PROVE Promised'
<1>1. ASSUME NEW s \in Keys, Refuse(s) PROVE Promised'
  <2>1. tree' = Split(tree, Matched(tree, s)) /\ req' = req /\ free' = free BY <1>1 DEF Refuse
  <2>2. Shape(tree) BY DEF Sound
  <2>3. Matched(tree, s) \in DOMAIN tree.slot \cup {<<>>} BY <2>2, KeysAre, MatchedIs
  <2>4. tree'.evictable = tree.evictable BY <2>1, <2>2, <2>3, SplitIs
  <2>5. At("admitted")' = At("admitted") /\ Available' = Available BY <2>1 DEF At, Available
  <2> QED BY <2>1, <2>4, <2>5, PromisedIs
<1>2. ASSUME tree' = tree, req' = req, free' = free PROVE Promised'
  <2>1. At("admitted")' = At("admitted") /\ Available' = Available BY <1>2 DEF At, Available
  <2> QED BY <1>2, <2>1, PromisedIs
<1>3. CASE Extend BY <1>2, <1>3 DEF Extend
<1>4. CASE UNCHANGED vars BY <1>2, <1>4 DEF vars
<1>5. ASSUME NEW next \in [At("running") -> Token], Decode(next) PROVE Promised'
  <2>1. At("admitted") = {}
        /\ req' = [o \in Req |-> IF req[o].at = "running" THEN [req[o] EXCEPT !.ids = Append(@, next[o])] ELSE req[o]]
    BY <1>5 DEF Decode
  <2>2. ASSUME NEW o \in Req PROVE req'[o].at = req[o].at
    <3>1. req[o] \in Request BY DEF Sound, Typed
    <3>2. CASE req[o].at # "running" BY <2>1, <3>2
    <3>3. CASE req[o].at = "running"
      <4> DEFINE q == req[o]
                 ids == Append(q.ids, next[o])
      <4>1. req'[o] = [q EXCEPT !.ids = ids] BY <2>1, <3>3
      <4> HIDE DEF ids
      <4> QED BY <3>1, <4>1 DEF Request
    <3> QED BY <3>2, <3>3
  <2>3. At("admitted")' = {} BY <2>1, <2>2 DEF At
  <2> QED BY <2>3, NoneAdmitted
<1>6. ASSUME NEW n \in Nodes(tree), EvictLeaf(n) PROVE Promised'
  <2>1. req' = req BY <1>6 DEF EvictLeaf
  <2>2. At("admitted")' = At("admitted") BY <2>1 DEF At
  <2> QED BY <1>6, <2>1, <2>2, EvictBalance, PromisedIs
<1>7. CASE Alloc
  <2>1. PICK new : AllocWith(new) BY <1>7, AllocIs
  <2>2. job # NoJob BY <1>7, AllocIs DEF Evicted
  <2>3. At("admitted") \subseteq job.batch
    <3>1. job.for \in {"extend", "decode"} BY <2>2 DEF Sound, Typed, Phased
    <3> QED BY <3>1 DEF Sound, Phased
  <2>4. \A o \in Req \ job.batch : req'[o] = req[o] BY <2>1 DEF AllocWith
  <2>5. \A o \in job.batch : req'[o].at # "admitted" BY <2>1, AllocRows DEF Given
  <2>6. At("admitted")' = {} BY <2>3, <2>4, <2>5 DEF At
  <2> QED BY <2>6, NoneAdmitted
<1>8. ASSUME NEW r \in Req, req' = [req EXCEPT ![r] = Out], At("admitted") = {} PROVE Promised'
  <2>1. req'[r] = Out /\ \A o \in Req \ {r} : req'[o] = req[o] BY <1>8 DEF Sound, Typed
  <2>2. At("admitted")' = {} BY <1>8, <2>1, OutIs DEF At
  <2> QED BY <2>2, NoneAdmitted
<1>9. ASSUME NEW r \in Req, Retract(r) PROVE Promised'
  <2>1. req' = [req EXCEPT ![r] = Out] /\ job.for = "decode" BY <1>9, RetractIs
  <2>2. At("admitted") = {} BY <2>1 DEF Sound, Phased
  <2> QED BY <1>8, <2>1, <2>2
<1>10. ASSUME NEW r \in Req, CacheFinishedReq(r) PROVE Promised'
  BY <1>8, <1>10 DEF CacheFinishedReq, Finishes
<1>11. ASSUME NEW r \in Req, CacheUnfinishedReq(r) PROVE Promised'
  <2>1. job = NoJob /\ req[r].at = "computed" /\ req'[r].at = "running" /\ \A o \in Req \ {r} : req'[o] = req[o]
    BY <1>11, UnfinishedIs
  <2>2. At("admitted") = {} BY <2>1, NoJobIs DEF Sound, Phased, At
  <2>3. At("admitted")' = {} BY <2>1, <2>2 DEF At
  <2> QED BY <2>3, NoneAdmitted
<1>12. CASE Flush
  <2>1. At("admitted")' = {} BY <1>12 DEF Flush, Admitted, At
  <2> QED BY <2>1, NoneAdmitted
<1> QED BY <1>1, <1>3, <1>4, <1>5, <1>6, <1>7, <1>9, <1>10, <1>11, <1>12, AdmitPromised DEF Next

LEMMA Covers ==
  ASSUME Sound, SlotsConserved, NEW need \in Int
  PROVE  need <= Available + ToEvict(need)
BY CountersType DEF ToEvict

LEMMA PendingNext == ASSUME Sound, SlotsConserved, Pending, [Next]_vars PROVE Pending'
<1>1. ASSUME NEW s \in Keys, Refuse(s) PROVE Pending' BY <1>1, NothingPending DEF Refuse, Idle
<1>2. ASSUME NEW r \in Req, NEW s \in Keys, NEW limit \in 0 .. MaxLen - 1, Admit(r, s, limit) PROVE Pending'
  BY <1>2, NothingPending DEF Admit, Idle
<1>3. CASE Extend
  <2> DEFINE A == At("admitted")
             j == [NoJob EXCEPT !.for = "extend", !.batch = A, !.evict = ToEvict(Lacking(A))]
  <2>1. job' = j /\ req' = req /\ free' = free BY <1>3 DEF Extend
  <2>2. j.for = "extend" /\ j.batch = A /\ j.evict = ToEvict(Lacking(A)) BY DEF NoJob
  <2>3. Lacking(A) = Short(req, A) /\ Lacking(A) \in Int BY ReqFinite, CountsType DEF Lacking, Short
  <2>4. Available' = Available BY <2>1 DEF Available
  <2> HIDE DEF j, A
  <2>5. Lacking(A) <= Available + ToEvict(Lacking(A)) BY <2>3, Covers
  <2> QED BY <2>1, <2>2, <2>3, <2>4, <2>5, PendingIs
<1>4. ASSUME NEW next \in [At("running") -> Token], Decode(next) PROVE Pending'
  <2> DEFINE A == At("running")
             j == [NoJob EXCEPT !.for = "decode", !.batch = A, !.evict = ToEvict(Cardinality(A))]
  <2>1. job' = j /\ free' = free BY <1>4 DEF Decode
  <2>2. j.for = "decode" /\ j.batch = A /\ j.evict = ToEvict(Cardinality(A)) BY DEF NoJob
  <2>3. Cardinality(A) \in Nat BY ReqFinite, FS_CardinalityType
  <2>4. Available' = Available BY <2>1 DEF Available
  <2> HIDE DEF j, A
  <2>5. Cardinality(A) <= Available + ToEvict(Cardinality(A)) BY <2>3, Covers
  <2> QED BY <2>1, <2>2, <2>4, <2>5, PendingIs
<1>5. ASSUME NEW n \in Nodes(tree), EvictLeaf(n) PROVE Pending'
  <2>1. req' = req BY <1>5 DEF EvictLeaf
  <2> QED BY <1>5, <2>1, EvictBalance, PendingIs
<1>6. CASE Alloc BY <1>6, AllocIs, NothingPending
<1>7. ASSUME NEW r \in Req, Retract(r) PROVE Pending'
  <2> DEFINE k == Cardinality(job.batch \ {r})
  <2>1. job'.for = "decode" /\ job'.batch = job.batch \ {r} /\ job'.evict \in Nat
        /\ job'.evict >= k * RetractSteps - Total(free', Slot)
    BY <1>7, RetractIs
  <2>2. k \in Nat
    <3>1. job.batch \ {r} \in SUBSET Req BY DEF Sound, Typed
    <3> QED BY <3>1, ReqFinite, FS_CardinalityType
  <2>3. Available' = Total(free', Slot) BY DEF Available
  <2>4. Available' \in Nat BY CountersNext
  <2> DEFINE n == Available'
             e == job'.evict
             c == RetractSteps
  <2>5. n \in Nat /\ e \in Nat /\ c \in Nat \ {0} /\ e >= k * c - n BY <2>1, <2>3, <2>4, CacheAssumption
  <2>6. Cardinality(job'.batch) = k BY <2>1
  <2> HIDE DEF k, n, e, c
  <2>7. k * c >= k BY <2>2, <2>5
  <2>8. k * c \in Nat BY <2>2, <2>5
  <2>9. k <= n + e BY <2>2, <2>5, <2>7, <2>8
  <2> QED BY <2>1, <2>6, <2>9, PendingIs DEF n, e
<1>8. ASSUME NEW r \in Req, CacheUnfinishedReq(r) PROVE Pending' BY <1>8, UnfinishedIs, NothingPending
<1>9. ASSUME NEW r \in Req, CacheFinishedReq(r) PROVE Pending'
  BY <1>9, NothingPending DEF CacheFinishedReq, Finishes
<1>10. CASE Flush BY <1>10, NothingPending DEF Flush, Idle
<1>11. CASE UNCHANGED vars
  <2>1. job' = job /\ req' = req /\ free' = free BY <1>11 DEF vars
  <2>2. Available' = Available BY <2>1 DEF Available
  <2> QED BY <2>1, <2>2, PendingIs
<1> QED BY <1>1, <1>2, <1>3, <1>4, <1>5, <1>6, <1>7, <1>8, <1>9, <1>10, <1>11 DEF Next

\* With one request left and nothing to evict, its own tokens are all that is not free.
LEMMA LastOneFits ==
  ASSUME Sound, SlotsConserved, job.for = "decode", OneLeft, Leaves(tree) = {}
  PROVE  1 <= Available
<1>1. job.batch = At("running") /\ At("admitted") = {} /\ At("computed") = {} BY DEF Sound, Phased
<1>2. IsFiniteSet(job.batch) BY <1>1, ReqFinite
<1>3. PICK r : job.batch = {r} BY <1>2, FS_Singleton DEF OneLeft
<1>4. r \in Req /\ req[r].at = "running" /\ Admitted = {r}
  <2>1. r \in Req /\ req[r].at = "running" BY <1>1, <1>3 DEF At
  <2>2. \A o \in Req : req[o].at \in {"out", "admitted", "computed", "running"} BY DEF Sound, Typed, Request
  <2> QED BY <1>1, <1>3, <2>1, <2>2 DEF At, Admitted
<1>5. req[r] \in Request /\ Fits(tree, req[r], More) /\ More = 1 /\ Lasts[r] = req[r].last
  BY <1>4, HeldWords DEF More
<1> DEFINE a == req[r].prefix
           b == Len(req[r].row)
           c == Len(req[r].ids)
           w == req[r].last
<1>6. a \in Nat /\ b \in Nat /\ c \in Nat /\ a <= b /\ c = b + 1 /\ c <= MaxLen /\ Len(w) = a /\ w \in Word
  <2>1. c = b + 1 BY <1>4, <1>5 DEF Fits
  <2>2. w \in Word BY <1>5 DEF Request
  <2> QED BY <1>5, <2>1, <2>2, FitsWords
<1>7. Cardinality(DOMAIN tree.slot) = a
  <2> DEFINE f == Lasts
  <2>1. Shape(tree) /\ Locked(tree, Admitted, f) BY DEF Sound
  <2>2. IsFiniteSet(Admitted) BY ReqFinite
  <2>3. f[r] = w BY <1>5
  <2> HIDE DEF f, w
  <2>4. DOMAIN tree.slot = HeldBy(Admitted, f) BY <2>1, <2>2, LeavesFound
  <2>5. HeldBy(Admitted, f) = Paths(w) BY <1>4, <2>3 DEF HeldBy
  <2>6. Cardinality(Paths(w)) = Len(w) BY <1>6, PathsFinite
  <2> QED BY <1>6, <2>4, <2>5, <2>6
<1>8. Total(Private(req), Req) = b - a
  <2> DEFINE f == Private(req)
             z == [o \in Req |-> 0]
  <2>1. f[r] = b - a BY <1>4 DEF Private
  <2>2. \A o \in Req \ {r} : f[o] = 0
    <3> SUFFICES ASSUME NEW o \in Req \ {r} PROVE f[o] = 0
      OBVIOUS
    <3>1. req[o] = Out BY <1>4, HeldWords
    <3>2. Len(<<>>) = 0 OBVIOUS
    <3> QED BY <3>1, <3>2, OutIs DEF Private
  <2>3. \A o \in Req : z[o] = 0 /\ z[o] \in Int OBVIOUS
  <2> HIDE DEF f, z, a, b
  <2>4. f[r] \in Int /\ \A o \in Req \ {r} : f[o] = z[o] BY <1>6, <2>1, <2>2, <2>3
  <2>5. Total(f, Req) = Total(z, Req) - z[r] + f[r] BY <1>4, <2>3, <2>4, ReqFinite, TotalChange
  <2>6. Total(z, Req) = 0 BY <2>3, ReqFinite, TotalZero
  <2>7. z[r] = 0 BY <1>4, <2>3
  <2>8. Total(f, Req) = b - a BY <1>6, <2>1, <2>5, <2>6, <2>7
  <2> QED BY <2>8 DEF f
<1>9. Available + Cardinality(DOMAIN tree.slot) + Total(Private(req), Req) = Cardinality(Slot)
      /\ Available \in Nat /\ Cardinality(Slot) \in Nat
  BY PoolIs
<1>10. MaxLen <= Cardinality(Slot) /\ MaxLen \in Nat BY <1>9, CacheAssumption
<1> DEFINE n == Cardinality(Slot)
           m == Available
<1>11. m + a + (b - a) = n /\ m \in Nat /\ n \in Nat /\ MaxLen <= n BY <1>7, <1>8, <1>9, <1>10
<1> HIDE DEF a, b, c, n, m
<1>12. 1 <= m BY <1>6, <1>10, <1>11
<1> QED BY <1>12 DEF m

\* What an allocation finds when evict has done what it could: room for a prefill that was
\* admitted, and for a decode when one request is left; otherwise there is one to retract.
THEOREM PromisesAreKept == Spec => []EvictionDelivers
<1>1. ASSUME Sound, SlotsConserved, Promised, Pending PROVE EvictionDelivers
  <2> SUFFICES ASSUME Evicted, ~(job.for = "decode" /\ ~OneLeft) PROVE Enough
    BY DEF EvictionDelivers
  <2> USE <1>1
  <2>1. job # NoJob /\ (job.evict <= 0 \/ Leaves(tree) = {}) BY DEF Evicted
  <2>2. job.for \in {"extend", "decode"} BY <2>1 DEF Sound, Typed, Phased
  <2>3. Available \in Nat /\ job.evict \in Int /\ Lacking(job.batch) = Short(req, job.batch)
        /\ Lacking(job.batch) \in Int
    BY CountersType, CountsType DEF Sound, Typed, Lacking, Short
  <2>4. CASE job.for = "extend"
    <3>1. job.batch = At("admitted") /\ job.retracted = FALSE BY <2>4 DEF Sound, Phased
    <3>2. Lacking(job.batch) <= Available
      <4>1. CASE job.evict <= 0
        <5>1. Lacking(job.batch) <= Available + job.evict BY <2>4 DEF Pending
        <5> QED BY <2>3, <4>1, <5>1
      <4>2. CASE Leaves(tree) = {}
        <5> DEFINE f == Lasts
        <5>1. Shape(tree) /\ Locked(tree, Admitted, f) /\ IsFiniteSet(Admitted) BY ReqFinite DEF Sound
        <5> HIDE DEF f
        <5>2. tree.evictable = 0 BY <4>2, <5>1, LeavesFound
        <5>3. Lacking(job.batch) <= Available + tree.evictable BY <3>1 DEF Promised
        <5> QED BY <2>3, <5>2, <5>3
      <4> QED BY <2>1, <4>1, <4>2
    <3> QED BY <3>1, <3>2 DEF Enough
  <2>5. CASE job.for = "decode"
    <3>1. OneLeft /\ Cardinality(job.batch) = 1 BY <2>5 DEF OneLeft
    <3>2. Lacking(job.batch) = 1 BY <2>3, <2>5, <3>1, ShortDecode
    <3>3. 1 <= Available
      <4>1. CASE job.evict <= 0
        <5>1. Cardinality(job.batch) <= Available + job.evict BY <2>5 DEF Pending
        <5> QED BY <2>3, <3>1, <4>1, <5>1
      <4>2. CASE Leaves(tree) = {} BY <2>5, <3>1, <4>2, LastOneFits
      <4> QED BY <2>1, <4>1, <4>2
    <3> QED BY <3>1, <3>2, <3>3 DEF Enough
  <2> QED BY <2>2, <2>4, <2>5
<1>2. ASSUME Init PROVE Promised /\ Pending
  <2>1. Sound BY <1>2, SoundInit
  <2>2. SlotsConserved BY <1>2, ConservedInit
  <2>3. job = NoJob BY <1>2 DEF Init
  <2>4. \A r \in Req : req[r].at = "out" BY <1>2, OutIs DEF Init
  <2>5. At("admitted") = {} BY <2>4 DEF At
  <2>6. Short(req, At("admitted")) = 0 BY <2>5, ShortNone
  <2>7. tree.evictable \in Nat /\ Available \in Nat BY <2>1, <2>2, CountersType
  <2> QED BY <2>3, <2>6, <2>7, NoJobIs, PromisedIs, PendingIs
<1>3. Spec => [](Sound /\ SlotsConserved /\ Promised /\ Pending)
  BY <1>2, ConservedInit, SoundInit, SoundNext, ConservedNext, PromisedNext, PendingNext, PTL DEF Spec
<1> QED BY <1>1, <1>3, PTL

-------------------------------------------------------------------------------
(* The cache of prefixes *)

Held(rq) == [r \in Req |-> IF rq[r].at # "out" THEN rq[r].last ELSE None]

LEMMA CacheTotal == \A f, S : Cache!Total(f, S) = Total(f, S)
BY Zenon DEF Cache!Total, Cache!FoldSet, Cache!MapThenFoldSet, Total, FoldSet, MapThenFoldSet

LEMMA CachePaths == \A s : Cache!Paths(s) = Paths(s)
BY DEF Cache!Paths, Paths, Take

LEMMA CacheState ==
  /\ [r \in Req |-> IF r \in Admitted THEN req[r].last ELSE None] = Held(req)
  /\ [r \in Req |-> Len(req[r].row) - req[r].prefix] = Private(req)
  /\ [r \in Req |-> IF r \in Admitted THEN req[r].last ELSE None]' = Held(req')
  /\ [r \in Req |-> Len(req[r].row) - req[r].prefix]' = Private(req')
BY DEF Held, Private, Admitted

LEMMA CacheAdmitted ==
  ASSUME Sound
  PROVE  /\ {r \in Req : Held(req)[r] # None} = Admitted
         /\ \A r \in Admitted : r \in Req /\ Held(req)[r] = req[r].last /\ Held(req)[r] = Lasts[r]
<1>1. ASSUME NEW r \in Req PROVE Held(req)[r] # None <=> r \in Admitted
  <2>1. req[r].last \in Word BY DEF Sound, Typed, Request
  <2> QED BY <2>1, CacheAssumption DEF Held, Admitted, Word
<1>2. \A r \in Admitted : r \in Req /\ Held(req)[r] = req[r].last /\ Held(req)[r] = Lasts[r]
  BY DEF Held, Admitted, Lasts
<1> QED BY <1>1, <1>2 DEF Admitted

LEMMA CacheCardinality == \A S : Cache!Cardinality(S) = Cardinality(S)
BY Zenon DEF Cache!Cardinality, Cardinality

\* The actions of the cache, for the state of the program.
LEMMA HoldIs ==
  ASSUME Sound, NEW r \in Req, r \notin Admitted, NEW s, Paths(s) \subseteq DOMAIN tree.slot,
         Held(req') = [Held(req) EXCEPT ![r] = s], DOMAIN tree'.slot = DOMAIN tree.slot,
         Private(req') = Private(req), Available' = Available
  PROVE  Cache!Hold(r, s)
<1>1. r \notin Cache!Admitted BY CacheState, CacheAdmitted DEF Cache!Admitted
<1> QED BY <1>1, CacheState, CachePaths DEF Cache!Hold

LEMMA TakeIs ==
  ASSUME Sound, NEW more, \A r \in Req : more[r] > 0 => r \in Admitted,
         Total(more, Req) <= Available, Available' = Available - Total(more, Req),
         Private(req') = [r \in Req |-> Private(req)[r] + more[r]],
         Held(req') = Held(req), DOMAIN tree'.slot = DOMAIN tree.slot
  PROVE  Cache!TakeSlots(more)
<1>1. \A r \in Req : more[r] > 0 => r \in Cache!Admitted BY CacheState, CacheAdmitted DEF Cache!Admitted
<1>2. Cache!Total(more, Req) = Total(more, Req) BY CacheTotal
<1> QED BY <1>1, <1>2, CacheState DEF Cache!TakeSlots

LEMMA GiveIs ==
  ASSUME Sound, NEW r \in Admitted, NEW s, Len(s) = Len(req[r].last) + Private(req)[r],
         SubSeq(s, 1, Len(req[r].last)) = req[r].last,
         DOMAIN tree'.slot = DOMAIN tree.slot \cup Paths(s),
         Available' = Available + Private(req)[r] - Cardinality(Paths(s) \ DOMAIN tree.slot),
         Private(req') = [Private(req) EXCEPT ![r] = 0]
  PROVE  Cache!Give(r, s)
<1>1. r \in Cache!Admitted BY CacheState, CacheAdmitted DEF Cache!Admitted
<1>2. Held(req)[r] = req[r].last BY CacheAdmitted
<1>3. Cache!Paths(s) = Paths(s) BY CachePaths
<1> DEFINE h == [o \in Req |-> IF o \in Admitted THEN req[o].last ELSE None]
           p == [o \in Req |-> Len(req[o].row) - req[o].prefix]
<1>4. h = Held(req) /\ p = Private(req) /\ p' = Private(req') BY CacheState
<1>5. Len(s) = Len(h[r]) + p[r] /\ SubSeq(s, 1, Len(h[r])) = h[r] BY <1>2, <1>4
<1>6. DOMAIN tree'.slot = DOMAIN tree.slot \cup Cache!Paths(s) BY <1>3
<1>7. Available' = Available + p[r] - Cache!Cardinality(Cache!Paths(s) \ DOMAIN tree.slot)
  BY <1>3, <1>4, CacheCardinality
<1>8. p' = [p EXCEPT ![r] = 0] BY <1>4
<1> QED BY <1>1, <1>5, <1>6, <1>7, <1>8, Zenon DEF Cache!Give, h, p

LEMMA DropIs ==
  ASSUME Sound, NEW r \in Admitted, Available' = Available + Private(req)[r],
         Private(req') = [Private(req) EXCEPT ![r] = 0], Held(req') = [Held(req) EXCEPT ![r] = None],
         DOMAIN tree'.slot = DOMAIN tree.slot
  PROVE  Cache!Drop(r)
<1>1. r \in Cache!Admitted BY CacheState, CacheAdmitted DEF Cache!Admitted
<1> QED BY <1>1, CacheState DEF Cache!Drop

LEMMA CacheKept == ASSUME Sound PROVE Cache!Kept = HeldBy(Admitted, Lasts)
<1>1. Cache!Admitted = Admitted BY CacheState, CacheAdmitted DEF Cache!Admitted
<1>2. Cache!Kept = UNION {Paths(Held(req)[r]) : r \in Admitted} BY <1>1, CacheState, CachePaths DEF Cache!Kept
<1>3. {Paths(Held(req)[r]) : r \in Admitted} = {Paths(Lasts[r]) : r \in Admitted} BY CacheAdmitted
<1> QED BY <1>2, <1>3 DEF HeldBy

LEMMA EvictedIs ==
  ASSUME Sound, NEW S, S \cap HeldBy(Admitted, Lasts) = {},
         \A s \in DOMAIN tree.slot \ S : Paths(s) \cap S = {},
         DOMAIN tree'.slot = DOMAIN tree.slot \ S, Available' = Available + Cardinality(S), req' = req
  PROVE  Cache!Evict(S)
<1>1. Held(req') = Held(req) /\ Private(req') = Private(req) OBVIOUS
<1>2. S \cap Cache!Kept = {} BY CacheKept
<1>3. \A s \in DOMAIN tree.slot \ S : Cache!Paths(s) \cap S = {} BY CachePaths
<1>4. Cache!Cardinality(S) = Cardinality(S) BY CacheCardinality
<1> QED BY <1>1, <1>2, <1>3, <1>4, CacheState DEF Cache!Evict

LEMMA FlushedIs ==
  ASSUME Sound, Admitted = {}, DOMAIN tree'.slot = {}, Available' = Cardinality(Slot), req' = req
  PROVE  Cache!Flush
<1>1. Cache!Admitted = {} BY CacheState, CacheAdmitted DEF Cache!Admitted
<1>2. Held(req') = Held(req) /\ Private(req') = Private(req) OBVIOUS
<1> QED BY <1>1, <1>2, CacheState DEF Cache!Flush

LEMMA CacheStutters ==
  ASSUME Held(req') = Held(req), Private(req') = Private(req), Available' = Available,
         DOMAIN tree'.slot = DOMAIN tree.slot
  PROVE  UNCHANGED Cache!vars
BY CacheState DEF Cache!vars

\* What the pool has more after a step, the cache and the requests have less.
LEMMA StepBalance ==
  ASSUME Sound, SlotsConserved, [Next]_vars
  PROVE  /\ Available' + Cardinality(DOMAIN tree'.slot) + Total(Private(req'), Req)
              = Available + Cardinality(DOMAIN tree.slot) + Total(Private(req), Req)
         /\ Available \in Nat /\ Cardinality(DOMAIN tree.slot) \in Nat /\ Total(Private(req), Req) \in Nat
         /\ Available' \in Nat /\ Cardinality(DOMAIN tree'.slot) \in Nat /\ Total(Private(req'), Req) \in Nat
BY PoolIs, PoolNext

\* One request gives its own slots away.
LEMMA OneGone ==
  ASSUME NEW f, NEW g, NEW r \in Req, \A o \in Req : f[o] \in Int, g[r] = 0, \A o \in Req \ {r} : g[o] = f[o]
  PROVE  Total(g, Req) = Total(f, Req) - f[r]
<1>1. IsFiniteSet(Req) /\ IsFiniteSet(Req \ {r}) BY ReqFinite, FS_RemoveElement
<1>2. Total(f, Req \ {r}) = Total(g, Req \ {r}) BY <1>1, TotalSame
<1>3. \A o \in Req : g[o] \in Int OBVIOUS
<1>4. Total(f, Req) = f[r] + Total(f, Req \ {r}) BY <1>1, TotalRemove
<1>5. Total(g, Req) = g[r] + Total(g, Req \ {r}) BY <1>1, <1>3, TotalRemove
<1>6. Total(f, Req \ {r}) \in Int BY <1>1, TotalType
<1> QED BY <1>2, <1>4, <1>5, <1>6

LEMMA OwnGone ==
  ASSUME Sound, NEW r \in Req, NEW rq, Private(rq) = [Private(req) EXCEPT ![r] = 0]
  PROVE  /\ Total(Private(rq), Req) = Total(Private(req), Req) - Private(req)[r]
         /\ Private(req)[r] \in Nat
<1>1. PICK f : f = Private(req) OBVIOUS
<1>2. PICK g : g = Private(rq) OBVIOUS
<1>3. \A o \in Req : f[o] \in Nat
  <2> SUFFICES ASSUME NEW o \in Req PROVE f[o] \in Nat
    OBVIOUS
  <2>1. req[o].prefix \in Nat /\ Len(req[o].row) \in Nat /\ req[o].prefix <= Len(req[o].row)
    BY SoundWhole DEF Whole
  <2> QED BY <1>1, <2>1 DEF Private
<1>4. g[r] = 0 /\ \A o \in Req \ {r} : g[o] = f[o] BY <1>1, <1>2 DEF Private
<1>5. \A o \in Req : f[o] \in Int BY <1>3
<1>6. Total(g, Req) = Total(f, Req) - f[r] BY <1>4, <1>5, OneGone
<1> QED BY <1>1, <1>2, <1>3, <1>6

LEMMA AdmitHolds ==
  ASSUME Sound, SlotsConserved, NEW r \in Req, NEW s \in Keys, NEW limit \in 0 .. MaxLen - 1, Admit(r, s, limit)
  PROVE  Cache!Next
<1> DEFINE p == Matched(tree, Take(s, limit))
           row == [i \in DOMAIN p |-> tree.slot[Take(s, i)]]
           q == [ids |-> s, row |-> row, prefix |-> Len(p), last |-> p, at |-> "admitted"]
           rq == req'
<1>1. /\ tree' = IncLockRef(Split(tree, p), p) /\ req' = [req EXCEPT ![r] = q] /\ free' = free /\ r \notin Admitted
  BY DEF Admit
<1>2. Len(p) \in Nat /\ DOMAIN p = 1 .. Len(p) /\ p \in DOMAIN tree.slot \cup {<<>>} /\ p \in Word BY AdmitIs
<1>3. Available' = Available BY <1>1 DEF Available
<1> HIDE DEF p
<1>4. Len(row) = Len(p) BY <1>2
<1>5. q.row = row /\ q.prefix = Len(p) /\ q.last = p /\ q.at = "admitted" OBVIOUS
<1> HIDE DEF row, q
<1>6. rq[r] = q /\ (\A o \in Req \ {r} : rq[o] = req[o]) /\ req[r] = Out BY <1>1, HeldWords DEF Sound, Typed
<1>7. tree'.slot = tree.slot
  <2>1. Shape(tree) BY DEF Sound
  <2>2. Shape(Split(tree, p)) /\ Split(tree, p).slot = tree.slot BY <1>2, <2>1, SplitIs
  <2> QED BY <1>1, <2>2, IncShape
<1>8. Paths(p) \subseteq DOMAIN tree.slot
  <2>1. CASE p \in DOMAIN tree.slot BY <2>1 DEF Sound, Shape
  <2>2. CASE p = <<>>
    <3>1. Len(p) = 0 BY <2>2
    <3>2. 1 .. Len(p) = {} BY <3>1
    <3> QED BY <3>2 DEF Paths
  <2> QED BY <1>2, <2>1, <2>2
<1> HIDE DEF rq
<1>9. Held(rq) = [Held(req) EXCEPT ![r] = p] BY <1>5, <1>6 DEF Held
<1>10. Private(rq) = Private(req)
  <2>1. Len(rq[r].row) - rq[r].prefix = 0 BY <1>2, <1>4, <1>5, <1>6
  <2>2. Len(req[r].row) - req[r].prefix = 0
    <3>1. Len(<<>>) = 0 OBVIOUS
    <3> QED BY <1>6, <3>1, OutIs
  <2>3. \A o \in Req : Len(rq[o].row) - rq[o].prefix = Len(req[o].row) - req[o].prefix BY <1>6, <2>1, <2>2
  <2> QED BY <2>3 DEF Private
<1>11. DOMAIN tree'.slot = DOMAIN tree.slot BY <1>7
<1>12. Held(req') = [Held(req) EXCEPT ![r] = p] /\ Private(req') = Private(req) BY <1>9, <1>10 DEF rq
<1>13. r \notin Admitted BY <1>1
<1>14. PICK w : w = p OBVIOUS
<1>15. Cache!Hold(r, w) BY <1>3, <1>8, <1>11, <1>12, <1>13, <1>14, HoldIs
<1>16. \E v \in DOMAIN tree.slot \cup {<<>>} : Cache!Hold(r, v) BY <1>2, <1>14, <1>15
<1> QED BY <1>16 DEF Cache!Next

\* A decode asks for slots, which it gets later.
LEMMA DecodeStutters ==
  ASSUME Sound, SlotsConserved, NEW next \in [At("running") -> Token], Decode(next)
  PROVE  UNCHANGED Cache!vars
<1>1. /\ req' = [r \in Req |-> IF req[r].at = "running" THEN [req[r] EXCEPT !.ids = Append(@, next[r])] ELSE req[r]]
      /\ tree' = tree /\ free' = free
  BY DEF Decode
<1>2. ASSUME NEW r \in Req
      PROVE req'[r].prefix = req[r].prefix /\ req'[r].row = req[r].row /\ req'[r].at = req[r].at /\ req'[r].last = req[r].last
  <2>1. req[r] \in Request BY DEF Sound, Typed
  <2>2. CASE req[r].at # "running" BY <1>1, <2>2
  <2>3. CASE req[r].at = "running"
    <3> DEFINE q == req[r]
               ids == Append(q.ids, next[r])
    <3>1. req'[r] = [q EXCEPT !.ids = ids] BY <1>1, <2>3
    <3> HIDE DEF ids
    <3> QED BY <2>1, <3>1 DEF Request
  <2> QED BY <2>2, <2>3
<1>3. Held(req') = Held(req) BY <1>2 DEF Held
<1>4. Private(req') = Private(req) BY <1>2 DEF Private
<1>5. Available' = Available BY <1>1 DEF Available
<1> QED BY <1>1, <1>3, <1>4, <1>5, CacheStutters

LEMMA EvictLeafEvicts ==
  ASSUME Sound, SlotsConserved, NEW n \in Nodes(tree), EvictLeaf(n)
  PROVE  Cache!Next
<1> DEFINE O == Own(tree, n)
           D == DOMAIN tree.slot
<1>1. /\ Shape(tree') /\ DOMAIN tree'.slot = D \ O /\ O \subseteq D /\ IsFiniteSet(O)
      /\ O \cap HeldBy(Admitted, Lasts) = {} /\ Cardinality(O) \in Nat
  BY EvictIs
<1>2. req' = req /\ [Next]_vars BY DEF EvictLeaf, Next
<1>3. \A s \in D \ O : Paths(s) \cap O = {}
  <2>1. \A s \in D \ O : Paths(s) \subseteq D \ O BY <1>1 DEF Shape
  <2> QED BY <2>1
<1>4. Cardinality(D) = Cardinality(D \ O) + Cardinality(O)
  <2>1. IsFiniteSet(D) BY DEF Sound, Shape
  <2>2. D = (D \ O) \cup O /\ (D \ O) \cap O = {} /\ IsFiniteSet(D \ O) BY <1>1, <2>1, FS_Subset
  <2> HIDE DEF D, O
  <2> QED BY <1>1, <2>2, CardDisjoint
<1>5. Available' = Available + Cardinality(O)
  <2>1. /\ Available' + Cardinality(D \ O) + Total(Private(req), Req)
             = Available + Cardinality(D) + Total(Private(req), Req)
        /\ Available \in Nat /\ Cardinality(D) \in Nat /\ Total(Private(req), Req) \in Nat
        /\ Available' \in Nat /\ Cardinality(D \ O) \in Nat
    BY <1>1, <1>2, StepBalance
  <2> HIDE DEF D, O
  <2> QED BY <1>1, <1>4, <2>1
<1>6. D \ DOMAIN tree'.slot = O BY <1>1
<1>7. Cache!Evict(O) BY <1>1, <1>2, <1>3, <1>5, EvictedIs
<1> QED BY <1>6, <1>7 DEF Cache!Next

\* The slots a batch gets, as a function over all requests.
LEMMA AllocTakes == ASSUME Sound, SlotsConserved, Alloc PROVE Cache!Next
<1> DEFINE gap == [r \in Req |-> IF r \in job.batch THEN Len(req[r].ids) - Len(req[r].row) ELSE 0]
           rq == req'
<1>1. tree' = tree /\ job.batch \in SUBSET Req /\ job # NoJob /\ [Next]_vars
  BY AllocIs, GetsAre DEF Evicted, Next
<1>2. PICK new : AllocWith(new) BY AllocIs
<1>3. (\A r \in Req \ job.batch : rq[r] = req[r]) /\ \A r \in job.batch : Given(req[r], rq[r])
  BY <1>2, AllocRows DEF AllocWith
<1>4. ASSUME NEW r \in job.batch PROVE r \in Admitted
  <2>1. job.for \in {"extend", "decode"} BY <1>1 DEF Sound, Typed, Phased
  <2>2. req[r].at \in {"admitted", "running"} BY <2>1 DEF Sound, Phased, At
  <2> QED BY <1>1, <2>2 DEF Admitted
<1>5. ASSUME NEW r \in Req
      PROVE  /\ Len(req[r].ids) \in Nat /\ Len(req[r].row) \in Nat /\ req[r].prefix \in Nat
             /\ Len(req[r].row) <= Len(req[r].ids) /\ Len(req[r].ids) <= MaxLen
  <2>1. req[r] \in Request /\ Fits(tree, req[r], More) /\ More \in Nat BY HeldWords DEF More
  <2> QED BY <2>1, FitsWords, FitsRow
<1> HIDE DEF rq
<1>6. ASSUME NEW r \in Req PROVE gap[r] \in 0 .. Cardinality(Slot) /\ (gap[r] > 0 => r \in Admitted)
  <2>1. MaxLen <= Cardinality(Slot) /\ MaxLen \in Nat /\ Cardinality(Slot) \in Nat
    BY CacheAssumption, ReqFinite, FS_CardinalityType
  <2> DEFINE a == Len(req[r].row)
             b == Len(req[r].ids)
  <2>2. a \in Nat /\ b \in Nat /\ a <= b /\ b <= MaxLen BY <1>5
  <2>3. CASE r \in job.batch
    <3>1. gap[r] = b - a BY <2>3
    <3> HIDE DEF gap, a, b
    <3> QED BY <1>4, <2>1, <2>2, <2>3, <3>1
  <2>4. CASE r \notin job.batch
    <3>1. gap[r] = 0 BY <2>4
    <3> HIDE DEF gap
    <3>2. 0 \in 0 .. Cardinality(Slot) /\ ~(0 > 0) BY <2>1
    <3> QED BY <3>1, <3>2
  <2> QED BY <2>3, <2>4
<1>7. gap \in [Req -> 0 .. Cardinality(Slot)] BY <1>6
<1>8. ASSUME NEW r \in Req PROVE Private(rq)[r] = Private(req)[r] + gap[r] /\ Private(req)[r] \in Int
  <2> DEFINE a == Len(req[r].row)
             b == Len(req[r].ids)
             c == req[r].prefix
  <2>1. a \in Nat /\ b \in Nat /\ c \in Nat BY <1>5
  <2>2. Private(req)[r] = a - c BY DEF Private
  <2>3. CASE r \in job.batch
    <3>1. Len(rq[r].row) = b /\ rq[r].prefix = c BY <1>3, <2>3 DEF Given
    <3>2. Private(rq)[r] = b - c BY <3>1 DEF Private
    <3>3. gap[r] = b - a BY <2>3
    <3> HIDE DEF gap, a, b, c
    <3> QED BY <2>1, <2>2, <3>2, <3>3
  <2>4. CASE r \notin job.batch
    <3>1. Private(rq)[r] = Private(req)[r] BY <1>3, <2>4 DEF Private
    <3>2. gap[r] = 0 BY <2>4
    <3> HIDE DEF gap, a, c
    <3> QED BY <2>1, <2>2, <3>1, <3>2
  <2> QED BY <2>3, <2>4
<1>9. Held(rq) = Held(req)
  <2>1. ASSUME NEW r \in Req PROVE (rq[r].at # "out" <=> req[r].at # "out") /\ rq[r].last = req[r].last
    BY <1>3 DEF Given
  <2> QED BY <2>1 DEF Held
<1>10. PICK more : more = gap OBVIOUS
<1>11. PICK u : u = Private(req) OBVIOUS
<1>12. PICK v : v = Private(rq) OBVIOUS
<1>13. v = [r \in Req |-> u[r] + more[r]] /\ \A r \in Req : u[r] \in Int /\ more[r] \in Int /\ v[r] = u[r] + more[r]
  <2>1. ASSUME NEW r \in Req PROVE u[r] \in Int /\ more[r] \in Int /\ v[r] = u[r] + more[r]
    <3>1. gap[r] \in Int
      <4>1. Cardinality(Slot) \in Nat BY ReqFinite, FS_CardinalityType
      <4> HIDE DEF gap
      <4> QED BY <1>6, <4>1
    <3> HIDE DEF gap
    <3> QED BY <1>8, <1>10, <1>11, <1>12, <3>1
  <2>2. v = [r \in Req |-> v[r]] BY <1>12 DEF Private
  <2> QED BY <2>1, <2>2
<1>14. Total(v, Req) = Total(u, Req) + Total(more, Req) /\ Total(more, Req) \in Int
  <2>1. IsFiniteSet(Req) BY ReqFinite
  <2> QED BY <1>13, <2>1, TotalPlus, TotalType
<1>15. Available' = Available - Total(more, Req) /\ Total(more, Req) <= Available
  <2>1. /\ Available' + Cardinality(DOMAIN tree'.slot) + Total(Private(req'), Req)
             = Available + Cardinality(DOMAIN tree.slot) + Total(Private(req), Req)
        /\ Available \in Nat /\ Cardinality(DOMAIN tree.slot) \in Nat /\ Total(Private(req), Req) \in Nat
        /\ Available' \in Nat
    BY <1>1, StepBalance
  <2>2. Total(Private(req'), Req) = Total(v, Req) /\ Total(Private(req), Req) = Total(u, Req)
    BY <1>11, <1>12 DEF rq
  <2>3. DOMAIN tree'.slot = DOMAIN tree.slot BY <1>1
  <2> DEFINE k == Cardinality(DOMAIN tree.slot)
             x == Available
             y == Available'
             z == Total(more, Req)
             t == Total(u, Req)
  <2>4. y + k + (t + z) = x + k + t /\ x \in Nat /\ y \in Nat /\ k \in Nat /\ t \in Nat /\ z \in Int
    BY <1>14, <2>1, <2>2, <2>3
  <2> HIDE DEF k, x, y, z, t
  <2>5. y = x - z /\ z <= x BY <2>4
  <2> QED BY <2>5 DEF x, y, z
<1>16. Cache!TakeSlots(more)
  <2>1. \A r \in Req : more[r] > 0 => r \in Admitted BY <1>6, <1>10
  <2>2. Private(req') = [r \in Req |-> Private(req)[r] + more[r]] BY <1>11, <1>12, <1>13 DEF rq
  <2>3. Held(req') = Held(req) BY <1>9 DEF rq
  <2>4. DOMAIN tree'.slot = DOMAIN tree.slot BY <1>1
  <2> QED BY <1>15, <2>1, <2>2, <2>3, <2>4, TakeIs
<1>17. \E m \in [Req -> 0 .. Cardinality(Slot)] : Cache!TakeSlots(m) BY <1>7, <1>10, <1>16
<1> QED BY <1>17 DEF Cache!Next

LEMMA RetractDrops == ASSUME Sound, SlotsConserved, NEW r \in Req, Retract(r) PROVE Cache!Next
<1>1. r \in Admitted /\ tree' = DecLockRef(tree, req[r].last) /\ req' = [req EXCEPT ![r] = Out] /\ [Next]_vars
  BY RetractIs DEF Next
<1>2. PICK rq : rq = req' OBVIOUS
<1>3. rq[r] = Out /\ \A o \in Req \ {r} : rq[o] = req[o] BY <1>1, <1>2 DEF Sound, Typed
<1>4. tree'.slot = tree.slot BY <1>1, DecNodes DEF Sound
<1>5. Held(rq) = [Held(req) EXCEPT ![r] = None] BY <1>3, OutIs DEF Held
<1>6. Private(rq) = [Private(req) EXCEPT ![r] = 0]
  <2>1. Len(<<>>) = 0 OBVIOUS
  <2>2. Len(rq[r].row) - rq[r].prefix = 0 BY <1>3, <2>1, OutIs
  <2> QED BY <1>3, <2>2 DEF Private
<1>7. Available' = Available + Private(req)[r]
  <2>1. /\ Available' + Cardinality(DOMAIN tree'.slot) + Total(Private(req'), Req)
             = Available + Cardinality(DOMAIN tree.slot) + Total(Private(req), Req)
        /\ Available \in Nat /\ Cardinality(DOMAIN tree.slot) \in Nat /\ Total(Private(req), Req) \in Nat
        /\ Available' \in Nat
    BY <1>1, StepBalance
  <2>2. Total(Private(rq), Req) = Total(Private(req), Req) - Private(req)[r] /\ Private(req)[r] \in Nat
    BY <1>6, OwnGone
  <2>3. Total(Private(req'), Req) = Total(Private(rq), Req) BY <1>2
  <2>4. DOMAIN tree'.slot = DOMAIN tree.slot BY <1>4
  <2> QED BY <2>1, <2>2, <2>3, <2>4
<1>8. Held(req') = [Held(req) EXCEPT ![r] = None] /\ Private(req') = [Private(req) EXCEPT ![r] = 0]
      /\ DOMAIN tree'.slot = DOMAIN tree.slot
  BY <1>2, <1>4, <1>5, <1>6
<1>9. Cache!Drop(r) BY <1>1, <1>7, <1>8, DropIs
<1> QED BY <1>9 DEF Cache!Next

LEMMA Ledger ==
  ASSUME NEW x \in Int, NEW y \in Int, NEW k \in Int, NEW c \in Int, NEW t \in Int, NEW z \in Int,
         y + (k + c) + (t - z) = x + k + t
  PROVE  y = x + z - c
OBVIOUS

\* A request gives its slots to the cache: what both callers of insert have in common.
LEMMA GrownGives ==
  ASSUME Sound, SlotsConserved, [Next]_vars, NEW r \in Req, job = NoJob, req[r].at \in {"computed", "running"},
         tree'.slot = Grown(r).slot, \A o \in Req \ {r} : req'[o] = req[o],
         req'[r].prefix \in Nat, Len(req'[r].row) = req'[r].prefix, NEW s, s = req[r].ids
  PROVE  Cache!Give(r, s) /\ r \in Admitted /\ s \in DOMAIN tree'.slot \cup {<<>>}
<1> DEFINE D == DOMAIN tree.slot
           q == req[r]
<1>0. PICK rq : rq = req' OBVIOUS
<1>1. s = req[r].ids /\ \A o \in Req \ {r} : rq[o] = req[o] BY <1>0
<1>2. q \in Request /\ Fits(tree, q, More) /\ s \in Word BY <1>1, HeldWords DEF Request
<1>3. r \in Admitted /\ Len(q.row) = Len(s) /\ Len(s) \in Nat /\ q.prefix \in Nat
  BY <1>1, DoublesType DEF Admitted
<1>4. DOMAIN tree'.slot = D \cup Paths(s) /\ s \in Nodes(Grown(r)) \cup {<<>>} /\ Shape(Grown(r)) BY <1>1, GrownIs
<1>5. Len(q.last) = q.prefix /\ q.last = SubSeq(s, 1, q.prefix)
  <2>1. Len(q.last) = q.prefix BY <1>2, FitsWords
  <2>2. q.last = Take(s, q.prefix) BY <1>1, <1>2 DEF Fits
  <2> QED BY <2>1, <2>2 DEF Take
<1>6. Private(req)[r] = Len(s) - q.prefix BY <1>3 DEF Private
<1>7. Len(s) = Len(q.last) + Private(req)[r] /\ SubSeq(s, 1, Len(q.last)) = q.last
  <2>1. Len(s) = Len(q.last) + Private(req)[r]
    <3> DEFINE x == Len(q.last)
               y == Private(req)[r]
               n == Len(s)
               m == q.prefix
    <3>1. y = n - m /\ n \in Nat /\ m \in Nat /\ x = m BY <1>3, <1>5, <1>6
    <3> HIDE DEF x, y, n, m
    <3>2. n = x + y BY <3>1
    <3> QED BY <3>2 DEF x, y, n
  <2> QED BY <1>5, <2>1
<1>8. Private(rq) = [Private(req) EXCEPT ![r] = 0]
  <2>1. Len(rq[r].row) - rq[r].prefix = 0 BY <1>0
  <2> QED BY <1>1, <2>1 DEF Private
<1>9. Available' = Available + Private(req)[r] - Cardinality(Paths(s) \ D)
  <2> DEFINE P == Paths(s) \ D
  <2>1. Cardinality(D \cup Paths(s)) = Cardinality(D) + Cardinality(P) /\ Cardinality(P) \in Nat
    <3>1. IsFiniteSet(Paths(s)) /\ IsFiniteSet(D) BY <1>2, PathsFinite DEF Sound, Shape
    <3>2. IsFiniteSet(P) /\ D \cap P = {} /\ D \cup Paths(s) = D \cup P BY <3>1, FS_Subset
    <3> DEFINE C == D \cup Paths(s)
    <3>3. C = D \cup P BY <3>2
    <3> HIDE DEF P, D, C
    <3>4. Cardinality(C) = Cardinality(D) + Cardinality(P) /\ Cardinality(P) \in Nat BY <3>1, <3>2, <3>3, CardDisjoint
    <3> QED BY <3>4 DEF C
  <2>2. /\ Available' + Cardinality(DOMAIN tree'.slot) + Total(Private(req'), Req)
             = Available + Cardinality(D) + Total(Private(req), Req)
        /\ Available \in Nat /\ Cardinality(D) \in Nat /\ Total(Private(req), Req) \in Nat
        /\ Available' \in Nat
    BY StepBalance
  <2>3. Total(Private(rq), Req) = Total(Private(req), Req) - Private(req)[r] /\ Private(req)[r] \in Nat
    BY <1>8, OwnGone
  <2>4. Total(Private(req'), Req) = Total(Private(rq), Req) BY <1>0
  <2>5. Cardinality(DOMAIN tree'.slot) = Cardinality(D) + Cardinality(P) BY <1>4, <2>1
  <2> DEFINE k == Cardinality(D)
             x == Available
             y == Available'
             t == Total(Private(req), Req)
             z == Private(req)[r]
             c == Cardinality(P)
             i == Cardinality(DOMAIN tree'.slot)
             j == Total(Private(req'), Req)
  <2>6. x \in Nat /\ y \in Nat /\ k \in Nat /\ t \in Nat /\ z \in Nat /\ c \in Nat
    BY <2>1, <2>2, <2>3
  <2>7. y + i + j = x + k + t BY <2>2
  <2>8. i = k + c BY <2>5
  <2>9. j = t - z BY <2>3, <2>4
  <2> HIDE DEF k, x, y, t, z, c, i, j
  <2>10. y + (k + c) + (t - z) = x + k + t BY <2>7, <2>8, <2>9
  <2>11. x \in Int /\ y \in Int /\ k \in Int /\ t \in Int /\ z \in Int /\ c \in Int BY <2>6
  <2>12. y = x + z - c BY <2>10, <2>11, Ledger
  <2> QED BY <2>12 DEF x, y, z, c
<1>10. Private(req') = [Private(req) EXCEPT ![r] = 0] BY <1>0, <1>8
<1>11. Cache!Give(r, s) BY <1>3, <1>4, <1>7, <1>9, <1>10, GiveIs
<1>12. s \in DOMAIN tree'.slot \cup {<<>>} BY <1>4 DEF Shape
<1> QED BY <1>3, <1>11, <1>12

LEMMA UnfinishedShares == ASSUME Sound, SlotsConserved, NEW r \in Req, CacheUnfinishedReq(r) PROVE Cache!Next
<1>1. PICK rq : rq = req' OBVIOUS
<1>2. PICK s : s = req[r].ids OBVIOUS
<1>3. /\ job = NoJob /\ req[r].at \in {"computed", "running"} /\ tree'.slot = Grown(r).slot
      /\ \A o \in Req \ {r} : req'[o] = req[o]
  BY UnfinishedIs
<1>4. req'[r].prefix \in Nat /\ Len(req'[r].row) = req'[r].prefix /\ req'[r].last = s /\ req'[r].at = "running"
  BY <1>2, UnfinishedIs, CacheAssumption
<1>5. [Next]_vars BY DEF Next
<1>6. Cache!Give(r, s) /\ r \in Admitted /\ s \in DOMAIN tree'.slot \cup {<<>>}
  BY <1>2, <1>3, <1>4, <1>5, GrownGives
<1>7. Held(rq) = [Held(req) EXCEPT ![r] = s] BY <1>1, <1>3, <1>4 DEF Held
<1>8. Held(req') = [Held(req) EXCEPT ![r] = s] BY <1>1, <1>7
<1>9. Cache!Share(r, s) BY <1>6, <1>8, CacheState DEF Cache!Share
<1>10. \E w \in (DOMAIN tree.slot)' \cup {<<>>} : Cache!Share(r, w) BY <1>6, <1>9
<1> QED BY <1>10 DEF Cache!Next

LEMMA FinishedLeaves == ASSUME Sound, SlotsConserved, NEW r \in Req, CacheFinishedReq(r) PROVE Cache!Next
<1>1. PICK rq : rq = req' OBVIOUS
<1>2. PICK s : s = req[r].ids OBVIOUS
<1>3. /\ job = NoJob /\ req[r].at \in {"computed", "running"}
      /\ req' = [req EXCEPT ![r] = Out] /\ tree' = DecLockRef(Grown(r), req[r].last)
  BY DEF CacheFinishedReq, Finishes, Grown
<1>4. rq[r] = Out /\ \A o \in Req \ {r} : rq[o] = req[o] BY <1>1, <1>3 DEF Sound, Typed
<1>5. tree'.slot = Grown(r).slot BY <1>3, GrownIs, DecNodes
<1>6. rq[r].prefix \in Nat /\ Len(rq[r].row) = rq[r].prefix
  <2>1. Len(<<>>) = 0 OBVIOUS
  <2> QED BY <1>4, <2>1, OutIs
<1>7. [Next]_vars BY DEF Next
<1>8. Cache!Give(r, s) /\ r \in Admitted /\ s \in DOMAIN tree'.slot \cup {<<>>}
  <2>1. /\ job = NoJob /\ req[r].at \in {"computed", "running"} /\ \A o \in Req \ {r} : req'[o] = req[o]
    BY <1>1, <1>3, <1>4
  <2>2. req'[r].prefix \in Nat /\ Len(req'[r].row) = req'[r].prefix BY <1>1, <1>6
  <2> QED BY <1>2, <1>5, <1>7, <2>1, <2>2, GrownGives
<1>9. Held(rq) = [Held(req) EXCEPT ![r] = None] BY <1>4, OutIs DEF Held
<1>10. Held(req') = [Held(req) EXCEPT ![r] = None] BY <1>1, <1>9
<1>11. Cache!Leave(r, s) BY <1>8, <1>10, CacheState DEF Cache!Leave
<1>12. \E w \in (DOMAIN tree.slot)' \cup {<<>>} : Cache!Leave(r, w) BY <1>8, <1>11
<1> QED BY <1>12 DEF Cache!Next

LEMMA AllFree == Total([x \in Slot |-> 1], Slot) = Cardinality(Slot)
<1> DEFINE f == [x \in Slot |-> 1]
<1>1. (\A x \in Slot : f[x] = 1) /\ IsFiniteSet(Slot) /\ 1 \in Nat /\ Cardinality(Slot) \in Nat
  BY ReqFinite, FS_CardinalityType
<1> HIDE DEF f
<1>2. Total(f, Slot) = Cardinality(Slot) * 1 BY <1>1, TotalAlike
<1>3. Total(f, Slot) = Cardinality(Slot) BY <1>1, <1>2
<1> QED BY <1>3 DEF f

LEMMA FlushFlushes == ASSUME Sound, SlotsConserved, Flush PROVE Cache!Next
<1>1. req' = req /\ tree' = EmptyTree /\ free' = [x \in Slot |-> 1] /\ Admitted = {} BY DEF Flush
<1>2. DOMAIN tree'.slot = {} BY <1>1 DEF EmptyTree
<1>3. Available' = Cardinality(Slot) BY <1>1, AllFree DEF Available
<1>4. Cache!Flush BY <1>1, <1>2, <1>3, FlushedIs
<1> QED BY <1>4 DEF Cache!Next

LEMMA CacheInit == ASSUME Init PROVE Cache!Init
<1>1. tree = EmptyTree /\ free = [x \in Slot |-> 1] /\ \A r \in Req : req[r] = Out BY DEF Init
<1>2. DOMAIN tree.slot = {} BY <1>1 DEF EmptyTree
<1>3. Available = Cardinality(Slot) BY <1>1, AllFree DEF Available
<1>4. [r \in Req |-> IF r \in Admitted THEN req[r].last ELSE None] = [r \in Req |-> None]
  BY <1>1, OutIs DEF Admitted
<1>5. [r \in Req |-> Len(req[r].row) - req[r].prefix] = [r \in Req |-> 0]
  <2>1. Len(<<>>) = 0 OBVIOUS
  <2>2. \A r \in Req : Len(req[r].row) - req[r].prefix = 0 BY <1>1, <2>1, OutIs
  <2> QED BY <2>2
<1> QED BY <1>2, <1>3, <1>4, <1>5 DEF Cache!Init

\* The steps that change nothing the cache of prefixes has.
LEMMA StillCache ==
  ASSUME free' = free, req' = req, tree'.slot = tree.slot
  PROVE  UNCHANGED Cache!vars
<1>1. Available' = Available BY DEF Available
<1>2. Held(req') = Held(req) /\ Private(req') = Private(req) OBVIOUS
<1>3. DOMAIN tree'.slot = DOMAIN tree.slot OBVIOUS
<1> QED BY <1>1, <1>2, <1>3, CacheStutters

LEMMA CacheNext == ASSUME Sound, SlotsConserved, [Next]_vars PROVE [Cache!Next]_(Cache!vars)
<1>1. ASSUME NEW s \in Keys, Refuse(s) PROVE UNCHANGED Cache!vars
  <2>1. tree' = Split(tree, Matched(tree, s)) /\ req' = req /\ free' = free BY <1>1 DEF Refuse
  <2>2. Shape(tree) BY DEF Sound
  <2>3. Matched(tree, s) \in DOMAIN tree.slot \cup {<<>>} BY <2>2, KeysAre, MatchedIs
  <2>4. tree'.slot = tree.slot BY <2>1, <2>2, <2>3, SplitIs
  <2> QED BY <2>1, <2>4, StillCache
<1>2. CASE Extend BY <1>2, StillCache DEF Extend
<1>3. CASE UNCHANGED vars BY <1>3, StillCache DEF vars
<1> QED BY <1>1, <1>2, <1>3, AdmitHolds, DecodeStutters, EvictLeafEvicts, AllocTakes, RetractDrops,
           UnfinishedShares, FinishedLeaves, FlushFlushes DEF Next

\* With the radix tree, its lock counters and its free list, the scheduler has a cache in
\* which the prefix a request holds stays, and a pool from which nothing is lost.
THEOREM TreeIsACache == Spec => ImplementsPrefixCache
<1>1. Spec => [](Sound /\ SlotsConserved)
  BY ConservedInit, SoundInit, SoundNext, ConservedNext, PTL DEF Spec
<1> QED BY <1>1, CacheInit, CacheNext, PTL DEF Spec, ImplementsPrefixCache, Cache!Spec
===============================================================================
