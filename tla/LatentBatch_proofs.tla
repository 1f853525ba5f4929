-------------------------- MODULE LatentBatch_proofs --------------------------
(***************************************************************************)
(* Theorems about LatentBatch, for any prompts, lengths, pool and         *)
(* vocabulary.  The inductive invariant is built in four layers: where the *)
(* requests are, what was sampled and recorded, how the memory is divided, *)
(* and of what kind it is.                                                 *)
(***************************************************************************)
EXTENDS LatentBatch, Sums_proofs, SequenceTheorems

Row == [req : Req, latent : BOOLEAN]
Kind == {"soft", "hard"}
Entry == [mix : Kind, sampler : {"latent", "explicit"}]

-------------------------------------------------------------------------------
(* Where the requests are *)

Typed ==
  /\ pc \in {"recv", "admit", "extend", "prefilled", "decode", "retract", "decoding", "decoded"}
  /\ sent \in 0 .. Len(Prompt)
  /\ waiting \in Seq(Req) /\ adding \in Seq(Req)
  /\ running \in Seq(Row) /\ last \in Seq(Row) /\ rows \in Seq(Row)
  /\ offset \in Int
  /\ out \in [Req -> Seq(Token)] /\ rec \in [Req -> Seq(Entry)]
  /\ latent \in [Req -> BOOLEAN] /\ done \in [Req -> BOOLEAN] /\ retracted \subseteq Req

Distinct(batch) == \A i, j \in DOMAIN batch : batch[i].req = batch[j].req => i = j
Queued == {waiting[i] : i \in DOMAIN waiting}
Adding == {adding[i] : i \in DOMAIN adding}
Active == ReqsOf(running) \cup ReqsOf(last)

\* A request is sent and then in the queue, in the running batch, in the last
\* prefill batch, or done.
Placed ==
  /\ \A i, j \in DOMAIN waiting : waiting[i] = waiting[j] => i = j
  /\ Distinct(running) /\ Distinct(last) /\ Distinct(rows)
  /\ Queued \cap Active = {} /\ ReqsOf(running) \cap ReqsOf(last) = {}
  /\ \A r \in Queued \cup Active : r <= sent
  /\ \A r \in Queued : ~done[r]
  /\ \A r \in Req : r > sent => ~done[r] /\ out[r] = <<>>

\* Where the loop is tells which of its batches there are.
Loop ==
  /\ rows # <<>> <=> pc \in {"prefilled", "decoded"}
  /\ pc = "prefilled" => ReqsOf(rows) \subseteq ReqsOf(last)
  /\ pc = "decoded" => ReqsOf(rows) \subseteq ReqsOf(running)
  /\ last # <<>> => pc \in {"recv", "prefilled"}
  /\ adding # <<>> => pc \in {"admit", "extend"}
  /\ pc = "extend" => adding # <<>>
  /\ Len(adding) <= Len(waiting) /\ \A i \in DOMAIN adding : adding[i] = waiting[i]
  /\ pc \in {"retract", "decoding"} => running # <<>> /\ \A r \in ReqsOf(running) : ~done[r]
  /\ \A r \in ReqsOf(rows) : ~done[r]

-------------------------------------------------------------------------------
(* What was sampled and recorded *)

\* The latent flag says that the end token has not been chosen, and the outputs of
\* a request that goes on are within max_new_tokens.
Recorded ==
  /\ \A r \in Req :
       /\ latent[r] <=> \A i \in DOMAIN out[r] : out[r][i] # LatentEnd
       /\ out[r] # <<>> /\ ~done[r] => Len(out[r]) < MaxNew[r]
  /\ LatentIsSampledLatent /\ RecordFollowsTheSwitch

Flagged(batch) == \A row \in ToSet(batch) : latent[row.req] => row.latent

\* A row has the latent flag when its request has, and the outputs of a request
\* tell where it has been.
Rowed ==
  /\ Flagged(running) /\ Flagged(last) /\ Flagged(rows)
  /\ \A r \in Active \ ReqsOf(rows) : out[r] # <<>>
  /\ \A r \in ReqsOf(running) : Len(out[r]) <= MaxNew[r]
  /\ \A r \in Queued : r \in retracted \/ out[r] = <<>>
  /\ pc = "prefilled" => \A r \in ReqsOf(rows) : r \in retracted \/ out[r] = <<>>
  /\ pc = "decoded" => \A r \in ReqsOf(rows) : out[r] # <<>>

Sampled == Recorded /\ Rowed

-------------------------------------------------------------------------------
(* How the memory is divided *)

MemoryTyped == kv \in [Req -> Seq(Kind)] /\ locked \in [Req -> Nat] /\ avail \in Int

\* The tree has the prefixes of its nodes.
TreeShape ==
  /\ tree \in [DOMAIN tree -> Kind] /\ IsFiniteSet(DOMAIN tree)
  /\ nodes \subseteq Seq(Token) \ {<<>>}
  /\ DOMAIN tree = UNION {Paths(s) : s \in nodes}

\* Each request holds a prefix that ends at a node.
Held(path) ==
  \A r \in Req : path[r] \in 0 .. Len(Ids(r)) /\ Take(Ids(r), path[r]) \in nodes \cup {<<>>}

Live == {r \in Active : ~done[r]}

\* How much KV a request has.
Lengths ==
  \A r \in Req :
    /\ r \in Adding => Len(kv[r]) = locked[r]
    /\ r \in Live =>
         /\ Len(kv[r]) = IF r \in ReqsOf(rows) THEN Len(Ids(r)) ELSE Len(Ids(r)) - 1
         /\ locked[r] <= Len(kv[r])
    /\ r \notin Adding \cup Live => kv[r] = <<>> /\ locked[r] = 0

Divided == MemoryTyped /\ TreeShape /\ Held(locked) /\ Lengths /\ PoolConserved

\* What the batch being made will write.
Need == Total([i \in DOMAIN adding |-> Len(Ids(adding[i])) - locked[adding[i]]], DOMAIN adding)

\* The estimates leave room for what the next forward pass writes.
Room ==
  /\ avail >= 0
  /\ pc \in {"admit", "extend"} => Need <= offset
  /\ adding # <<>> => Need <= Free(locked)
  /\ pc = "decoding" => avail >= Len(running) \/ Len(running) = 1

-------------------------------------------------------------------------------
(* Of what kind it is *)

NoExtension == \A r, q \in Req : ~IsStrictPrefix(Prompt[q], Prompt[r])

\* The KV of a prompt is hard, and the KV of an output is the row recorded for it.
HardPrompt(r) == \A n \in DOMAIN kv[r] : n <= Len(Prompt[r]) => kv[r][n] = "hard"
AsRecorded(r) ==
  \A n \in DOMAIN kv[r] :
    kv[r][n] = IF n <= Len(Prompt[r]) THEN "hard" ELSE rec[r][n - Len(Prompt[r])].mix
HardTree ==
  \A r \in Req : \A n \in 1 .. Len(Prompt[r]) :
    Take(Prompt[r], n) \in DOMAIN tree => tree[Take(Prompt[r], n)] = "hard"

Kinded ==
  NoExtension =>
    HardTree /\ \A r \in Req : HardPrompt(r) /\ (r \notin retracted => AsRecorded(r))

-------------------------------------------------------------------------------
(* Prefixes *)

LEMMA TakeSeq ==
  ASSUME NEW S, NEW s \in Seq(S), NEW n \in 0 .. Len(s)
  PROVE  /\ Take(s, n) \in Seq(S) /\ Len(Take(s, n)) = n /\ DOMAIN Take(s, n) = 1 .. n
         /\ \A i \in 1 .. n : Take(s, n)[i] = s[i]
BY DEF Take

LEMMA DropSeq ==
  ASSUME NEW S, NEW s \in Seq(S), NEW n \in 0 .. Len(s)
  PROVE  LET t == SubSeq(s, n + 1, Len(s))
         IN  /\ t \in Seq(S) /\ Len(t) = Len(s) - n /\ DOMAIN t = 1 .. Len(s) - n
             /\ \A i \in 1 .. Len(s) - n : t[i] = s[n + i]
OBVIOUS

LEMMA SameSeq ==
  ASSUME NEW S, NEW s \in Seq(S), NEW t \in Seq(S), Len(s) = Len(t),
         \A i \in 1 .. Len(s) : s[i] = t[i]
  PROVE  s = t
BY SeqEqual, Zenon

LEMMA TakeAll ==
  ASSUME NEW S, NEW s \in Seq(S)
  PROVE  Take(s, Len(s)) = s /\ Take(s, 0) = <<>>
<1>1. Len(s) \in 0 .. Len(s) /\ 0 \in 0 .. Len(s) OBVIOUS
<1>2. Take(s, Len(s)) = s BY <1>1, TakeSeq, SameSeq
<1>3. Len(Take(s, 0)) = 0 /\ Take(s, 0) \in Seq(S) BY <1>1, TakeSeq
<1> QED BY <1>2, <1>3

LEMMA TakeTake ==
  ASSUME NEW S, NEW s \in Seq(S), NEW n \in 0 .. Len(s), NEW m \in 0 .. n
  PROVE  Take(Take(s, n), m) = Take(s, m)
<1> DEFINE t == Take(s, n)
<1>1. m \in 0 .. Len(s) /\ Len(s) \in Nat OBVIOUS
<1>2. t \in Seq(S) /\ Len(t) = n /\ \A i \in 1 .. n : t[i] = s[i] BY TakeSeq
<1> HIDE DEF t
<1>3. Take(t, m) \in Seq(S) /\ Len(Take(t, m)) = m /\ \A i \in 1 .. m : Take(t, m)[i] = t[i]
  BY <1>2, TakeSeq
<1>4. Take(s, m) \in Seq(S) /\ Len(Take(s, m)) = m /\ \A i \in 1 .. m : Take(s, m)[i] = s[i]
  BY <1>1, TakeSeq
<1>5. \A i \in 1 .. m : i \in 1 .. n OBVIOUS
<1>6. \A i \in 1 .. m : Take(t, m)[i] = Take(s, m)[i] BY <1>2, <1>3, <1>4, <1>5
<1>7. Take(t, m) = Take(s, m) BY <1>3, <1>4, <1>6, SameSeq
<1> QED BY <1>7 DEF t

LEMMA ConcatIs ==
  ASSUME NEW S, NEW s \in Seq(S), NEW t \in Seq(S)
  PROVE  /\ DOMAIN (s \o t) = 1 .. Len(s) + Len(t)
         /\ \A n \in 1 .. Len(s) + Len(t) : (s \o t)[n] = IF n <= Len(s) THEN s[n] ELSE t[n - Len(s)]
<1>1. Len(s) \in Nat /\ Len(t) \in Nat OBVIOUS
<1>2. s \o t \in Seq(S) /\ Len(s \o t) = Len(s) + Len(t) OBVIOUS
<1> QED BY <1>1, <1>2

LEMMA TakeConcat ==
  ASSUME NEW S, NEW s \in Seq(S), NEW t \in Seq(S), NEW n \in 0 .. Len(s)
  PROVE  Take(s \o t, n) = Take(s, n)
<1> DEFINE u == s \o t
<1>1. u \in Seq(S) /\ n \in 0 .. Len(u) /\ \A i \in 1 .. n : u[i] = s[i] OBVIOUS
<1> HIDE DEF u
<1>2. Take(u, n) \in Seq(S) /\ Len(Take(u, n)) = n /\ \A i \in 1 .. n : Take(u, n)[i] = u[i]
  BY <1>1, TakeSeq
<1>3. Take(s, n) \in Seq(S) /\ Len(Take(s, n)) = n /\ \A i \in 1 .. n : Take(s, n)[i] = s[i]
  BY TakeSeq
<1>4. Take(u, n) = Take(s, n) BY <1>1, <1>2, <1>3, SameSeq
<1> QED BY <1>4 DEF u

LEMMA TakeAppend ==
  ASSUME NEW S, NEW s \in Seq(S), NEW x \in S, NEW n \in 0 .. Len(s)
  PROVE  Take(Append(s, x), n) = Take(s, n)
<1>1. Append(s, x) = s \o <<x>> /\ <<x>> \in Seq(S) OBVIOUS
<1> QED BY <1>1, TakeConcat

\* The paths of s are its prefixes of the lengths 1 to Len(s).
LEMMA PathsSet ==
  ASSUME NEW S, NEW s \in Seq(S)
  PROVE  /\ Paths(s) \subseteq Seq(S) /\ <<>> \notin Paths(s)
         /\ IsFiniteSet(Paths(s)) /\ Cardinality(Paths(s)) = Len(s)
         /\ \A p \in Paths(s) : Len(p) \in 1 .. Len(s) /\ p = Take(s, Len(p))
<1> DEFINE f == [n \in 1 .. Len(s) |-> Take(s, n)]
<1>1. \A n \in 1 .. Len(s) : n \in 0 .. Len(s) OBVIOUS
<1>2. \A n \in 1 .. Len(s) : Take(s, n) \in Seq(S) /\ Len(Take(s, n)) = n BY <1>1, TakeSeq
<1>3. \A p \in Paths(s) : p \in Seq(S) /\ Len(p) \in 1 .. Len(s) /\ p = Take(s, Len(p)) BY <1>2 DEF Paths
<1>4. f \in Bijection(1 .. Len(s), Paths(s))
  <2>1. f \in [1 .. Len(s) -> Paths(s)] BY DEF Paths
  <2>2. \A m, n \in 1 .. Len(s) : f[m] = f[n] => m = n BY <1>2
  <2>3. \A p \in Paths(s) : \E n \in 1 .. Len(s) : f[n] = p BY <1>3
  <2> HIDE DEF f
  <2> QED BY <2>1, <2>2, <2>3 DEF Bijection, Injection, Surjection, IsInjective
<1>5. IsFiniteSet(1 .. Len(s)) /\ Cardinality(1 .. Len(s)) = Len(s)
  <2>1. PICK l : l = Len(s) OBVIOUS
  <2>2. l \in Nat BY <2>1
  <2>3. 1 \in Int /\ l \in Int BY <2>2
  <2>4. IsFiniteSet(1 .. l) /\ Cardinality(1 .. l) = IF 1 > l THEN 0 ELSE l - 1 + 1
    BY <2>3, FS_Interval
  <2>5. Cardinality(1 .. l) = l BY <2>2, <2>4
  <2> QED BY <2>1, <2>4, <2>5
<1>6. IsFiniteSet(Paths(s)) /\ Cardinality(Paths(s)) = Len(s)
  <2> HIDE DEF f
  <2> QED BY <1>4, <1>5, FS_Bijection, Zenon DEF ExistsBijection
<1>7. <<>> \notin Paths(s) BY <1>3
<1> QED BY <1>3, <1>6, <1>7

LEMMA PathsOfTake ==
  ASSUME NEW S, NEW s \in Seq(S), NEW n \in 0 .. Len(s)
  PROVE  /\ Paths(Take(s, n)) = {Take(s, k) : k \in 1 .. n}
         /\ Paths(Take(s, n)) \subseteq Paths(s)
         /\ n > 0 => Take(s, n) \in Paths(Take(s, n)) /\ Take(s, n) \in Paths(s)
<1>1. Len(Take(s, n)) = n BY TakeSeq
<1>2. \A k \in 1 .. n : k \in 0 .. n /\ k \in 1 .. Len(s) /\ Len(s) \in Nat OBVIOUS
<1>3. \A k \in 1 .. n : Take(Take(s, n), k) = Take(s, k) BY <1>2, TakeTake
<1>4. Paths(Take(s, n)) = {Take(s, k) : k \in 1 .. n}
  <2>1. Paths(Take(s, n)) = {Take(Take(s, n), k) : k \in 1 .. n} BY <1>1 DEF Paths
  <2> QED BY <1>3, <2>1
<1>5. n > 0 => n \in 1 .. n OBVIOUS
<1> QED BY <1>2, <1>4, <1>5 DEF Paths

LEMMA PathsTrans ==
  ASSUME NEW S, NEW s \in Seq(S), NEW p \in Paths(s)
  PROVE  Paths(p) \subseteq Paths(s) /\ p \in Paths(p)
<1>1. Len(p) \in 1 .. Len(s) /\ p = Take(s, Len(p)) BY PathsSet
<1>2. Len(p) \in 0 .. Len(s) /\ Len(p) > 0 BY <1>1
<1> QED BY <1>1, <1>2, PathsOfTake

-------------------------------------------------------------------------------
(* Batches *)

\* What the recursion in Alive computes.
Kept(batch, kept) ==
  kept = [n \in 0 .. Len(batch) |->
            IF n = 0 THEN <<>>
            ELSE IF done[batch[n].req] THEN kept[n - 1] ELSE Append(kept[n - 1], batch[n])]

LEMMA KeptExists ==
  ASSUME NEW batch \in Seq(Row)
  PROVE  \E kept : Kept(batch, kept) /\ Alive(batch) = kept[Len(batch)]
<1> DEFINE step(g, n) == IF n = 0 THEN <<>>
                         ELSE IF done[batch[n].req] THEN g[n - 1] ELSE Append(g[n - 1], batch[n])
           T == {m \in Nat : \E g : g = [n \in 0 .. m |-> step(g, n)]}
<1>1. 0 \in T
  <2> DEFINE g == [n \in 0 .. 0 |-> <<>>]
  <2>1. g = [n \in 0 .. 0 |-> step(g, n)] OBVIOUS
  <2> QED BY <2>1
<1>2. ASSUME NEW m \in Nat, m \in T PROVE m + 1 \in T
  <2>1. PICK g : g = [n \in 0 .. m |-> step(g, n)] BY <1>2
  <2> DEFINE h == [n \in 0 .. m + 1 |-> IF n <= m THEN g[n] ELSE step(g, n)]
  <2>2. ASSUME NEW n \in 0 .. m + 1 PROVE h[n] = step(h, n)
    <3>1. n = 0 \/ (n - 1 \in 0 .. m /\ h[n - 1] = g[n - 1]) OBVIOUS
    <3>2. n <= m => g[n] = step(g, n)
      <4>1. n <= m => n \in 0 .. m OBVIOUS
      <4> HIDE DEF step
      <4> QED BY <2>1, <4>1
    <3>3. h[n] = step(g, n)
      <4> HIDE DEF step
      <4> QED BY <3>2
    <3> HIDE DEF h
    <3> QED BY <3>1, <3>3
  <2>3. h = [n \in 0 .. m + 1 |-> step(h, n)]
    <3>1. h = [n \in 0 .. m + 1 |-> h[n]] OBVIOUS
    <3> HIDE DEF h, step
    <3> QED BY <2>2, <3>1
  <2>4. \E k : k = [n \in 0 .. m + 1 |-> step(k, n)]
    <3> HIDE DEF h, step
    <3> QED BY <2>3
  <2> HIDE DEF h, step
  <2> QED BY <2>4
<1>3. Len(batch) \in T
  <2> HIDE DEF T
  <2> QED BY <1>1, <1>2, NatSet
<1>4. \E kept : Kept(batch, kept) BY <1>3 DEF Kept
<1> DEFINE kept == CHOOSE k : Kept(batch, k)
<1>5. Kept(batch, kept) BY <1>4
<1>6. Alive(batch) = kept[Len(batch)] BY Zenon DEF Alive, Kept
<1> HIDE DEF kept
<1> QED BY <1>5, <1>6

\* The rows that are left are those of the requests that go on.
LEMMA AliveRows ==
  ASSUME NEW batch \in Seq(Row)
  PROVE  /\ Alive(batch) \in Seq(Row)
         /\ ToSet(Alive(batch)) = {row \in ToSet(batch) : ~done[row.req]}
         /\ Distinct(batch) => Distinct(Alive(batch))
<1>1. PICK kept : Kept(batch, kept) /\ Alive(batch) = kept[Len(batch)] BY KeptExists
<1> DEFINE good(n) ==
             /\ kept[n] \in Seq(Row)
             /\ ToSet(kept[n]) = {row \in {batch[i] : i \in 1 .. n} : ~done[row.req]}
             /\ Distinct(batch) => Distinct(kept[n])
           T == {n \in Nat : n <= Len(batch) => good(n)}
<1>2. 0 \in T
  <2>1. kept[0] = <<>> BY <1>1 DEF Kept
  <2>2. ToSet(kept[0]) = {} /\ Distinct(kept[0]) BY <2>1 DEF Distinct, ToSet
  <2>3. {batch[i] : i \in 1 .. 0} = {} OBVIOUS
  <2>4. good(0) BY <2>1, <2>2, <2>3
  <2> QED BY <2>4
<1>3. ASSUME NEW n \in Nat, n \in T PROVE n + 1 \in T
  <2> SUFFICES ASSUME n + 1 <= Len(batch) PROVE good(n + 1)
    OBVIOUS
  <2> DEFINE row == batch[n + 1]
  <2>1. good(n) /\ n + 1 \in 1 .. Len(batch) /\ n + 1 \in DOMAIN batch BY <1>3
  <2>2. row \in Row BY <2>1
  <2>3. kept[n + 1] = IF done[row.req] THEN kept[n] ELSE Append(kept[n], row)
    <3>1. n + 1 \in 0 .. Len(batch) /\ n + 1 # 0 /\ (n + 1) - 1 = n BY <2>1
    <3> QED BY <1>1, <3>1 DEF Kept
  <2>4. \A x : x \in {batch[i] : i \in 1 .. n + 1} <=> x \in {batch[i] : i \in 1 .. n} \/ x = row
    OBVIOUS
  <2>5. CASE done[row.req] BY <2>1, <2>3, <2>4, <2>5
  <2>6. CASE ~done[row.req]
    <3> DEFINE k == kept[n]
    <3>1. k \in Seq(Row) /\ kept[n + 1] = Append(k, row) BY <2>1, <2>3, <2>6
    <3>2. /\ kept[n + 1] \in Seq(Row) /\ DOMAIN kept[n + 1] = 1 .. Len(k) + 1
          /\ kept[n + 1][Len(k) + 1] = row /\ \A i \in 1 .. Len(k) : kept[n + 1][i] = k[i]
          /\ DOMAIN k = 1 .. Len(k) /\ Len(k) \in Nat
      BY <2>2, <3>1
    <3>3. ToSet(kept[n + 1]) = ToSet(k) \cup {row}
      <4> HIDE DEF k, row
      <4> QED BY <3>2 DEF ToSet
    <3>4. ToSet(kept[n + 1]) = {x \in {batch[i] : i \in 1 .. n + 1} : ~done[x.req]}
      <4> HIDE DEF row
      <4> QED BY <2>1, <2>4, <2>6, <3>3
    <3>5. ASSUME Distinct(batch) PROVE Distinct(kept[n + 1])
      <4>1. ASSUME NEW i \in DOMAIN k PROVE k[i].req # row.req
        <5>1. k[i] \in ToSet(k) BY DEF ToSet
        <5>2. PICK j \in 1 .. n : batch[j] = k[i] BY <2>1, <5>1
        <5>3. j \in DOMAIN batch /\ j # n + 1 BY <2>1
        <5> QED BY <2>1, <3>5, <5>2, <5>3 DEF Distinct
      <4>2. Distinct(k) BY <2>1, <3>5
      <4> HIDE DEF k, row
      <4> QED BY <3>2, <4>1, <4>2 DEF Distinct
    <3> QED BY <3>2, <3>4, <3>5
  <2> QED BY <2>5, <2>6
<1>4. Len(batch) \in T
  <2> HIDE DEF T
  <2> QED BY <1>2, <1>3, NatSet
<1>5. good(Len(batch)) BY <1>4
<1>6. ToSet(batch) = {batch[i] : i \in 1 .. Len(batch)} BY DEF ToSet
<1> QED BY <1>1, <1>5, <1>6
LEMMA AliveReqs ==
  ASSUME NEW batch \in Seq(Row)
  PROVE  ReqsOf(Alive(batch)) = {r \in ReqsOf(batch) : ~done[r]}
<1> DEFINE kept == Alive(batch)
<1>1. ToSet(kept) = {row \in ToSet(batch) : ~done[row.req]} BY AliveRows
<1> HIDE DEF kept
<1>2. \A b, r : r \in ReqsOf(b) <=> \E row \in ToSet(b) : r = row.req BY DEF ReqsOf, ToSet
<1>3. ReqsOf(kept) = {r \in ReqsOf(batch) : ~done[r]} BY <1>1, <1>2
<1> QED BY <1>3 DEF kept

LEMMA ConcatRows ==
  ASSUME NEW a \in Seq(Row), NEW b \in Seq(Row)
  PROVE  /\ a \o b \in Seq(Row) /\ ReqsOf(a \o b) = ReqsOf(a) \cup ReqsOf(b)
         /\ ToSet(a \o b) \subseteq ToSet(a) \cup ToSet(b)
         /\ Distinct(a) /\ Distinct(b) /\ ReqsOf(a) \cap ReqsOf(b) = {} => Distinct(a \o b)
<1> DEFINE c == a \o b
           m == Len(a)
           n == Len(b)
<1>1. /\ c \in Seq(Row) /\ m \in Nat /\ n \in Nat /\ DOMAIN c = 1 .. m + n
      /\ DOMAIN a = 1 .. m /\ DOMAIN b = 1 .. n
      /\ \A i \in 1 .. m : c[i] = a[i]
      /\ \A i \in 1 .. n : c[m + i] = b[i]
  OBVIOUS
<1> HIDE DEF c, m, n
<1>2. \A i \in DOMAIN c : (i \in 1 .. m /\ c[i] = a[i]) \/ (i - m \in 1 .. n /\ c[i] = b[i - m])
  <2> TAKE i \in DOMAIN c
  <2>1. i \in 1 .. m \/ (i - m \in 1 .. n /\ m + (i - m) = i) BY <1>1
  <2> QED BY <1>1, <2>1
<1>3. \A i \in 1 .. m : i \in DOMAIN c BY <1>1
<1>4. \A i \in 1 .. n : m + i \in DOMAIN c BY <1>1
<1>5. ToSet(c) \subseteq ToSet(a) \cup ToSet(b) BY <1>1, <1>2 DEF ToSet
<1>6. ReqsOf(c) = ReqsOf(a) \cup ReqsOf(b)
  <2>1. ASSUME NEW r \in ReqsOf(c) PROVE r \in ReqsOf(a) \cup ReqsOf(b) BY <1>1, <1>2 DEF ReqsOf
  <2>2. ASSUME NEW r \in ReqsOf(a) PROVE r \in ReqsOf(c)
    <3>1. PICK i \in 1 .. m : r = a[i].req BY <1>1 DEF ReqsOf
    <3>2. i \in DOMAIN c /\ c[i].req = r BY <1>1, <1>3, <3>1
    <3> QED BY <3>2 DEF ReqsOf
  <2>3. ASSUME NEW r \in ReqsOf(b) PROVE r \in ReqsOf(c)
    <3>1. PICK i \in 1 .. n : r = b[i].req BY <1>1 DEF ReqsOf
    <3>2. m + i \in DOMAIN c /\ c[m + i].req = r BY <1>1, <1>4, <3>1
    <3> QED BY <3>2 DEF ReqsOf
  <2> QED BY <2>1, <2>2, <2>3
<1>7. ASSUME Distinct(a), Distinct(b), ReqsOf(a) \cap ReqsOf(b) = {} PROVE Distinct(c)
  <2> SUFFICES ASSUME NEW i \in DOMAIN c, NEW j \in DOMAIN c, c[i].req = c[j].req PROVE i = j
    BY DEF Distinct
  <2>1. \A k \in 1 .. m : a[k].req \in ReqsOf(a) BY <1>1 DEF ReqsOf
  <2>2. \A k \in 1 .. n : b[k].req \in ReqsOf(b) BY <1>1 DEF ReqsOf
  <2>3. CASE i \in 1 .. m /\ j \in 1 .. m BY <1>1, <1>7, <2>3 DEF Distinct
  <2>4. CASE i - m \in 1 .. n /\ j - m \in 1 .. n /\ c[i] = b[i - m] /\ c[j] = b[j - m]
    <3>1. i - m = j - m BY <1>1, <1>7, <2>4 DEF Distinct
    <3> QED BY <1>1, <3>1
  <2> QED BY <1>1, <1>2, <1>7, <2>1, <2>2, <2>3, <2>4
<1> QED BY <1>1, <1>5, <1>6, <1>7 DEF c

LEMMA TailRows ==
  ASSUME NEW s \in Seq(Row), s # <<>>
  PROVE  /\ Head(s) \in ToSet(s) /\ Head(s) \in Row /\ Tail(s) \in Seq(Row)
         /\ ToSet(Tail(s)) \subseteq ToSet(s)
         /\ ReqsOf(s) = ReqsOf(Tail(s)) \cup {Head(s).req}
         /\ Distinct(s) => Distinct(Tail(s)) /\ Head(s).req \notin ReqsOf(Tail(s))
         /\ Len(s) = 1 <=> Tail(s) = <<>>
<1> DEFINE t == Tail(s)
           n == Len(s)
<1>1. /\ n \in Nat /\ n # 0 /\ DOMAIN s = 1 .. n /\ Head(s) = s[1] /\ s[1] \in Row
      /\ t \in Seq(Row) /\ Len(t) = n - 1 /\ DOMAIN t = 1 .. n - 1
      /\ \A i \in 1 .. n - 1 : t[i] = s[i + 1]
  OBVIOUS
<1>2. n = 1 <=> t = <<>> BY <1>1
<1> HIDE DEF t, n
<1>3. \A i \in 1 .. n - 1 : i + 1 \in 1 .. n /\ i + 1 # 1 BY <1>1
<1>4. \A i \in 1 .. n : i = 1 \/ (i - 1 \in 1 .. n - 1 /\ s[i] = t[i - 1])
  <2> TAKE i \in 1 .. n
  <2>1. i = 1 \/ (i - 1 \in 1 .. n - 1 /\ (i - 1) + 1 = i) BY <1>1
  <2> QED BY <1>1, <2>1
<1>5. ToSet(t) \subseteq ToSet(s) BY <1>1, <1>3 DEF ToSet
<1>6. 1 \in DOMAIN s BY <1>1
<1>7. ReqsOf(s) = ReqsOf(t) \cup {s[1].req}
  <2>1. ASSUME NEW r \in ReqsOf(s) PROVE r \in ReqsOf(t) \cup {s[1].req}
    <3>1. PICK i \in 1 .. n : r = s[i].req BY <1>1 DEF ReqsOf
    <3>2. i = 1 \/ (i - 1 \in DOMAIN t /\ r = t[i - 1].req) BY <1>1, <1>4, <3>1
    <3> QED BY <3>1, <3>2 DEF ReqsOf
  <2>2. ASSUME NEW r \in ReqsOf(t) PROVE r \in ReqsOf(s)
    <3>1. PICK i \in 1 .. n - 1 : r = t[i].req BY <1>1 DEF ReqsOf
    <3>2. i + 1 \in DOMAIN s /\ r = s[i + 1].req BY <1>1, <1>3, <3>1
    <3> QED BY <3>2 DEF ReqsOf
  <2>3. s[1].req \in ReqsOf(s) BY <1>6 DEF ReqsOf
  <2> QED BY <2>1, <2>2, <2>3
<1>8. ASSUME Distinct(s) PROVE Distinct(t) /\ s[1].req \notin ReqsOf(t)
  <2>1. ASSUME s[1].req \in ReqsOf(t) PROVE FALSE
    <3>1. PICK i \in 1 .. n - 1 : s[1].req = t[i].req BY <1>1, <2>1 DEF ReqsOf
    <3>2. i + 1 \in DOMAIN s /\ i + 1 # 1 /\ s[1].req = s[i + 1].req BY <1>1, <1>3, <3>1
    <3> QED BY <1>6, <1>8, <3>2 DEF Distinct
  <2>2. ASSUME NEW i \in DOMAIN t, NEW j \in DOMAIN t, t[i].req = t[j].req PROVE i = j
    <3>1. i + 1 \in DOMAIN s /\ j + 1 \in DOMAIN s /\ s[i + 1].req = s[j + 1].req
      BY <1>1, <1>3, <2>2
    <3>2. i + 1 = j + 1 BY <1>8, <3>1 DEF Distinct
    <3> QED BY <1>1, <3>2
  <2> QED BY <2>1, <2>2 DEF Distinct
<1>9. Head(s) \in ToSet(s) BY <1>1, <1>6 DEF ToSet
<1> QED BY <1>1, <1>2, <1>5, <1>7, <1>8, <1>9 DEF t, n

-------------------------------------------------------------------------------
(* The first layer *)

Located == Typed /\ Placed /\ Loop

LEMMA RowReqs ==
  ASSUME NEW batch \in Seq(Row)
  PROVE  ReqsOf(batch) \subseteq Req /\ \A i \in DOMAIN batch : batch[i].req \in ReqsOf(batch)
<1>1. \A i \in DOMAIN batch : batch[i] \in Row OBVIOUS
<1>2. \A i \in DOMAIN batch : batch[i].req \in Req BY <1>1 DEF Row
<1> QED BY <1>2 DEF ReqsOf

LEMMA LocatedReqs ==
  ASSUME Typed
  PROVE  Queued \subseteq Req /\ Active \subseteq Req /\ ReqsOf(rows) \subseteq Req /\ Adding \subseteq Req
<1>1. ReqsOf(running) \subseteq Req BY RowReqs DEF Typed
<1>2. ReqsOf(last) \subseteq Req BY RowReqs DEF Typed
<1>3. ReqsOf(rows) \subseteq Req BY RowReqs DEF Typed
<1>4. Queued \subseteq Req /\ Adding \subseteq Req BY DEF Typed, Queued, Adding
<1> QED BY <1>1, <1>2, <1>3, <1>4 DEF Active

LEMMA InitLocated == Init => Located
<1> SUFFICES ASSUME Init PROVE Located
  OBVIOUS
<1>1. Typed
  <2>1. Len(Prompt) \in Nat BY SchedulerAssumption
  <2>2. /\ out \in [Req -> Seq(Token)] /\ rec \in [Req -> Seq(Entry)]
        /\ latent \in [Req -> BOOLEAN] /\ done \in [Req -> BOOLEAN]
    BY DEF Init
  <2>3. /\ waiting \in Seq(Req) /\ adding \in Seq(Req)
        /\ running \in Seq(Row) /\ last \in Seq(Row) /\ rows \in Seq(Row)
    BY DEF Init
  <2>4. /\ pc \in {"recv", "admit", "extend", "prefilled", "decode", "retract", "decoding", "decoded"}
        /\ sent \in 0 .. Len(Prompt) /\ offset \in Int /\ retracted \subseteq Req
    BY <2>1 DEF Init
  <2> QED BY <2>2, <2>3, <2>4, Zenon DEF Typed
<1>2. Placed BY DEF Init, Placed, Distinct, Queued, Active, ReqsOf, Req
<1>3. Loop BY DEF Init, Loop, ReqsOf
<1> QED BY <1>1, <1>2, <1>3 DEF Located

LEMMA SubmitLocated ==
  ASSUME Located, Submit
  PROVE  Located' /\ Queued' = Queued \cup {sent + 1} /\ sent + 1 \in Req /\ out[sent + 1] = <<>>
<1>1. /\ pc = "recv" /\ sent < Len(Prompt) /\ sent' = sent + 1 /\ waiting' = Append(waiting, sent + 1)
      /\ UNCHANGED <<pc, rows, adding, offset, running, last, full, out, rec, latent, done, retracted>>
  BY DEF Submit, loop, reqs
<1>2. Len(Prompt) \in Nat /\ sent + 1 \in Req /\ sent \in Nat
  BY <1>1, SchedulerAssumption DEF Located, Typed, Req
<1>3. /\ waiting' \in Seq(Req) /\ Len(waiting') = Len(waiting) + 1
      /\ DOMAIN waiting = 1 .. Len(waiting) /\ DOMAIN waiting' = 1 .. Len(waiting) + 1
      /\ waiting'[Len(waiting) + 1] = sent + 1
      /\ \A i \in 1 .. Len(waiting) : waiting'[i] = waiting[i]
      /\ Len(waiting) \in Nat
  BY <1>1, <1>2 DEF Located, Typed
<1>4. Typed' BY <1>1, <1>2, <1>3 DEF Located, Typed
<1>5. Queued' = Queued \cup {sent + 1} BY <1>3 DEF Queued
<1>6. Placed'
  <2>1. \A i \in 1 .. Len(waiting) : waiting[i] \in Queued BY <1>3 DEF Queued
  <2>2. \A i, j \in DOMAIN waiting' : waiting'[i] = waiting'[j] => i = j
    BY <1>2, <1>3, <2>1 DEF Located, Placed
  <2>3. UNCHANGED <<Active, ReqsOf(running), ReqsOf(last), Distinct(running), Distinct(last), Distinct(rows)>>
    BY <1>1 DEF Active, ReqsOf, Distinct
  <2>4. sent + 1 \notin Active BY <1>2 DEF Located, Placed
  <2>5. \A r \in Req : r > sent + 1 => r > sent BY <1>2, SchedulerAssumption DEF Req
  <2>6. \A r \in Queued \cup Active : r <= sent + 1
    BY <1>2, LocatedReqs, SchedulerAssumption DEF Located, Placed, Req
  <2> QED BY <1>1, <1>2, <1>5, <2>2, <2>3, <2>4, <2>5, <2>6 DEF Located, Placed
<1>7. Loop' BY <1>1, <1>3 DEF Located, Loop, ReqsOf
<1>8. out[sent + 1] = <<>> BY <1>2 DEF Located, Placed
<1> QED BY <1>2, <1>4, <1>5, <1>6, <1>7, <1>8 DEF Located
\* The running batch after the last prefill batch has joined it.
Merged == IF Alive(last) = <<>> THEN running
          ELSE IF running = <<>> THEN Alive(last) ELSE running \o Alive(last)

LEMMA MergedRows ==
  ASSUME Located
  PROVE  /\ Merged \in Seq(Row) /\ Distinct(Merged)
         /\ ReqsOf(Merged) = ReqsOf(running) \cup {r \in ReqsOf(last) : ~done[r]}
         /\ ToSet(Merged) \subseteq ToSet(running) \cup ToSet(last)
<1> DEFINE kept == Alive(last)
<1>1. /\ kept \in Seq(Row) /\ ToSet(kept) \subseteq ToSet(last) /\ Distinct(kept)
      /\ ReqsOf(kept) = {r \in ReqsOf(last) : ~done[r]}
  BY AliveRows, AliveReqs DEF Located, Typed, Placed
<1>2. running \in Seq(Row) /\ Distinct(running) /\ ReqsOf(running) \cap ReqsOf(kept) = {}
  BY <1>1 DEF Located, Typed, Placed
<1>3. ReqsOf(<<>>) = {} /\ ToSet(<<>>) = {} BY DEF ReqsOf, ToSet
<1>4. Merged = IF kept = <<>> THEN running ELSE IF running = <<>> THEN kept ELSE running \o kept
  BY DEF Merged
<1> HIDE DEF kept
<1>7. CASE kept = <<>> BY <1>1, <1>2, <1>3, <1>4, <1>7
<1>8. CASE kept # <<>> /\ running = <<>> BY <1>1, <1>2, <1>3, <1>4, <1>8
<1>9. CASE kept # <<>> /\ running # <<>>
  <2>1. /\ running \o kept \in Seq(Row) /\ Distinct(running \o kept)
        /\ ReqsOf(running \o kept) = ReqsOf(running) \cup ReqsOf(kept)
        /\ ToSet(running \o kept) \subseteq ToSet(running) \cup ToSet(kept)
    BY <1>1, <1>2, ConcatRows
  <2>2. Merged = running \o kept BY <1>4, <1>9
  <2> QED BY <1>1, <2>1, <2>2
<1> QED BY <1>7, <1>8, <1>9

LEMMA BudgetType ==
  ASSUME Typed, NEW batch \in Seq(Row)
  PROVE  /\ RunningBudget(batch) \in Int
         /\ (\A i \in DOMAIN batch : Len(out[batch[i].req]) <= MaxNew[batch[i].req]) =>
              RunningBudget(batch) >= 0
<1> DEFINE f == [i \in DOMAIN batch |-> MaxNew[batch[i].req] - Len(out[batch[i].req])]
           z == [i \in DOMAIN batch |-> 0]
<1>1. IsFiniteSet(DOMAIN batch) BY FS_Interval
<1>2. \A r \in Req : MaxNew[r] \in Int /\ Len(out[r]) \in Int BY SchedulerAssumption DEF Typed, Req
<1>3. \A i \in DOMAIN batch : batch[i].req \in Req BY RowReqs
<1>4. \A i \in DOMAIN batch : f[i] \in Int BY <1>2, <1>3
<1>5. Total(f, DOMAIN batch) \in Int /\ Total(z, DOMAIN batch) = 0
  BY <1>1, <1>4, TotalType, TotalZero
<1>6. ASSUME \A i \in DOMAIN batch : Len(out[batch[i].req]) <= MaxNew[batch[i].req]
      PROVE  Total(f, DOMAIN batch) >= 0
  <2>1. \A i \in DOMAIN batch : z[i] \in Int /\ z[i] <= f[i] BY <1>2, <1>3, <1>6
  <2> HIDE DEF f, z
  <2>2. Total(z, DOMAIN batch) <= Total(f, DOMAIN batch) BY <1>1, <1>4, <2>1, TotalAtMost
  <2> QED BY <1>5, <2>2
<1> QED BY <1>5, <1>6 DEF RunningBudget

LEMMA GetNextBatchLocated ==
  ASSUME Located, GetNextBatch
  PROVE  /\ Located' /\ rows = <<>> /\ adding' = <<>> /\ ReqsOf(last)' = {}
         /\ ReqsOf(running)' = ReqsOf(Merged) /\ ToSet(running)' = ToSet(Merged)
<1>1. /\ pc = "recv" /\ running' = Merged /\ last' = <<>> /\ adding' = <<>>
      /\ pc' \in {"decode", "admit"}
      /\ UNCHANGED <<rows, sent, waiting, out, rec, latent, done, retracted>>
      /\ offset' = 0 \/ \E q \in Ratios : offset' = (RunningBudget(Merged) * q) \div 100
  BY Zenon DEF GetNextBatch, Merged, reqs
<1>2. rows = <<>> BY <1>1 DEF Located, Loop
<1>3. offset' \in Int
  <2>1. RunningBudget(Merged) \in Int BY MergedRows, BudgetType DEF Located
  <2>2. \A q \in Ratios : q \in Int BY SchedulerAssumption
  <2>3. ASSUME NEW b \in Int, NEW q \in Int PROVE (b * q) \div 100 \in Int
    <3>1. b * q \in Int OBVIOUS
    <3> QED BY <3>1
  <2> QED BY <1>1, <2>1, <2>2, <2>3
<1>4. ReqsOf(<<>>) = {} BY DEF ReqsOf
<1>5. Typed' BY <1>1, <1>3, MergedRows DEF Located, Typed
<1>6. Active' \subseteq Active
  <2>1. ReqsOf(last)' = {} BY <1>1, <1>4
  <2>2. ReqsOf(running)' = ReqsOf(Merged) BY <1>1 DEF ReqsOf
  <2> QED BY <2>1, <2>2, MergedRows DEF Active
<1>7. Placed'
  <2>1. Distinct(running)' /\ Distinct(last)' /\ Distinct(rows)' BY <1>1, <1>2, MergedRows DEF Distinct
  <2>2. Queued' = Queued BY <1>1 DEF Queued
  <2>3. ReqsOf(last)' = {} BY <1>1, <1>4
  <2> QED BY <1>1, <1>6, <2>1, <2>2, <2>3 DEF Located, Placed
<1>8. Loop'
  <2>1. ReqsOf(rows)' = {} BY <1>1, <1>2, <1>4
  <2> QED BY <1>1, <1>2, <2>1 DEF Located, Loop
<1>9. /\ ReqsOf(last)' = {} /\ ReqsOf(running)' = ReqsOf(Merged) /\ ToSet(running)' = ToSet(Merged)
  BY <1>1, <1>4 DEF ReqsOf, ToSet
<1> QED BY <1>1, <1>2, <1>5, <1>7, <1>8, <1>9 DEF Located
-------------------------------------------------------------------------------
(* Matching *)

LEMMA MatchLenIs ==
  ASSUME NEW S, NEW s \in Seq(S)
  PROVE  /\ MatchLen(s) \in 0 .. Len(s)
         /\ Paths(Take(s, MatchLen(s))) \subseteq DOMAIN tree
         /\ MatchLen(s) < Len(s) => Take(s, MatchLen(s) + 1) \notin DOMAIN tree
<1> DEFINE T == {n \in 0 .. Len(s) : n = Len(s) \/ Take(s, n + 1) \notin DOMAIN tree}
           is(n) == /\ Paths(Take(s, n)) \subseteq DOMAIN tree
                    /\ n < Len(s) => Take(s, n + 1) \notin DOMAIN tree
<1>1. Len(s) \in T /\ T \subseteq Nat OBVIOUS
<1>2. PICK n \in T : \A m \in T : n <= m BY <1>1, LeastNat
<1>3. ASSUME NEW k \in 1 .. n PROVE Take(s, k) \in DOMAIN tree
  <2>1. k - 1 \in 0 .. Len(s) /\ k - 1 < n /\ k - 1 # Len(s) /\ (k - 1) + 1 = k BY <1>2
  <2>2. n \in Nat /\ ~(n <= k - 1) BY <1>1, <2>1
  <2>3. k - 1 \notin T BY <1>2, <2>2
  <2> QED BY <2>1, <2>3
<1>4. n \in 0 .. Len(s) /\ is(n)
  <2>1. n \in 0 .. Len(s) OBVIOUS
  <2>2. Paths(Take(s, n)) = {Take(s, k) : k \in 1 .. n} BY <2>1, PathsOfTake
  <2> QED BY <1>3, <2>1, <2>2
<1> DEFINE m == CHOOSE n1 \in 0 .. Len(s) : is(n1)
<1>5. m \in 0 .. Len(s) /\ is(m)
  <2> HIDE DEF is
  <2> QED BY <1>4
<1>6. MatchLen(s) = m BY DEF MatchLen
<1> HIDE DEF m
<1> QED BY <1>5, <1>6

LEMMA IdsSeq ==
  ASSUME Typed, NEW r \in Req
  PROVE  /\ Ids(r) \in Seq(Token) /\ Len(Ids(r)) = Len(Prompt[r]) + Len(out[r])
         /\ Prompt[r] \in Seq(Token) /\ out[r] \in Seq(Token) /\ Len(Prompt[r]) \in Nat \ {0}
         /\ Len(out[r]) \in Nat /\ MaxNew[r] \in Nat
BY SchedulerAssumption DEF Typed, Req, Ids

LEMMA MaxPrefixIs ==
  ASSUME Typed, NEW r \in Req
  PROVE  /\ MaxPrefix(r) \in Seq(Token) /\ Len(MaxPrefix(r)) \in 0 .. Len(Ids(r)) - 1
         /\ MaxPrefix(r) = Take(Ids(r), Len(MaxPrefix(r)))
         /\ MatchLen(MaxPrefix(r)) \in 0 .. Len(MaxPrefix(r))
         /\ \A n \in 0 .. Len(MaxPrefix(r)) : Take(MaxPrefix(r), n) = Take(Ids(r), n)
<1> DEFINE n == IF ReturnLogprob THEN Len(Prompt[r]) - 1 ELSE Len(Ids(r)) - 1
<1>2. /\ Ids(r) \in Seq(Token) /\ Len(Ids(r)) = Len(Prompt[r]) + Len(out[r])
      /\ Len(Prompt[r]) \in Nat \ {0} /\ Len(out[r]) \in Nat
  BY IdsSeq
<1>1. n \in 0 .. Len(Ids(r)) - 1 /\ n \in 0 .. Len(Ids(r))
  <2>1. ASSUME NEW a \in Nat \ {0}, NEW b \in Nat, NEW c, c = a + b, NEW m, m = a - 1 \/ m = c - 1
        PROVE  m \in 0 .. c - 1 /\ m \in 0 .. c
    BY <2>1
  <2>2. n = Len(Prompt[r]) - 1 \/ n = Len(Ids(r)) - 1 BY Zenon
  <2> HIDE DEF n
  <2> QED BY <1>2, <2>1, <2>2, Zenon
<1>3. MaxPrefix(r) = Take(Ids(r), n) BY DEF MaxPrefix
<1> HIDE DEF n
<1>4. MaxPrefix(r) \in Seq(Token) /\ Len(MaxPrefix(r)) = n
  <2>1. Take(Ids(r), n) \in Seq(Token) /\ Len(Take(Ids(r), n)) = n BY <1>1, <1>2, TakeSeq
  <2> QED BY <1>3, <2>1
<1>5. MatchLen(MaxPrefix(r)) \in 0 .. Len(MaxPrefix(r)) BY <1>4, MatchLenIs
<1>6. \A m \in 0 .. n : Take(MaxPrefix(r), m) = Take(Ids(r), m) BY <1>1, <1>2, <1>3, TakeTake
<1> QED BY <1>1, <1>3, <1>4, <1>5, <1>6

LEMMA AddOneReqLocated ==
  ASSUME Located, AddOneReq
  PROVE  Located' /\ Candidate \in Queued /\ Candidate \notin Adding /\ Adding' = Adding \cup {Candidate}
<1> DEFINE r == Candidate
           n == Len(adding)
<1>1. /\ pc = "admit" /\ n < Len(waiting) /\ adding' = Append(adding, r)
      /\ offset' = offset + (Len(Ids(r)) - MatchLen(MaxPrefix(r)) + MaxNew[r])
      /\ pc' \in {"extend", "admit"}
      /\ UNCHANGED <<rows, sent, waiting, running, last, out, rec, latent, done, retracted>>
  BY Zenon DEF AddOneReq, reqs
<1>2. n \in Nat /\ n + 1 \in DOMAIN waiting /\ r = waiting[n + 1] /\ r \in Req /\ DOMAIN adding = 1 .. n
  BY <1>1 DEF Located, Typed, Candidate
<1>3. offset' \in Int
  <2>1. Len(Ids(r)) \in Int /\ MaxNew[r] \in Int /\ MatchLen(MaxPrefix(r)) \in Int
    <3>1. Typed BY DEF Located
    <3>2. MatchLen(MaxPrefix(r)) \in 0 .. Len(MaxPrefix(r)) BY <1>2, <3>1, MaxPrefixIs
    <3> HIDE DEF r
    <3>3. /\ Len(Ids(r)) = Len(Prompt[r]) + Len(out[r]) /\ MaxNew[r] \in Nat
          /\ Len(Prompt[r]) \in Nat \ {0} /\ Len(out[r]) \in Nat
      BY <1>2, <3>1, IdsSeq
    <3> QED BY <3>2, <3>3
  <2>2. offset \in Int BY DEF Located, Typed
  <2> HIDE DEF r
  <2> QED BY <1>1, <2>1, <2>2
<1> HIDE DEF r
<1>4. /\ adding' \in Seq(Req) /\ Len(adding') = n + 1 /\ DOMAIN adding' = 1 .. n + 1
      /\ adding'[n + 1] = r /\ \A i \in 1 .. n : adding'[i] = adding[i]
  BY <1>1, <1>2 DEF Located, Typed
<1>5. Typed' BY <1>1, <1>3, <1>4 DEF Located, Typed
<1>6. Placed'
  <2>1. UNCHANGED <<rows, sent, waiting, running, last, out, done>> BY <1>1
  <2> QED BY <2>1 DEF Located, Placed, Distinct, Queued, Active, ReqsOf
<1>7. Loop'
  <2>1. \A i \in DOMAIN adding' : i = n + 1 \/ i \in 1 .. n BY <1>2, <1>4
  <2>2. adding' # <<>> BY <1>2, <1>4
  <2>3. rows = <<>> /\ last = <<>> BY <1>1 DEF Located, Loop
  <2>4. Len(waiting) \in Nat BY DEF Located, Typed
  <2> HIDE DEF n
  <2>5. Len(adding') <= Len(waiting)' BY <1>1, <1>2, <1>4, <2>4
  <2>6. \A i \in DOMAIN adding' : adding'[i] = waiting'[i] BY <1>1, <1>2, <1>4, <2>1 DEF Located, Loop
  <2> QED BY <1>1, <2>2, <2>3, <2>5, <2>6 DEF Located, Loop, ReqsOf
<1>8. r \in Queued BY <1>2 DEF Queued
<1>9. r \notin Adding
  <2>1. ASSUME NEW i \in DOMAIN adding, adding[i] = r PROVE FALSE
    <3>1. i \in DOMAIN waiting /\ i # n + 1
      <4>1. i \in 1 .. n /\ DOMAIN waiting = 1 .. Len(waiting) /\ Len(waiting) \in Nat
        BY <1>2 DEF Located, Typed
      <4> HIDE DEF n
      <4> QED BY <1>1, <1>2, <4>1
    <3>2. waiting[i] = waiting[n + 1] BY <1>2, <2>1 DEF Located, Loop
    <3> QED BY <1>2, <3>1, <3>2 DEF Located, Placed
  <2> QED BY <2>1 DEF Adding
<1>10. Adding' = Adding \cup {r}
  <2>1. Adding' = {adding'[i] : i \in 1 .. n + 1} BY <1>4 DEF Adding
  <2>2. Adding = {adding[i] : i \in 1 .. n} BY <1>2 DEF Adding
  <2>3. \A i \in 1 .. n + 1 : i \in 1 .. n \/ i = n + 1 BY <1>2
  <2>4. \A i \in 1 .. n : i \in 1 .. n + 1 BY <1>2
  <2>5. n + 1 \in 1 .. n + 1 BY <1>2
  <2> HIDE DEF n
  <2> QED BY <1>4, <2>1, <2>2, <2>3, <2>4, <2>5
<1> QED BY <1>5, <1>6, <1>7, <1>8, <1>9, <1>10 DEF Located, r

LEMMA EndOfAddingLocated ==
  ASSUME Located, EndOfAdding
  PROVE  Located'
<1>1. /\ pc = "admit" /\ pc' = IF adding = <<>> THEN "decode" ELSE "extend"
      /\ UNCHANGED <<rows, adding, offset, sent, waiting, running, last, out, rec, latent, done, retracted>>
  BY DEF EndOfAdding, reqs
<1>2. Typed' BY <1>1 DEF Located, Typed
<1>3. Placed' BY <1>1 DEF Located, Placed, Distinct, Queued, Active, ReqsOf
<1>4. Loop'
  <2>1. /\ ReqsOf(rows)' = ReqsOf(rows) /\ ReqsOf(last)' = ReqsOf(last)
        /\ ReqsOf(running)' = ReqsOf(running) BY <1>1 DEF ReqsOf
  <2>2. Loop BY DEF Located
  <2>3. rows = <<>> /\ last = <<>> BY <1>1, <2>2 DEF Loop
  <2>4. pc' \in {"decode", "extend"} /\ (pc' = "extend" => adding # <<>>)
    BY <1>1
  <2>5. (rows' # <<>> <=> pc' \in {"prefilled", "decoded"}) /\ (last' # <<>> => pc' \in {"recv", "prefilled"})
    BY <1>1, <2>3, <2>4
  <2>6. adding' # <<>> => pc' \in {"admit", "extend"} BY <1>1
  <2>7. Len(adding') <= Len(waiting') /\ \A i \in DOMAIN adding' : adding'[i] = waiting'[i]
    BY <1>1, <2>2 DEF Loop
  <2>8. \A r \in ReqsOf(rows)' : ~done'[r] BY <1>1, <2>1, <2>2 DEF Loop
  <2> QED BY <1>1, <2>4, <2>5, <2>6, <2>7, <2>8 DEF Loop
<1> QED BY <1>2, <1>3, <1>4 DEF Located
-------------------------------------------------------------------------------
(* Sorting *)

StrictOrder(D, R) ==
  /\ \A i \in D : <<i, i>> \notin R
  /\ \A i, j, k \in D : <<i, j>> \in R /\ <<j, k>> \in R => <<i, k>> \in R
  /\ \A i, j \in D : i # j => <<i, j>> \in R \/ <<j, i>> \in R

\* A finite set has a last element of a strict total order.
LEMMA LastExists ==
  ASSUME NEW D, NEW R,
         StrictOrder(D, R),
         NEW S \in SUBSET D, IsFiniteSet(S), S # {}
  PROVE  \E x \in S : \A y \in S \ {x} : <<y, x>> \in R
<1> DEFINE F == {T \in SUBSET S : T = {} \/ \E x \in T : \A y \in T \ {x} : <<y, x>> \in R}
<1>1. ASSUME NEW T \in SUBSET S, \A U \in SUBSET T : U # T => U \in F PROVE T \in F
  <2>1. CASE T = {} BY <2>1
  <2>2. CASE T # {}
    <3>1. PICK y \in T : TRUE BY <2>2
    <3>2. T \ {y} \in SUBSET T /\ T \ {y} # T BY <3>1
    <3>5. T \ {y} \in F
      <4> HIDE DEF F
      <4> QED BY <1>1, <3>2
    <3>3. CASE T \ {y} = {} BY <3>1, <3>3
    <3>4. CASE T \ {y} # {}
      <4>1. PICK x \in T \ {y} : \A z \in (T \ {y}) \ {x} : <<z, x>> \in R BY <3>5, <3>4
      <4>2. CASE <<y, x>> \in R BY <4>1, <4>2
      <4>3. CASE <<x, y>> \in R
        <5>1. \A z \in T \ {y} : <<z, y>> \in R BY <3>1, <4>1, <4>3 DEF StrictOrder
        <5> QED BY <3>1, <5>1
      <4> QED BY <3>1, <4>1, <4>2, <4>3 DEF StrictOrder
    <3> QED BY <3>3, <3>4
  <2> QED BY <2>1, <2>2
<1>2. S \in F
  <2> HIDE DEF F
  <2> QED BY <1>1, FiniteSetInduction
<1> QED BY <1>2

\* It can be listed in that order.
LEMMA SortExists ==
  ASSUME NEW D, NEW R,
         StrictOrder(D, R),
         IsFiniteSet(D)
  PROVE  \E p \in [1 .. Cardinality(D) -> D] :
           \A i, j \in 1 .. Cardinality(D) : i < j => <<p[i], p[j]>> \in R
<1> DEFINE sorted(S, m) == \E p \in [1 .. m -> S] : \A i, j \in 1 .. m : i < j => <<p[i], p[j]>> \in R
           T == {m \in Nat : \A S \in SUBSET D : Cardinality(S) = m => sorted(S, m)}
<1>1. 0 \in T
  <2>1. ASSUME NEW S \in SUBSET D PROVE sorted(S, 0)
    <3>1. 1 .. 0 = {} OBVIOUS
    <3>2. [i \in 1 .. 0 |-> i] \in [1 .. 0 -> S] BY <3>1
    <3>3. \A p : \A i, j \in 1 .. 0 : i < j => <<p[i], p[j]>> \in R BY <3>1
    <3> QED BY <3>2, <3>3
  <2> QED BY <2>1
<1>2. ASSUME NEW m \in Nat, m \in T PROVE m + 1 \in T
  <2> SUFFICES ASSUME NEW S \in SUBSET D, Cardinality(S) = m + 1 PROVE sorted(S, m + 1)
    OBVIOUS
  <2>1. IsFiniteSet(S) BY FS_Subset
  <2>2. S # {}
    <3>1. m + 1 # 0 OBVIOUS
    <3> QED BY <3>1, FS_EmptySet
  <2>3. PICK x \in S : \A y \in S \ {x} : <<y, x>> \in R BY <2>1, <2>2, LastExists
  <2>4. Cardinality(S \ {x}) = m
    <3>1. Cardinality(S \ {x}) = Cardinality(S) - 1 BY <2>1, FS_RemoveElement
    <3> QED BY <3>1
  <2>5. sorted(S \ {x}, m) BY <1>2, <2>4
  <2>6. PICK p \in [1 .. m -> S \ {x}] : \A i, j \in 1 .. m : i < j => <<p[i], p[j]>> \in R BY <2>5
  <2> DEFINE q == [i \in 1 .. m + 1 |-> IF i = m + 1 THEN x ELSE p[i]]
  <2>7. \A i \in 1 .. m + 1 : i = m + 1 \/ i \in 1 .. m OBVIOUS
  <2>8. q \in [1 .. m + 1 -> S] BY <2>7
  <2>9. ASSUME NEW i \in 1 .. m + 1, NEW j \in 1 .. m + 1, i < j PROVE <<q[i], q[j]>> \in R
    <3>1. i \in 1 .. m /\ i # m + 1 BY <2>9
    <3>2. q[i] = p[i] /\ p[i] \in S \ {x} BY <3>1
    <3>3. CASE j = m + 1
      <4>1. q[j] = x BY <3>3
      <4> QED BY <2>3, <3>2, <4>1
    <3>4. CASE j # m + 1
      <4>1. j \in 1 .. m /\ q[j] = p[j] BY <3>4
      <4> QED BY <2>6, <2>9, <3>1, <3>2, <4>1
    <3> QED BY <3>3, <3>4
  <2> HIDE DEF q
  <2> QED BY <2>8, <2>9
<1>3. Cardinality(D) \in Nat BY FS_CardinalityType
<1>4. Cardinality(D) \in T
  <2> HIDE DEF T
  <2> QED BY <1>1, <1>2, <1>3, NatSet
<1>5. D \in SUBSET D OBVIOUS
<1> QED BY <1>4, <1>5

Sorted(p, n, R) == \A i, j \in 1 .. n : i < j => <<p[i], p[j]>> \in R

\* A listing in that order meets every element once.
LEMMA SortedOnce ==
  ASSUME NEW n \in Nat, NEW R, StrictOrder(1 .. n, R), NEW p \in [1 .. n -> 1 .. n], Sorted(p, n, R)
  PROVE  p \in Bijection(1 .. n, 1 .. n)
<1>1. ASSUME NEW i \in 1 .. n, NEW j \in 1 .. n, p[i] = p[j] PROVE i = j
  <2>1. p[i] \in 1 .. n OBVIOUS
  <2>2. ~(i < j) /\ ~(j < i) BY <1>1, <2>1 DEF StrictOrder, Sorted
  <2> QED BY <2>2
<1>2. p \in Injection(1 .. n, 1 .. n) BY <1>1 DEF Injection, IsInjective
<1>3. IsFiniteSet(1 .. n) BY FS_Interval
<1>4. p \in Surjection(1 .. n, 1 .. n)
  BY <1>2, <1>3, FS_Injection
<1> QED BY <1>2, <1>4 DEF Bijection
-------------------------------------------------------------------------------
(* The first layer, the other steps *)

\* The requests of the batch that is prefilled are those taken from the queue.
LEMMA ExtendLocated ==
  ASSUME Located, RunExtend
  PROVE  /\ Located' /\ Queued' = Queued \ Adding /\ Adding \subseteq Queued
         /\ ReqsOf(rows)' = Adding /\ ReqsOf(last)' = Adding /\ ReqsOf(running)' = ReqsOf(running)
         /\ \A i \in DOMAIN adding : rows'[i] = NewRow(adding[i]) /\ last'[i] = NewRow(adding[i])
         /\ DOMAIN rows' = DOMAIN adding /\ DOMAIN last' = DOMAIN adding
<1> DEFINE batch == [i \in DOMAIN adding |-> NewRow(adding[i])]
           n == Len(adding)
           m == Len(waiting)
<1>1. /\ pc = "extend" /\ rows' = batch /\ last' = batch
      /\ waiting' = SubSeq(waiting, n + 1, m)
      /\ pc' = "prefilled" /\ adding' = <<>> /\ offset' = 0
      /\ UNCHANGED <<sent, running, out, rec, latent, done, retracted>>
  BY Zenon DEF RunExtend, reqs
<1>2. /\ n \in Nat /\ m \in Nat /\ n <= m /\ n # 0 /\ DOMAIN adding = 1 .. n /\ DOMAIN waiting = 1 .. m
      /\ \A i \in 1 .. n : adding[i] = waiting[i] /\ adding[i] \in Req
  <2>1. adding \in Seq(Req) /\ waiting \in Seq(Req) /\ adding # <<>> /\ Len(adding) <= Len(waiting)
    BY <1>1 DEF Located, Typed, Loop
  <2>2. n \in Nat /\ m \in Nat /\ n <= m /\ n # 0 /\ DOMAIN adding = 1 .. n /\ DOMAIN waiting = 1 .. m
    BY <2>1
  <2>3. \A i \in DOMAIN adding : adding[i] = waiting[i] BY DEF Located, Loop
  <2>4. \A i \in 1 .. n : adding[i] \in Req BY <2>1, <2>2
  <2> QED BY <2>2, <2>3, <2>4
<1>3. /\ \A i \in 1 .. n : batch[i] = NewRow(adding[i]) /\ batch[i] \in Row /\ batch[i].req = adding[i]
      /\ batch \in Seq(Row) /\ DOMAIN batch = 1 .. n /\ batch # <<>>
  <2>1. \A i \in 1 .. n : batch[i] = NewRow(adding[i]) BY <1>2
  <2>2. \A i \in 1 .. n : NewRow(adding[i]) \in Row /\ NewRow(adding[i]).req = adding[i]
    BY <1>2 DEF NewRow, Row, Located, Typed
  <2>3. batch \in [1 .. n -> Row] BY <1>2, <2>2
  <2>4. DOMAIN batch = 1 .. n BY <1>2
  <2>5. batch \in Seq(Row) BY <1>2, <2>3
  <2>6. 1 \in 1 .. n BY <1>2
  <2> HIDE DEF batch
  <2> QED BY <2>1, <2>2, <2>4, <2>5, <2>6
<1> HIDE DEF batch
<1>4. /\ waiting' \in Seq(Req) /\ Len(waiting') = m - n /\ DOMAIN waiting' = 1 .. m - n
      /\ \A i \in 1 .. m - n : waiting'[i] = waiting[n + i]
  <2>1. waiting \in Seq(Req) /\ n \in 0 .. Len(waiting) BY <1>2 DEF Located, Typed
  <2> HIDE DEF n
  <2> QED BY <1>1, <2>1, DropSeq
<1> HIDE DEF n, m
<1>5. Typed' BY <1>1, <1>3, <1>4 DEF Located, Typed
<1>6. ReqsOf(batch) = Adding BY <1>2, <1>3 DEF ReqsOf, Adding
<1>7. ReqsOf(rows)' = Adding /\ ReqsOf(last)' = Adding /\ ReqsOf(running)' = ReqsOf(running)
  <2>1. ReqsOf(rows)' = ReqsOf(batch) /\ ReqsOf(last)' = ReqsOf(batch) BY <1>1 DEF ReqsOf
  <2> QED BY <1>1, <1>6, <2>1 DEF ReqsOf
<1>8. Adding \subseteq Queued
  <2>1. \A i \in 1 .. n : i \in 1 .. m BY <1>2
  <2> QED BY <1>2, <2>1 DEF Adding, Queued
<1>9. Queued' = Queued \ Adding
  <2>1. \A i \in 1 .. m - n : n + i \in 1 .. m BY <1>2
  <2>2. \A i \in 1 .. m : i \in 1 .. n \/ (i - n \in 1 .. m - n /\ n + (i - n) = i) BY <1>2
  <2>3. \A i \in 1 .. m - n, j \in 1 .. n : n + i # j BY <1>2
  <2>4. ASSUME NEW r \in Queued' PROVE r \in Queued \ Adding
    <3>1. PICK i \in 1 .. m - n : r = waiting[n + i] BY <1>4, <2>4 DEF Queued
    <3>2. \A j \in 1 .. n : j \in DOMAIN waiting /\ n + i # j BY <1>2, <2>3
    <3>3. n + i \in DOMAIN waiting BY <1>2, <2>1
    <3>4. \A j \in 1 .. n : waiting[j] # r BY <3>1, <3>2, <3>3 DEF Located, Placed
    <3>5. r \notin Adding BY <1>2, <3>4 DEF Adding
    <3> QED BY <3>1, <3>3, <3>5 DEF Queued
  <2>5. ASSUME NEW r \in Queued \ Adding PROVE r \in Queued'
    <3>1. PICK i \in 1 .. m : r = waiting[i] BY <1>2 DEF Queued
    <3>2. i \notin 1 .. n BY <1>2, <3>1 DEF Adding
    <3>3. i - n \in 1 .. m - n /\ waiting'[i - n] = r BY <1>4, <2>2, <3>1, <3>2
    <3> QED BY <1>4, <3>3 DEF Queued
  <2> QED BY <2>4, <2>5
<1>10. last = <<>> /\ ReqsOf(last) = {}
  <2>1. last = <<>> BY <1>1 DEF Located, Loop
  <2> QED BY <2>1 DEF ReqsOf
<1>11. Placed'
  <2>1. \A i, j \in DOMAIN waiting' : waiting'[i] = waiting'[j] => i = j
    <3>1. \A i \in 1 .. m - n : n + i \in DOMAIN waiting BY <1>2
    <3>2. \A i, j \in 1 .. m - n : n + i = n + j => i = j BY <1>2
    <3> QED BY <1>4, <3>1, <3>2 DEF Located, Placed
  <2>2. Distinct(batch)
    <3>1. \A i \in 1 .. n : i \in DOMAIN waiting BY <1>2
    <3>2. \A i, j \in 1 .. n : adding[i] = adding[j] => i = j BY <1>2, <3>1 DEF Located, Placed
    <3> QED BY <1>3, <3>2 DEF Distinct
  <2>3. Distinct(rows)' /\ Distinct(last)' /\ Distinct(running)'
    BY <1>1, <2>2 DEF Located, Placed, Distinct
  <2>4. Active' = ReqsOf(running) \cup Adding /\ Active = ReqsOf(running) BY <1>7, <1>10 DEF Active
  <2>5. UNCHANGED <<sent, done, out>> BY <1>1
  <2> QED BY <1>7, <1>8, <1>9, <2>1, <2>3, <2>4, <2>5 DEF Located, Placed
<1>12. Loop'
  <2>1. \A r \in Adding : ~done[r] BY <1>8 DEF Located, Placed
  <2>2. adding' = <<>> /\ Len(adding') = 0 /\ DOMAIN adding' = {} BY <1>1
  <2>3. 0 <= Len(waiting') BY <1>2, <1>4
  <2> QED BY <1>1, <1>3, <1>7, <2>1, <2>2, <2>3 DEF Located, Loop
<1>13. /\ \A i \in DOMAIN adding : rows'[i] = NewRow(adding[i]) /\ last'[i] = NewRow(adding[i])
       /\ DOMAIN rows' = DOMAIN adding /\ DOMAIN last' = DOMAIN adding
  BY <1>1, <1>2, <1>3
<1> QED BY <1>5, <1>7, <1>8, <1>9, <1>11, <1>12, <1>13 DEF Located

\* A token of either pass, as far as the requests are concerned.
TokenStep(t) ==
  /\ pc \in {"prefilled", "decoded"} /\ TakeToken(Head(rows), t)
  /\ UNCHANGED <<adding, offset, queues, retracted>>

LEMMA TokenIs ==
  ASSUME Located, NEW t \in Token, TokenStep(t)
  PROVE  LET r == Head(rows).req
         IN /\ rows # <<>> /\ r \in Req /\ r \in Active /\ r \in ReqsOf(rows) /\ r \notin Queued
            /\ ~done[r] /\ r \notin Adding /\ adding = <<>>
            /\ Head(rows) \in ToSet(rows) /\ Head(rows) \in Row
            /\ ReqsOf(rows) = ReqsOf(rows)' \cup {r} /\ r \notin ReqsOf(rows)'
            /\ ToSet(rows)' \subseteq ToSet(rows)
<1>1. rows # <<>> /\ rows \in Seq(Row) /\ Distinct(rows) /\ rows' = Tail(rows) /\ adding = <<>>
  BY DEF TokenStep, TakeToken, Located, Typed, Placed, Loop
<1>2. /\ Head(rows) \in ToSet(rows) /\ Head(rows) \in Row
      /\ ReqsOf(rows) = ReqsOf(Tail(rows)) \cup {Head(rows).req} /\ Head(rows).req \notin ReqsOf(Tail(rows))
      /\ ToSet(Tail(rows)) \subseteq ToSet(rows)
  BY <1>1, TailRows
<1>3. ReqsOf(rows)' = ReqsOf(Tail(rows)) /\ ToSet(rows)' = ToSet(Tail(rows)) BY <1>1 DEF ReqsOf, ToSet
<1>4. Head(rows).req \in Req BY <1>2 DEF Row
<1>5. ReqsOf(rows) \subseteq Active BY DEF Located, Loop, TokenStep, Active
<1>6. Head(rows).req \in Active /\ ~done[Head(rows).req] BY <1>2, <1>5 DEF Located, Loop
<1>7. Head(rows).req \notin Queued BY <1>6 DEF Located, Placed
<1>8. Adding = {} BY <1>1 DEF Adding
<1> QED BY <1>1, <1>2, <1>3, <1>4, <1>6, <1>7, <1>8

LEMMA TokenLocated ==
  ASSUME Located, NEW t \in Token, TokenStep(t)
  PROVE  Located'
<1> DEFINE row == Head(rows)
           r == row.req
<1>1. /\ rows # <<>> /\ r \in Req /\ r \in Active /\ r \in ReqsOf(rows) /\ r \notin Queued
      /\ row \in Row /\ ReqsOf(rows) = ReqsOf(rows)' \cup {r} /\ r \notin ReqsOf(rows)'
  BY TokenIs
<1>2. /\ pc \in {"prefilled", "decoded"} /\ rows' = Tail(rows)
      /\ pc' = IF Len(rows) = 1 THEN "recv" ELSE pc
      /\ out' = [out EXCEPT ![r] = Append(@, t)]
      /\ done' = [done EXCEPT ![r] = Finishes(r, t)]
      /\ UpdateLatentInfo(row, t)
      /\ UNCHANGED <<adding, offset, sent, waiting, running, last, full, retracted>>
  BY Zenon DEF TokenStep, TakeToken, queues
<1>3. /\ Tail(rows) \in Seq(Row) /\ Distinct(Tail(rows)) /\ (Len(rows) = 1 <=> Tail(rows) = <<>>)
  BY <1>1, TailRows DEF Located, Typed, Placed
<1>4. rec' \in [Req -> Seq(Entry)] /\ latent' \in [Req -> BOOLEAN]
  <2>1. PICK e \in Entry : rec' = [rec EXCEPT ![r] = Append(@, e)]
    <3> DEFINE e == [mix |-> IF latent[r] /\ t # LatentEnd THEN "soft" ELSE "hard",
                     sampler |-> IF row.latent THEN "latent" ELSE "explicit"]
    <3>1. e \in Entry BY DEF Entry, Kind
    <3>2. rec' = [rec EXCEPT ![r] = Append(@, e)] BY <1>2, Zenon DEF UpdateLatentInfo
    <3> HIDE DEF e
    <3> QED BY <3>1, <3>2
  <2>2. Append(rec[r], e) \in Seq(Entry) BY <1>1 DEF Located, Typed
  <2>3. rec' \in [Req -> Seq(Entry)] BY <1>1, <2>1, <2>2 DEF Located, Typed
  <2>4. latent' \in [Req -> BOOLEAN]
    <3>1. latent' = [latent EXCEPT ![r] = latent[r] /\ t # LatentEnd] BY <1>2, Zenon DEF UpdateLatentInfo
    <3>2. (latent[r] /\ t # LatentEnd) \in BOOLEAN OBVIOUS
    <3>3. latent \in [Req -> BOOLEAN] BY DEF Located, Typed
    <3> HIDE DEF r
    <3> QED BY <3>1, <3>2, <3>3, Zenon
  <2> QED BY <2>3, <2>4
<1> HIDE DEF row
<1> HIDE DEF r
<1>5. out' \in [Req -> Seq(Token)] /\ done' \in [Req -> BOOLEAN]
  <2>1. Append(out[r], t) \in Seq(Token) BY <1>1 DEF Located, Typed
  <2>2. out' \in [Req -> Seq(Token)] BY <1>1, <1>2, <2>1 DEF Located, Typed
  <2>3. Finishes(r, t) \in BOOLEAN BY DEF Finishes
  <2>4. done' \in [Req -> BOOLEAN] BY <1>1, <1>2, <2>3 DEF Located, Typed
  <2> QED BY <2>2, <2>4
<1>6. Typed'
  <2>1. pc' \in {"recv", "prefilled", "decoded"} /\ rows' \in Seq(Row) BY <1>2, <1>3
  <2> QED BY <1>2, <1>4, <1>5, <2>1 DEF Located, Typed
<1>7. UNCHANGED <<Queued, Active, ReqsOf(running), ReqsOf(last), Distinct(running), Distinct(last)>>
  BY <1>2 DEF Queued, Active, ReqsOf, Distinct
<1>8. r <= sent /\ sent \in Nat /\ r \in Nat BY <1>1, SchedulerAssumption DEF Located, Placed, Typed, Req
<1>9. \A q \in Req : q # r => out'[q] = out[q] /\ done'[q] = done[q] BY <1>2 DEF Located, Typed
<1>10. Placed'
  <2>1. Distinct(rows)' BY <1>2, <1>3 DEF Distinct
  <2>2. \A q \in Queued : q \in Req /\ q # r BY <1>1, LocatedReqs DEF Located
  <2>3. \A q \in Req : q > sent => q # r BY <1>8
  <2>4. \A q \in Queued : ~done'[q] BY <1>9, <2>2 DEF Located, Placed
  <2>5. \A q \in Req : q > sent => ~done'[q] /\ out'[q] = <<>> BY <1>9, <2>3 DEF Located, Placed
  <2>6. UNCHANGED <<waiting, sent>> BY <1>2
  <2> QED BY <1>7, <2>1, <2>4, <2>5, <2>6 DEF Located, Placed
<1>11. Loop'
  <2>1. \A q \in ReqsOf(rows)' : ~done'[q]
    <3>1. \A q \in ReqsOf(rows)' : q \in Req /\ q # r /\ q \in ReqsOf(rows) BY <1>1, LocatedReqs DEF Located
    <3> QED BY <1>9, <3>1 DEF Located, Loop
  <2>2. rows' # <<>> <=> pc' \in {"prefilled", "decoded"} BY <1>2, <1>3
  <2>3. pc' # "recv" => pc' = pc BY <1>2
  <2>4. ReqsOf(rows)' \subseteq ReqsOf(rows) BY <1>1
  <2>5. pc' \in {"recv", "prefilled", "decoded"} BY <1>2
  <2> QED BY <1>2, <1>7, <2>1, <2>2, <2>3, <2>4, <2>5 DEF Located, Loop
<1> QED BY <1>6, <1>10, <1>11 DEF Located
LEMMA UpdateLocated ==
  ASSUME Located, UpdateRunningBatch
  PROVE  /\ Located' /\ ReqsOf(running)' = {r \in ReqsOf(running) : ~done[r]} /\ last = <<>> /\ rows = <<>>
         /\ ToSet(running)' \subseteq ToSet(running) /\ adding = <<>>
<1> DEFINE kept == Alive(running)
<1>1. /\ pc = "decode" /\ running' = kept
      /\ pc' = "recv" \/ (kept # <<>> /\ pc' \in {"decoding", "retract"})
      /\ UNCHANGED <<rows, adding, offset, sent, waiting, last, out, rec, latent, done, retracted>>
  <2>1. /\ pc = "decode" /\ running' = kept
        /\ pc' = IF kept = <<>> THEN "recv" ELSE IF avail' >= Len(kept) THEN "decoding" ELSE "retract"
        /\ UNCHANGED <<rows, adding, offset, sent, waiting, last, out, rec, latent, done, retracted>>
    BY Zenon DEF UpdateRunningBatch, reqs
  <2> HIDE DEF kept
  <2> QED BY <2>1
<1>2. /\ kept \in Seq(Row) /\ ToSet(kept) \subseteq ToSet(running) /\ Distinct(kept)
      /\ ReqsOf(kept) = {r \in ReqsOf(running) : ~done[r]}
  BY AliveRows, AliveReqs DEF Located, Typed, Placed
<1> HIDE DEF kept
<1>3. ToSet(running)' = ToSet(kept) BY <1>1 DEF ToSet
<1>4. rows = <<>> /\ last = <<>> /\ adding = <<>> BY <1>1 DEF Located, Loop
<1>5. Typed' BY <1>1, <1>2 DEF Located, Typed
<1>6. ReqsOf(running)' = ReqsOf(kept) /\ ReqsOf(last)' = ReqsOf(last) /\ ReqsOf(rows)' = {}
  BY <1>1, <1>4 DEF ReqsOf
<1>7. Placed'
  <2>1. Distinct(running)' /\ Distinct(last)' /\ Distinct(rows)'
    BY <1>1, <1>2 DEF Located, Placed, Distinct
  <2>2. Queued' = Queued BY <1>1 DEF Queued
  <2>3. Active' \subseteq Active BY <1>2, <1>6 DEF Active
  <2>4. UNCHANGED <<waiting, sent, done, out>> BY <1>1
  <2> QED BY <1>2, <1>6, <2>1, <2>2, <2>3, <2>4 DEF Located, Placed
<1>8. Loop'
  <2>1. \A r \in ReqsOf(running)' : ~done'[r] BY <1>1, <1>2, <1>6
  <2>2. UNCHANGED <<adding, waiting>> BY <1>1
  <2> QED BY <1>1, <1>4, <1>6, <2>1, <2>2 DEF Located, Loop
<1> QED BY <1>1, <1>2, <1>3, <1>4, <1>5, <1>6, <1>7, <1>8 DEF Located

\* The order retract_decode sorts the rows in.
Order == CHOOSE p \in [DOMAIN running -> DOMAIN running] :
           \A i, j \in DOMAIN running : i < j => Before(p[i], p[j])
Victim == running[Order[Len(running)]].req

LEMMA OrderIs ==
  ASSUME Typed
  PROVE  /\ Order \in [DOMAIN running -> DOMAIN running]
         /\ \A i, j \in DOMAIN running : Order[i] = Order[j] => i = j
         /\ \A k \in DOMAIN running : \E i \in DOMAIN running : Order[i] = k
<1> DEFINE n == Len(running)
           D == 1 .. n
           R == {e \in D \X D : Before(e[1], e[2])}
<1>1. n \in Nat /\ DOMAIN running = D BY DEF Typed
<1>2. \A i \in D : /\ i \in Nat /\ Len(out[running[i].req]) \in Nat /\ Len(Prompt[running[i].req]) \in Nat
  <2> TAKE i \in D
  <2>1. running[i].req \in Req
    <3>1. i \in DOMAIN running /\ running \in Seq(Row) BY <1>1 DEF Typed
    <3> QED BY <3>1, RowReqs
  <2> HIDE DEF n
  <2> QED BY <1>1, <2>1, IdsSeq
<1>3. StrictOrder(D, R)
  <2> HIDE DEF D
  <2>1. \A i, j \in D : <<i, j>> \in R <=> Before(i, j) OBVIOUS
  <2> HIDE DEF R
  <2>2. \A i \in D : ~Before(i, i) BY <1>2 DEF Before
  <2>3. \A i, j, k \in D : Before(i, j) /\ Before(j, k) => Before(i, k)
    <3> TAKE i, j, k \in D
    <3> DEFINE oi == Len(out[running[i].req])
               oj == Len(out[running[j].req])
               ok == Len(out[running[k].req])
               li == Len(Prompt[running[i].req])
               lj == Len(Prompt[running[j].req])
               lk == Len(Prompt[running[k].req])
    <3>1. /\ oi \in Nat /\ oj \in Nat /\ ok \in Nat /\ li \in Nat /\ lj \in Nat /\ lk \in Nat
          /\ i \in Nat /\ j \in Nat /\ k \in Nat
      BY <1>2
    <3>2. /\ Before(i, j) <=> (oi > oj \/ (oi = oj /\ (li < lj \/ (li = lj /\ i < j))))
          /\ Before(j, k) <=> (oj > ok \/ (oj = ok /\ (lj < lk \/ (lj = lk /\ j < k))))
          /\ Before(i, k) <=> (oi > ok \/ (oi = ok /\ (li < lk \/ (li = lk /\ i < k))))
      BY Zenon DEF Before
    <3> HIDE DEF oi, oj, ok, li, lj, lk
    <3> QED BY <3>1, <3>2
  <2>4. \A i, j \in D : i # j => Before(i, j) \/ Before(j, i)
    <3> SUFFICES ASSUME NEW i \in D, NEW j \in D, i # j PROVE Before(i, j) \/ Before(j, i)
      OBVIOUS
    <3> DEFINE oi == Len(out[running[i].req])
               oj == Len(out[running[j].req])
               li == Len(Prompt[running[i].req])
               lj == Len(Prompt[running[j].req])
    <3>1. oi \in Nat /\ oj \in Nat /\ li \in Nat /\ lj \in Nat /\ i \in Nat /\ j \in Nat BY <1>2
    <3>2. /\ Before(i, j) <=> (oi > oj \/ (oi = oj /\ (li < lj \/ (li = lj /\ i < j))))
          /\ Before(j, i) <=> (oj > oi \/ (oj = oi /\ (lj < li \/ (lj = li /\ j < i))))
      BY Zenon DEF Before
    <3> HIDE DEF oi, oj, li, lj
    <3> QED BY <3>1, <3>2
  <2> QED BY <2>1, <2>2, <2>3, <2>4 DEF StrictOrder
<1>4. IsFiniteSet(D) /\ Cardinality(D) = n
  <2> HIDE DEF n
  <2>1. n \in Nat /\ 1 \in Int BY <1>1
  <2> QED BY <2>1, FS_Interval
<1>5. \E p \in [D -> D] : \A i, j \in D : i < j => <<p[i], p[j]>> \in R
  <2> HIDE DEF D, R, n
  <2>1. \E p \in [1 .. Cardinality(D) -> D] :
           \A i, j \in 1 .. Cardinality(D) : i < j => <<p[i], p[j]>> \in R
    BY <1>3, <1>4, SortExists
  <2>2. 1 .. Cardinality(D) = D BY <1>4 DEF D
  <2> QED BY <2>1, <2>2
<1>6. /\ Order \in [D -> D]
      /\ \A i, j \in D : i < j => Before(Order[i], Order[j])
  <2>1. \E p \in [D -> D] : \A i, j \in D : i < j => Before(p[i], p[j]) BY <1>5
  <2>2. Order = CHOOSE p \in [D -> D] : \A i, j \in D : i < j => Before(p[i], p[j])
    BY <1>1 DEF Order
  <2> HIDE DEF D
  <2> QED BY <2>1, <2>2
<1>7. \A i, j \in D : i < j => <<Order[i], Order[j]>> \in R
  <2> HIDE DEF D
  <2>1. \A i \in D : Order[i] \in D BY <1>6
  <2> QED BY <1>6, <2>1
<1>9. /\ \A i, j \in 1 .. n : Order[i] = Order[j] => i = j
      /\ \A k \in 1 .. n : \E i \in 1 .. n : Order[i] = k
  <2> HIDE DEF n, R
  <2>1. Order \in [1 .. n -> 1 .. n] BY <1>6
  <2>2. Sorted(Order, n, R) BY <1>7 DEF Sorted
  <2>3. Order \in Bijection(1 .. n, 1 .. n) BY <1>1, <1>3, <2>1, <2>2, SortedOnce
  <2> QED BY <2>3 DEF Bijection, Injection, Surjection, IsInjective
<1> QED BY <1>1, <1>6, <1>9

LEMMA RetractLocated ==
  ASSUME Located, RetractDecode
  PROVE  /\ Located' /\ Victim \in Req /\ Victim \in ReqsOf(running) /\ ~done[Victim]
         /\ last = <<>> /\ rows = <<>> /\ adding = <<>>
         /\ ReqsOf(running)' = ReqsOf(running) \ {Victim} /\ Queued' = Queued \cup {Victim}
         /\ ToSet(running)' \subseteq ToSet(running) /\ Len(running') = Len(running) - 1
<1> DEFINE n == Len(running)
           order == Order
           r == running[order[n]].req
<1>1. /\ pc = "retract" /\ n > 1
      /\ running' = [i \in 1 .. n - 1 |-> running[order[i]]]
      /\ waiting' = Append(waiting, r) /\ retracted' = retracted \cup {r}
      /\ pc' = "retract" \/ pc' = "decoding"
      /\ UNCHANGED <<rows, adding, offset, sent, last, out, rec, latent, done>>
  BY Zenon DEF RetractDecode, Order
<1>2. n \in Nat /\ DOMAIN running = 1 .. n /\ n \in 1 .. n BY <1>1 DEF Located, Typed
<1>3. /\ \A i \in 1 .. n : order[i] \in 1 .. n
      /\ \A i, j \in 1 .. n : order[i] = order[j] => i = j
      /\ \A k \in 1 .. n : \E i \in 1 .. n : order[i] = k
  <2> HIDE DEF n
  <2> QED BY <1>2, OrderIs DEF Located
<1> HIDE DEF order
<1>4. \A i \in 1 .. n : running[i] \in Row /\ running[i].req \in Req /\ running[i].req \in ReqsOf(running)
  BY <1>2, RowReqs DEF Located, Typed
<1>5. r \in Req /\ r \in ReqsOf(running) BY <1>2, <1>3, <1>4
<1>6. ~done[r] /\ r \in Active /\ r \notin Queued
  BY <1>1, <1>5 DEF Located, Loop, Placed, Active
<1>7. rows = <<>> /\ last = <<>> /\ adding = <<>> BY <1>1 DEF Located, Loop
<1> HIDE DEF n
<1>8. \A i \in 1 .. n - 1 : i \in 1 .. n /\ i # n BY <1>2
<1>9. /\ running' \in Seq(Row) /\ DOMAIN running' = 1 .. n - 1
      /\ \A i \in 1 .. n - 1 : running'[i] = running[order[i]]
  <2>1. \A i \in 1 .. n - 1 : running[order[i]] \in Row BY <1>3, <1>4, <1>8
  <2>2. n - 1 \in Nat BY <1>1, <1>2
  <2>3. running' \in [1 .. n - 1 -> Row] BY <1>1, <2>1
  <2>4. running' \in Seq(Row) BY <2>2, <2>3
  <2> QED BY <1>1, <2>4
<1>10. ReqsOf(running)' = ReqsOf(running) \ {r}
  <2>1. ASSUME NEW q \in ReqsOf(running)' PROVE q \in ReqsOf(running) \ {r}
    <3>1. PICK i \in 1 .. n - 1 : q = running[order[i]].req BY <1>9, <2>1 DEF ReqsOf
    <3>2. order[i] # order[n] /\ order[i] \in DOMAIN running /\ order[n] \in DOMAIN running
      BY <1>2, <1>3, <1>8
    <3>3. q # r BY <3>1, <3>2 DEF Located, Placed, Distinct
    <3> QED BY <1>2, <1>4, <3>1, <3>2, <3>3
  <2>2. ASSUME NEW q \in ReqsOf(running) \ {r} PROVE q \in ReqsOf(running)'
    <3>1. PICK k \in 1 .. n : q = running[k].req BY <1>2 DEF ReqsOf
    <3>2. PICK i \in 1 .. n : order[i] = k BY <1>3
    <3>3. i # n BY <3>1, <3>2
    <3>4. i \in 1 .. n - 1 BY <1>2, <3>3
    <3>5. running'[i].req = q /\ i \in DOMAIN running' BY <1>9, <3>1, <3>2, <3>4
    <3> QED BY <3>5 DEF ReqsOf
  <2> QED BY <2>1, <2>2
<1>11. /\ waiting' \in Seq(Req) /\ DOMAIN waiting = 1 .. Len(waiting) /\ Len(waiting) \in Nat
       /\ DOMAIN waiting' = 1 .. Len(waiting) + 1 /\ waiting'[Len(waiting) + 1] = r
       /\ \A i \in 1 .. Len(waiting) : waiting'[i] = waiting[i]
       /\ Len(waiting') = Len(waiting) + 1
  <2> HIDE DEF r
  <2> QED BY <1>1, <1>5 DEF Located, Typed
<1>12. Queued' = Queued \cup {r} BY <1>11 DEF Queued
<1>13. Typed' BY <1>1, <1>5, <1>9, <1>11 DEF Located, Typed
<1>14. ReqsOf(last)' = {} /\ ReqsOf(last) = {} /\ ReqsOf(rows)' = {} BY <1>1, <1>7 DEF ReqsOf
<1>15. Placed'
  <2>1. \A i \in 1 .. Len(waiting) : waiting[i] \in Queued BY <1>11 DEF Queued
  <2>2. \A i, j \in DOMAIN waiting' : waiting'[i] = waiting'[j] => i = j
    BY <1>6, <1>11, <2>1 DEF Located, Placed
  <2>3. Distinct(running)'
    <3>1. ASSUME NEW i \in 1 .. n - 1, NEW j \in 1 .. n - 1, running[order[i]].req = running[order[j]].req
          PROVE  i = j
      <4>1. i \in 1 .. n /\ j \in 1 .. n BY <1>8
      <4>2. order[i] \in DOMAIN running /\ order[j] \in DOMAIN running BY <1>2, <1>3, <4>1
      <4>3. order[i] = order[j] BY <3>1, <4>2 DEF Located, Placed, Distinct
      <4> QED BY <1>3, <4>1, <4>3
    <3> QED BY <1>9, <3>1 DEF Distinct
  <2>4. Distinct(last)' /\ Distinct(rows)' BY <1>1 DEF Located, Placed, Distinct
  <2>5. Active' = ReqsOf(running) \ {r} /\ Active = ReqsOf(running) BY <1>10, <1>14 DEF Active
  <2>6. UNCHANGED <<sent, done, out>> BY <1>1
  <2> HIDE DEF r
  <2> QED BY <1>6, <1>10, <1>12, <1>14, <2>2, <2>3, <2>4, <2>5, <2>6 DEF Located, Placed
<1>16. Loop'
  <2>1. running' # <<>>
    <3>1. 1 \in 1 .. n - 1 BY <1>1, <1>2
    <3>2. DOMAIN running' # {} BY <1>9, <3>1
    <3> QED BY <3>2
  <2>2. \A q \in ReqsOf(running)' : ~done'[q] BY <1>1, <1>10 DEF Located, Loop
  <2>3. 0 <= Len(waiting') BY <1>11
  <2>4. adding' = <<>> /\ Len(adding') = 0 /\ DOMAIN adding' = {} BY <1>1, <1>7
  <2> QED BY <1>1, <1>7, <1>14, <2>1, <2>2, <2>3, <2>4 DEF Located, Loop
<1>17. r = Victim BY DEF Victim, order, n
<1>18. ToSet(running)' \subseteq ToSet(running)
  <2>1. \A k \in 1 .. n : running[k] \in ToSet(running) BY <1>2 DEF ToSet
  <2>2. \A i \in DOMAIN running' : running'[i] \in ToSet(running) BY <1>3, <1>8, <1>9, <2>1
  <2> QED BY <2>2 DEF ToSet
<1>19. Len(running') = Len(running) - 1
  <2>1. DOMAIN running' = 1 .. Len(running') /\ Len(running') \in Nat /\ n - 1 \in Nat BY <1>1, <1>2, <1>9
  <2>2. Len(running') = n - 1 BY <1>9, <2>1
  <2> QED BY <2>2 DEF n
<1> QED BY <1>5, <1>6, <1>7, <1>10, <1>12, <1>13, <1>15, <1>16, <1>17, <1>18, <1>19 DEF Located

LEMMA KeepLocated ==
  ASSUME Located, KeepLastReq
  PROVE  Located'
<1>1. /\ pc = "retract" /\ pc' = "decoding"
      /\ UNCHANGED <<rows, adding, offset, sent, waiting, running, last, out, rec, latent, done, retracted>>
  BY DEF KeepLastReq, queues, reqs
<1>2. Typed' BY <1>1 DEF Located, Typed
<1>3. UNCHANGED <<waiting, sent, done, out, running, last, rows, adding>> BY <1>1
<1>4. Placed'
  <2>1. UNCHANGED <<Queued, Active, ReqsOf(running), ReqsOf(last), Distinct(running), Distinct(last), Distinct(rows)>>
    BY <1>3 DEF Distinct, Queued, Active, ReqsOf
  <2> QED BY <1>3, <2>1 DEF Located, Placed
<1>5. Loop' BY <1>1, <1>3 DEF Located, Loop, ReqsOf
<1> QED BY <1>2, <1>4, <1>5 DEF Located

LEMMA DecodeLocated ==
  ASSUME Located, RunDecode
  PROVE  /\ Located' /\ ReqsOf(rows)' = ReqsOf(running) /\ ReqsOf(running)' = ReqsOf(running)
         /\ rows = <<>> /\ last = <<>> /\ adding = <<>>
<1>1. /\ pc = "decoding" /\ pc' = "decoded" /\ rows' = running
      /\ UNCHANGED <<adding, offset, sent, waiting, running, last, out, rec, latent, done, retracted>>
  BY DEF RunDecode, queues, reqs
<1>2. Typed' BY <1>1 DEF Located, Typed
<1>3. UNCHANGED <<Queued, Active, ReqsOf(running), ReqsOf(last), Distinct(running), Distinct(last)>>
  BY <1>1 DEF Distinct, Queued, Active, ReqsOf
<1>4. ReqsOf(rows)' = ReqsOf(running) /\ Distinct(rows)' = Distinct(running) BY <1>1 DEF ReqsOf, Distinct
<1>5. UNCHANGED <<waiting, sent, done, out>> BY <1>1
<1>6. Placed' BY <1>3, <1>4, <1>5 DEF Located, Placed
<1>7. Loop' BY <1>1, <1>3, <1>4 DEF Located, Loop
<1>8. rows = <<>> /\ last = <<>> /\ adding = <<>> BY <1>1 DEF Located, Loop
<1> QED BY <1>1, <1>2, <1>3, <1>4, <1>6, <1>7, <1>8 DEF Located

LEMMA StutterLocated ==
  ASSUME Located, UNCHANGED vars
  PROVE  Located'
<1>1. UNCHANGED <<pc, rows, adding, offset, sent, waiting, running, last, out, rec, latent, done, retracted>>
  BY DEF vars, loop, queues, reqs
<1>2. Typed' BY <1>1 DEF Located, Typed
<1>3. UNCHANGED <<waiting, sent, done, out, running, last, rows, adding>> BY <1>1
<1>4. Placed'
  <2>1. UNCHANGED <<Queued, Active, ReqsOf(running), ReqsOf(last), Distinct(running), Distinct(last), Distinct(rows)>>
    BY <1>3 DEF Distinct, Queued, Active, ReqsOf
  <2> QED BY <1>3, <2>1 DEF Located, Placed
<1>5. UNCHANGED <<ReqsOf(running), ReqsOf(last), ReqsOf(rows)>> BY <1>3 DEF ReqsOf
<1>6. UNCHANGED <<pc, rows, last, running, adding, waiting, done>> BY <1>1
<1>7. Loop' BY <1>5, <1>6 DEF Located, Loop
<1> QED BY <1>2, <1>4, <1>7 DEF Located

LEMMA StepLocated ==
  ASSUME Located, [Next]_vars
  PROVE  Located'
<1>1. ASSUME NEW t \in Token, ProcessPrefill(t) \/ ProcessDecode(t) PROVE TokenStep(t)
  BY <1>1, Zenon DEF ProcessPrefill, ProcessDecode, TokenStep
<1>2. CASE \E t \in Token : ProcessPrefill(t) \/ ProcessDecode(t) BY <1>1, <1>2, TokenLocated
<1> QED BY <1>2, GetNextBatchLocated, AddOneReqLocated, EndOfAddingLocated, ExtendLocated,
           UpdateLocated, RetractLocated, KeepLocated, DecodeLocated, StutterLocated, SubmitLocated
        DEF Next, Step
-------------------------------------------------------------------------------
(* The second layer *)

LEMMA InitSampled == Init => Sampled
<1> SUFFICES ASSUME Init PROVE Sampled
  OBVIOUS
<1>1. /\ out = [r \in Req |-> <<>>] /\ rec = [r \in Req |-> <<>>] /\ latent = [r \in Req |-> TRUE]
      /\ waiting = <<>> /\ running = <<>> /\ last = <<>> /\ rows = <<>> /\ pc = "recv"
  BY DEF Init
<1>2. \A r \in Req : out[r] = <<>> /\ DOMAIN out[r] = {} /\ rec[r] = <<>> /\ latent[r] BY <1>1
<1>3. LatentIsSampledLatent BY <1>2 DEF LatentIsSampledLatent, LatentPhase
<1>4. RecordFollowsTheSwitch BY <1>2 DEF RecordFollowsTheSwitch
<1>5. Recorded BY <1>2, <1>3, <1>4 DEF Recorded
<1>6. Queued = {} /\ Active = {} /\ ReqsOf(rows) = {} /\ ReqsOf(running) = {}
  BY <1>1 DEF Queued, Active, ReqsOf
<1>7. Flagged(running) /\ Flagged(last) /\ Flagged(rows) BY <1>1 DEF Flagged, ToSet
<1>8. Rowed BY <1>6, <1>7 DEF Rowed
<1> QED BY <1>5, <1>8 DEF Sampled

\* What the outputs are does not change but when a token is processed.
LEMMA RecordedSame ==
  ASSUME Recorded, UNCHANGED <<out, rec, latent, done>>
  PROVE  Recorded'
<1>1. UNCHANGED <<LatentIsSampledLatent, RecordFollowsTheSwitch>>
  BY DEF LatentIsSampledLatent, RecordFollowsTheSwitch, LatentPhase
<1> QED BY <1>1 DEF Recorded

LEMMA RowedSame ==
  ASSUME Rowed, UNCHANGED <<out, latent, rows, running, last, waiting, retracted>>,
         pc' = pc \/ pc' \notin {"prefilled", "decoded"}
  PROVE  Rowed'
<1>1. UNCHANGED <<Flagged(running), Flagged(last), Flagged(rows), Active, Queued, ReqsOf(rows), ReqsOf(running)>>
  BY DEF Flagged, Active, Queued, ReqsOf, ToSet
<1> QED BY <1>1 DEF Rowed

LEMMA QuietSampled ==
  ASSUME Sampled, AddOneReq \/ EndOfAdding \/ KeepLastReq \/ UNCHANGED vars
  PROVE  Sampled'
<1>1. /\ UNCHANGED <<out, rec, latent, done, rows, running, last, waiting, retracted>>
      /\ pc' = pc \/ pc' \notin {"prefilled", "decoded"}
  BY DEF AddOneReq, EndOfAdding, KeepLastReq, vars, queues, loop, reqs
<1>2. UNCHANGED <<out, rec, latent, done>> BY <1>1
<1>3. UNCHANGED <<out, latent, rows, running, last, waiting, retracted>> BY <1>1
<1> QED BY <1>1, <1>2, <1>3, RecordedSame, RowedSame DEF Sampled

LEMMA SubmitSampled ==
  ASSUME Located, Sampled, Submit
  PROVE  Sampled'
<1>1. /\ pc = "recv"
      /\ UNCHANGED <<pc, rows, running, last, out, rec, latent, done, retracted>>
  BY DEF Submit, loop, reqs
<1>2. Queued' = Queued \cup {sent + 1} /\ sent + 1 \in Req /\ out[sent + 1] = <<>> BY SubmitLocated
<1>3. UNCHANGED <<Flagged(running), Flagged(last), Flagged(rows), Active, ReqsOf(rows), ReqsOf(running)>>
  BY <1>1 DEF Flagged, Active, ReqsOf, ToSet
<1>4. UNCHANGED <<out, retracted, pc>> BY <1>1
<1>5. Rowed' BY <1>1, <1>2, <1>3, <1>4 DEF Rowed, Sampled
<1>6. Recorded'
  <2>1. UNCHANGED <<out, rec, latent, done>> BY <1>1
  <2> QED BY <2>1, RecordedSame DEF Sampled
<1> QED BY <1>5, <1>6 DEF Sampled

LEMMA GetNextBatchSampled ==
  ASSUME Located, Sampled, GetNextBatch
  PROVE  Sampled'
<1>1. /\ pc = "recv" /\ pc' \in {"decode", "admit"} /\ last' = <<>>
      /\ UNCHANGED <<rows, waiting, out, rec, latent, done, retracted>>
  BY Zenon DEF GetNextBatch, reqs
<1>2. rows = <<>> /\ ReqsOf(last)' = {} /\ ReqsOf(running)' = ReqsOf(Merged) /\ ToSet(running)' = ToSet(Merged)
  BY GetNextBatchLocated
<1>3. /\ ReqsOf(Merged) = ReqsOf(running) \cup {r \in ReqsOf(last) : ~done[r]}
      /\ ToSet(Merged) \subseteq ToSet(running) \cup ToSet(last)
  BY MergedRows
<1>4. Flagged(running)' /\ Flagged(last)' /\ Flagged(rows)'
  <2>1. ToSet(last)' = {} /\ ToSet(rows)' = {} BY <1>1, <1>2 DEF ToSet
  <2>2. latent' = latent BY <1>1
  <2> QED BY <1>2, <1>3, <2>1, <2>2 DEF Flagged, Rowed, Sampled
<1>5. Active' = ReqsOf(Merged) /\ ReqsOf(Merged) \subseteq Active BY <1>2, <1>3 DEF Active
<1>6. ReqsOf(rows) = {} /\ ReqsOf(rows)' = {} BY <1>1, <1>2 DEF ReqsOf
<1>7. \A r \in ReqsOf(Merged) : Len(out[r]) <= MaxNew[r]
  <2> SUFFICES ASSUME NEW r \in ReqsOf(Merged) PROVE Len(out[r]) <= MaxNew[r]
    OBVIOUS
  <2>1. CASE r \in ReqsOf(running) BY <2>1 DEF Sampled, Rowed
  <2>2. CASE r \in ReqsOf(last) /\ ~done[r]
    <3>1. r \in Active /\ r \in Req BY <2>2, LocatedReqs DEF Located, Active
    <3>2. out[r] # <<>> BY <1>6, <3>1 DEF Sampled, Rowed
    <3>3. Len(out[r]) < MaxNew[r] BY <2>2, <3>1, <3>2 DEF Sampled, Recorded
    <3>4. Len(out[r]) \in Nat /\ MaxNew[r] \in Nat BY <3>1, IdsSeq DEF Located
    <3> QED BY <3>3, <3>4
  <2> QED BY <1>3, <2>1, <2>2
<1>8. Rowed'
  <2>1. Queued' = Queued BY <1>1 DEF Queued
  <2>2. UNCHANGED <<out, retracted>> BY <1>1
  <2> QED BY <1>1, <1>2, <1>4, <1>5, <1>6, <1>7, <2>1, <2>2 DEF Rowed, Sampled
<1>9. Recorded'
  <2>1. UNCHANGED <<out, rec, latent, done>> BY <1>1
  <2> QED BY <2>1, RecordedSame DEF Sampled
<1> QED BY <1>8, <1>9 DEF Sampled

LEMMA ExtendSampled ==
  ASSUME Located, Sampled, RunExtend
  PROVE  Sampled'
<1>1. /\ pc = "extend" /\ pc' = "prefilled"
      /\ UNCHANGED <<running, out, rec, latent, done, retracted>>
  BY DEF RunExtend, reqs
<1>2. /\ Queued' = Queued \ Adding /\ Adding \subseteq Queued
      /\ ReqsOf(rows)' = Adding /\ ReqsOf(last)' = Adding /\ ReqsOf(running)' = ReqsOf(running)
      /\ \A i \in DOMAIN adding : rows'[i] = NewRow(adding[i]) /\ last'[i] = NewRow(adding[i])
      /\ DOMAIN rows' = DOMAIN adding /\ DOMAIN last' = DOMAIN adding
  BY ExtendLocated
<1>3. rows = <<>> /\ last = <<>> BY <1>1 DEF Located, Loop
<1>4. ReqsOf(rows) = {} /\ ReqsOf(last) = {} BY <1>3 DEF ReqsOf
<1>5. \A r : NewRow(r).req = r /\ NewRow(r).latent = latent[r] BY DEF NewRow
<1>6. \A row \in ToSet(rows)' \cup ToSet(last)' : latent[row.req] => row.latent
  BY <1>2, <1>5 DEF ToSet
<1>7. Flagged(running)' /\ Flagged(last)' /\ Flagged(rows)'
  <2>1. latent' = latent /\ ToSet(running)' = ToSet(running) BY <1>1 DEF ToSet
  <2> QED BY <1>6, <2>1 DEF Flagged, Rowed, Sampled
<1>8. Active = ReqsOf(running) /\ Active' = ReqsOf(running) \cup Adding BY <1>2, <1>4 DEF Active
<1>9. UNCHANGED <<out, retracted>> BY <1>1
<1>10. Rowed' BY <1>1, <1>2, <1>4, <1>7, <1>8, <1>9 DEF Rowed, Sampled
<1>11. Recorded'
  <2>1. UNCHANGED <<out, rec, latent, done>> BY <1>1
  <2> QED BY <2>1, RecordedSame DEF Sampled
<1> QED BY <1>10, <1>11 DEF Sampled

LEMMA UpdateSampled ==
  ASSUME Located, Sampled, UpdateRunningBatch
  PROVE  Sampled'
<1>1. /\ pc = "decode" /\ pc' \in {"recv", "decoding", "retract"}
      /\ UNCHANGED <<rows, last, waiting, out, rec, latent, done, retracted>>
  <2>1. UNCHANGED <<rows, last, waiting, out, rec, latent, done, retracted>>
    BY DEF UpdateRunningBatch, reqs
  <2>2. pc = "decode" /\ pc' \in {"recv", "decoding", "retract"} BY DEF UpdateRunningBatch
  <2> QED BY <2>1, <2>2
<1>2. /\ ReqsOf(running)' \subseteq ReqsOf(running) /\ last = <<>> /\ rows = <<>>
      /\ ToSet(running)' \subseteq ToSet(running)
  BY UpdateLocated
<1>3. /\ ReqsOf(last)' = ReqsOf(last) /\ ReqsOf(rows)' = ReqsOf(rows) /\ ToSet(last)' = ToSet(last)
      /\ ToSet(rows)' = ToSet(rows) /\ Queued' = Queued
  BY <1>1 DEF ReqsOf, ToSet, Queued
<1>4. UNCHANGED <<out, retracted, latent>> BY <1>1
<1>5. Flagged(running)' /\ Flagged(last)' /\ Flagged(rows)'
  BY <1>2, <1>3, <1>4 DEF Flagged, Rowed, Sampled
<1>6. Active' \subseteq Active BY <1>2, <1>3 DEF Active
<1>7. Rowed' BY <1>1, <1>2, <1>3, <1>4, <1>5, <1>6 DEF Rowed, Sampled
<1>8. Recorded'
  <2>1. UNCHANGED <<out, rec, latent, done>> BY <1>1
  <2> QED BY <2>1, RecordedSame DEF Sampled
<1> QED BY <1>7, <1>8 DEF Sampled

LEMMA RetractSampled ==
  ASSUME Located, Sampled, RetractDecode
  PROVE  Sampled'
<1>1. /\ pc' \in {"retract", "decoding"} /\ UNCHANGED <<rows, last, out, rec, latent, done>>
      /\ retracted' = retracted \cup {Victim}
  <2>1. UNCHANGED <<rows, last, out, rec, latent, done>> BY DEF RetractDecode
  <2>2. pc' \in {"decoding", "retract"} BY DEF RetractDecode
  <2>3. retracted' = retracted \cup {Victim} BY Zenon DEF RetractDecode, Victim, Order
  <2> QED BY <2>1, <2>2, <2>3
<1>2. /\ ReqsOf(running)' \subseteq ReqsOf(running) /\ last = <<>> /\ rows = <<>>
      /\ ToSet(running)' \subseteq ToSet(running) /\ Queued' = Queued \cup {Victim}
  BY RetractLocated
<1>3. /\ ReqsOf(last)' = ReqsOf(last) /\ ReqsOf(rows)' = ReqsOf(rows) /\ ToSet(last)' = ToSet(last)
      /\ ToSet(rows)' = ToSet(rows)
  BY <1>1 DEF ReqsOf, ToSet
<1>4. UNCHANGED <<out, latent>> BY <1>1
<1>5. Flagged(running)' /\ Flagged(last)' /\ Flagged(rows)'
  BY <1>2, <1>3, <1>4 DEF Flagged, Rowed, Sampled
<1>6. Active' \subseteq Active BY <1>2, <1>3 DEF Active
<1>7. Rowed' BY <1>1, <1>2, <1>3, <1>4, <1>5, <1>6 DEF Rowed, Sampled
<1>8. Recorded'
  <2>1. UNCHANGED <<out, rec, latent, done>> BY <1>1
  <2> QED BY <2>1, RecordedSame DEF Sampled
<1> QED BY <1>7, <1>8 DEF Sampled

LEMMA DecodeSampled ==
  ASSUME Located, Sampled, RunDecode
  PROVE  Sampled'
<1>1. /\ pc = "decoding" /\ pc' = "decoded" /\ rows' = running
      /\ UNCHANGED <<running, last, waiting, out, rec, latent, done, retracted>>
  BY DEF RunDecode, queues, reqs
<1>2. ReqsOf(rows)' = ReqsOf(running) /\ rows = <<>> /\ last = <<>> BY DecodeLocated
<1>3. /\ ReqsOf(running)' = ReqsOf(running) /\ ReqsOf(last)' = {} /\ ReqsOf(last) = {} /\ ReqsOf(rows) = {}
      /\ ToSet(running)' = ToSet(running) /\ ToSet(last)' = ToSet(last) /\ ToSet(rows)' = ToSet(running)
      /\ Queued' = Queued
  BY <1>1, <1>2 DEF ReqsOf, ToSet, Queued
<1>4. UNCHANGED <<out, latent, retracted>> BY <1>1
<1>5. Flagged(running)' /\ Flagged(last)' /\ Flagged(rows)' BY <1>3, <1>4 DEF Flagged, Rowed, Sampled
<1>6. Active' = ReqsOf(running) /\ Active = ReqsOf(running) BY <1>3 DEF Active
<1>7. Rowed' BY <1>1, <1>2, <1>3, <1>4, <1>5, <1>6 DEF Rowed, Sampled
<1>8. Recorded'
  <2>1. UNCHANGED <<out, rec, latent, done>> BY <1>1
  <2> QED BY <2>1, RecordedSame DEF Sampled
<1> QED BY <1>7, <1>8 DEF Sampled
\* What a token changes in the requests.
LEMMA TokenEffect ==
  ASSUME Located, NEW t \in Token, TokenStep(t)
  PROVE  LET row == Head(rows)
             r == row.req
             stays == latent[r] /\ t # LatentEnd
         IN /\ \A q \in Req \ {r} : /\ out'[q] = out[q] /\ rec'[q] = rec[q]
                                    /\ latent'[q] = latent[q] /\ done'[q] = done[q]
            /\ out'[r] = Append(out[r], t) /\ done'[r] = Finishes(r, t) /\ latent'[r] = stays
            /\ rec'[r] = Append(rec[r], [mix |-> IF stays THEN "soft" ELSE "hard",
                                         sampler |-> IF row.latent THEN "latent" ELSE "explicit"])
            /\ UNCHANGED <<running, last, waiting, adding, retracted>>
            /\ pc' = pc \/ pc' = "recv"
<1> DEFINE row == Head(rows)
           r == row.req
           stays == latent[r] /\ t # LatentEnd
           e == [mix |-> IF stays THEN "soft" ELSE "hard",
                 sampler |-> IF row.latent THEN "latent" ELSE "explicit"]
<1>1. r \in Req BY TokenIs
<1>2. /\ out' = [out EXCEPT ![r] = Append(@, t)] /\ done' = [done EXCEPT ![r] = Finishes(r, t)]
      /\ latent' = [latent EXCEPT ![r] = stays] /\ rec' = [rec EXCEPT ![r] = Append(@, e)]
      /\ UNCHANGED <<running, last, waiting, adding, retracted>>
      /\ pc' = IF Len(rows) = 1 THEN "recv" ELSE pc
  BY Zenon DEF TokenStep, TakeToken, UpdateLatentInfo, queues
<1>3. /\ out \in [Req -> Seq(Token)] /\ rec \in [Req -> Seq(Entry)]
      /\ latent \in [Req -> BOOLEAN] /\ done \in [Req -> BOOLEAN]
  BY DEF Located, Typed
<1> HIDE DEF e, stays, r
<1>4. /\ \A q \in Req \ {r} : /\ out'[q] = out[q] /\ rec'[q] = rec[q]
                              /\ latent'[q] = latent[q] /\ done'[q] = done[q]
      /\ out'[r] = Append(out[r], t) /\ done'[r] = Finishes(r, t) /\ latent'[r] = stays
      /\ rec'[r] = Append(rec[r], e)
  BY <1>1, <1>2, <1>3, Zenon
<1>5. pc' = pc \/ pc' = "recv" BY <1>2
<1>6. UNCHANGED <<running, last, waiting, adding, retracted>> BY <1>2
<1> QED BY <1>4, <1>5, <1>6 DEF e, stays, r

\* What Recorded says of one request.
Good(q) ==
  /\ latent[q] <=> \A i \in DOMAIN out[q] : out[q][i] # LatentEnd
  /\ out[q] # <<>> /\ ~done[q] => Len(out[q]) < MaxNew[q]
  /\ \A j \in LatentPhase(q) : rec[q][j].sampler = "latent"
  /\ Len(rec[q]) = Len(out[q])
  /\ \A j \in DOMAIN out[q] :
       rec[q][j].mix = "soft" <=> (j \in LatentPhase(q) /\ out[q][j] # LatentEnd)

LEMMA GoodToken ==
  ASSUME Located, NEW r \in Req, NEW t \in Token, NEW flag \in BOOLEAN, Good(r), latent[r] => flag,
         out'[r] = Append(out[r], t), done'[r] = Finishes(r, t),
         latent'[r] = (latent[r] /\ t # LatentEnd),
         rec'[r] = Append(rec[r], [mix |-> IF latent[r] /\ t # LatentEnd THEN "soft" ELSE "hard",
                                   sampler |-> IF flag THEN "latent" ELSE "explicit"])
  PROVE  Good(r)'
<1> DEFINE n == Len(out[r])
           stays == latent[r] /\ t # LatentEnd
           e == [mix |-> IF stays THEN "soft" ELSE "hard",
                 sampler |-> IF flag THEN "latent" ELSE "explicit"]
<1>1. out[r] \in Seq(Token) /\ rec[r] \in Seq(Entry) /\ n \in Nat /\ DOMAIN out[r] = 1 .. n /\ MaxNew[r] \in Nat
  <2>1. out[r] \in Seq(Token) /\ rec[r] \in Seq(Entry) BY DEF Located, Typed
  <2>2. MaxNew[r] \in Nat BY IdsSeq DEF Located
  <2> QED BY <2>1, <2>2
<1>2. /\ Len(out'[r]) = n + 1 /\ DOMAIN out'[r] = 1 .. n + 1 /\ out'[r][n + 1] = t
      /\ \A i \in 1 .. n : out'[r][i] = out[r][i]
  BY <1>1
<1>3. e.mix = (IF stays THEN "soft" ELSE "hard") /\ e.sampler = (IF flag THEN "latent" ELSE "explicit")
  OBVIOUS
<1> HIDE DEF e
<1>4. /\ Len(rec'[r]) = n + 1 /\ rec'[r][n + 1] = e
      /\ \A i \in 1 .. n : rec'[r][i] = rec[r][i]
  <2>1. rec'[r] = Append(rec[r], e) BY DEF e
  <2>2. Len(rec[r]) = n BY DEF Good
  <2> HIDE DEF n
  <2> QED BY <1>1, <2>1, <2>2
<1>5. \A i \in 1 .. n + 1 : i = n + 1 \/ i \in 1 .. n BY <1>1
<1>6. \A i \in 1 .. n : i \in 1 .. n + 1 /\ i # n + 1 BY <1>1
<1>7. n + 1 \in 1 .. n + 1 /\ 1 .. (n + 1) - 1 = 1 .. n BY <1>1
<1> HIDE DEF n
<1>8. LatentPhase(r)' = {j \in DOMAIN out'[r] : \A i \in 1 .. j - 1 : out'[r][i] # LatentEnd}
  BY DEF LatentPhase
<1>9. \A j \in 1 .. n : j \in LatentPhase(r)' <=> j \in LatentPhase(r)
  <2> SUFFICES ASSUME NEW j \in 1 .. n PROVE j \in LatentPhase(r)' <=> j \in LatentPhase(r)
    OBVIOUS
  <2>1. \A i \in 1 .. j - 1 : i \in 1 .. n BY <1>1
  <2>2. \A i \in 1 .. j - 1 : out'[r][i] = out[r][i] BY <1>2, <2>1
  <2> QED BY <1>1, <1>2, <1>6, <1>8, <2>2 DEF LatentPhase
<1>10. n + 1 \in LatentPhase(r)' <=> latent[r]
  <2>1. n + 1 \in LatentPhase(r)' <=> \A i \in 1 .. n : out'[r][i] # LatentEnd
    BY <1>2, <1>7, <1>8
  <2>2. latent[r] <=> \A i \in 1 .. n : out[r][i] # LatentEnd BY <1>1 DEF Good
  <2> QED BY <1>2, <2>1, <2>2
<1>11. latent'[r] <=> \A i \in DOMAIN out'[r] : out'[r][i] # LatentEnd
  <2>1. latent[r] <=> \A i \in 1 .. n : out[r][i] # LatentEnd BY <1>1 DEF Good
  <2>2. latent'[r] <=> (latent[r] /\ t # LatentEnd) OBVIOUS
  <2> QED BY <1>2, <1>5, <1>6, <1>7, <2>1, <2>2
<1>12. ~done'[r] => Len(out'[r]) < MaxNew[r]
  <2>1. ~done'[r] => ~(n + 1 >= MaxNew[r]) BY DEF Finishes, n
  <2> QED BY <1>1, <1>2, <2>1
<1>13. \A j \in LatentPhase(r)' : rec'[r][j].sampler = "latent"
  <2> SUFFICES ASSUME NEW j \in LatentPhase(r)' PROVE rec'[r][j].sampler = "latent"
    OBVIOUS
  <2>1. j \in 1 .. n + 1 BY <1>2, <1>8
  <2>2. CASE j = n + 1 BY <1>3, <1>4, <1>10, <2>2
  <2>3. CASE j \in 1 .. n BY <1>4, <1>9, <2>3 DEF Good
  <2> QED BY <1>5, <2>1, <2>2, <2>3
<1>14. ASSUME NEW j \in DOMAIN out'[r]
       PROVE  rec'[r][j].mix = "soft" <=> (j \in LatentPhase(r)' /\ out'[r][j] # LatentEnd)
  <2>1. CASE j = n + 1
    <3>1. rec'[r][j].mix = "soft" <=> stays BY <1>3, <1>4, <2>1
    <3> QED BY <1>2, <1>10, <2>1, <3>1
  <2>2. CASE j \in 1 .. n BY <1>1, <1>2, <1>4, <1>9, <2>2 DEF Good
  <2> QED BY <1>2, <1>5, <2>1, <2>2
<1>15. Len(rec'[r]) = Len(out'[r]) BY <1>2, <1>4
<1> QED BY <1>11, <1>12, <1>13, <1>14, <1>15 DEF Good

LEMMA TokenRecorded ==
  ASSUME Located, Sampled, NEW t \in Token, TokenStep(t)
  PROVE  Recorded'
<1>1. Recorded <=> \A q \in Req : Good(q)
  BY DEF Recorded, Good, LatentIsSampledLatent, RecordFollowsTheSwitch
<1>2. Recorded' <=> \A q \in Req : Good(q)'
  BY DEF Recorded, Good, LatentIsSampledLatent, RecordFollowsTheSwitch
<1>3. PICK r \in Req, flag \in BOOLEAN :
        /\ flag = Head(rows).latent
        /\ r = Head(rows).req /\ (latent[r] => flag)
        /\ \A q \in Req \ {r} : /\ out'[q] = out[q] /\ rec'[q] = rec[q]
                                /\ latent'[q] = latent[q] /\ done'[q] = done[q]
        /\ out'[r] = Append(out[r], t) /\ done'[r] = Finishes(r, t)
        /\ latent'[r] = (latent[r] /\ t # LatentEnd)
        /\ rec'[r] = Append(rec[r], [mix |-> IF latent[r] /\ t # LatentEnd THEN "soft" ELSE "hard",
                                     sampler |-> IF flag THEN "latent" ELSE "explicit"])
  <2>1. Head(rows) \in Row /\ Head(rows).req \in Req /\ Head(rows) \in ToSet(rows) BY TokenIs
  <2>2. Head(rows).latent \in BOOLEAN BY <2>1 DEF Row
  <2>3. latent[Head(rows).req] => Head(rows).latent BY <2>1 DEF Sampled, Rowed, Flagged
  <2> QED BY <2>1, <2>2, <2>3, TokenEffect
<1>4. Good(r)' BY <1>1, <1>3, GoodToken DEF Sampled
<1>5. ASSUME NEW q \in Req \ {r} PROVE Good(q)'
  <2>1. out'[q] = out[q] /\ rec'[q] = rec[q] /\ latent'[q] = latent[q] /\ done'[q] = done[q]
    BY <1>3
  <2>2. Good(q) BY <1>1 DEF Sampled
  <2> QED BY <2>1, <2>2 DEF Good, LatentPhase
<1> QED BY <1>2, <1>4, <1>5

LEMMA TokenRowed ==
  ASSUME Located, Sampled, NEW t \in Token, TokenStep(t)
  PROVE  Rowed'
<1> DEFINE row == Head(rows)
           r == row.req
           n == Len(out[r])
<1>1. /\ r \in Req /\ r \in Active /\ r \in ReqsOf(rows) /\ r \notin Queued /\ ~done[r]
      /\ ReqsOf(rows) = ReqsOf(rows)' \cup {r} /\ r \notin ReqsOf(rows)' /\ ToSet(rows)' \subseteq ToSet(rows)
  BY TokenIs
<1>2. /\ \A q \in Req \ {r} : out'[q] = out[q] /\ latent'[q] = latent[q]
      /\ out'[r] = Append(out[r], t) /\ latent'[r] = (latent[r] /\ t # LatentEnd)
      /\ UNCHANGED <<running, last, waiting, retracted>>
      /\ pc' = pc \/ pc' = "recv"
  BY TokenEffect
<1> HIDE DEF r
<1>3. out[r] \in Seq(Token) /\ n \in Nat /\ MaxNew[r] \in Nat
  BY <1>1, IdsSeq DEF Located
<1>4. out'[r] # <<>> /\ Len(out'[r]) = n + 1 BY <1>2, <1>3
<1>5. \A q \in Req : latent'[q] => latent[q] BY <1>1, <1>2
<1>6. /\ Active' = Active /\ Queued' = Queued /\ ReqsOf(running)' = ReqsOf(running)
      /\ ToSet(running)' = ToSet(running) /\ ToSet(last)' = ToSet(last)
  BY <1>2 DEF Active, Queued, ReqsOf, ToSet
<1>7. \A b \in {running, last, rows} : \A w \in ToSet(b) : w.req \in Req
  <2> SUFFICES ASSUME NEW b \in {running, last, rows}, NEW w \in ToSet(b) PROVE w.req \in Req
    OBVIOUS
  <2>1. b \in Seq(Row) BY DEF Located, Typed
  <2>2. \E i \in DOMAIN b : b[i] = w BY DEF ToSet
  <2> QED BY <2>1, <2>2, RowReqs
<1>8. Flagged(running)' /\ Flagged(last)' /\ Flagged(rows)'
  <2>1. Flagged(running) /\ Flagged(last) /\ Flagged(rows) BY DEF Sampled, Rowed
  <2> QED BY <1>1, <1>5, <1>6, <1>7, <2>1 DEF Flagged
<1>9. Active \subseteq Req /\ Queued \subseteq Req /\ ReqsOf(rows) \subseteq Req BY LocatedReqs DEF Located
<1>10. \A q \in Active \ ReqsOf(rows)' : out'[q] # <<>>
  <2>1. \A q \in Active \ ReqsOf(rows)' : q = r \/ q \in Active \ ReqsOf(rows) BY <1>1
  <2> QED BY <1>2, <1>4, <1>9, <2>1 DEF Sampled, Rowed
<1>11. \A q \in ReqsOf(running) : Len(out'[q]) <= MaxNew[q]
  <2> SUFFICES ASSUME NEW q \in ReqsOf(running) PROVE Len(out'[q]) <= MaxNew[q]
    OBVIOUS
  <2>1. q \in Req BY <1>9 DEF Active
  <2>2. CASE q # r BY <1>2, <2>1, <2>2 DEF Sampled, Rowed
  <2>3. CASE q = r
    <3>1. r \notin ReqsOf(last) BY <2>3 DEF Located, Placed
    <3>2. pc = "decoded" BY <1>1, <3>1 DEF Located, Loop, TokenStep
    <3>3. out[r] # <<>> BY <1>1, <3>2 DEF Sampled, Rowed
    <3>4. n < MaxNew[r] BY <1>1, <3>3 DEF Sampled, Recorded
    <3> QED BY <1>3, <1>4, <2>3, <3>4
  <2> QED BY <2>2, <2>3
<1>12. \A q \in Queued : q \in retracted' \/ out'[q] = <<>>
  <2>1. \A q \in Queued : q \in Req \ {r} BY <1>1, <1>9
  <2> QED BY <1>2, <2>1 DEF Sampled, Rowed
<1>13. \A q \in ReqsOf(rows)' : q \in Req \ {r} /\ q \in ReqsOf(rows) BY <1>1, <1>9
<1>14. pc' = "prefilled" => \A q \in ReqsOf(rows)' : q \in retracted' \/ out'[q] = <<>>
  <2>1. pc' = "prefilled" => pc = "prefilled" BY <1>2
  <2> QED BY <1>2, <1>13, <2>1 DEF Sampled, Rowed
<1>15. pc' = "decoded" => \A q \in ReqsOf(rows)' : out'[q] # <<>>
  <2>1. pc' = "decoded" => pc = "decoded" BY <1>2
  <2> QED BY <1>2, <1>13, <2>1 DEF Sampled, Rowed
<1> QED BY <1>6, <1>8, <1>10, <1>11, <1>12, <1>14, <1>15 DEF Rowed

LEMMA TokenStepIs ==
  ASSUME NEW t \in Token, ProcessPrefill(t) \/ ProcessDecode(t)
  PROVE  TokenStep(t)
BY Zenon DEF ProcessPrefill, ProcessDecode, TokenStep

LEMMA StepSampled ==
  ASSUME Located, Sampled, [Next]_vars
  PROVE  Sampled'
<1>1. CASE \E t \in Token : ProcessPrefill(t) \/ ProcessDecode(t)
  BY <1>1, TokenStepIs, TokenRecorded, TokenRowed DEF Sampled
<1> QED BY <1>1, QuietSampled, SubmitSampled, GetNextBatchSampled, ExtendSampled, UpdateSampled,
           RetractSampled, DecodeSampled DEF Next, Step

\* A token of the latent phase is chosen by the latent sampler whatever merging,
\* filtering and retraction did to the batches (schedule_batch.py filter_batch,
\* merge_batch; sampling_batch_info.py latent_modes).
THEOREM LatentTokens == Spec => []LatentIsSampledLatent
<1>1. Init => Located /\ Sampled BY InitLocated, InitSampled
<1>2. Located /\ Sampled /\ [Next]_vars => Located' /\ Sampled' BY StepLocated, StepSampled
<1>3. Sampled => LatentIsSampledLatent BY DEF Sampled, Recorded
<1> QED BY <1>1, <1>2, <1>3, PTL DEF Spec

\* One top-k row is recorded per output, a superposition before the end token and a
\* one-hot row from it on (update_latent_info).
THEOREM RecordedRows == Spec => []RecordFollowsTheSwitch
<1>1. Init => Located /\ Sampled BY InitLocated, InitSampled
<1>2. Located /\ Sampled /\ [Next]_vars => Located' /\ Sampled' BY StepLocated, StepSampled
<1>3. Sampled => RecordFollowsTheSwitch BY DEF Sampled, Recorded
<1> QED BY <1>1, <1>2, <1>3, PTL DEF Spec
-------------------------------------------------------------------------------
(* The tree *)

LEMMA TreeClosed ==
  ASSUME TreeShape
  PROVE  /\ DOMAIN tree \subseteq Seq(Token) /\ <<>> \notin DOMAIN tree /\ nodes \subseteq DOMAIN tree
         /\ \A s \in nodes : s \in Paths(s) /\ Paths(s) \subseteq DOMAIN tree
         /\ \A p \in DOMAIN tree : p \in Paths(p) /\ Paths(p) \subseteq DOMAIN tree
<1>1. ASSUME NEW s \in nodes
      PROVE  /\ s \in Paths(s) /\ Paths(s) \subseteq Seq(Token) /\ <<>> \notin Paths(s)
             /\ \A p \in Paths(s) : p \in Paths(p) /\ Paths(p) \subseteq Paths(s)
  <2>1. s \in Seq(Token) /\ s # <<>> BY DEF TreeShape
  <2>2. Len(s) \in 0 .. Len(s) /\ Len(s) > 0 /\ Take(s, Len(s)) = s BY <2>1, TakeAll
  <2>3. s \in Paths(s) BY <2>1, <2>2, PathsOfTake
  <2> QED BY <2>1, <2>3, PathsSet, PathsTrans
<1>2. \A p \in DOMAIN tree : \E s \in nodes : p \in Paths(s) BY DEF TreeShape
<1>3. \A s \in nodes : Paths(s) \subseteq DOMAIN tree BY DEF TreeShape
<1> QED BY <1>1, <1>2, <1>3

LEMMA Matched ==
  ASSUME TreeShape, NEW s \in Seq(Token), NEW k \in 1 .. Len(s)
  PROVE  Take(s, k) \in DOMAIN tree <=> k <= MatchLen(s)
<1> DEFINE m == MatchLen(s)
<1>1. m \in 0 .. Len(s) /\ Paths(Take(s, m)) \subseteq DOMAIN tree
      /\ (m < Len(s) => Take(s, m + 1) \notin DOMAIN tree)
  BY MatchLenIs
<1> HIDE DEF m
<1>2. ASSUME k <= m PROVE Take(s, k) \in DOMAIN tree
  <2>1. Paths(Take(s, m)) = {Take(s, j) : j \in 1 .. m} BY <1>1, PathsOfTake
  <2>2. k \in 1 .. m BY <1>1, <1>2
  <2> QED BY <1>1, <2>1, <2>2
<1>3. ASSUME k > m, Take(s, k) \in DOMAIN tree PROVE FALSE
  <2>1. k \in 0 .. Len(s) /\ m + 1 \in 1 .. k /\ m < Len(s) BY <1>1, <1>3
  <2>2. Paths(Take(s, k)) = {Take(s, j) : j \in 1 .. k} BY <2>1, PathsOfTake
  <2>3. Take(s, m + 1) \in DOMAIN tree BY <1>3, <2>1, <2>2, TreeClosed
  <2> QED BY <1>1, <2>1, <2>3
<1>4. k <= m \/ k > m BY <1>1
<1> QED BY <1>2, <1>3, <1>4 DEF m

\* A split adds no slot.
LEMMA SplitsIn ==
  ASSUME TreeShape, NEW s \in Seq(Token)
  PROVE  /\ Splits(s) \subseteq Seq(Token) \ {<<>>} /\ Splits(s) \subseteq DOMAIN tree
         /\ Take(s, MatchLen(s)) \in Splits(s) \cup {<<>>}
<1> DEFINE m == MatchLen(s)
<1>1. m \in 0 .. Len(s) /\ Paths(Take(s, m)) \subseteq DOMAIN tree BY MatchLenIs
<1>2. Splits(s) = {Take(s, m)} \ {<<>>} BY DEF Splits
<1> HIDE DEF m
<1>3. Take(s, m) \in Seq(Token) /\ Len(Take(s, m)) = m BY <1>1, TakeSeq
<1>4. Take(s, m) # <<>> => Take(s, m) \in Paths(Take(s, m))
  <2>1. Take(s, m) # <<>> => m > 0 BY <1>1, <1>3
  <2> QED BY <1>1, <2>1, PathsOfTake
<1> QED BY <1>1, <1>2, <1>3, <1>4 DEF m

LEMMA SplitKeeps ==
  ASSUME TreeShape, NEW s \in Seq(Token), tree' = tree, nodes' = nodes \cup Splits(s)
  PROVE  TreeShape'
<1>1. Splits(s) \subseteq Seq(Token) \ {<<>>} /\ Splits(s) \subseteq DOMAIN tree BY SplitsIn
<1>2. \A p \in Splits(s) : Paths(p) \subseteq DOMAIN tree BY <1>1, TreeClosed
<1>3. DOMAIN tree = UNION {Paths(p) : p \in nodes \cup Splits(s)} BY <1>2 DEF TreeShape
<1> QED BY <1>1, <1>3 DEF TreeShape

\* An insertion adds the slots of the prefixes that were not there.
LEMMA InsertKeeps ==
  ASSUME TreeShape, NEW s \in Seq(Token), s # <<>>, NEW kinds \in Seq(Kind), Len(kinds) = Len(s),
         tree' = Inserted(s, kinds), nodes' = nodes \cup Splits(s) \cup {s}
  PROVE  /\ TreeShape' /\ DOMAIN tree' = DOMAIN tree \cup Paths(s)
         /\ \A p \in DOMAIN tree' : tree'[p] = IF p \in DOMAIN tree THEN tree[p] ELSE kinds[Len(p)]
         /\ Cardinality(DOMAIN tree') = Cardinality(DOMAIN tree) + Len(s) - MatchLen(s)
         /\ MatchLen(s) \in 0 .. Len(s) /\ Cardinality(DOMAIN tree) \in Nat
<1> DEFINE m == MatchLen(s)
<1>1. m \in 0 .. Len(s) BY MatchLenIs
<1>2. /\ Paths(s) \subseteq Seq(Token) /\ <<>> \notin Paths(s) /\ IsFiniteSet(Paths(s))
      /\ Cardinality(Paths(s)) = Len(s) /\ \A p \in Paths(s) : Len(p) \in 1 .. Len(s) /\ p = Take(s, Len(p))
  BY PathsSet
<1>3. /\ tree' = [p \in DOMAIN tree \cup Paths(s) |-> IF p \in DOMAIN tree THEN tree[p] ELSE kinds[Len(p)]]
      /\ DOMAIN tree' = DOMAIN tree \cup Paths(s)
  BY DEF Inserted
<1>4. tree' \in [DOMAIN tree' -> Kind]
  <2>1. ASSUME NEW p \in Paths(s) PROVE kinds[Len(p)] \in Kind BY <1>2
  <2>2. \A p \in DOMAIN tree : tree[p] \in Kind BY DEF TreeShape
  <2> QED BY <1>3, <2>1, <2>2
<1>5. Splits(s) \subseteq Seq(Token) \ {<<>>} /\ Splits(s) \subseteq DOMAIN tree BY SplitsIn
<1>6. \A p \in Splits(s) : Paths(p) \subseteq DOMAIN tree BY <1>5, TreeClosed
<1>7. DOMAIN tree' = UNION {Paths(p) : p \in nodes'} BY <1>3, <1>6 DEF TreeShape
<1>8. IsFiniteSet(DOMAIN tree) /\ Cardinality(DOMAIN tree) \in Nat BY FS_CardinalityType DEF TreeShape
<1>9. DOMAIN tree \cap Paths(s) = Paths(Take(s, m))
  <2>1. Paths(Take(s, m)) = {Take(s, k) : k \in 1 .. m} /\ Paths(Take(s, m)) \subseteq Paths(s)
    BY <1>1, PathsOfTake
  <2>2. Paths(Take(s, m)) \subseteq DOMAIN tree BY MatchLenIs
  <2>3. ASSUME NEW p \in DOMAIN tree \cap Paths(s) PROVE p \in Paths(Take(s, m))
    <3>1. Len(p) \in 1 .. Len(s) /\ p = Take(s, Len(p)) BY <1>2
    <3>2. Len(p) <= m BY <3>1, Matched
    <3>3. Len(p) \in 1 .. m BY <1>1, <3>1, <3>2
    <3> QED BY <2>1, <3>1, <3>3
  <2> QED BY <2>1, <2>2, <2>3
<1>10. Cardinality(Paths(Take(s, m))) = m
  <2>1. Take(s, m) \in Seq(Token) /\ Len(Take(s, m)) = m BY <1>1, TakeSeq
  <2> QED BY <2>1, PathsSet
<1>11. /\ IsFiniteSet(DOMAIN tree')
       /\ Cardinality(DOMAIN tree') = Cardinality(DOMAIN tree) + Len(s) - m
  <2>1. /\ IsFiniteSet(DOMAIN tree \cup Paths(s))
        /\ Cardinality(DOMAIN tree \cup Paths(s))
             = Cardinality(DOMAIN tree) + Cardinality(Paths(s)) - Cardinality(DOMAIN tree \cap Paths(s))
    BY <1>2, <1>8, FS_Union
  <2> QED BY <1>2, <1>3, <1>9, <1>10, <2>1
<1>12. nodes' \subseteq Seq(Token) \ {<<>>} BY <1>5 DEF TreeShape
<1>13. TreeShape' BY <1>4, <1>7, <1>11, <1>12 DEF TreeShape
<1> QED BY <1>1, <1>3, <1>8, <1>11, <1>13

\* An eviction takes the slots of unlocked nodes, as many as asked for or all that
\* no path protects.
LEMMA EvictKeeps ==
  ASSUME TreeShape, NEW path, Held(path), NEW n \in Nat, NEW D \in Evictions(n, path), Evict(D)
  PROVE  /\ TreeShape' /\ nodes' \subseteq nodes
         /\ \A r \in Req : Take(Ids(r), path[r]) \in nodes' \cup {<<>>}
         /\ Cardinality(Slots(D)) \in Nat /\ (n = 0 => Cardinality(Slots(D)) = 0)
         /\ Cardinality(DOMAIN tree') = Cardinality(DOMAIN tree) - Cardinality(Slots(D))
         /\ Cardinality(DOMAIN tree) \in Nat
         /\ \/ Cardinality(Slots(D)) >= n
            \/ Cardinality(Slots(D)) = Cardinality(DOMAIN tree \ Protected(path))
         /\ DOMAIN tree' \subseteq DOMAIN tree /\ \A p \in DOMAIN tree' : tree'[p] = tree[p]
<1> DEFINE old == nodes \ Protected(path)
           gone == UNION {Paths(s) : s \in D}
           stay == UNION {Paths(s) : s \in nodes \ D}
<1>1. /\ D \subseteq old
      /\ n = 0 => D = {}
      /\ (D = {} /\ n = 0) \/ Cardinality(Slots(D)) >= n \/ D = old
  BY DEF Evictions
<1>2. Slots(D) = gone \ stay BY Zenon DEF Slots
<1>3. DOMAIN tree = gone \cup stay BY <1>1 DEF TreeShape
<1>4. tree' = [s \in DOMAIN tree \ Slots(D) |-> tree[s]] /\ nodes' = nodes \ D BY DEF Evict
<1>5. DOMAIN tree' = stay BY <1>2, <1>3, <1>4
<1>6. DOMAIN tree' \subseteq DOMAIN tree /\ \A p \in DOMAIN tree' : tree'[p] = tree[p] BY <1>4
<1>7. IsFiniteSet(DOMAIN tree) /\ IsFiniteSet(DOMAIN tree') /\ IsFiniteSet(Slots(D)) /\ Slots(D) \subseteq DOMAIN tree
  BY <1>2, <1>3, <1>6, FS_Subset DEF TreeShape
<1>8. TreeShape'
  <2>1. tree' \in [DOMAIN tree' -> Kind] BY <1>4 DEF TreeShape
  <2>2. nodes' \subseteq Seq(Token) \ {<<>>} BY <1>4 DEF TreeShape
  <2>3. DOMAIN tree' = UNION {Paths(s) : s \in nodes'} BY <1>4, <1>5
  <2> HIDE DEF old, gone, stay
  <2> QED BY <1>7, <2>1, <2>2, <2>3 DEF TreeShape
<1>9. /\ Cardinality(Slots(D)) \in Nat /\ Cardinality(DOMAIN tree) \in Nat
      /\ Cardinality(DOMAIN tree') = Cardinality(DOMAIN tree) - Cardinality(Slots(D))
  <2>1. DOMAIN tree' = DOMAIN tree \ Slots(D) /\ DOMAIN tree \cap Slots(D) = Slots(D) BY <1>4, <1>7
  <2>2. Cardinality(DOMAIN tree \ Slots(D)) = Cardinality(DOMAIN tree) - Cardinality(DOMAIN tree \cap Slots(D))
    BY <1>7, FS_Difference
  <2>3. Cardinality(Slots(D)) \in Nat /\ Cardinality(DOMAIN tree) \in Nat BY <1>7, FS_CardinalityType
  <2> QED BY <2>1, <2>2, <2>3
<1>10. n = 0 => Cardinality(Slots(D)) = 0
  <2>1. D = {} => Slots(D) = {} BY <1>2
  <2> QED BY <1>1, <2>1, FS_EmptySet
<1>11. ASSUME NEW r \in Req PROVE Take(Ids(r), path[r]) \in nodes' \cup {<<>>}
  <2> DEFINE p == Take(Ids(r), path[r])
  <2>1. p \in nodes \cup {<<>>} BY DEF Held
  <2>2. p \in nodes => p \in Paths(p) BY TreeClosed
  <2>3. Paths(p) \subseteq Protected(path) BY DEF Protected
  <2> HIDE DEF p
  <2>4. p \in nodes => p \notin D BY <1>1, <2>2, <2>3
  <2> QED BY <1>4, <2>1, <2>4 DEF p
<1>12. D = old => Slots(D) = DOMAIN tree \ Protected(path)
  <2> SUFFICES ASSUME D = old PROVE Slots(D) = DOMAIN tree \ Protected(path)
    OBVIOUS
  <2>1. nodes \ D = nodes \cap Protected(path) OBVIOUS
  <2>2. ASSUME NEW p \in stay PROVE p \in Protected(path)
    <3>1. PICK s \in nodes : s \in Protected(path) /\ p \in Paths(s) BY <2>1, <2>2
    <3>2. PICK r \in Req : s \in Paths(Take(Ids(r), path[r])) BY <3>1 DEF Protected
    <3>3. Take(Ids(r), path[r]) \in Seq(Token)
      <4>1. Take(Ids(r), path[r]) \in nodes \cup {<<>>} BY DEF Held
      <4>2. nodes \subseteq Seq(Token) /\ <<>> \in Seq(Token) BY DEF TreeShape
      <4> QED BY <4>1, <4>2, Zenon
    <3>4. Paths(s) \subseteq Paths(Take(Ids(r), path[r])) BY <3>2, <3>3, PathsTrans
    <3> QED BY <3>1, <3>4 DEF Protected
  <2>3. ASSUME NEW p \in DOMAIN tree, p \in Protected(path) PROVE p \in stay
    <3>1. PICK r \in Req : p \in Paths(Take(Ids(r), path[r])) BY <2>3 DEF Protected
    <3> DEFINE s == Take(Ids(r), path[r])
    <3>2. s \in nodes \cup {<<>>} BY DEF Held
    <3>3. s # <<>>
      <4>1. Paths(<<>>) = {} BY DEF Paths
      <4> QED BY <3>1, <4>1
    <3>4. s \in Protected(path)
      <4>1. s \in Paths(s) BY <3>2, <3>3, TreeClosed
      <4> QED BY <4>1 DEF Protected
    <3> HIDE DEF s
    <3>5. s \in nodes \ D BY <2>1, <3>2, <3>3, <3>4
    <3> QED BY <3>1, <3>5 DEF s
  <2> HIDE DEF stay, gone, old
  <2> QED BY <1>2, <1>3, <2>2, <2>3
<1>13. nodes' \subseteq nodes BY <1>4
<1>14. \/ Cardinality(Slots(D)) >= n
       \/ Cardinality(Slots(D)) = Cardinality(DOMAIN tree \ Protected(path))
  <2>1. n = 0 => Cardinality(Slots(D)) >= n BY <1>9
  <2> QED BY <1>1, <1>12, <2>1
<1> QED BY <1>6, <1>8, <1>9, <1>10, <1>11, <1>13, <1>14
-------------------------------------------------------------------------------
(* The third layer: the pool is divided *)

LEMMA ReqFinite == IsFiniteSet(Req) /\ Req \subseteq Nat
<1>1. Len(Prompt) \in Nat /\ Req = 1 .. Len(Prompt) BY SchedulerAssumption DEF Req
<1> QED BY <1>1, FS_Interval

\* What the requests hold beyond the tree.
Used == Total([r \in Req |-> Len(kv[r]) - locked[r]], Req)

LEMMA UsedInt ==
  ASSUME MemoryTyped
  PROVE  Used \in Int
<1> DEFINE f == [r \in Req |-> Len(kv[r]) - locked[r]]
<1>1. \A r \in Req : f[r] \in Int BY DEF MemoryTyped
<1> HIDE DEF f
<1>2. Total(f, Req) \in Int BY <1>1, ReqFinite, TotalType
<1> QED BY <1>2 DEF Used, f

LEMMA UsedChange ==
  ASSUME MemoryTyped, MemoryTyped', NEW r \in Req,
         \A q \in Req \ {r} : kv'[q] = kv[q] /\ locked'[q] = locked[q]
  PROVE  Used' = Used - (Len(kv[r]) - locked[r]) + (Len(kv'[r]) - locked'[r])
<1> DEFINE f == [q \in Req |-> Len(kv[q]) - locked[q]]
           g == [q \in Req |-> Len(kv'[q]) - locked'[q]]
<1>1. \A q \in Req : f[q] \in Int BY DEF MemoryTyped
<1>2. g[r] \in Int BY DEF MemoryTyped
<1>3. \A q \in Req \ {r} : g[q] = f[q] OBVIOUS
<1>4. f[r] = Len(kv[r]) - locked[r] /\ g[r] = Len(kv'[r]) - locked'[r] OBVIOUS
<1>5. Used = Total(f, Req) /\ Used' = Total(g, Req) BY DEF Used
<1> HIDE DEF f, g
<1>6. Total(g, Req) = Total(f, Req) - f[r] + g[r] BY <1>1, <1>2, <1>3, ReqFinite, TotalChange
<1> QED BY <1>4, <1>5, <1>6

LEMMA UsedSame ==
  ASSUME UNCHANGED <<kv, locked>>
  PROVE  Used' = Used
BY DEF Used

LEMMA PoolIs == PoolConserved <=> avail + Cardinality(DOMAIN tree) + Used = Pool
BY DEF PoolConserved, Used

LEMMA LengthsSame ==
  ASSUME Lengths, UNCHANGED <<kv, locked, out>>, Live' = Live, Adding' = Adding,
         ReqsOf(rows)' = ReqsOf(rows)
  PROVE  Lengths'
BY DEF Lengths, Ids

LEMMA HeldSame ==
  ASSUME Held(locked), UNCHANGED <<locked, out>>, nodes \subseteq nodes'
  PROVE  Held(locked)'
BY DEF Held, Ids

LEMMA InitDivided == Init => Divided
<1> SUFFICES ASSUME Init PROVE Divided
  OBVIOUS
<1>1. /\ kv = [r \in Req |-> <<>>] /\ locked = [r \in Req |-> 0] /\ tree = [s \in {} |-> "hard"]
      /\ nodes = {} /\ avail = Pool /\ adding = <<>> /\ running = <<>> /\ last = <<>> /\ rows = <<>>
  BY DEF Init
<1>2. MemoryTyped BY <1>1, PoolAssumption DEF MemoryTyped
<1>3. DOMAIN tree = {} BY <1>1
<1>4. TreeShape
  <2>1. tree \in [DOMAIN tree -> Kind] BY <1>1
  <2> QED BY <1>1, <1>3, <2>1, FS_EmptySet DEF TreeShape
<1>5. Held(locked)
  <2> SUFFICES ASSUME NEW r \in Req
               PROVE  locked[r] \in 0 .. Len(Ids(r)) /\ Take(Ids(r), locked[r]) \in nodes \cup {<<>>}
    BY DEF Held
  <2>1. Ids(r) \in Seq(Token) BY InitLocated, IdsSeq DEF Located
  <2>2. locked[r] = 0 BY <1>1
  <2>3. Len(Ids(r)) \in Nat /\ Take(Ids(r), 0) = <<>> BY <2>1, TakeAll
  <2> QED BY <2>2, <2>3
<1>6. Lengths
  <2>1. Adding = {} /\ Live = {} BY <1>1 DEF Adding, Live, Active, ReqsOf
  <2> QED BY <1>1, <2>1 DEF Lengths
<1>7. Used = 0
  <2> DEFINE f == [r \in Req |-> Len(kv[r]) - locked[r]]
  <2>1. \A r \in Req : f[r] = 0 BY <1>1
  <2> HIDE DEF f
  <2>2. Total(f, Req) = 0 BY <2>1, ReqFinite, TotalZero
  <2> QED BY <2>2 DEF Used, f
<1>8. PoolConserved BY <1>1, <1>3, <1>7, PoolIs, PoolAssumption, FS_EmptySet
<1> QED BY <1>2, <1>4, <1>5, <1>6, <1>8 DEF Divided

\* The steps that leave the memory alone, and change no request's place.
LEMMA QuietDivided ==
  ASSUME Divided, UNCHANGED <<kv, locked, tree, nodes, avail, out>>, Live' = Live, Adding' = Adding,
         ReqsOf(rows)' = ReqsOf(rows)
  PROVE  Divided'
<1>1. MemoryTyped' /\ TreeShape' BY DEF Divided, MemoryTyped, TreeShape
<1>2. Held(locked)' BY HeldSame DEF Divided
<1>3. Lengths' BY LengthsSame DEF Divided
<1>4. PoolConserved' BY DEF Divided, PoolConserved
<1> QED BY <1>1, <1>2, <1>3, <1>4 DEF Divided

LEMMA SubmitDivided ==
  ASSUME Divided, Submit
  PROVE  Divided'
<1>1. UNCHANGED <<kv, locked, tree, nodes, avail, out, running, last, rows, adding, done>>
  BY DEF Submit, memory, reqs, loop
<1>2. Live' = Live /\ Adding' = Adding /\ ReqsOf(rows)' = ReqsOf(rows)
  BY <1>1 DEF Live, Active, Adding, ReqsOf
<1> QED BY <1>1, <1>2, QuietDivided

LEMMA SameDivided ==
  ASSUME Divided, KeepLastReq \/ UNCHANGED vars
  PROVE  Divided'
<1>1. UNCHANGED <<kv, locked, tree, nodes, avail, out, running, last, rows, adding, done>>
  BY DEF KeepLastReq, vars, memory, reqs, loop, queues
<1>2. Live' = Live /\ Adding' = Adding /\ ReqsOf(rows)' = ReqsOf(rows)
  BY <1>1 DEF Live, Active, Adding, ReqsOf
<1> QED BY <1>1, <1>2, QuietDivided

LEMMA GetNextBatchDivided ==
  ASSUME Located, Divided, GetNextBatch
  PROVE  Divided'
<1>1. pc = "recv" /\ UNCHANGED <<kv, locked, tree, nodes, avail, out, rows, done>>
  BY DEF GetNextBatch, memory, reqs
<1>2. /\ rows = <<>> /\ adding' = <<>> /\ ReqsOf(last)' = {} /\ ReqsOf(running)' = ReqsOf(Merged)
      /\ ReqsOf(Merged) = ReqsOf(running) \cup {r \in ReqsOf(last) : ~done[r]}
  BY GetNextBatchLocated, MergedRows
<1>3. adding = <<>> BY <1>1 DEF Located, Loop
<1>4. Live' = Live BY <1>1, <1>2 DEF Live, Active
<1>5. Adding' = Adding /\ ReqsOf(rows)' = ReqsOf(rows) BY <1>1, <1>2, <1>3 DEF Adding, ReqsOf
<1> QED BY <1>1, <1>4, <1>5, QuietDivided

LEMMA EndOfAddingDivided ==
  ASSUME Located, Divided, EndOfAdding
  PROVE  Divided'
<1>1. /\ pc = "admit" /\ UNCHANGED <<kv, locked, tree, avail, out, running, last, rows, adding, done>>
      /\ \/ nodes' = nodes
         \/ Len(adding) < Len(waiting) /\ nodes' = nodes \cup Splits(MaxPrefix(Candidate))
  BY DEF EndOfAdding, reqs
<1>2. Live' = Live /\ Adding' = Adding /\ ReqsOf(rows)' = ReqsOf(rows)
  BY <1>1 DEF Live, Active, Adding, ReqsOf
<1>3. CASE nodes' = nodes BY <1>1, <1>2, <1>3, QuietDivided
<1>4. CASE Len(adding) < Len(waiting) /\ nodes' = nodes \cup Splits(MaxPrefix(Candidate))
  <2>1. Candidate \in Req BY <1>4 DEF Located, Typed, Candidate
  <2>2. MaxPrefix(Candidate) \in Seq(Token) BY <2>1, MaxPrefixIs DEF Located
  <2>3. TreeShape' BY <1>1, <1>4, <2>2, SplitKeeps DEF Divided
  <2>4. MemoryTyped' BY <1>1 DEF Divided, MemoryTyped
  <2>5. Held(locked)' BY <1>1, <1>4, HeldSame DEF Divided
  <2>6. Lengths' BY <1>1, <1>2, LengthsSame DEF Divided
  <2>7. PoolConserved' BY <1>1 DEF Divided, PoolConserved
  <2> QED BY <2>3, <2>4, <2>5, <2>6, <2>7 DEF Divided
<1> QED BY <1>1, <1>3, <1>4
LEMMA KindsSeq ==
  ASSUME NEW t, NEW s \in Seq(Token), \A p \in Paths(s) : t[p] \in Kind
  PROVE  /\ Kinds(t, s) \in Seq(Kind) /\ Len(Kinds(t, s)) = Len(s) /\ DOMAIN Kinds(t, s) = 1 .. Len(s)
         /\ \A n \in 1 .. Len(s) : Kinds(t, s)[n] = t[Take(s, n)]
<1> DEFINE k == [n \in 1 .. Len(s) |-> t[Take(s, n)]]
<1>1. \A n \in 1 .. Len(s) : Take(s, n) \in Paths(s) BY DEF Paths
<1>2. \A n \in 1 .. Len(s) : t[Take(s, n)] \in Kind BY <1>1
<1>3. k \in [1 .. Len(s) -> Kind] /\ DOMAIN k = 1 .. Len(s) /\ \A n \in 1 .. Len(s) : k[n] = t[Take(s, n)]
  BY <1>2
<1>4. Kinds(t, s) = k BY DEF Kinds
<1> HIDE DEF k
<1>5. Len(s) \in Nat OBVIOUS
<1>6. k \in Seq(Kind) /\ Len(k) = Len(s) BY <1>3, <1>5
<1> QED BY <1>3, <1>4, <1>6

\* What a request about to be prefilled lacks is never negative.
LEMMA NeedNat ==
  ASSUME Located, Held(locked)
  PROVE  /\ Need \in Nat /\ \A r \in Req : Len(Ids(r)) - locked[r] \in Nat
         /\ \A i \in DOMAIN adding : adding[i] \in Req
         /\ DOMAIN adding = 1 .. Len(adding) /\ Len(adding) \in Nat /\ IsFiniteSet(DOMAIN adding)
<1> DEFINE f == [i \in DOMAIN adding |-> Len(Ids(adding[i])) - locked[adding[i]]]
           z == [i \in DOMAIN adding |-> 0]
<1>1. \A r \in Req : Len(Ids(r)) - locked[r] \in Nat
  <2> TAKE r \in Req
  <2>1. Ids(r) \in Seq(Token) BY IdsSeq DEF Located
  <2>2. Len(Ids(r)) \in Nat BY <2>1
  <2>3. locked[r] \in 0 .. Len(Ids(r)) BY DEF Held
  <2> QED BY <2>2, <2>3
<1>2. \A i \in DOMAIN adding : adding[i] \in Req BY DEF Located, Typed
<1>3. DOMAIN adding = 1 .. Len(adding) /\ Len(adding) \in Nat BY DEF Located, Typed
<1>4. IsFiniteSet(DOMAIN adding) BY <1>3, FS_Interval
<1>5. \A i \in DOMAIN adding : f[i] \in Int /\ z[i] \in Int /\ z[i] <= f[i] /\ z[i] = 0 BY <1>1, <1>2
<1>6. Need = Total(f, DOMAIN adding) BY DEF Need
<1> HIDE DEF f, z
<1>7. Total(f, DOMAIN adding) \in Int /\ Total(z, DOMAIN adding) = 0
      /\ Total(z, DOMAIN adding) <= Total(f, DOMAIN adding)
  BY <1>4, <1>5, TotalType, TotalZero, TotalAtMost
<1> QED BY <1>1, <1>2, <1>3, <1>4, <1>6, <1>7

LEMMA FreeInt ==
  ASSUME TreeShape, avail \in Int, NEW path
  PROVE  Free(path) \in Int /\ Cardinality(DOMAIN tree \ Protected(path)) \in Nat /\ Free(path) >= avail
<1>1. IsFiniteSet(DOMAIN tree \ Protected(path)) BY FS_Subset DEF TreeShape
<1>2. Cardinality(DOMAIN tree \ Protected(path)) \in Nat BY <1>1, FS_CardinalityType
<1> QED BY <1>2 DEF Free

\* What is admitted fits, with what was admitted before it.
LEMMA AddOneReqDivided ==
  ASSUME Located, Divided, Room, AddOneReq
  PROVE  Divided' /\ Room'
<1>1. PICK r \in Req : r = Candidate
  <2>1. Candidate \in Req BY DEF AddOneReq, Located, Typed, Candidate
  <2> QED BY <2>1
<1>2. /\ r \in Queued /\ r \notin Adding /\ Adding' = Adding \cup {r} /\ Located' BY <1>1, AddOneReqLocated
<1> DEFINE n == Len(adding)
           p == MatchLen(MaxPrefix(r))
           path == [locked EXCEPT ![r] = p]
           s == Take(Ids(r), p)
           cost == Len(Ids(r)) - p + MaxNew[r]
<1>3. /\ pc = "admit" /\ Fits(r, p) /\ locked' = path /\ kv' = [kv EXCEPT ![r] = Kinds(tree, s)]
      /\ adding' = Append(adding, r) /\ offset' = offset + cost
      /\ nodes' = nodes \cup Splits(MaxPrefix(r)) /\ pc' \in {"extend", "admit"}
      /\ UNCHANGED <<rows, running, last, out, done, tree, avail>>
  BY <1>1, Zenon DEF AddOneReq, reqs
<1>4. /\ MaxPrefix(r) \in Seq(Token) /\ p \in 0 .. Len(MaxPrefix(r)) /\ p \in 0 .. Len(Ids(r))
      /\ s = Take(MaxPrefix(r), p) /\ Ids(r) \in Seq(Token) /\ Len(Ids(r)) \in Nat /\ MaxNew[r] \in Nat
  <2>1. Ids(r) \in Seq(Token) /\ MaxNew[r] \in Nat BY IdsSeq DEF Located
  <2>2. Len(Ids(r)) \in Nat BY <2>1
  <2>3. /\ MaxPrefix(r) \in Seq(Token) /\ Len(MaxPrefix(r)) \in 0 .. Len(Ids(r)) - 1
        /\ p \in 0 .. Len(MaxPrefix(r))
        /\ \A m \in 0 .. Len(MaxPrefix(r)) : Take(MaxPrefix(r), m) = Take(Ids(r), m)
    BY MaxPrefixIs DEF Located
  <2>4. s = Take(MaxPrefix(r), p) BY <2>3
  <2>5. p \in 0 .. Len(Ids(r))
    <3> HIDE DEF p
    <3> QED BY <2>2, <2>3
  <2> QED BY <2>1, <2>2, <2>3, <2>4, <2>5
<1>5. Paths(s) \subseteq DOMAIN tree /\ s \in Seq(Token) /\ Len(s) = p
  <2>1. Paths(Take(MaxPrefix(r), p)) \subseteq DOMAIN tree BY <1>4, MatchLenIs
  <2>2. Take(Ids(r), p) \in Seq(Token) /\ Len(Take(Ids(r), p)) = p
    <3> HIDE DEF p
    <3> QED BY <1>4, TakeSeq
  <2> QED BY <1>4, <2>1, <2>2
<1>6. Kinds(tree, s) \in Seq(Kind) /\ Len(Kinds(tree, s)) = p
  <2>1. \A q \in Paths(s) : tree[q] \in Kind BY <1>5 DEF Divided, TreeShape
  <2> HIDE DEF s, p
  <2> QED BY <1>5, <2>1, KindsSeq
<1>7. s \in nodes'  \cup {<<>>} BY <1>3, <1>4, SplitsIn DEF Divided
<1>8. TreeShape' BY <1>3, <1>4, SplitKeeps DEF Divided
<1> HIDE DEF s, p
<1>9. MemoryTyped' BY <1>3, <1>4, <1>6 DEF Divided, MemoryTyped
<1>10. /\ kv'[r] = Kinds(tree, s) /\ locked'[r] = p
       /\ \A q \in Req \ {r} : kv'[q] = kv[q] /\ locked'[q] = locked[q]
  BY <1>3 DEF Divided, MemoryTyped
<1>11. Held(locked)'
  <2> SUFFICES ASSUME NEW q \in Req
               PROVE  locked'[q] \in 0 .. Len(Ids(q)) /\ Take(Ids(q), locked'[q]) \in nodes' \cup {<<>>}
    BY <1>3 DEF Held, Ids
  <2>1. CASE q = r BY <1>4, <1>7, <1>10, <2>1 DEF s
  <2>2. CASE q # r BY <1>3, <1>10, <2>2 DEF Divided, Held
  <2> QED BY <2>1, <2>2
<1>12. Live' = Live /\ ReqsOf(rows)' = ReqsOf(rows) BY <1>3 DEF Live, Active, ReqsOf
<1>13. r \notin Live BY <1>2 DEF Live, Located, Placed
<1>14. kv[r] = <<>> /\ locked[r] = 0 BY <1>2, <1>13 DEF Divided, Lengths
<1>15. Lengths'
  <2> SUFFICES ASSUME NEW q \in Req
               PROVE  /\ q \in Adding' => Len(kv'[q]) = locked'[q]
                      /\ q \in Live =>
                           /\ Len(kv'[q]) = IF q \in ReqsOf(rows) THEN Len(Ids(q)) ELSE Len(Ids(q)) - 1
                           /\ locked'[q] <= Len(kv'[q])
                      /\ q \notin Adding' \cup Live => kv'[q] = <<>> /\ locked'[q] = 0
    BY <1>3, <1>12 DEF Lengths, Ids
  <2>1. CASE q = r BY <1>2, <1>6, <1>10, <1>13, <2>1
  <2>2. CASE q # r BY <1>2, <1>10, <2>2 DEF Divided, Lengths
  <2> QED BY <2>1, <2>2
<1>16. PoolConserved'
  <2>1. Used' = Used - (Len(kv[r]) - locked[r]) + (Len(kv'[r]) - locked'[r])
    BY <1>9, <1>10, UsedChange DEF Divided
  <2>2. Used \in Int /\ p \in Int BY <1>4, UsedInt DEF Divided
  <2>3. Used' = Used BY <1>6, <1>10, <1>14, <2>1, <2>2
  <2>4. PoolConserved' <=> avail' + Cardinality(DOMAIN tree)' + Used' = Pool BY DEF PoolConserved, Used
  <2> QED BY <1>3, <2>3, <2>4, PoolIs DEF Divided
<1>17. Need' = Need + (Len(Ids(r)) - p)
  <2> DEFINE f == [i \in DOMAIN adding |-> Len(Ids(adding[i])) - locked[adding[i]]]
             g == [i \in DOMAIN adding' |-> Len(Ids(adding'[i])) - locked'[adding'[i]]]
  <2>1. Need = Total(f, DOMAIN adding) BY DEF Need
  <2>2. Need' = Total(g, DOMAIN adding') BY <1>3 DEF Need, Ids
  <2>3. /\ DOMAIN adding = 1 .. n /\ n \in Nat /\ IsFiniteSet(1 .. n)
        /\ \A i \in 1 .. n : adding[i] \in Req
        /\ \A q \in Req : Len(Ids(q)) - locked[q] \in Nat
    BY NeedNat DEF Divided
  <2>4. /\ DOMAIN adding' = (1 .. n) \cup {n + 1} /\ n + 1 \notin 1 .. n /\ adding'[n + 1] = r
        /\ \A i \in 1 .. n : adding'[i] = adding[i]
    <3>1. adding \in Seq(Req) /\ adding' = Append(adding, r) BY <1>3 DEF Located, Typed
    <3>2. DOMAIN adding' = 1 .. n + 1 /\ adding'[n + 1] = r /\ \A i \in 1 .. n : adding'[i] = adding[i]
      BY <3>1
    <3> HIDE DEF n
    <3>3. 1 .. n + 1 = (1 .. n) \cup {n + 1} /\ n + 1 \notin 1 .. n BY <2>3
    <3> QED BY <3>2, <3>3
  <2>5. \A i \in 1 .. n : adding[i] \in Adding /\ adding[i] # r BY <1>2, <2>3 DEF Adding
  <2>6. \A i \in 1 .. n : g[i] = f[i] /\ f[i] \in Int BY <1>10, <2>3, <2>4, <2>5
  <2>7. g[n + 1] = Len(Ids(r)) - p /\ g[n + 1] \in Int BY <1>4, <1>10, <2>4
  <2> HIDE DEF f, g, n
  <2>8. Total(f, 1 .. n) = Total(g, 1 .. n) BY <2>3, <2>6, TotalSame
  <2>9. \A i \in (1 .. n) \cup {n + 1} : g[i] \in Int BY <2>6, <2>7
  <2>10. Total(g, (1 .. n) \cup {n + 1}) = g[n + 1] + Total(g, 1 .. n) BY <2>3, <2>4, <2>9, TotalAdd
  <2>11. Total(f, 1 .. n) \in Int BY <2>3, <2>6, TotalType
  <2>12. Need' = Total(g, (1 .. n) \cup {n + 1}) BY <2>2, <2>4
  <2>13. Need = Total(f, 1 .. n) BY <2>1, <2>3
  <2> QED BY <2>7, <2>8, <2>10, <2>11, <2>12, <2>13
<1>18. Room'
  <2>1. Need \in Nat /\ Need <= offset /\ offset \in Int
    BY <1>3, NeedNat DEF Divided, Room, Located, Typed
  <2>2. Free(locked)' = Free(path) BY <1>3 DEF Free, Protected, Ids
  <2>3. cost <= Free(path) - offset BY <1>3 DEF Fits
  <2>4. Free(path) \in Int BY FreeInt DEF Divided, MemoryTyped
  <2>5. cost = Len(Ids(r)) - p + MaxNew[r] OBVIOUS
  <2> HIDE DEF path, cost
  <2>6. Need' <= offset' BY <1>3, <1>4, <1>17, <2>1, <2>5
  <2>7. Need' <= Free(path) BY <1>4, <1>17, <2>1, <2>3, <2>4, <2>5
  <2>8. pc' # "decoding" BY <1>3
  <2>9. avail' >= 0 BY <1>3 DEF Room
  <2> QED BY <2>2, <2>6, <2>7, <2>8, <2>9 DEF Room
<1> QED BY <1>8, <1>9, <1>11, <1>15, <1>16, <1>18 DEF Divided
\* The requests A = {s[1], ..., s[n]}, each written g[r] positions, u[i] for s[i].
Writes(n, s, g, u, A) ==
  /\ n \in Nat /\ A = {s[i] : i \in 1 .. n} /\ A \subseteq Req
  /\ \A i, j \in 1 .. n : s[i] = s[j] => i = j
  /\ \A r \in Req : g[r] \in Int
  /\ \A i \in 1 .. n : u[i] = g[s[i]]

LEMMA UsedPlus ==
  ASSUME MemoryTyped, MemoryTyped', locked' = locked,
         NEW n, NEW s, NEW g, NEW u, NEW A, Writes(n, s, g, u, A),
         \A r \in Req : Len(kv'[r]) = Len(kv[r]) + (IF r \in A THEN g[r] ELSE 0)
  PROVE  Used' = Used + Total(u, 1 .. n)
<1> DEFINE f == [r \in Req |-> Len(kv[r]) - locked[r]]
           h == [r \in Req |-> Len(kv'[r]) - locked'[r]]
           d == [r \in Req |-> IF r \in A THEN g[r] ELSE 0]
<1>1. IsFiniteSet(Req) BY ReqFinite
<1>2. Total(u, 1 .. n) = Total(d, Req)
  <2>1. \A r \in Req : d[r] = IF \E i \in 1 .. n : s[i] = r THEN g[r] ELSE 0 BY DEF Writes
  <2>2. \A i \in 1 .. n : s[i] \in Req BY DEF Writes
  <2> HIDE DEF d
  <2>3. Listed(Req, g, n, s, u, d) BY <1>1, <2>1, <2>2 DEF Writes, Listed
  <2> QED BY <2>3, TotalListed
<1>3. ASSUME NEW r \in Req PROVE f[r] \in Int /\ d[r] \in Int /\ h[r] = f[r] + d[r]
  <2>1. d[r] = (IF r \in A THEN g[r] ELSE 0) /\ g[r] \in Int BY DEF Writes
  <2>2. Len(kv[r]) \in Int /\ locked[r] \in Int /\ f[r] = Len(kv[r]) - locked[r]
        /\ h[r] = Len(kv'[r]) - locked[r]
    BY DEF MemoryTyped
  <2> HIDE DEF f, h, d
  <2> QED BY <2>1, <2>2
<1>4. Used = Total(f, Req) /\ Used' = Total(h, Req) BY DEF Used
<1> HIDE DEF f, h, d
<1>5. Total(h, Req) = Total(f, Req) + Total(d, Req) BY <1>1, <1>3, TotalPlus
<1> QED BY <1>2, <1>4, <1>5

LEMMA HardSeq ==
  ASSUME NEW n \in Nat
  PROVE  [i \in 1 .. n |-> "hard"] \in Seq(Kind) /\ Len([i \in 1 .. n |-> "hard"]) = n
<1>1. [i \in 1 .. n |-> "hard"] \in [1 .. n -> Kind] BY DEF Kind
<1> QED BY <1>1

\* An eviction under the paths that are held, for want of n slots.
LEMMA EvictHeld ==
  ASSUME Divided, NEW n \in Nat, NEW D \in Evictions(IF avail < n THEN n ELSE 0, locked), Evict(D),
         UNCHANGED <<locked, out>>, avail >= 0
  PROVE  /\ TreeShape' /\ Held(locked)' /\ Cardinality(Slots(D)) \in Nat
         /\ Cardinality(DOMAIN tree') = Cardinality(DOMAIN tree) - Cardinality(Slots(D))
         /\ Cardinality(DOMAIN tree) \in Nat
         /\ avail + Cardinality(Slots(D)) >= n \/ avail + Cardinality(Slots(D)) = Free(locked)
<1> DEFINE want == IF avail < n THEN n ELSE 0
           c == Cardinality(Slots(D))
<1>1. want \in Nat OBVIOUS
<1>2. /\ TreeShape' /\ \A r \in Req : Take(Ids(r), locked[r]) \in nodes' \cup {<<>>}
      /\ c \in Nat /\ Cardinality(DOMAIN tree') = Cardinality(DOMAIN tree) - c
      /\ Cardinality(DOMAIN tree) \in Nat
      /\ c >= want \/ c = Cardinality(DOMAIN tree \ Protected(locked))
  <2> HIDE DEF c
  <2> QED BY <1>1, EvictKeeps DEF Divided, c
<1>3. Held(locked)' BY <1>2 DEF Divided, Held, Ids
<1>4. avail \in Int BY DEF Divided, MemoryTyped
<1> HIDE DEF c
<1>5. avail + c >= n \/ avail + c = Free(locked)
  <2>1. CASE c >= want BY <1>2, <1>4, <2>1
  <2>2. CASE c = Cardinality(DOMAIN tree \ Protected(locked))
    <3>1. Free(locked) = avail + Cardinality(DOMAIN tree \ Protected(locked)) BY DEF Free
    <3> QED BY <2>2, <3>1
  <2> QED BY <1>2, <2>1, <2>2
<1> QED BY <1>2, <1>3, <1>4, <1>5 DEF c

LEMMA ExtendDivided ==
  ASSUME Located, Divided, Room, RunExtend
  PROVE  Divided' /\ Room'
<1> DEFINE len == Len(adding)
           g == [r \in Req |-> Len(Ids(r)) - locked[r]]
<1>1. /\ pc = "extend" /\ pc' = "prefilled" /\ adding' = <<>>
      /\ UNCHANGED <<running, out, done, locked>>
      /\ kv' = [r \in Req |-> IF r \in ToSet(adding)
                              THEN kv[r] \o [n \in 1 .. Len(Ids(r)) - locked[r] |-> "hard"]
                              ELSE kv[r]]
  BY DEF RunExtend, reqs
<1>2. PICK D \in Evictions(IF avail < Need THEN Need ELSE 0, locked) :
        Evict(D) /\ avail' = avail + Cardinality(Slots(D)) - Need
  BY Zenon DEF RunExtend, Need
<1>3. /\ Located' /\ Adding \subseteq Queued /\ ReqsOf(rows)' = Adding /\ ReqsOf(last)' = Adding
      /\ ReqsOf(running)' = ReqsOf(running)
  BY ExtendLocated
<1>4. /\ Need \in Nat /\ \A r \in Req : Len(Ids(r)) - locked[r] \in Nat
      /\ \A i \in DOMAIN adding : adding[i] \in Req
      /\ DOMAIN adding = 1 .. len /\ len \in Nat
  BY NeedNat DEF Divided
<1>5. ToSet(adding) = Adding /\ Adding \subseteq Req /\ \A i \in 1 .. len : adding[i] \in Req
  <2>1. ToSet(adding) = Adding BY DEF ToSet, Adding
  <2> QED BY <1>4, <2>1, LocatedReqs DEF Located
<1> DEFINE c == Cardinality(Slots(D))
<1>6. /\ TreeShape' /\ Held(locked)' /\ c \in Nat
      /\ Cardinality(DOMAIN tree') = Cardinality(DOMAIN tree) - c /\ Cardinality(DOMAIN tree) \in Nat
      /\ avail + c >= Need \/ avail + c = Free(locked)
  BY <1>1, <1>2, <1>4, EvictHeld DEF Room
<1>7. ASSUME NEW r \in Req
      PROVE  /\ kv'[r] \in Seq(Kind)
             /\ Len(kv'[r]) = Len(kv[r]) + (IF r \in Adding THEN Len(Ids(r)) - locked[r] ELSE 0)
             /\ r \notin Adding => kv'[r] = kv[r]
             /\ r \in Adding => Len(kv'[r]) = Len(Ids(r))
  <2> DEFINE more == Len(Ids(r)) - locked[r]
             hard == [n \in 1 .. more |-> "hard"]
  <2>1. kv'[r] = IF r \in Adding THEN kv[r] \o hard ELSE kv[r] BY <1>1, <1>5
  <2>2. more \in Nat BY <1>4
  <2>3. hard \in Seq(Kind) /\ Len(hard) = more
    <3> HIDE DEF more
    <3> QED BY <2>2, HardSeq
  <2>4. kv[r] \in Seq(Kind) BY DEF Divided, MemoryTyped
  <2>5. r \in Adding => Len(kv[r]) = locked[r] BY DEF Divided, Lengths
  <2>6. Len(Ids(r)) \in Nat /\ locked[r] \in Nat /\ more = Len(Ids(r)) - locked[r]
    <3>1. Ids(r) \in Seq(Token) BY IdsSeq DEF Located
    <3> QED BY <3>1 DEF Divided, MemoryTyped
  <2> HIDE DEF hard, more
  <2>7. kv[r] \o hard \in Seq(Kind) /\ Len(kv[r] \o hard) = Len(kv[r]) + more /\ Len(kv[r]) \in Nat
    BY <2>3, <2>4
  <2> QED BY <2>1, <2>4, <2>5, <2>6, <2>7
<1>8. MemoryTyped'
  <2>1. avail' \in Int BY <1>2, <1>4, <1>6 DEF Divided, MemoryTyped
  <2>2. kv' \in [Req -> Seq(Kind)] BY <1>1, <1>7
  <2> QED BY <1>1, <2>1, <2>2 DEF Divided, MemoryTyped
<1>9. rows = <<>> /\ last = <<>> BY <1>1 DEF Located, Loop
<1>10. ReqsOf(rows) = {} /\ ReqsOf(last) = {} /\ Adding' = {} BY <1>1, <1>9 DEF ReqsOf, Adding
<1>11. Live' = Live \cup Adding /\ Live \cap Adding = {}
  <2>1. \A r \in Adding : ~done[r] /\ r \notin Active BY <1>3 DEF Located, Placed
  <2>2. Active' = Active \cup Adding BY <1>3, <1>10 DEF Active
  <2> QED BY <1>1, <2>1, <2>2 DEF Live
<1>12. Lengths'
  <2> SUFFICES ASSUME NEW r \in Req
               PROVE  /\ r \in Live \cup Adding =>
                           /\ Len(kv'[r]) = IF r \in Adding THEN Len(Ids(r)) ELSE Len(Ids(r)) - 1
                           /\ locked[r] <= Len(kv'[r])
                      /\ r \notin Live \cup Adding => kv'[r] = <<>> /\ locked[r] = 0
    BY <1>1, <1>3, <1>10, <1>11 DEF Lengths, Ids
  <2>1. CASE r \in Adding
    <3>1. locked[r] \in 0 .. Len(Ids(r)) BY DEF Divided, Held
    <3> QED BY <1>7, <2>1, <3>1
  <2>2. CASE r \notin Adding BY <1>7, <1>10, <2>2 DEF Divided, Lengths
  <2> QED BY <2>1, <2>2
<1>13. Used' = Used + Need
  <2>0. \A i \in 1 .. len : adding[i] \in Req BY <1>5 DEF Adding
  <2> DEFINE u == [i \in DOMAIN adding |-> Len(Ids(adding[i])) - locked[adding[i]]]
  <2>1. \A r \in Req : g[r] \in Int /\ g[r] = Len(Ids(r)) - locked[r] BY <1>4
  <2>2. \A i, j \in 1 .. len : adding[i] = adding[j] => i = j
    <3>1. \A i \in DOMAIN adding : i \in DOMAIN waiting /\ adding[i] = waiting[i]
      <4>1. waiting \in Seq(Req) /\ len <= Len(waiting) /\ \A i \in DOMAIN adding : adding[i] = waiting[i]
        BY DEF Located, Typed, Loop
      <4> HIDE DEF len
      <4>2. \A i \in 1 .. len : i \in 1 .. Len(waiting) BY <1>4, <4>1
      <4> QED BY <1>4, <4>1, <4>2
    <3> QED BY <1>4, <3>1 DEF Located, Placed
  <2>3. Adding = {adding[i] : i \in 1 .. len} BY <1>4 DEF Adding
  <2>4. \A i \in 1 .. len : u[i] = g[adding[i]]
    <3>1. \A i \in 1 .. len : u[i] = Len(Ids(adding[i])) - locked[adding[i]] BY <1>4
    <3> HIDE DEF u, len, g
    <3> QED BY <2>0, <2>1, <3>1
  <2>5. \A r \in Req : Len(kv'[r]) = Len(kv[r]) + (IF r \in Adding THEN g[r] ELSE 0)
    <3> HIDE DEF g
    <3> QED BY <1>7, <2>1
  <2>6. Need = Total(u, 1 .. len)
    <3>1. Need = Total(u, DOMAIN adding) BY DEF Need
    <3> HIDE DEF u
    <3> QED BY <1>4, <3>1
  <2> HIDE DEF g, len, u
  <2>7. Used' = Used + Total(u, 1 .. len)
    <3>1. Writes(len, adding, g, u, Adding) BY <1>4, <1>5, <2>1, <2>2, <2>3, <2>4 DEF Writes
    <3> QED BY <1>1, <1>8, <2>5, <3>1, UsedPlus DEF Divided
  <2> QED BY <2>6, <2>7
<1> HIDE DEF c
<1>14. PoolConserved'
  <2>1. PoolConserved' <=> avail' + Cardinality(DOMAIN tree') + Used' = Pool BY DEF PoolConserved, Used
  <2>2. Used \in Int /\ avail \in Int /\ avail + Cardinality(DOMAIN tree) + Used = Pool
    BY UsedInt, PoolIs DEF Divided, MemoryTyped
  <2> QED BY <1>2, <1>4, <1>6, <1>13, <2>1, <2>2 DEF c
<1>15. Room'
  <2>1. Need <= Free(locked) /\ Free(locked) \in Int /\ avail \in Int
    <3>1. adding # <<>> BY <1>1 DEF Located, Loop
    <3> QED BY <3>1, FreeInt DEF Divided, MemoryTyped, Room
  <2>2. avail' >= 0 BY <1>2, <1>4, <1>6, <2>1 DEF c
  <2> QED BY <1>1, <2>2 DEF Room
<1> QED BY <1>6, <1>8, <1>12, <1>14, <1>15 DEF Divided
LEMMA UpdateDivided ==
  ASSUME Located, Divided, Room, UpdateRunningBatch
  PROVE  Divided' /\ Room'
<1> DEFINE need == Len(Alive(running))
<1>1. /\ pc = "decode" /\ running' = Alive(running)
      /\ UNCHANGED <<rows, adding, last, out, done, kv, locked>>
  BY Zenon DEF UpdateRunningBatch, reqs
<1>2. PICK D \in Evictions(IF avail < need THEN need ELSE 0, locked) :
        /\ Evict(D) /\ avail' = avail + Cardinality(Slots(D))
        /\ pc' = IF Alive(running) = <<>> THEN "recv"
                 ELSE IF avail' >= need THEN "decoding" ELSE "retract"
  BY Zenon DEF UpdateRunningBatch
<1>3. /\ ReqsOf(running)' = {r \in ReqsOf(running) : ~done[r]} /\ last = <<>> /\ rows = <<>>
      /\ adding = <<>>
  BY UpdateLocated
<1>4. need \in Nat
  <2>1. Alive(running) \in Seq(Row) BY AliveRows DEF Located, Typed
  <2> QED BY <2>1
<1> DEFINE c == Cardinality(Slots(D))
<1>6. /\ TreeShape' /\ Held(locked)' /\ c \in Nat
      /\ Cardinality(DOMAIN tree') = Cardinality(DOMAIN tree) - c /\ Cardinality(DOMAIN tree) \in Nat
  <2> HIDE DEF need
  <2> QED BY <1>1, <1>2, <1>4, EvictHeld DEF Room
<1> HIDE DEF c
<1>7. avail \in Int /\ avail' = avail + c BY <1>2 DEF Divided, MemoryTyped, c
<1>8. MemoryTyped' BY <1>1, <1>6, <1>7 DEF Divided, MemoryTyped
<1>9. Live' = Live /\ Adding' = Adding /\ ReqsOf(rows)' = ReqsOf(rows)
  <2>1. Adding' = Adding /\ ReqsOf(rows)' = ReqsOf(rows) /\ ReqsOf(last)' = {} /\ ReqsOf(last) = {}
    BY <1>1, <1>3 DEF Adding, ReqsOf
  <2> QED BY <1>1, <1>3, <2>1 DEF Live, Active
<1>10. Lengths' BY <1>1, <1>9, LengthsSame DEF Divided
<1>11. PoolConserved'
  <2>1. PoolConserved' <=> avail' + Cardinality(DOMAIN tree') + Used' = Pool BY DEF PoolConserved, Used
  <2>2. Used \in Int /\ avail + Cardinality(DOMAIN tree) + Used = Pool BY UsedInt, PoolIs DEF Divided
  <2>3. Used' = Used BY <1>1, UsedSame
  <2> QED BY <1>6, <1>7, <2>1, <2>2, <2>3
<1>12. Room'
  <2>1. avail' >= 0 BY <1>6, <1>7 DEF Room
  <2>2. pc' = "decoding" => avail' >= need
    <3> HIDE DEF need
    <3> QED BY <1>2
  <2>3. Len(running)' = need BY <1>1
  <2>4. pc' \notin {"admit", "extend"} BY <1>2
  <2>5. adding' = <<>> BY <1>1, <1>3
  <2> QED BY <2>1, <2>2, <2>3, <2>4, <2>5 DEF Room
<1> QED BY <1>6, <1>8, <1>10, <1>11, <1>12 DEF Divided

LEMMA RetractDivided ==
  ASSUME Located, Divided, Room, RetractDecode
  PROVE  Divided' /\ Room'
<1> DEFINE path == [locked EXCEPT ![Victim] = 0]
           left == Len(running) - 1
           free == avail + Len(kv[Victim]) - locked[Victim]
           short == left * RetractSteps - free
           want == IF short > 0 THEN short ELSE 0
<1>1. /\ pc = "retract" /\ Len(running) > 1 /\ locked' = path /\ kv' = [kv EXCEPT ![Victim] = <<>>]
      /\ pc' = IF avail' < left * RetractSteps THEN "retract" ELSE "decoding"
      /\ UNCHANGED <<rows, adding, last, out, done>>
  BY Zenon DEF RetractDecode, Victim, Order
<1>2. PICK D \in Evictions(want, path) : Evict(D) /\ avail' = free + Cardinality(Slots(D))
  BY Zenon DEF RetractDecode, Victim, Order
<1>3. PICK r \in Req : r = Victim BY RetractLocated
<1>4. /\ Located' /\ r \in ReqsOf(running) /\ ~done[r] /\ last = <<>> /\ rows = <<>> /\ adding = <<>>
      /\ ReqsOf(running)' = ReqsOf(running) \ {r} /\ Len(running') = left
  BY <1>3, RetractLocated
<1>5. Live' = Live \ {r} /\ r \in Live /\ Adding' = Adding /\ ReqsOf(rows)' = ReqsOf(rows) /\ Adding = {}
  <2>1. /\ Adding' = Adding /\ ReqsOf(rows)' = ReqsOf(rows) /\ ReqsOf(last)' = {} /\ ReqsOf(last) = {}
        /\ Adding = {}
    BY <1>1, <1>4 DEF Adding, ReqsOf
  <2> QED BY <1>1, <1>4, <2>1 DEF Live, Active
<1>6. /\ free \in Int /\ free >= avail /\ avail \in Int /\ avail >= 0 /\ left \in Nat
      /\ left * RetractSteps \in Nat /\ left * RetractSteps >= left
      /\ Len(kv[r]) \in Nat /\ locked[r] \in Nat /\ free = avail + Len(kv[r]) - locked[r]
  <2>1. Len(kv[r]) \in Nat /\ locked[r] \in Nat /\ locked[r] <= Len(kv[r])
    BY <1>5 DEF Divided, Lengths, MemoryTyped
  <2>2. avail \in Int /\ avail >= 0 /\ free = avail + Len(kv[r]) - locked[r]
    BY <1>3 DEF Divided, MemoryTyped, Room
  <2>3. left \in Nat BY <1>1 DEF Located, Typed
  <2> HIDE DEF free, left
  <2>4. \A a \in Nat, b \in Nat \ {0} : a * b \in Nat /\ a * b >= a
    <3>1. \A a \in Nat, b \in Nat \ {0} : a * (b - 1) \in Nat /\ a * b = a * (b - 1) + a OBVIOUS
    <3> QED BY <3>1
  <2>5. left * RetractSteps \in Nat /\ left * RetractSteps >= left BY <2>3, <2>4, SchedulerAssumption
  <2> QED BY <2>1, <2>2, <2>3, <2>5
<1>7. path[r] = 0 /\ \A q \in Req \ {r} : path[q] = locked[q] BY <1>3 DEF Divided, MemoryTyped
<1>8. Held(path)
  <2> SUFFICES ASSUME NEW q \in Req
               PROVE  path[q] \in 0 .. Len(Ids(q)) /\ Take(Ids(q), path[q]) \in nodes \cup {<<>>}
    BY DEF Held
  <2>1. Ids(q) \in Seq(Token) BY IdsSeq DEF Located
  <2>2. Len(Ids(q)) \in Nat /\ Take(Ids(q), 0) = <<>> BY <2>1, TakeAll
  <2> HIDE DEF path
  <2> QED BY <1>7, <2>2 DEF Divided, Held
<1> DEFINE c == Cardinality(Slots(D))
<1> HIDE DEF path
<1>9. /\ TreeShape' /\ c \in Nat /\ \A q \in Req : Take(Ids(q), path[q]) \in nodes' \cup {<<>>}
      /\ Cardinality(DOMAIN tree') = Cardinality(DOMAIN tree) - c /\ Cardinality(DOMAIN tree) \in Nat
  <2>1. want \in Nat
    <3> HIDE DEF free, left
    <3> QED BY <1>6
  <2> HIDE DEF want
  <2> QED BY <1>2, <1>8, <2>1, EvictKeeps DEF Divided
<1>10. avail' = free + c BY <1>2
<1> HIDE DEF c, free, left
<1>11. MemoryTyped' /\ kv'[r] = <<>> /\ locked'[r] = 0
       /\ \A q \in Req \ {r} : kv'[q] = kv[q] /\ locked'[q] = locked[q]
  <2>1. kv' = [kv EXCEPT ![r] = <<>>] /\ locked' = [locked EXCEPT ![r] = 0] BY <1>1, <1>3 DEF path
  <2>2. avail' \in Int BY <1>6, <1>9, <1>10
  <2> QED BY <2>1, <2>2 DEF Divided, MemoryTyped
<1>12. Held(locked)' BY <1>1, <1>8, <1>9 DEF Held, Ids
<1>13. Lengths'
  <2> SUFFICES ASSUME NEW q \in Req
               PROVE  /\ q \in Adding' => Len(kv'[q]) = locked'[q]
                      /\ q \in Live' =>
                           /\ Len(kv'[q]) = IF q \in ReqsOf(rows) THEN Len(Ids(q)) ELSE Len(Ids(q)) - 1
                           /\ locked'[q] <= Len(kv'[q])
                      /\ q \notin Adding' \cup Live' => kv'[q] = <<>> /\ locked'[q] = 0
    BY <1>1, <1>5 DEF Lengths, Ids
  <2>1. CASE q = r BY <1>5, <1>11, <2>1
  <2>2. CASE q # r BY <1>5, <1>11, <2>2 DEF Divided, Lengths
  <2> QED BY <2>1, <2>2
<1>14. PoolConserved'
  <2>1. PoolConserved' <=> avail' + Cardinality(DOMAIN tree') + Used' = Pool BY DEF PoolConserved, Used
  <2>2. Used \in Int /\ avail + Cardinality(DOMAIN tree) + Used = Pool BY UsedInt, PoolIs DEF Divided
  <2>3. Used' = Used - (Len(kv[r]) - locked[r]) + (Len(kv'[r]) - locked'[r])
    BY <1>11, UsedChange DEF Divided
  <2>4. Used' = Used - (Len(kv[r]) - locked[r]) BY <1>6, <1>11, <2>2, <2>3
  <2>6. /\ free = avail + Len(kv[r]) - locked[r] /\ avail \in Int /\ Len(kv[r]) \in Int
        /\ locked[r] \in Int
    BY <1>6
  <2>7. \A a, l, k, e, n, u \in Int : (a + l - k + e) + (n - e) + (u - (l - k)) = a + n + u
    OBVIOUS
  <2>8. c \in Int /\ Cardinality(DOMAIN tree) \in Int /\ avail' = avail + Len(kv[r]) - locked[r] + c
        /\ Cardinality(DOMAIN tree') = Cardinality(DOMAIN tree) - c
    BY <1>9, <1>10, <2>6
  <2>9. avail' + Cardinality(DOMAIN tree') + Used'
          = (avail + Len(kv[r]) - locked[r] + c) + (Cardinality(DOMAIN tree) - c)
              + (Used - (Len(kv[r]) - locked[r]))
    BY <2>4, <2>8, Zenon
  <2>10. (avail + Len(kv[r]) - locked[r] + c) + (Cardinality(DOMAIN tree) - c)
           + (Used - (Len(kv[r]) - locked[r])) = avail + Cardinality(DOMAIN tree) + Used
    <3> DEFINE C == Cardinality(DOMAIN tree)
               L == Len(kv[r])
               k == locked[r]
    <3>1. C \in Int /\ L \in Int /\ k \in Int /\ c \in Int /\ avail \in Int /\ Used \in Int
      BY <2>2, <2>6, <2>8
    <3> HIDE DEF C, L, k
    <3>2. (avail + L - k + c) + (C - c) + (Used - (L - k)) = avail + C + Used BY <2>7, <3>1
    <3> QED BY <3>2 DEF C, L, k
  <2>5. avail' + Cardinality(DOMAIN tree') + Used' = Pool BY <2>2, <2>9, <2>10, Zenon
  <2> QED BY <2>1, <2>5
<1>15. Room'
  <2>1. avail' >= 0 /\ avail' \in Int
    <3>1. free \in Int /\ free >= 0 BY <1>6
    <3> QED BY <1>9, <1>10, <3>1
  <2>2. pc' = "decoding" => avail' >= left BY <1>1, <1>6, <2>1
  <2>3. pc' \notin {"admit", "extend"} BY <1>1
  <2>4. adding' = <<>> BY <1>1, <1>4
  <2>5. Len(running)' = left BY <1>4
  <2> QED BY <2>1, <2>2, <2>3, <2>4, <2>5 DEF Room
<1> QED BY <1>9, <1>11, <1>12, <1>13, <1>14, <1>15 DEF Divided
\* A request that decodes alone fits in the pool.
LEMMA OneFits ==
  ASSUME Located, Sampled, Divided, pc = "decoding", Len(running) = 1
  PROVE  Free(locked) >= 1
<1>1. /\ rows = <<>> /\ last = <<>> /\ adding = <<>> /\ running \in Seq(Row)
      /\ \A r \in ReqsOf(running) : ~done[r]
  BY DEF Located, Loop, Typed
<1>2. PICK r \in Req : r = running[1].req
  <2>1. 1 \in DOMAIN running BY <1>1
  <2>2. running[1].req \in Req BY <1>1, <2>1, RowReqs
  <2> QED BY <2>2
<1>3. ReqsOf(running) = {r} BY <1>1, <1>2 DEF ReqsOf
<1>4. ReqsOf(rows) = {} /\ ReqsOf(last) = {} /\ Adding = {} BY <1>1 DEF ReqsOf, Adding
<1>5. Active = {r} /\ Live = {r} BY <1>1, <1>3, <1>4 DEF Active, Live
<1>6. \A q \in Req \ {r} : kv[q] = <<>> /\ locked[q] = 0 BY <1>4, <1>5 DEF Divided, Lengths
<1>7. Len(kv[r]) = Len(Ids(r)) - 1 BY <1>4, <1>5 DEF Divided, Lengths
<1>8. /\ Len(Prompt[r]) \in Nat /\ Len(out[r]) \in Nat /\ Len(Ids(r)) = Len(Prompt[r]) + Len(out[r])
      /\ MaxNew[r] \in Nat /\ Ids(r) \in Seq(Token)
  BY IdsSeq DEF Located
<1>9. Len(out[r]) < MaxNew[r]
  <2>1. out[r] # <<>> BY <1>4, <1>5 DEF Sampled, Rowed
  <2> QED BY <1>1, <1>3, <2>1 DEF Sampled, Recorded
<1>10. locked[r] \in 0 .. Len(Ids(r)) /\ Take(Ids(r), locked[r]) \in nodes \cup {<<>>} BY DEF Divided, Held
<1>11. Used = Len(kv[r]) - locked[r]
  <2> DEFINE f == [q \in Req |-> Len(kv[q]) - locked[q]]
  <2>1. \A q \in Req : f[q] \in Int BY DEF Divided, MemoryTyped
  <2>2. \A q \in Req \ {r} : f[q] = 0 BY <1>6
  <2>3. IsFiniteSet(Req) /\ IsFiniteSet(Req \ {r}) BY ReqFinite, FS_Subset
  <2>4. Used = Total(f, Req) /\ f[r] = Len(kv[r]) - locked[r] BY DEF Used
  <2>5. f[r] \in Int BY <2>1
  <2> HIDE DEF f
  <2>6. Total(f, Req) = f[r] + Total(f, Req \ {r}) BY <2>1, <2>3, TotalRemove
  <2>7. Total(f, Req \ {r}) = 0 BY <2>2, <2>3, TotalZero
  <2>8. Total(f, Req) = f[r] BY <2>5, <2>6, <2>7
  <2> QED BY <2>4, <2>8
<1> DEFINE p == Take(Ids(r), locked[r])
<1>12. /\ Protected(locked) = Paths(p) /\ Paths(p) \subseteq DOMAIN tree /\ IsFiniteSet(Paths(p))
       /\ Cardinality(Paths(p)) = locked[r]
  <2>1. ASSUME NEW q \in Req \ {r} PROVE Paths(Take(Ids(q), locked[q])) = {}
    <3>1. Ids(q) \in Seq(Token) /\ locked[q] = 0 BY <1>6, IdsSeq DEF Located
    <3>2. Take(Ids(q), locked[q]) = <<>> BY <3>1, TakeAll
    <3> QED BY <3>2 DEF Paths
  <2>2. Protected(locked) = Paths(p) BY <2>1 DEF Protected
  <2>3. p \in Seq(Token) /\ Len(p) = locked[r] BY <1>8, <1>10, TakeSeq
  <2>4. p \in nodes \cup {<<>>} BY <1>10
  <2>5. Paths(<<>>) = {} BY DEF Paths
  <2> HIDE DEF p
  <2>6. Paths(p) \subseteq DOMAIN tree BY <2>4, <2>5, TreeClosed DEF Divided
  <2> QED BY <2>2, <2>3, <2>6, PathsSet
<1> HIDE DEF p
<1>13. Cardinality(DOMAIN tree \ Protected(locked)) = Cardinality(DOMAIN tree) - locked[r]
  <2>1. IsFiniteSet(DOMAIN tree) /\ DOMAIN tree \cap Paths(p) = Paths(p) BY <1>12 DEF Divided, TreeShape
  <2>2. Cardinality(DOMAIN tree \ Paths(p)) = Cardinality(DOMAIN tree) - Cardinality(DOMAIN tree \cap Paths(p))
    BY <2>1, FS_Difference
  <2> QED BY <1>12, <2>1, <2>2
<1>14. Free(locked) = avail + Cardinality(DOMAIN tree) - locked[r] /\ avail \in Int
       /\ Cardinality(DOMAIN tree) \in Int /\ locked[r] \in Int
  <2>1. Cardinality(DOMAIN tree) \in Nat BY FS_CardinalityType DEF Divided, TreeShape
  <2>2. avail \in Int /\ locked[r] \in Nat BY DEF Divided, MemoryTyped
  <2> QED BY <1>13, <2>1, <2>2 DEF Free
<1>15. avail + Cardinality(DOMAIN tree) + (Len(kv[r]) - locked[r]) = Pool BY <1>11, PoolIs DEF Divided
<1>16. Len(Prompt[r]) + MaxNew[r] + 2 <= Pool /\ Pool \in Int BY PoolAssumption
<1> DEFINE L == Len(kv[r])
           P == Len(Prompt[r])
           o == Len(out[r])
<1>17. L \in Int /\ L = P + o - 1 /\ o < MaxNew[r] /\ P \in Int /\ o \in Int /\ MaxNew[r] \in Int
       /\ P + MaxNew[r] + 2 <= Pool /\ avail + Cardinality(DOMAIN tree) + (L - locked[r]) = Pool
  <2>1. P \in Int /\ o \in Int /\ L = (P + o) - 1 /\ MaxNew[r] \in Int BY <1>7, <1>8
  <2>2. avail + Cardinality(DOMAIN tree) + (L - locked[r]) = Pool BY <1>15
  <2> HIDE DEF L, P, o
  <2>3. o < MaxNew[r] /\ P + MaxNew[r] + 2 <= Pool BY <1>9, <1>16 DEF o, P
  <2> QED BY <2>1, <2>2, <2>3
<1> HIDE DEF L, P, o
<1>18. L + 1 <= Pool BY <1>16, <1>17
<1>19. Free(locked) = Pool - L BY <1>14, <1>17
<1> QED BY <1>16, <1>17, <1>18, <1>19

LEMMA DecodeDivided ==
  ASSUME Located, Sampled, Divided, Room, RunDecode
  PROVE  Divided' /\ Room'
<1> DEFINE need == Len(running)
           A == ReqsOf(running)
<1>1. /\ pc = "decoding" /\ pc' = "decoded" /\ rows' = running
      /\ UNCHANGED <<adding, running, last, out, done, locked>>
      /\ kv' = [r \in Req |-> IF r \in A THEN Append(kv[r], Last(rec[r]).mix) ELSE kv[r]]
  BY DEF RunDecode, queues, reqs
<1>2. PICK D \in Evictions(IF avail < need THEN need ELSE 0, locked) :
        Evict(D) /\ avail' = avail + Cardinality(Slots(D)) - need
  BY Zenon DEF RunDecode
<1>3. ReqsOf(rows)' = A /\ rows = <<>> /\ last = <<>> /\ adding = <<>> BY DecodeLocated
<1>4. /\ running \in Seq(Row) /\ need \in Nat /\ DOMAIN running = 1 .. need /\ Distinct(running)
      /\ \A r \in A : ~done[r]
      /\ A \subseteq Req
  <2>1. running \in Seq(Row) /\ Distinct(running) /\ \A r \in A : ~done[r]
    BY <1>1 DEF Located, Typed, Placed, Loop
  <2> QED BY <2>1, RowReqs
<1>5. /\ ReqsOf(rows) = {} /\ ReqsOf(last) = {} /\ Adding = {} /\ Adding' = {} /\ Active = A /\ Live = A
      /\ Active' = A /\ Live' = A
  <2>1. ReqsOf(rows) = {} /\ ReqsOf(last) = {} /\ Adding = {} /\ Adding' = {}
        /\ ReqsOf(running)' = A /\ ReqsOf(last)' = {}
    BY <1>1, <1>3 DEF ReqsOf, Adding
  <2> QED BY <1>1, <1>4, <2>1 DEF Active, Live
<1> DEFINE c == Cardinality(Slots(D))
<1>6. /\ TreeShape' /\ Held(locked)' /\ c \in Nat
      /\ Cardinality(DOMAIN tree') = Cardinality(DOMAIN tree) - c /\ Cardinality(DOMAIN tree) \in Nat
      /\ avail + c >= need \/ avail + c = Free(locked)
  <2> HIDE DEF need
  <2> QED BY <1>1, <1>2, <1>4, EvictHeld DEF Room
<1> HIDE DEF c
<1>7. ASSUME NEW r \in Req
      PROVE  /\ kv'[r] \in Seq(Kind) /\ Len(kv'[r]) = Len(kv[r]) + (IF r \in A THEN 1 ELSE 0)
             /\ r \notin A => kv'[r] = kv[r]
  <2>1. kv'[r] = IF r \in A THEN Append(kv[r], Last(rec[r]).mix) ELSE kv[r] BY <1>1
  <2>2. kv[r] \in Seq(Kind) /\ Len(kv[r]) \in Nat BY DEF Divided, MemoryTyped
  <2>3. r \in A => Last(rec[r]).mix \in Kind
    <3> SUFFICES ASSUME r \in A PROVE Last(rec[r]).mix \in Kind
      OBVIOUS
    <3>1. out[r] # <<>> BY <1>5 DEF Sampled, Rowed
    <3>2. Len(rec[r]) = Len(out[r]) BY DEF Sampled, Recorded, RecordFollowsTheSwitch
    <3>3. out[r] \in Seq(Token) /\ rec[r] \in Seq(Entry) BY DEF Located, Typed
    <3>4. Len(rec[r]) \in DOMAIN rec[r] BY <3>1, <3>2, <3>3
    <3>5. Last(rec[r]) \in Entry BY <3>3, <3>4 DEF Last
    <3> QED BY <3>5 DEF Entry
  <2> HIDE DEF A
  <2>4. \A k \in Kind : Append(kv[r], k) \in Seq(Kind) /\ Len(Append(kv[r], k)) = Len(kv[r]) + 1 BY <2>2
  <2>5. CASE r \in A BY <2>1, <2>3, <2>4, <2>5
  <2>6. CASE r \notin A BY <2>1, <2>2, <2>6
  <2> QED BY <2>5, <2>6
<1>8. MemoryTyped'
  <2>1. avail \in Int /\ avail' = avail + c - need BY <1>2 DEF Divided, MemoryTyped, c
  <2> HIDE DEF need
  <2>2. avail' \in Int BY <1>4, <1>6, <2>1
  <2>3. kv' \in [Req -> Seq(Kind)] BY <1>1, <1>7
  <2> QED BY <1>1, <2>2, <2>3 DEF Divided, MemoryTyped
<1>9. Lengths'
  <2> SUFFICES ASSUME NEW r \in Req
               PROVE  /\ r \in A => Len(kv'[r]) = Len(Ids(r)) /\ locked[r] <= Len(kv'[r])
                      /\ r \notin A => kv'[r] = <<>> /\ locked[r] = 0
    BY <1>1, <1>3, <1>5 DEF Lengths, Ids
  <2>1. CASE r \in A
    <3>1. Len(kv[r]) = Len(Ids(r)) - 1 /\ locked[r] <= Len(kv[r]) BY <1>5, <2>1 DEF Divided, Lengths
    <3>2. Len(kv[r]) \in Nat /\ locked[r] \in Nat /\ Len(Ids(r)) \in Nat
      <4>1. Ids(r) \in Seq(Token) BY IdsSeq DEF Located
      <4> QED BY <4>1 DEF Divided, MemoryTyped
    <3>3. Len(kv'[r]) = Len(kv[r]) + 1 BY <1>7, <2>1
    <3> QED BY <2>1, <3>1, <3>2, <3>3
  <2>2. CASE r \notin A BY <1>5, <1>7, <2>2 DEF Divided, Lengths
  <2> QED BY <2>1, <2>2
<1>10. Used' = Used + need
  <2> DEFINE s == [i \in 1 .. need |-> running[i].req]
             g == [r \in Req |-> 1]
             u == [i \in 1 .. need |-> 1]
  <2>1. \A i \in 1 .. need : s[i] = running[i].req /\ s[i] \in Req /\ u[i] = g[s[i]]
    <3>1. \A i \in 1 .. need : running[i].req \in Req BY <1>4, RowReqs
    <3> QED BY <3>1
  <2>2. A = {s[i] : i \in 1 .. need} BY <1>4 DEF ReqsOf
  <2>3. \A i, j \in 1 .. need : s[i] = s[j] => i = j BY <1>4 DEF Distinct
  <2>4. \A r \in Req : g[r] \in Int /\ g[r] = 1 OBVIOUS
  <2> HIDE DEF s, g
  <2>5. \A r \in Req : Len(kv'[r]) = Len(kv[r]) + (IF r \in A THEN g[r] ELSE 0)
    <3> HIDE DEF A
    <3> QED BY <1>7, <2>4
  <2>6. Total(u, 1 .. need) = need
    <3> HIDE DEF need
    <3> QED BY <1>4, TotalOnes
  <2> HIDE DEF u, need, A
  <2>7. Writes(need, s, g, u, A) BY <1>4, <2>1, <2>2, <2>3, <2>4 DEF Writes
  <2>8. Used' = Used + Total(u, 1 .. need) BY <1>1, <1>8, <2>5, <2>7, UsedPlus DEF Divided
  <2> QED BY <2>6, <2>8
<1>11. PoolConserved'
  <2>1. PoolConserved' <=> avail' + Cardinality(DOMAIN tree') + Used' = Pool BY DEF PoolConserved, Used
  <2>2. Used \in Int /\ avail \in Int /\ avail + Cardinality(DOMAIN tree) + Used = Pool
    BY UsedInt, PoolIs DEF Divided, MemoryTyped
  <2> HIDE DEF need
  <2> QED BY <1>2, <1>4, <1>6, <1>10, <2>1, <2>2 DEF c
<1>12. Room'
  <2>1. avail >= 0 /\ (avail >= need \/ need = 1) BY <1>1 DEF Room
  <2>2. need = 1 => Free(locked) >= 1 BY <1>1, OneFits
  <2>3. Free(locked) \in Int /\ avail \in Int /\ avail' = avail + c - need
    BY <1>2, FreeInt DEF Divided, MemoryTyped, c
  <2> HIDE DEF need
  <2>4. avail' >= 0 BY <1>4, <1>6, <2>1, <2>2, <2>3
  <2> QED BY <1>1, <1>3, <2>4 DEF Room
<1> QED BY <1>6, <1>8, <1>9, <1>11, <1>12 DEF Divided
\* What the prefix a request holds says of the match of its ids.
LEMMA HeldIsMatched ==
  ASSUME Located, Divided, NEW r \in Req
  PROVE  /\ Ids(r) \in Seq(Token) /\ Ids(r) # <<>> /\ Len(Ids(r)) \in Nat
         /\ locked[r] \in Nat /\ locked[r] <= MatchLen(Ids(r)) /\ MatchLen(Ids(r)) \in 0 .. Len(Ids(r))
<1> DEFINE s == Ids(r)
           k == locked[r]
<1>1. s \in Seq(Token) /\ Len(s) \in Nat /\ s # <<>>
  <2>1. Ids(r) \in Seq(Token) /\ Len(Prompt[r]) \in Nat /\ Len(out[r]) \in Nat
        /\ Len(Ids(r)) = Len(Prompt[r]) + Len(out[r])
    BY IdsSeq DEF Located
  <2>2. Prompt[r] # <<>> /\ Prompt[r] \in Seq(Token) BY SchedulerAssumption DEF Req
  <2>3. Len(Prompt[r]) > 0 BY <2>2
  <2>4. \A a \in Nat, b \in Nat, c \in Nat : a = b + c /\ b > 0 => a > 0 OBVIOUS
  <2>7. \A q \in Seq(Token) : Len(q) \in Nat /\ (Len(q) > 0 => q # <<>>) OBVIOUS
  <2>5. Len(Ids(r)) \in Nat BY <2>1, <2>7, Zenon
  <2>6. Len(Ids(r)) > 0 BY <2>1, <2>3, <2>4, <2>5, Zenon
  <2> QED BY <2>1, <2>5, <2>6, <2>7, Zenon
<1>2. k \in 0 .. Len(s) /\ Take(s, k) \in nodes \cup {<<>>} BY DEF Divided, Held
<1>3. MatchLen(s) \in 0 .. Len(s) BY <1>1, MatchLenIs
<1> HIDE DEF s, k
<1>4. CASE k = 0 BY <1>1, <1>2, <1>3, <1>4 DEF s, k
<1>5. CASE k # 0
  <2>1. k \in 1 .. Len(s) BY <1>1, <1>2, <1>5
  <2>2. Len(Take(s, k)) = k BY <1>1, <1>2, TakeSeq
  <2>3. Take(s, k) \in DOMAIN tree BY <1>2, <1>5, <2>2, TreeClosed DEF Divided
  <2>4. k <= MatchLen(s) BY <1>1, <2>1, <2>3, Matched DEF Divided
  <2> QED BY <1>1, <1>2, <1>3, <2>4 DEF s, k
<1> QED BY <1>4, <1>5

\* What a token leaves of where the requests are.
LEMMA TokenPlaces ==
  ASSUME Located, NEW t \in Token, TokenStep(t), NEW r, r = Head(rows).req
  PROVE  /\ r \in Req /\ r \in Live /\ r \in ReqsOf(rows) /\ adding' = <<>> /\ Adding = {} /\ Adding' = {}
         /\ ReqsOf(rows)' = ReqsOf(rows) \ {r}
         /\ Live' = IF Finishes(r, t) THEN Live \ {r} ELSE Live
         /\ \A q \in Req \ {r} : out'[q] = out[q]
         /\ Prompt[r] \o out'[r] = Append(Ids(r), t)
         /\ pc' \in {"recv", "prefilled", "decoded"}
<1>1. /\ r \in Req /\ r \in Active /\ r \in ReqsOf(rows) /\ ~done[r] /\ adding = <<>>
      /\ ReqsOf(rows) = ReqsOf(rows)' \cup {r} /\ r \notin ReqsOf(rows)'
  BY TokenIs
<1>2. /\ \A q \in Req \ {r} : out'[q] = out[q] /\ done'[q] = done[q]
      /\ out'[r] = Append(out[r], t) /\ done'[r] = Finishes(r, t)
      /\ UNCHANGED <<running, last, waiting, adding, retracted>>
      /\ pc' = pc \/ pc' = "recv"
  BY TokenEffect
<1>3. pc' \in {"recv", "prefilled", "decoded"} BY <1>2 DEF TokenStep
<1>4. Adding = {} /\ Adding' = {} /\ adding' = <<>> BY <1>1, <1>2 DEF Adding
<1>5. Active' = Active BY <1>2 DEF Active, ReqsOf
<1>6. Active \subseteq Req BY LocatedReqs DEF Located
<1>7. Live' = IF Finishes(r, t) THEN Live \ {r} ELSE Live BY <1>1, <1>2, <1>5, <1>6 DEF Live
<1>8. Prompt[r] \o out'[r] = Append(Ids(r), t)
  <2>1. Prompt[r] \in Seq(Token) /\ out[r] \in Seq(Token)
    <3>1. Prompt[r] \in Seq(Token) \ {<<>>} BY <1>1, SchedulerAssumption DEF Req
    <3> QED BY <1>1, <3>1 DEF Located, Typed
  <2>2. \A a, b \in Seq(Token) : a \o Append(b, t) = Append(a \o b, t) OBVIOUS
  <2> QED BY <1>2, <2>1, <2>2 DEF Ids
<1>9. r \in Live BY <1>1 DEF Live
<1> QED BY <1>1, <1>2, <1>3, <1>4, <1>7, <1>8, <1>9

\* What is left of the request's memory when its token has been processed.
Goes(r, t) ==
  IF Finishes(r, t) THEN kv'[r] = <<>> /\ locked'[r] = 0
  ELSE /\ Len(kv'[r]) = Len(Ids(r)) /\ locked'[r] \in 0 .. Len(Ids(r))
       /\ Take(Ids(r), locked'[r]) \in nodes' \cup {<<>>}

LEMMA TokenHolds ==
  ASSUME Located, Divided, NEW t \in Token, TokenStep(t), NEW r \in Req, r = Head(rows).req,
         nodes \subseteq nodes', \A q \in Req \ {r} : kv'[q] = kv[q] /\ locked'[q] = locked[q],
         Goes(r, t)
  PROVE  Held(locked)' /\ Lengths'
<1> DEFINE ids(q) == Prompt[q] \o out'[q]
<1>1. /\ r \in Live /\ r \in ReqsOf(rows) /\ Adding = {} /\ Adding' = {}
      /\ ReqsOf(rows)' = ReqsOf(rows) \ {r} /\ Live' = IF Finishes(r, t) THEN Live \ {r} ELSE Live
      /\ \A q \in Req \ {r} : out'[q] = out[q]
      /\ ids(r) = Append(Ids(r), t)
  BY TokenPlaces
<1>2. \A q \in Req \ {r} : ids(q) = Ids(q) BY <1>1 DEF Ids
<1>3. Ids(r) \in Seq(Token) /\ Len(Ids(r)) \in Nat BY HeldIsMatched
<1>4. ids(r) \in Seq(Token) /\ Len(ids(r)) = Len(Ids(r)) + 1 /\ Take(ids(r), 0) = <<>>
      /\ \A n \in 0 .. Len(Ids(r)) : Take(ids(r), n) = Take(Ids(r), n)
  <2> HIDE DEF ids
  <2>1. ids(r) \in Seq(Token) /\ Len(ids(r)) = Len(Ids(r)) + 1 BY <1>1, <1>3
  <2>2. ASSUME NEW n \in 0 .. Len(Ids(r)) PROVE Take(ids(r), n) = Take(Ids(r), n)
    <3>1. Take(Append(Ids(r), t), n) = Take(Ids(r), n) BY <1>3, TakeAppend
    <3> QED BY <1>1, <3>1
  <2> QED BY <2>1, <2>2, TakeAll
<1> HIDE DEF ids
<1>5. Held(locked)'
  <2> SUFFICES ASSUME NEW q \in Req
               PROVE  locked'[q] \in 0 .. Len(ids(q)) /\ Take(ids(q), locked'[q]) \in nodes' \cup {<<>>}
    BY DEF Held, Ids, ids
  <2>1. CASE q # r
    <3>1. locked[q] \in 0 .. Len(Ids(q)) /\ Take(Ids(q), locked[q]) \in nodes \cup {<<>>}
      BY DEF Divided, Held
    <3> QED BY <1>2, <2>1, <3>1
  <2>2. CASE q = r /\ Finishes(r, t)
    <3>1. locked'[q] = 0 BY <2>2 DEF Goes
    <3>2. Len(ids(q)) \in Nat /\ Take(ids(q), 0) = <<>> BY <1>3, <1>4, <2>2
    <3> QED BY <3>1, <3>2
  <2>3. CASE q = r /\ ~Finishes(r, t)
    <3>1. locked'[r] \in 0 .. Len(Ids(r)) /\ Take(Ids(r), locked'[r]) \in nodes' \cup {<<>>}
      BY <2>3 DEF Goes
    <3>2. locked'[r] \in 0 .. Len(ids(r)) BY <1>3, <1>4, <3>1
    <3> QED BY <1>4, <2>3, <3>1, <3>2
  <2> QED BY <2>1, <2>2, <2>3
<1>6. Lengths'
  <2> SUFFICES ASSUME NEW q \in Req
               PROVE  /\ q \in Live' =>
                           /\ Len(kv'[q]) = IF q \in ReqsOf(rows)' THEN Len(ids(q)) ELSE Len(ids(q)) - 1
                           /\ locked'[q] <= Len(kv'[q])
                      /\ q \notin Live' => kv'[q] = <<>> /\ locked'[q] = 0
    BY <1>1 DEF Lengths, Ids, ids
  <2>1. CASE q # r BY <1>1, <1>2, <2>1 DEF Divided, Lengths
  <2>2. CASE q = r /\ Finishes(r, t) BY <1>1, <2>2 DEF Goes
  <2>3. CASE q = r /\ ~Finishes(r, t)
    <3>1. Len(kv'[r]) = Len(Ids(r)) /\ locked'[r] \in 0 .. Len(Ids(r)) BY <2>3 DEF Goes
    <3>2. Len(kv'[r]) = Len(ids(r)) - 1 /\ locked'[r] <= Len(kv'[r]) BY <1>3, <1>4, <3>1
    <3> QED BY <1>1, <2>3, <3>2
  <2> QED BY <2>1, <2>2, <2>3
<1> QED BY <1>5, <1>6

\* A request that has its KV puts it in the tree, which keeps its own slots.
LEMMA CacheKeeps ==
  ASSUME Located, Divided, NEW r \in Req, Len(kv[r]) = Len(Ids(r)), NEW s, s = Ids(r),
         avail' = avail + MatchLen(s) - locked[r], tree' = Inserted(s, kv[r]),
         nodes' = nodes \cup Splits(s) \cup {s}, MemoryTyped',
         \A q \in Req \ {r} : kv'[q] = kv[q] /\ locked'[q] = locked[q], Len(kv'[r]) = locked'[r]
  PROVE  TreeShape' /\ PoolConserved' /\ avail' >= avail
<1>1. /\ s \in Seq(Token) /\ s # <<>> /\ Len(s) \in Nat /\ locked[r] \in Nat
      /\ locked[r] <= MatchLen(s) /\ MatchLen(s) \in 0 .. Len(s)
  BY HeldIsMatched
<1>2. kv[r] \in Seq(Kind) /\ avail \in Int /\ Len(kv[r]) = Len(s) /\ locked'[r] \in Nat
  BY DEF Divided, MemoryTyped
<1> DEFINE m == MatchLen(s)
           C == Cardinality(DOMAIN tree)
           k == locked[r]
<1>3. TreeShape' /\ Cardinality(DOMAIN tree') = C + Len(s) - m /\ C \in Nat
  BY <1>1, <1>2, InsertKeeps DEF Divided
<1>4. Used' = Used - (Len(kv[r]) - locked[r]) + (Len(kv'[r]) - locked'[r]) BY UsedChange DEF Divided
<1>5. Used \in Int /\ avail + C + Used = Pool BY UsedInt, PoolIs DEF Divided
<1>6. m \in Int /\ k \in Nat /\ k <= m /\ Len(s) \in Nat /\ avail' = avail + m - k BY <1>1
<1>7. PoolConserved' <=> avail' + Cardinality(DOMAIN tree') + Used' = Pool BY DEF PoolConserved, Used
<1>8. Len(kv[r]) - locked[r] = Len(s) - k /\ Len(kv'[r]) - locked'[r] = 0 BY <1>2
<1> HIDE DEF m, C, k
<1>9. Used' = Used - (Len(s) - k) + 0 BY <1>4, <1>8
<1>10. PoolConserved' BY <1>2, <1>3, <1>5, <1>6, <1>7, <1>9
<1>11. avail' >= avail BY <1>2, <1>6
<1> QED BY <1>3, <1>10, <1>11

LEMMA TokenRoom ==
  ASSUME Located, Room, NEW t \in Token, TokenStep(t), avail \in Int, avail' \in Int, avail' >= avail
  PROVE  Room'
<1>1. adding' = <<>> /\ pc' \in {"recv", "prefilled", "decoded"} BY TokenPlaces
<1>2. avail' >= 0 BY DEF Room
<1> QED BY <1>1, <1>2 DEF Room

LEMMA TokenDivided ==
  ASSUME Located, Divided, Room, NEW t \in Token, ProcessPrefill(t) \/ ProcessDecode(t)
  PROVE  Divided' /\ Room'
<1>1. TokenStep(t) BY TokenStepIs
<1>2. PICK r \in Req : r = Head(rows).req BY <1>1, TokenPlaces
<1>3. /\ r \in Live /\ r \in ReqsOf(rows) /\ Adding = {} BY <1>1, <1>2, TokenPlaces
<1>4. Len(kv[r]) = Len(Ids(r)) /\ locked[r] <= Len(kv[r]) BY <1>3 DEF Divided, Lengths
<1>5. /\ Ids(r) \in Seq(Token) /\ Ids(r) # <<>> /\ Len(Ids(r)) \in Nat /\ locked[r] \in Nat
      /\ MatchLen(Ids(r)) \in 0 .. Len(Ids(r))
  BY HeldIsMatched
<1>6. \/ Finishes(r, t) /\ CacheFinishedReq(r)
      \/ ~Finishes(r, t) /\ CacheUnfinishedReq(r)
      \/ ~Finishes(r, t) /\ UNCHANGED memory
  BY <1>2, Zenon DEF ProcessPrefill, ProcessDecode
<1>7. /\ kv \in [Req -> Seq(Kind)] /\ locked \in [Req -> Nat] /\ avail \in Int BY DEF Divided, MemoryTyped
<1>8. CASE Finishes(r, t) /\ CacheFinishedReq(r)
  <2>1. /\ avail' = avail + MatchLen(Ids(r)) - locked[r] /\ tree' = Inserted(Ids(r), kv[r])
        /\ nodes' = nodes \cup Splits(Ids(r)) \cup {Ids(r)}
        /\ kv' = [kv EXCEPT ![r] = <<>>] /\ locked' = [locked EXCEPT ![r] = 0]
    BY <1>8 DEF CacheFinishedReq
  <2>2. /\ kv'[r] = <<>> /\ locked'[r] = 0 /\ \A q \in Req \ {r} : kv'[q] = kv[q] /\ locked'[q] = locked[q]
    BY <1>7, <2>1
  <2>3. MemoryTyped' BY <1>5, <1>7, <2>1 DEF MemoryTyped
  <2>4. TreeShape' /\ PoolConserved' /\ avail' >= avail
    <3>1. Len(kv'[r]) = locked'[r] BY <2>2
    <3> QED BY <1>4, <2>1, <2>2, <2>3, <3>1, CacheKeeps
  <2>5. nodes \subseteq nodes' BY <2>1
  <2>6. Goes(r, t) BY <1>8, <2>2 DEF Goes
  <2>7. Held(locked)' /\ Lengths' BY <1>1, <1>2, <2>2, <2>5, <2>6, TokenHolds
  <2>8. Room' BY <1>1, <1>7, <2>3, <2>4, TokenRoom DEF MemoryTyped
  <2> QED BY <2>3, <2>4, <2>7, <2>8 DEF Divided
<1>9. CASE ~Finishes(r, t) /\ CacheUnfinishedReq(r)
  <2> DEFINE s == Ids(r)
             grown == Inserted(s, kv[r])
  <2>1. /\ avail' = avail + MatchLen(s) - locked[r] /\ tree' = grown
        /\ nodes' = nodes \cup Splits(s) \cup {s}
        /\ kv' = [kv EXCEPT ![r] = Kinds(grown, s)] /\ locked' = [locked EXCEPT ![r] = Len(s)]
    BY <1>9 DEF CacheUnfinishedReq
  <2> HIDE DEF grown
  <2>2. /\ kv'[r] = Kinds(grown, s) /\ locked'[r] = Len(s)
        /\ \A q \in Req \ {r} : kv'[q] = kv[q] /\ locked'[q] = locked[q]
    BY <1>7, <2>1
  <2>3. Kinds(grown, s) \in Seq(Kind) /\ Len(Kinds(grown, s)) = Len(s)
    <3>1. kv[r] \in Seq(Kind) BY <1>7
    <3>2. TreeShape' /\ DOMAIN tree' = DOMAIN tree \cup Paths(s)
      BY <1>4, <1>5, <2>1, <3>1, InsertKeeps DEF Divided, grown
    <3>3. \A p \in Paths(s) : grown[p] \in Kind BY <2>1, <3>2 DEF TreeShape
    <3> QED BY <1>5, <3>3, KindsSeq
  <2>4. MemoryTyped'
    <3> HIDE DEF s
    <3>1. Len(s) \in Nat /\ MatchLen(s) \in Int BY <1>5 DEF s
    <3> QED BY <1>5, <1>7, <2>1, <2>3, <3>1 DEF MemoryTyped
  <2>5. TreeShape' /\ PoolConserved' /\ avail' >= avail
    <3>1. Len(kv'[r]) = locked'[r] BY <2>2, <2>3
    <3> QED BY <1>4, <2>1, <2>2, <2>4, <3>1, CacheKeeps DEF grown
  <2>6. nodes \subseteq nodes' /\ s \in nodes' BY <2>1
  <2>7. Goes(r, t)
    <3>1. Take(s, Len(s)) = s /\ Len(s) \in 0 .. Len(s) BY <1>5, TakeAll
    <3> QED BY <1>9, <2>2, <2>3, <2>6, <3>1 DEF Goes
  <2>8. Held(locked)' /\ Lengths' BY <1>1, <1>2, <2>2, <2>6, <2>7, TokenHolds
  <2>9. Room' BY <1>1, <1>7, <2>4, <2>5, TokenRoom DEF MemoryTyped
  <2> QED BY <2>4, <2>5, <2>8, <2>9 DEF Divided
<1>10. CASE ~Finishes(r, t) /\ UNCHANGED memory
  <2>1. UNCHANGED <<kv, locked, tree, nodes, avail>> BY <1>10 DEF memory
  <2>2. MemoryTyped' /\ TreeShape' /\ PoolConserved'
    BY <2>1 DEF Divided, MemoryTyped, TreeShape, PoolConserved
  <2>3. Goes(r, t)
    <3>1. locked[r] \in 0 .. Len(Ids(r)) /\ Take(Ids(r), locked[r]) \in nodes \cup {<<>>}
      BY DEF Divided, Held
    <3> QED BY <1>4, <1>10, <2>1, <3>1 DEF Goes
  <2>4. Held(locked)' /\ Lengths' BY <1>1, <1>2, <2>1, <2>3, TokenHolds
  <2>5. Room' BY <1>1, <1>7, <2>1, TokenRoom
  <2> QED BY <2>2, <2>4, <2>5 DEF Divided
<1> QED BY <1>6, <1>8, <1>9, <1>10
\* The steps that leave what the estimates are about alone.
LEMMA RoomSame ==
  ASSUME Room, UNCHANGED <<adding, locked, tree, avail, out>>,
         pc' \in {"admit", "extend"} => pc \in {"admit", "extend"} /\ offset' = offset,
         pc' = "decoding" => Len(running') = 1 \/ (pc = "decoding" /\ running' = running)
  PROVE  Room'
<1>1. Need' = Need BY DEF Need, Ids
<1>2. Free(locked)' = Free(locked) BY DEF Free, Protected, Ids
<1> QED BY <1>1, <1>2 DEF Room

LEMMA InitRoom == Init => Room
<1> SUFFICES ASSUME Init PROVE Room
  OBVIOUS
<1>1. pc = "recv" /\ adding = <<>> /\ avail >= 0 BY PoolAssumption DEF Init
<1> QED BY <1>1 DEF Room

LEMMA QuietRoom ==
  ASSUME Room, Submit \/ EndOfAdding \/ KeepLastReq \/ UNCHANGED vars
  PROVE  Room'
<1>1. CASE Submit
  <2>1. pc = "recv" /\ UNCHANGED <<pc, adding, locked, tree, avail, out>>
    BY <1>1 DEF Submit, loop, reqs, memory
  <2> QED BY <2>1, RoomSame
<1>2. CASE EndOfAdding
  <2>1. /\ pc = "admit" /\ pc' \in {"decode", "extend"}
        /\ UNCHANGED <<adding, locked, tree, avail, out, offset>>
    BY <1>2 DEF EndOfAdding, reqs
  <2> QED BY <2>1, RoomSame
<1>3. CASE KeepLastReq
  <2>1. pc' = "decoding" /\ Len(running) = 1 /\ UNCHANGED <<running, adding, locked, tree, avail, out>>
    BY <1>3 DEF KeepLastReq, queues, reqs, memory
  <2> QED BY <2>1, RoomSame
<1>4. CASE UNCHANGED vars
  <2>1. UNCHANGED <<pc, offset, running, adding, locked, tree, avail, out>>
    BY <1>4 DEF vars, loop, queues, reqs, memory
  <2> QED BY <2>1, RoomSame
<1> QED BY <1>1, <1>2, <1>3, <1>4

\* The share of the budget of the running batch is never negative.
LEMMA GetNextBatchRoom ==
  ASSUME Located, Sampled, Room, GetNextBatch
  PROVE  Room'
<1>1. /\ pc' \in {"decode", "admit"} /\ adding' = <<>> /\ running' = Merged
      /\ offset' = 0 \/ \E q \in Ratios : offset' = (RunningBudget(Merged) * q) \div 100
      /\ avail' = avail
  BY Zenon DEF GetNextBatch, Merged, memory
<1>2. Need' = 0
  <2>1. DOMAIN adding' = {} BY <1>1
  <2> QED BY <2>1, TotalEmpty DEF Need
<1>3. RunningBudget(Merged) \in Int /\ RunningBudget(Merged) >= 0
  <2>1. Merged \in Seq(Row) BY MergedRows
  <2>2. Rowed' BY GetNextBatchSampled DEF Sampled
  <2>3. UNCHANGED out BY DEF GetNextBatch, reqs
  <2>4. \A r \in ReqsOf(Merged) : Len(out[r]) <= MaxNew[r]
    <3>1. ReqsOf(running)' = ReqsOf(Merged) BY GetNextBatchLocated
    <3> QED BY <2>2, <2>3, <3>1 DEF Rowed
  <2>5. \A i \in DOMAIN Merged : Merged[i].req \in ReqsOf(Merged) BY DEF ReqsOf
  <2> QED BY <2>1, <2>4, <2>5, BudgetType DEF Located
<1>4. offset' >= 0
  <2>1. ASSUME NEW b \in Nat, NEW q \in Nat PROVE (b * q) \div 100 >= 0
    <3>1. b * q \in Nat OBVIOUS
    <3> QED BY <3>1
  <2>2. \A q \in Ratios : q \in Nat BY SchedulerAssumption
  <2>3. RunningBudget(Merged) \in Nat BY <1>3
  <2> QED BY <1>1, <2>1, <2>2, <2>3
<1> QED BY <1>1, <1>2, <1>4 DEF Room

-------------------------------------------------------------------------------
(* The invariant of the memory *)

LEMMA StepDivided ==
  ASSUME Located, Sampled, Divided, Room, [Next]_vars
  PROVE  Divided' /\ Room'
<1>1. CASE \E t \in Token : ProcessPrefill(t) \/ ProcessDecode(t) BY <1>1, TokenDivided
<1>2. CASE GetNextBatch BY <1>2, GetNextBatchDivided, GetNextBatchRoom
<1>3. CASE AddOneReq BY <1>3, AddOneReqDivided
<1>4. CASE EndOfAdding BY <1>4, EndOfAddingDivided, QuietRoom
<1>5. CASE RunExtend BY <1>5, ExtendDivided
<1>6. CASE UpdateRunningBatch BY <1>6, UpdateDivided
<1>7. CASE RetractDecode BY <1>7, RetractDivided
<1>8. CASE KeepLastReq \/ UNCHANGED vars BY <1>8, SameDivided, QuietRoom
<1>9. CASE RunDecode BY <1>9, DecodeDivided
<1>10. CASE Submit BY <1>10, SubmitDivided, QuietRoom
<1> QED BY <1>1, <1>2, <1>3, <1>4, <1>5, <1>6, <1>7, <1>8, <1>9, <1>10 DEF Next, Step

\* No slot of the pool leaks and none is counted twice, whatever prefixes the
\* requests share and whatever was retracted or evicted (check_memory).
THEOREM PoolIsConserved == Spec => []PoolConserved
<1>1. Init => Located /\ Sampled /\ Divided /\ Room BY InitLocated, InitSampled, InitDivided, InitRoom
<1>2. Located /\ Sampled /\ Divided /\ Room /\ [Next]_vars => Located' /\ Sampled' /\ Divided' /\ Room'
  BY StepLocated, StepSampled, StepDivided
<1>3. Divided => PoolConserved BY DEF Divided
<1> QED BY <1>1, <1>2, <1>3, PTL DEF Spec

\* The admission estimate, eviction and retraction leave a slot for every token a
\* forward pass writes: alloc_token_slots never raises its out-of-memory error.
THEOREM MemorySuffices == Spec => []NeverOutOfMemory
<1>1. Init => Located /\ Sampled /\ Divided /\ Room BY InitLocated, InitSampled, InitDivided, InitRoom
<1>2. Located /\ Sampled /\ Divided /\ Room /\ [Next]_vars => Located' /\ Sampled' /\ Divided' /\ Room'
  BY StepLocated, StepSampled, StepDivided
<1>3. Room => NeverOutOfMemory BY DEF Room, NeverOutOfMemory
<1> QED BY <1>1, <1>2, <1>3, PTL DEF Spec
-------------------------------------------------------------------------------
(* The fourth layer: of what kind the memory is *)

LEMMA InitKinded == Init => Kinded
<1> SUFFICES ASSUME Init PROVE Kinded
  OBVIOUS
<1>1. kv = [r \in Req |-> <<>>] /\ DOMAIN tree = {} BY DEF Init
<1>2. \A r \in Req : DOMAIN kv[r] = {} BY <1>1
<1> QED BY <1>1, <1>2 DEF Kinded, HardTree, HardPrompt, AsRecorded

\* Slots only leave the tree and the requests.
LEMMA KindedLess ==
  ASSUME Kinded, rec' = rec, retracted \subseteq retracted',
         \A r \in Req : kv'[r] = kv[r] \/ kv'[r] = <<>>,
         DOMAIN tree' \subseteq DOMAIN tree, \A p \in DOMAIN tree' : tree'[p] = tree[p]
  PROVE  Kinded'
<1> SUFFICES ASSUME NoExtension
             PROVE  HardTree' /\ \A r \in Req : HardPrompt(r)' /\ (r \notin retracted' => AsRecorded(r)')
  BY DEF Kinded, NoExtension
<1>1. HardTree' BY DEF Kinded, HardTree
<1>2. ASSUME NEW r \in Req PROVE HardPrompt(r)' /\ (r \notin retracted' => AsRecorded(r)')
  <2>1. HardPrompt(r) /\ (r \notin retracted' => AsRecorded(r)) BY DEF Kinded
  <2>2. CASE kv'[r] = kv[r] BY <2>1, <2>2 DEF HardPrompt, AsRecorded
  <2>3. CASE kv'[r] = <<>>
    <3>1. DOMAIN kv'[r] = {} BY <2>3
    <3> QED BY <3>1 DEF HardPrompt, AsRecorded
  <2> QED BY <2>2, <2>3
<1> QED BY <1>1, <1>2

LEMMA LessKinded ==
  ASSUME Located, Divided, Kinded,
         \/ Submit \/ GetNextBatch \/ EndOfAdding \/ UpdateRunningBatch \/ RetractDecode
         \/ KeepLastReq \/ UNCHANGED vars
  PROVE  Kinded'
<1>1. CASE Submit \/ GetNextBatch \/ EndOfAdding \/ KeepLastReq \/ UNCHANGED vars
  <2>1. UNCHANGED <<rec, retracted, kv, tree>>
    BY <1>1 DEF Submit, GetNextBatch, EndOfAdding, KeepLastReq, vars, reqs, memory
  <2>2. DOMAIN tree' \subseteq DOMAIN tree /\ \A p \in DOMAIN tree' : tree'[p] = tree[p] BY <2>1
  <2> QED BY <2>1, <2>2, KindedLess
<1>2. CASE UpdateRunningBatch
  <2>1. UNCHANGED <<rec, retracted, kv>> BY <1>2 DEF UpdateRunningBatch, reqs
  <2>2. \E D : Evict(D) BY <1>2, Zenon DEF UpdateRunningBatch
  <2>3. DOMAIN tree' \subseteq DOMAIN tree /\ \A p \in DOMAIN tree' : tree'[p] = tree[p]
    BY <2>2 DEF Evict
  <2> QED BY <2>1, <2>3, KindedLess
<1>3. CASE RetractDecode
  <2>1. /\ rec' = rec /\ retracted' = retracted \cup {Victim} /\ kv' = [kv EXCEPT ![Victim] = <<>>]
        /\ \E D : Evict(D)
    BY <1>3, Zenon DEF RetractDecode, Victim, Order
  <2>2. \A r \in Req : kv'[r] = kv[r] \/ kv'[r] = <<>> BY <2>1 DEF Divided, MemoryTyped
  <2>3. DOMAIN tree' \subseteq DOMAIN tree /\ \A p \in DOMAIN tree' : tree'[p] = tree[p]
    BY <2>1 DEF Evict
  <2> QED BY <2>1, <2>2, <2>3, KindedLess
<1> QED BY <1>1, <1>2, <1>3

\* The prefixes of what a request has are those of its prompt, as far as it goes.
LEMMA PromptTake ==
  ASSUME Located, NEW r \in Req
  PROVE  /\ Prompt[r] \in Seq(Token) /\ out[r] \in Seq(Token) /\ Ids(r) = Prompt[r] \o out[r]
         /\ \A n \in 0 .. Len(Prompt[r]) : Take(Ids(r), n) = Take(Prompt[r], n)
         /\ out[r] = <<>> => Ids(r) = Prompt[r]
<1>1. Prompt[r] \in Seq(Token) \ {<<>>} BY SchedulerAssumption DEF Req
<1>2. out[r] \in Seq(Token) BY DEF Located, Typed
<1>3. \A n \in 0 .. Len(Prompt[r]) : Take(Prompt[r] \o out[r], n) = Take(Prompt[r], n)
  <2> TAKE n \in 0 .. Len(Prompt[r])
  <2> QED BY <1>1, <1>2, TakeConcat
<1>4. out[r] = <<>> => Prompt[r] \o out[r] = Prompt[r] BY <1>1
<1> QED BY <1>1, <1>2, <1>3, <1>4 DEF Ids

\* A new KV of the request q; the record and the other requests are left alone.
LEMMA KindedOne ==
  ASSUME Kinded, rec' = rec, retracted' = retracted, NEW r \in Req,
         \A q \in Req \ {r} : kv'[q] = kv[q], NoExtension => HardTree',
         NoExtension => HardPrompt(r)' /\ (r \notin retracted => AsRecorded(r)')
  PROVE  Kinded'
<1> SUFFICES ASSUME NoExtension, NEW q \in Req \ {r}
             PROVE  HardPrompt(q)' /\ (q \notin retracted' => AsRecorded(q)')
  BY DEF Kinded, NoExtension
<1> QED BY DEF Kinded, HardPrompt, AsRecorded

LEMMA AddOneReqKinded ==
  ASSUME Located, Sampled, Divided, Kinded, AddOneReq
  PROVE  Kinded'
<1>1. PICK r \in Req : r = Candidate
  <2>1. Candidate \in Req BY DEF AddOneReq, Located, Typed, Candidate
  <2> QED BY <2>1
<1> DEFINE p == MatchLen(MaxPrefix(r))
           s == Take(Ids(r), p)
<1>2. /\ kv' = [kv EXCEPT ![r] = Kinds(tree, s)] /\ UNCHANGED <<rec, retracted, tree>>
  BY <1>1, Zenon DEF AddOneReq, reqs
<1>3. kv'[r] = Kinds(tree, s) /\ \A q \in Req \ {r} : kv'[q] = kv[q] BY <1>2 DEF Divided, MemoryTyped
<1>4. r \in Queued BY <1>1, AddOneReqLocated
<1>5. /\ MaxPrefix(r) \in Seq(Token) /\ Len(MaxPrefix(r)) \in 0 .. Len(Ids(r)) - 1
      /\ p \in 0 .. Len(MaxPrefix(r)) /\ Ids(r) \in Seq(Token) /\ Len(Ids(r)) \in Nat
      /\ Take(MaxPrefix(r), p) = s
  <2>1. Ids(r) \in Seq(Token) /\ Len(Ids(r)) \in Nat BY HeldIsMatched
  <2> QED BY <2>1, MaxPrefixIs DEF Located
<1> HIDE DEF p
<1>6. p \in 0 .. Len(Ids(r)) BY <1>5
<1>7. s \in Seq(Token) /\ Len(s) = p /\ Paths(s) \subseteq DOMAIN tree
  <2>1. Paths(Take(MaxPrefix(r), p)) \subseteq DOMAIN tree BY <1>5, MatchLenIs DEF p
  <2> QED BY <1>5, <1>6, <2>1, TakeSeq
<1>8. /\ DOMAIN Kinds(tree, s) = 1 .. p
      /\ \A n \in 1 .. p : Kinds(tree, s)[n] = tree[Take(Ids(r), n)] /\ Take(Ids(r), n) \in DOMAIN tree
  <2>1. DOMAIN Kinds(tree, s) = 1 .. p /\ \A n \in 1 .. p : Kinds(tree, s)[n] = tree[Take(s, n)]
    BY <1>7 DEF Kinds
  <2>2. ASSUME NEW n \in 1 .. p PROVE Take(s, n) = Take(Ids(r), n) /\ Take(s, n) \in DOMAIN tree
    <3>1. n \in 0 .. p BY <1>6
    <3>2. Take(s, n) = Take(Ids(r), n) BY <1>5, <1>6, <3>1, TakeTake
    <3>3. Take(s, n) \in Paths(s) BY <1>7 DEF Paths
    <3> QED BY <1>7, <3>2, <3>3
  <2> QED BY <2>1, <2>2
<1> HIDE DEF s
<1>9. ASSUME NoExtension, NEW n \in 1 .. p, n <= Len(Prompt[r]) PROVE Kinds(tree, s)[n] = "hard"
  <2>1. Len(Prompt[r]) \in Nat BY PromptTake
  <2>2. n \in 0 .. Len(Prompt[r]) /\ n \in 1 .. Len(Prompt[r]) BY <1>6, <1>9, <2>1
  <2>3. Take(Ids(r), n) = Take(Prompt[r], n) BY <2>2, PromptTake
  <2> QED BY <1>8, <1>9, <2>2, <2>3 DEF Kinded, HardTree
<1>10. ASSUME NoExtension PROVE HardPrompt(r)' BY <1>3, <1>8, <1>9, <1>10 DEF HardPrompt
<1>11. ASSUME NoExtension, r \notin retracted PROVE AsRecorded(r)'
  <2>1. out[r] = <<>> BY <1>4, <1>11 DEF Sampled, Rowed
  <2>2. Ids(r) = Prompt[r] BY <2>1, PromptTake
  <2>3. \A n \in 1 .. p : n <= Len(Prompt[r]) BY <1>5, <1>6, <2>2
  <2> QED BY <1>3, <1>8, <1>9, <1>11, <2>3 DEF AsRecorded
<1>12. NoExtension => HardTree' BY <1>2 DEF Kinded, HardTree
<1> QED BY <1>2, <1>3, <1>10, <1>11, <1>12, KindedOne
\* A prefill computes from token ids: all that a request without outputs has.
LEMMA ExtendKinded ==
  ASSUME Located, Sampled, Divided, Kinded, RunExtend
  PROVE  Kinded'
<1>1. /\ UNCHANGED <<rec, retracted>>
      /\ kv' = [r \in Req |-> IF r \in ToSet(adding)
                              THEN kv[r] \o [n \in 1 .. Len(Ids(r)) - locked[r] |-> "hard"]
                              ELSE kv[r]]
  BY DEF RunExtend, reqs
<1>2. DOMAIN tree' \subseteq DOMAIN tree /\ \A p \in DOMAIN tree' : tree'[p] = tree[p]
  <2>1. \E D : Evict(D) BY Zenon DEF RunExtend
  <2> QED BY <2>1 DEF Evict
<1>3. ToSet(adding) = Adding /\ Adding \subseteq Queued BY ExtendLocated DEF ToSet, Adding
<1> SUFFICES ASSUME NoExtension
             PROVE  HardTree' /\ \A r \in Req : HardPrompt(r)' /\ (r \notin retracted => AsRecorded(r)')
  BY <1>1 DEF Kinded, NoExtension
<1>4. HardTree' BY <1>2 DEF Kinded, HardTree
<1>5. ASSUME NEW r \in Req PROVE HardPrompt(r)' /\ (r \notin retracted => AsRecorded(r)')
  <2>1. HardPrompt(r) /\ (r \notin retracted => AsRecorded(r)) BY DEF Kinded
  <2>2. CASE r \notin Adding
    <3>1. kv'[r] = kv[r] BY <1>1, <1>3, <2>2
    <3> QED BY <1>1, <2>1, <3>1 DEF HardPrompt, AsRecorded
  <2>3. CASE r \in Adding
    <3> DEFINE more == Len(Ids(r)) - locked[r]
               hard == [n \in 1 .. more |-> "hard"]
               k == Len(kv[r])
    <3>1. kv'[r] = kv[r] \o hard BY <1>1, <1>3, <2>3
    <3>2. more \in Nat BY NeedNat DEF Divided
    <3>3. k = locked[r] /\ k \in Nat /\ kv[r] \in Seq(Kind)
      BY <2>3 DEF Divided, Lengths, MemoryTyped
    <3>4. hard \in Seq(Kind) /\ Len(hard) = more
      <4> HIDE DEF more
      <4> QED BY <3>2, HardSeq
    <3>5. \A n \in 1 .. more : hard[n] = "hard" OBVIOUS
    <3>6. Len(Ids(r)) \in Nat BY HeldIsMatched
    <3>7. k + more = Len(Ids(r)) BY <3>3, <3>6
    <3> HIDE DEF more, hard
    <3>8. /\ DOMAIN kv'[r] = 1 .. k + more
          /\ \A n \in 1 .. k + more : kv'[r][n] = IF n <= k THEN kv[r][n] ELSE hard[n - k]
          /\ DOMAIN kv[r] = 1 .. k
      <4>1. PICK s, t : s = kv[r] /\ t = hard OBVIOUS
      <4>2. s \in Seq(Kind) /\ t \in Seq(Kind) /\ Len(s) = k /\ Len(t) = more BY <3>3, <3>4, <4>1
      <4> HIDE DEF k
      <4>3. /\ DOMAIN (s \o t) = 1 .. Len(s) + Len(t)
            /\ \A n \in 1 .. Len(s) + Len(t) : (s \o t)[n] = IF n <= Len(s) THEN s[n] ELSE t[n - Len(s)]
        <5>1. s \in Seq(Kind) /\ t \in Seq(Kind) BY <4>2
        <5> QED BY ONLY <5>1, ConcatIs
      <4>4. DOMAIN s = 1 .. k BY <4>2
      <4>5. kv'[r] = s \o t BY <3>1, <4>1
      <4>6. /\ DOMAIN (s \o t) = 1 .. k + more
            /\ \A n \in 1 .. k + more : (s \o t)[n] = IF n <= k THEN s[n] ELSE t[n - k]
        BY <4>2, <4>3
      <4>7. DOMAIN kv[r] = 1 .. k BY <4>1, <4>4
      <4>8. \A n : s[n] = kv[r][n] /\ t[n] = hard[n] BY <4>1
      <4> QED BY <4>5, <4>6, <4>7, <4>8
    <3> HIDE DEF k
    <3>9. ASSUME NEW n \in DOMAIN kv'[r], n <= Len(Prompt[r]) PROVE kv'[r][n] = "hard"
      <4>1. n \in 1 .. k + more BY <3>8
      <4>2. CASE n <= k
        <5>1. n \in DOMAIN kv[r] BY <3>8, <4>1, <4>2
        <5> QED BY <2>1, <3>8, <3>9, <4>1, <4>2, <5>1 DEF HardPrompt
      <4>3. CASE ~(n <= k)
        <5>1. n - k \in 1 .. more BY <3>2, <3>3, <4>1, <4>3
        <5> QED BY <3>5, <3>8, <4>1, <4>3, <5>1
      <4> QED BY <4>2, <4>3
    <3>10. ASSUME r \notin retracted, NEW n \in DOMAIN kv'[r] PROVE n <= Len(Prompt[r])
      <4>1. out[r] = <<>> BY <1>3, <2>3, <3>10 DEF Sampled, Rowed
      <4>2. Ids(r) = Prompt[r] BY <4>1, PromptTake
      <4>3. n \in 1 .. Len(Prompt[r]) BY <3>7, <3>8, <4>2
      <4> QED BY <3>6, <4>2, <4>3
    <3> QED BY <1>1, <3>9, <3>10 DEF HardPrompt, AsRecorded
  <2> QED BY <2>2, <2>3
<1> QED BY <1>4, <1>5

\* A decode step computes from the row that was recorded last.
LEMMA DecodeKinded ==
  ASSUME Located, Sampled, Divided, Kinded, RunDecode
  PROVE  Kinded'
<1>1. /\ UNCHANGED <<rec, retracted>> /\ pc = "decoding"
      /\ kv' = [r \in Req |-> IF r \in ReqsOf(running)
                              THEN Append(kv[r], Last(rec[r]).mix) ELSE kv[r]]
  BY DEF RunDecode, reqs
<1>2. DOMAIN tree' \subseteq DOMAIN tree /\ \A p \in DOMAIN tree' : tree'[p] = tree[p]
  <2>1. \E D : Evict(D) BY Zenon DEF RunDecode
  <2> QED BY <2>1 DEF Evict
<1> SUFFICES ASSUME NoExtension
             PROVE  HardTree' /\ \A r \in Req : HardPrompt(r)' /\ (r \notin retracted => AsRecorded(r)')
  BY <1>1 DEF Kinded, NoExtension
<1>3. HardTree' BY <1>2 DEF Kinded, HardTree
<1>4. ASSUME NEW r \in Req PROVE HardPrompt(r)' /\ (r \notin retracted => AsRecorded(r)')
  <2>1. HardPrompt(r) /\ (r \notin retracted => AsRecorded(r)) BY DEF Kinded
  <2>2. CASE r \notin ReqsOf(running)
    <3>1. kv'[r] = kv[r] BY <1>1, <2>2
    <3> QED BY <1>1, <2>1, <3>1 DEF HardPrompt, AsRecorded
  <2>3. CASE r \in ReqsOf(running)
    <3> DEFINE k == Len(kv[r])
               P == Len(Prompt[r])
               o == Len(out[r])
    <3>1. rows = <<>> /\ ~done[r] BY <1>1, <2>3 DEF Located, Loop
    <3>2. r \notin ReqsOf(rows) /\ r \in Active /\ r \in Live
      BY <2>3, <3>1 DEF ReqsOf, Active, Live
    <3>3. out[r] # <<>> /\ Len(rec[r]) = o
      BY <3>2 DEF Sampled, Rowed, Recorded, RecordFollowsTheSwitch
    <3>4. kv[r] \in Seq(Kind) /\ k = Len(Ids(r)) - 1 BY <3>2 DEF Divided, Lengths, MemoryTyped
    <3>5. P \in Nat /\ o \in Nat /\ Len(Ids(r)) = P + o BY IdsSeq DEF Located
    <3>6. o # 0
      <4>1. \A q \in Seq(Token) : Len(q) = 0 => q = <<>> OBVIOUS
      <4> QED BY <3>3, <4>1, PromptTake, Zenon
    <3>7. kv'[r] = Append(kv[r], Last(rec[r]).mix) BY <1>1, <2>3
    <3>8. /\ DOMAIN kv[r] = 1 .. k /\ DOMAIN kv'[r] = 1 .. k + 1 /\ kv'[r][k + 1] = Last(rec[r]).mix
          /\ \A n \in 1 .. k : kv'[r][n] = kv[r][n]
      BY <3>4, <3>7
    <3>9. Last(rec[r]) = rec[r][o] BY <3>3, Zenon DEF Last
    <3>10. k + 1 = P + o /\ k \in Nat
      <4> DEFINE L == Len(Ids(r))
      <4>1. L = P + o /\ k = L - 1 BY <3>4, <3>5
      <4> HIDE DEF L, P, o, k
      <4> QED BY <3>5, <3>6, <4>1
    <3> HIDE DEF k, P, o
    <3>11. ~(k + 1 <= P) /\ k + 1 - P = o BY <3>5, <3>6, <3>10
    <3>12. \A n \in DOMAIN kv'[r] : n \in DOMAIN kv[r] \/ n = k + 1 BY <3>8, <3>10
    <3>13. HardPrompt(r)' BY <2>1, <3>8, <3>11, <3>12 DEF HardPrompt, P
    <3>14. ASSUME r \notin retracted PROVE AsRecorded(r)'
      <4>1. kv'[r][k + 1] = rec[r][k + 1 - P].mix BY <3>8, <3>9, <3>11
      <4> SUFFICES ASSUME NEW n \in DOMAIN kv'[r]
                   PROVE  kv'[r][n] = IF n <= P THEN "hard" ELSE rec[r][n - P].mix
        BY <1>1 DEF AsRecorded, P
      <4>2. CASE n \in DOMAIN kv[r]
        <5>1. kv[r][n] = IF n <= P THEN "hard" ELSE rec[r][n - P].mix
          BY <2>1, <3>14, <4>2 DEF AsRecorded, P
        <5>2. kv'[r][n] = kv[r][n] BY <3>8, <4>2
        <5> QED BY <5>1, <5>2
      <4>3. CASE n = k + 1
        <5>1. ~(n <= P) BY <3>11, <4>3, Zenon
        <5>2. n - P = k + 1 - P BY <3>5, <3>10, <4>3
        <5>3. kv'[r][n] = rec[r][n - P].mix BY <4>1, <4>3, <5>2, Zenon
        <5> QED BY <5>1, <5>3
      <4> QED BY <3>12, <4>2, <4>3
    <3> QED BY <3>13, <3>14
  <2> QED BY <2>2, <2>3
<1> QED BY <1>3, <1>4
\* Without a prompt that extends another, what leads to a prompt does not go past
\* the end of its own.
LEMMA NotPast ==
  ASSUME Located, NoExtension, NEW r \in Req, NEW q \in Req, NEW n \in 1 .. Len(Prompt[q]),
         n <= Len(Ids(r)), Take(Prompt[q], n) = Take(Ids(r), n)
  PROVE  n <= Len(Prompt[r])
<1> DEFINE m == Len(Prompt[r])
<1>1. /\ Prompt[r] \in Seq(Token) /\ Prompt[q] \in Seq(Token) /\ Ids(r) \in Seq(Token) /\ m \in Nat
      /\ Take(Ids(r), m) = Take(Prompt[r], m)
  <2>1. /\ Prompt[r] \in Seq(Token) /\ Prompt[q] \in Seq(Token) /\ Ids(r) \in Seq(Token)
        /\ \A k \in 0 .. Len(Prompt[r]) : Take(Ids(r), k) = Take(Prompt[r], k)
    BY PromptTake, IdsSeq DEF Located
  <2>2. m \in Nat /\ m \in 0 .. m BY <2>1
  <2> QED BY <2>1, <2>2
<1>2. Len(Prompt[q]) \in Nat /\ Len(Ids(r)) \in Nat BY <1>1
<1> SUFFICES ASSUME m < n PROVE FALSE
  BY <1>1
<1> HIDE DEF m
<1>3. m \in 0 .. n /\ n \in 0 .. Len(Prompt[q]) /\ n \in 0 .. Len(Ids(r)) /\ m <= Len(Prompt[q])
  BY <1>1, <1>2
<1>4. Take(Prompt[q], m) = Take(Ids(r), m)
  <2>1. Take(Take(Prompt[q], n), m) = Take(Prompt[q], m) BY <1>1, <1>3, TakeTake
  <2>2. Take(Take(Ids(r), n), m) = Take(Ids(r), m) BY <1>1, <1>3, TakeTake
  <2> QED BY <2>1, <2>2
<1>5. SubSeq(Prompt[r], 1, m) = SubSeq(Prompt[q], 1, m) BY <1>1, <1>4 DEF Take
<1>6. m = Len(Prompt[r]) BY DEF m
<1>7. Prompt[r] # Prompt[q] BY <1>2, <1>3, <1>6
<1>8. IsPrefix(Prompt[r], Prompt[q]) BY <1>3, <1>5, <1>6 DEF IsPrefix
<1>9. IsStrictPrefix(Prompt[r], Prompt[q]) BY <1>7, <1>8 DEF IsStrictPrefix
<1> QED BY <1>9 DEF NoExtension

\* What a request puts in the tree of a prompt is hard.
LEMMA InsertHard ==
  ASSUME Located, Divided, NoExtension, HardTree, NEW r \in Req, HardPrompt(r),
         Len(kv[r]) = Len(Ids(r)), tree' = Inserted(Ids(r), kv[r])
  PROVE  HardTree'
<1> SUFFICES ASSUME NEW q \in Req, NEW n \in 1 .. Len(Prompt[q]), Take(Prompt[q], n) \in DOMAIN tree'
             PROVE  tree'[Take(Prompt[q], n)] = "hard"
  BY DEF HardTree
<1> DEFINE p == Take(Prompt[q], n)
           s == Ids(r)
<1>1. s \in Seq(Token) /\ Prompt[q] \in Seq(Token) BY PromptTake, HeldIsMatched
<1>2. p \in DOMAIN tree \cup Paths(s) /\ tree'[p] = IF p \in DOMAIN tree THEN tree[p] ELSE kv[r][Len(p)]
  BY DEF Inserted
<1>3. Len(p) = n
  <2>1. Len(Prompt[q]) \in Nat BY <1>1
  <2>2. n \in 0 .. Len(Prompt[q]) BY <2>1
  <2> QED BY <1>1, <2>2, TakeSeq
<1>4. CASE p \in DOMAIN tree BY <1>2, <1>4 DEF HardTree
<1>5. CASE p \in Paths(s) /\ p \notin DOMAIN tree
  <2>1. Len(p) \in 1 .. Len(s) /\ p = Take(s, Len(p)) BY <1>1, <1>5, PathsSet
  <2> HIDE DEF p, s
  <2>2. n \in 1 .. Len(s) /\ p = Take(s, n) BY <1>3, <2>1
  <2>3. Len(s) \in Nat BY <1>1
  <2>4. n <= Len(s) BY <2>2, <2>3
  <2>5. n <= Len(Prompt[r]) BY <2>2, <2>4, NotPast DEF p, s
  <2>6. kv[r] \in Seq(Kind) /\ n \in DOMAIN kv[r]
    <3>1. kv[r] \in Seq(Kind) BY DEF Divided, MemoryTyped
    <3>2. DOMAIN kv[r] = 1 .. Len(s) BY <3>1 DEF s
    <3> QED BY <2>2, <3>1, <3>2
  <2>7. kv[r][n] = "hard" BY <2>5, <2>6 DEF HardPrompt
  <2>8. tree'[p] = kv[r][n] BY <1>2, <1>3, <1>5
  <2> QED BY <2>7, <2>8 DEF p
<1> HIDE DEF p, s
<1>6. tree'[p] = "hard" BY <1>2, <1>4, <1>5 DEF p
<1> QED BY <1>6 DEF p

LEMMA TokenKinded ==
  ASSUME Located, Sampled, Divided, Kinded, NEW t \in Token, ProcessPrefill(t) \/ ProcessDecode(t)
  PROVE  Kinded'
<1>1. TokenStep(t) BY TokenStepIs
<1>2. PICK r \in Req : r = Head(rows).req BY <1>1, TokenPlaces
<1>3. r \in Live /\ r \in ReqsOf(rows) BY <1>1, <1>2, TokenPlaces
<1>4. Len(kv[r]) = Len(Ids(r)) BY <1>3 DEF Divided, Lengths
<1>5. /\ \A q \in Req \ {r} : rec'[q] = rec[q]
      /\ \E e : rec'[r] = Append(rec[r], e)
      /\ retracted' = retracted
  BY <1>1, <1>2, TokenEffect
<1>6. \/ CacheFinishedReq(r)
      \/ pc = "prefilled" /\ CacheUnfinishedReq(r)
      \/ UNCHANGED memory
  BY <1>2, Zenon DEF ProcessPrefill, ProcessDecode
<1>7. /\ kv \in [Req -> Seq(Kind)] /\ rec[r] \in Seq(Entry) /\ Len(rec[r]) = Len(out[r])
      /\ Len(Prompt[r]) \in Nat /\ Len(out[r]) \in Nat /\ Len(Ids(r)) = Len(Prompt[r]) + Len(out[r])
  BY IdsSeq DEF Divided, MemoryTyped, Located, Typed, Sampled, Recorded, RecordFollowsTheSwitch
<1> SUFFICES ASSUME NoExtension
             PROVE  HardTree' /\ \A q \in Req : HardPrompt(q)' /\ (q \notin retracted => AsRecorded(q)')
  BY <1>5 DEF Kinded, NoExtension
<1>8. /\ HardTree /\ \A q \in Req : HardPrompt(q)
      /\ \A q \in Req : q \notin retracted => AsRecorded(q)
  BY DEF Kinded
<1>9. ASSUME NEW q \in Req \ {r}, kv'[q] = kv[q]
      PROVE  HardPrompt(q)' /\ (q \notin retracted => AsRecorded(q)')
  BY <1>5, <1>8, <1>9 DEF HardPrompt, AsRecorded
<1>10. CASE CacheFinishedReq(r)
  <2>1. kv' = [kv EXCEPT ![r] = <<>>] /\ tree' = Inserted(Ids(r), kv[r]) BY <1>10 DEF CacheFinishedReq
  <2>2. kv'[r] = <<>> /\ \A q \in Req \ {r} : kv'[q] = kv[q] BY <1>7, <2>1
  <2>3. HardTree' BY <1>4, <1>8, <2>1, InsertHard
  <2>4. DOMAIN kv'[r] = {} BY <2>2
  <2>5. HardPrompt(r)' /\ AsRecorded(r)' BY <2>4 DEF HardPrompt, AsRecorded
  <2> QED BY <1>9, <2>2, <2>3, <2>5
<1>11. CASE pc = "prefilled" /\ CacheUnfinishedReq(r)
  <2> DEFINE s == Ids(r)
             grown == Inserted(s, kv[r])
  <2>1. kv' = [kv EXCEPT ![r] = Kinds(grown, s)] /\ tree' = grown BY <1>11 DEF CacheUnfinishedReq
  <2>2. kv'[r] = Kinds(grown, s) /\ \A q \in Req \ {r} : kv'[q] = kv[q] BY <1>7, <2>1
  <2>3. HardTree' BY <1>4, <1>8, <2>1, InsertHard
  <2>4. DOMAIN kv'[r] = 1 .. Len(s) /\ \A n \in 1 .. Len(s) : kv'[r][n] = tree'[Take(s, n)]
    BY <2>1, <2>2 DEF Kinds
  <2>5. \A n \in 1 .. Len(s) : Take(s, n) \in DOMAIN tree' BY <2>1 DEF Inserted, Paths
  <2>6. ASSUME NEW n \in DOMAIN kv'[r], n <= Len(Prompt[r]) PROVE kv'[r][n] = "hard"
    <3> HIDE DEF s
    <3>1. n \in 1 .. Len(s) BY <2>4
    <3>2. n \in 1 .. Len(Prompt[r]) /\ n \in 0 .. Len(Prompt[r]) BY <1>7, <2>6, <3>1
    <3>3. Take(s, n) = Take(Prompt[r], n) BY <3>2, PromptTake DEF s
    <3> QED BY <2>3, <2>4, <2>5, <3>1, <3>2, <3>3 DEF HardTree
  <2>7. HardPrompt(r)' BY <2>6 DEF HardPrompt
  <2>8. ASSUME r \notin retracted PROVE AsRecorded(r)'
    <3>1. out[r] = <<>> BY <1>3, <1>11, <2>8 DEF Sampled, Rowed
    <3>2. s = Prompt[r] BY <3>1, PromptTake
    <3> HIDE DEF s
    <3>4. DOMAIN kv'[r] = 1 .. Len(Prompt[r]) BY <2>4, <3>2, Zenon
    <3>5. Len(Prompt[r]) \in Nat BY <1>7
    <3>3. \A n \in DOMAIN kv'[r] : n <= Len(Prompt[r])
      <4> DEFINE P == Len(Prompt[r])
      <4>1. P \in Nat /\ DOMAIN kv'[r] = 1 .. P BY <3>4, <3>5
      <4> HIDE DEF P
      <4>2. \A n \in 1 .. P : n <= P BY <4>1
      <4> QED BY <4>1, <4>2, Zenon DEF P
    <3> QED BY <2>6, <3>3 DEF AsRecorded
  <2> QED BY <1>9, <2>2, <2>3, <2>7, <2>8
<1>12. CASE UNCHANGED memory
  <2>1. UNCHANGED <<kv, tree>> BY <1>12 DEF memory
  <2>2. HardTree' BY <1>8, <2>1 DEF HardTree
  <2>3. HardPrompt(r)' BY <1>8, <2>1 DEF HardPrompt
  <2>4. ASSUME r \notin retracted PROVE AsRecorded(r)'
    <3> SUFFICES ASSUME NEW n \in DOMAIN kv[r], ~(n <= Len(Prompt[r]))
                 PROVE  rec'[r][n - Len(Prompt[r])] = rec[r][n - Len(Prompt[r])]
      BY <1>8, <2>1, <2>4 DEF AsRecorded
    <3> DEFINE P == Len(Prompt[r])
               o == Len(rec[r])
    <3>1. DOMAIN kv[r] = 1 .. Len(Ids(r)) BY <1>4, <1>7
    <3>2. P \in Nat /\ o \in Nat /\ Len(Ids(r)) = P + o /\ ~(n <= P) BY <1>7
    <3>3. \A i \in 1 .. o : rec'[r][i] = rec[r][i] BY <1>5, <1>7
    <3> HIDE DEF P, o
    <3>4. n \in 1 .. P + o BY <3>1, <3>2
    <3>5. n - P \in 1 .. o BY <3>2, <3>4
    <3> QED BY <3>3, <3>5 DEF P
  <2> QED BY <1>9, <2>1, <2>2, <2>3, <2>4
<1> QED BY <1>6, <1>10, <1>11, <1>12

LEMMA StepKinded ==
  ASSUME Located, Sampled, Divided, Kinded, [Next]_vars
  PROVE  Kinded'
<1>1. CASE \E t \in Token : ProcessPrefill(t) \/ ProcessDecode(t) BY <1>1, TokenKinded
<1>2. CASE AddOneReq BY <1>2, AddOneReqKinded
<1>3. CASE RunExtend BY <1>3, ExtendKinded
<1>4. CASE RunDecode BY <1>4, DecodeKinded
<1> QED BY <1>1, <1>2, <1>3, <1>4, LessKinded DEF Next, Step

\* A request that was not retracted decodes with KV computed from the rows it
\* recorded, which the actor recomputes log-probabilities from, as long as no prompt
\* extends another (the radix cache compares token ids only).
THEOREM KVFollowsTheRecord == Spec => []KVIsTheRecord
<1>1. Init => Located /\ Sampled /\ Divided /\ Room /\ Kinded
  BY InitLocated, InitSampled, InitDivided, InitRoom, InitKinded
<1>2. Located /\ Sampled /\ Divided /\ Room /\ Kinded /\ [Next]_vars
        => Located' /\ Sampled' /\ Divided' /\ Room' /\ Kinded'
  BY StepLocated, StepSampled, StepDivided, StepKinded
<1>3. Kinded => KVIsTheRecord BY DEF Kinded, NoExtension, AsRecorded, KVIsTheRecord
<1> QED BY <1>1, <1>2, <1>3, PTL DEF Spec
===============================================================================
