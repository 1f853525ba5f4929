------------------------------ MODULE PrefixCache ------------------------------
(***************************************************************************)
(* What the scheduler of the rollout engine expects of its memory: a cache *)
(* of the KV of token sequences, closed under prefixes, and a pool the     *)
(* cache shares with the requests.  A request holds a cached prefix, which *)
(* then stays, and takes slots of its own for what follows.  No slot is    *)
(* lost and none is created.                                               *)
(***************************************************************************)
EXTENDS Naturals, Sequences, FiniteSets, Sums

CONSTANTS Req, Pool, NoPrefix

VARIABLES
  cached,    \* the sequences whose last token's KV is in the cache
  held,      \* the prefix a request holds, NoPrefix when it is not admitted
  private,   \* slots of its own
  avail

vars == <<cached, held, private, avail>>

Paths(s) == {SubSeq(s, 1, n) : n \in 1 .. Len(s)}
Admitted == {r \in Req : held[r] # NoPrefix}
Kept == UNION {Paths(held[r]) : r \in Admitted}

Init ==
  /\ cached = {} /\ avail = Pool
  /\ held = [r \in Req |-> NoPrefix]
  /\ private = [r \in Req |-> 0]

Hold(r, s) ==
  /\ r \notin Admitted /\ Paths(s) \subseteq cached
  /\ held' = [held EXCEPT ![r] = s]
  /\ UNCHANGED <<cached, private, avail>>

\* A batch of requests takes slots at once.
TakeSlots(more) ==
  /\ \A r \in Req : more[r] > 0 => r \in Admitted
  /\ Total(more, Req) <= avail /\ avail' = avail - Total(more, Req)
  /\ private' = [r \in Req |-> private[r] + more[r]]
  /\ UNCHANGED <<cached, held>>

\* The request's slots become the cache's; those for what is cached already are freed.
Give(r, s) ==
  /\ r \in Admitted
  /\ Len(s) = Len(held[r]) + private[r] /\ SubSeq(s, 1, Len(held[r])) = held[r]
  /\ cached' = cached \cup Paths(s)
  /\ avail' = avail + private[r] - Cardinality(Paths(s) \ cached)
  /\ private' = [private EXCEPT ![r] = 0]

Share(r, s) == Give(r, s) /\ held' = [held EXCEPT ![r] = s]
Leave(r, s) == Give(r, s) /\ held' = [held EXCEPT ![r] = NoPrefix]

\* The request goes without leaving anything.
Drop(r) ==
  /\ r \in Admitted
  /\ avail' = avail + private[r]
  /\ private' = [private EXCEPT ![r] = 0]
  /\ held' = [held EXCEPT ![r] = NoPrefix]
  /\ UNCHANGED cached

\* What no request holds may go.
Evict(S) ==
  /\ S \cap Kept = {}
  /\ \A s \in cached \ S : Paths(s) \cap S = {}
  /\ cached' = cached \ S /\ avail' = avail + Cardinality(S)
  /\ UNCHANGED <<held, private>>

Flush ==
  /\ Admitted = {}
  /\ cached' = {} /\ avail' = Pool
  /\ UNCHANGED <<held, private>>

\* The sequences a step can be about are those of the cache before or after it.
Next ==
  \/ \E r \in Req : \/ \E s \in cached \cup {<<>>} : Hold(r, s)
                    \/ \E s \in cached' \cup {<<>>} : Share(r, s) \/ Leave(r, s)
                    \/ Drop(r)
  \/ \E more \in [Req -> 0 .. Pool] : TakeSlots(more)
  \/ \E S \in {cached \ cached'} : Evict(S)
  \/ Flush

Spec == Init /\ [][Next]_vars
===============================================================================
