------------------------------ MODULE RadixCache ------------------------------
(***************************************************************************)
(* The radix cache of the rollout engine (mem_cache/radix_cache.py), the   *)
(* allocator of KV slots (mem_cache/memory_pool.py) and the calls the      *)
(* scheduler makes on them: match, admit and lock, allocate for a prefill  *)
(* or a decode batch, evict, retract, cache_unfinished_req,                *)
(* cache_finished_req, flush.  One thread makes all calls, in the order of *)
(* event_loop_normal; page size 1.                                         *)
(*                                                                         *)
(* A node of the tree is named by the whole token sequence from the root   *)
(* to its end: _split_node keeps the child object, whose sequence stays    *)
(* the same, and puts a new node above it.  The root is <<>>.              *)
(***************************************************************************)
EXTENDS Integers, Sequences, FiniteSets, SequencesExt, Sums

CONSTANTS
  Token,
  Slot,      \* the KV slots of the allocator
  Req,
  MaxLen,    \* bound: tokens of a request with KV (max_req_len)
  RetractSteps,  \* retract_decode_steps
  None

ASSUME CacheAssumption ==
  /\ IsFiniteSet(Slot) /\ IsFiniteSet(Req)
  /\ MaxLen \in 1 .. Cardinality(Slot) /\ RetractSteps \in Nat \ {0}
  /\ None \notin Req /\ None \notin Seq(Token)

VARIABLES
  tree,    \* ref: lock_ref of each node; slot: the slot of each cached prefix;
           \* evictable, protected: the two counters
  free,    \* how often a slot is in free_slots
  req,     \* per request: ids (the tokens with KV), row (of req_to_token),
           \* prefix (len(prefix_indices)), last (last_node), at
  job      \* the allocation under way: what for, the requests of the batch,
           \* tokens still to evict, and whether a request has been retracted

vars == <<tree, free, req, job>>

Take(s, n) == SubSeq(s, 1, n)
Paths(s) == {Take(s, n) : n \in 1 .. Len(s)}
Keys == UNION {[1 .. n -> Token] : n \in 1 .. MaxLen}
Available == Total(free, Slot)

Out == [ids |-> <<>>, row |-> <<>>, prefix |-> 0, last |-> <<>>, at |-> "out"]
Admitted == {r \in Req : req[r].at # "out"}
At(place) == {r \in Req : req[r].at = place}
NoJob == [for |-> "none", batch |-> {}, evict |-> 0, retracted |-> FALSE]

\* The slots the requests R have yet to get.
Lacking(R) == Total([r \in R |-> Len(req[r].ids) - Len(req[r].row)], R)

-------------------------------------------------------------------------------
(* The tree, as functions from a tree to a tree *)

Nodes(t) == DOMAIN t.ref
Above(t, n) == {m \in Nodes(t) : IsPrefix(m, n)}

\* The cached prefixes that belong to node m: the length of its key.
Own(t, m) == Paths(m) \ UNION {Paths(n) : n \in Above(t, m) \ {m}}
Size(t, N) == Cardinality(UNION {Own(t, m) : m \in N})

MatchLen(t, s) == Max({n \in 0 .. Len(s) : Paths(Take(s, n)) \subseteq DOMAIN t.slot})
Matched(t, s) == Take(s, MatchLen(t, s))

\* The node a new one is put above: the next one below s.
Child(t, s) == CHOOSE n \in Nodes(t) : IsPrefix(s, n) /\ s \in Own(t, n)

\* Mutant of Split: the new node starts unlocked.
SplitUnlocked(t, s) ==
  IF s \in Nodes(t) \cup {<<>>} THEN t
  ELSE [t EXCEPT !.ref = [n \in Nodes(t) \cup {s} |-> IF n = s THEN 0 ELSE t.ref[n]]]

\* _split_node, where a key leaves a node in its middle.
Split(t, s) ==
  IF s \in Nodes(t) \cup {<<>>} THEN t
  ELSE [t EXCEPT !.ref = [n \in Nodes(t) \cup {s} |-> IF n = s THEN t.ref[Child(t, s)] ELSE t.ref[n]]]

\* insert: a leaf for what is not there; where the tree has slots it keeps them.
Insert(t, s, row) ==
  LET old == Split(t, Matched(t, s))
  IN IF s \in DOMAIN t.slot \cup {<<>>} THEN old
     ELSE [ref       |-> [n \in Nodes(old) \cup {s} |-> IF n = s THEN 0 ELSE old.ref[n]],
           slot      |-> [p \in DOMAIN t.slot \cup Paths(s) |->
                            IF p \in DOMAIN t.slot THEN t.slot[p] ELSE row[Len(p)]],
           evictable |-> t.evictable + Len(s) - MatchLen(t, s),
           protected |-> t.protected]

\* inc_lock_ref and dec_lock_ref: the path up to the root; a node's tokens move
\* between the counters when its first holder comes or its last one goes.
IncLockRef(t, n) ==
  LET moved == Size(t, {m \in Above(t, n) : t.ref[m] = 0})
  IN [t EXCEPT !.ref = [m \in Nodes(t) |-> IF IsPrefix(m, n) THEN t.ref[m] + 1 ELSE t.ref[m]],
               !.evictable = @ - moved, !.protected = @ + moved]

\* Mutant of DecLockRef: tokens become evictable with the first holder that goes.
DecLockRefEarly(t, n) ==
  LET moved == Size(t, Above(t, n))
  IN [t EXCEPT !.ref = [m \in Nodes(t) |-> IF IsPrefix(m, n) THEN t.ref[m] - 1 ELSE t.ref[m]],
               !.evictable = @ + moved, !.protected = @ - moved]

DecLockRef(t, n) ==
  LET moved == Size(t, {m \in Above(t, n) : t.ref[m] = 1})
  IN [t EXCEPT !.ref = [m \in Nodes(t) |-> IF IsPrefix(m, n) THEN t.ref[m] - 1 ELSE t.ref[m]],
               !.evictable = @ + moved, !.protected = @ - moved]

\* Mutant of Leaves: lock_ref is not looked at.
AllLeaves(t) == {n \in Nodes(t) : \A m \in Nodes(t) : IsPrefix(n, m) => m = n}

\* What evict may take next; which leaf is the oldest is left open.
Leaves(t) == {n \in Nodes(t) : t.ref[n] = 0 /\ \A m \in Nodes(t) : IsPrefix(n, m) => m = n}

\* free_slots after the slots of the sequence s are freed.
Freed(s) == [x \in Slot |-> free[x] + Cardinality({i \in DOMAIN s : s[i] = x})]

-------------------------------------------------------------------------------
EmptyTree == [ref |-> [n \in {} |-> 0], slot |-> [n \in {} |-> 0], evictable |-> 0, protected |-> 0]

Init ==
  /\ tree = EmptyTree
  /\ free = [x \in Slot |-> 1]
  /\ req = [r \in Req |-> Out]
  /\ job = NoJob

\* Between two batches: results are processed before the next batch is made.
Idle == job = NoJob /\ At("computed") = {}

\* init_next_round_input of a candidate that is then refused: add_one_req has
\* locked and unlocked the node, what stays is the split.
Refuse(s) ==
  /\ Idle
  /\ tree' = Split(tree, Matched(tree, s))
  /\ UNCHANGED <<free, req, job>>

\* A request for s is admitted to the next prefill batch, if its tokens and those
\* of the batch so far fit in what is free or what, once its prefix is locked,
\* evictable_size() promises.  Only the first limit tokens are matched: one at
\* least is recomputed, and with logprobs all from logprob_start_len on.
Admit(r, s, limit) ==
  LET prefix == Matched(tree, Take(s, limit))
      locked == IncLockRef(Split(tree, prefix), prefix)
  IN /\ Idle /\ r \notin Admitted /\ limit < Len(s)
     /\ Lacking(At("admitted")) + Len(s) - Len(prefix) <= Available + locked.evictable
     /\ tree' = locked
     /\ req' = [req EXCEPT ![r] = [ids |-> s, row |-> [i \in DOMAIN prefix |-> tree.slot[Take(s, i)]],
                                   prefix |-> Len(prefix), last |-> prefix, at |-> "admitted"]]
     /\ UNCHANGED <<free, job>>

\* What is to be evicted first when a batch needs so many slots.
ToEvict(need) == IF Available < need THEN need ELSE 0

\* prepare_for_extend of the batch admitted.
Extend ==
  /\ Idle /\ At("admitted") # {}
  /\ job' = [NoJob EXCEPT !.for = "extend", !.batch = At("admitted"), !.evict = ToEvict(Lacking(At("admitted")))]
  /\ UNCHANGED <<tree, free, req>>

\* update_running_batch, from check_decode_mem: each running request is to get the
\* KV of one more token.
Decode(next) ==
  /\ Idle /\ At("admitted") = {} /\ At("running") # {}
  /\ \A r \in At("running") : Len(req[r].ids) < MaxLen
  /\ req' = [r \in Req |-> IF req[r].at = "running" THEN [req[r] EXCEPT !.ids = Append(@, next[r])] ELSE req[r]]
  /\ job' = [NoJob EXCEPT !.for = "decode", !.batch = At("running"), !.evict = ToEvict(Cardinality(At("running")))]
  /\ UNCHANGED <<tree, free>>

\* One turn of evict's loop.
EvictLeaf(n) ==
  /\ job.evict > 0 /\ n \in Leaves(tree)
  /\ free' = [x \in Slot |-> free[x] + Cardinality({p \in Own(tree, n) : tree.slot[p] = x})]
  /\ tree' = [ref  |-> [m \in Nodes(tree) \ {n} |-> tree.ref[m]],
              slot |-> [p \in DOMAIN tree.slot \ Own(tree, n) |-> tree.slot[p]],
              evictable |-> tree.evictable - Cardinality(Own(tree, n)),
              protected |-> tree.protected]
  /\ job' = [job EXCEPT !.evict = @ - Cardinality(Own(tree, n))]
  /\ UNCHANGED req

Evicted == job # NoJob /\ (job.evict <= 0 \/ Leaves(tree) = {})
OneLeft == Cardinality(job.batch) = 1

\* The batch may be prepared.  Once it has retracted, retract_decode goes on until
\* there is room for RetractSteps tokens of each request or one request is left.
Enough ==
  /\ Lacking(job.batch) <= Available
  /\ job.retracted => OneLeft \/ Cardinality(job.batch) * RetractSteps <= Available

\* alloc takes the slots at the head of free_slots, whichever these are; without
\* enough of them it returns None and the scheduler raises: no step.
Alloc ==
  /\ Evicted /\ Enough
  /\ LET gets == {g \in job.batch \X (1 .. MaxLen) : g[2] \in Len(req[g[1]].row) + 1 .. Len(req[g[1]].ids)}
     IN \E new \in [gets -> {x \in Slot : free[x] > 0}] :
          LET used(x) == Cardinality({g \in gets : new[g] = x})
          IN /\ \A x \in Slot : used(x) <= free[x]
             /\ free' = [x \in Slot |-> free[x] - used(x)]
             /\ req' = [r \in Req |->
                  IF r \notin job.batch THEN req[r]
                  ELSE [req[r] EXCEPT !.row = [i \in DOMAIN req[r].ids |-> IF i \in DOMAIN @ THEN @[i] ELSE new[<<r, i>>]],
                                      !.at = IF @ = "admitted" THEN "computed" ELSE @]]
  /\ job' = NoJob
  /\ UNCHANGED tree

\* retract_decode: r leaves, what it does not share is freed, its prefix is
\* unlocked, and the room for the others evicted.
Retract(r) ==
  LET rest == job.batch \ {r}
      left == Freed(SubSeq(req[r].row, req[r].prefix + 1, Len(req[r].row)))
  IN /\ job.for = "decode" /\ Evicted /\ ~Enough /\ ~OneLeft /\ r \in job.batch
     /\ free' = left
     /\ tree' = DecLockRef(tree, req[r].last)
     /\ req' = [req EXCEPT ![r] = Out]
     /\ job' = [job EXCEPT !.batch = rest, !.retracted = TRUE,
                           !.evict = Max({0, Cardinality(rest) * RetractSteps - Total(left, Slot)})]

\* The slots a request has for what the tree has as well, freed by both callers of insert.
Doubles(r) == SubSeq(req[r].row, req[r].prefix + 1, MatchLen(tree, req[r].ids))

\* Mutant of CacheUnfinishedReq: the request goes on with the slots just freed.
CacheUnfinishedReqOldRow(r) ==
  LET ids == req[r].ids
      grown == Insert(tree, ids, req[r].row)
  IN /\ job = NoJob /\ req[r].at = "computed"
     /\ free' = Freed(Doubles(r))
     /\ tree' = IncLockRef(DecLockRef(grown, req[r].last), ids)
     /\ req' = [req EXCEPT ![r].prefix = Len(ids), ![r].last = ids, ![r].at = "running"]
     /\ UNCHANGED job

\* cache_unfinished_req, after a prefill: from the old prefix on, the tree's slots
\* replace the request's.
CacheUnfinishedReq(r) ==
  LET ids == req[r].ids
      grown == Insert(tree, ids, req[r].row)
  IN /\ job = NoJob /\ req[r].at = "computed"
     /\ free' = Freed(Doubles(r))
     /\ tree' = IncLockRef(DecLockRef(grown, req[r].last), ids)
     /\ req' = [req EXCEPT ![r].row = [i \in DOMAIN ids |-> IF i <= req[r].prefix THEN @[i]
                                                            ELSE grown.slot[Take(ids, i)]],
                           ![r].prefix = Len(ids), ![r].last = ids, ![r].at = "running"]
     /\ UNCHANGED job

\* A request that is at its end after a prefill or a decode.
Finishes(r) == job = NoJob /\ At("admitted") = {} /\ req[r].at \in {"computed", "running"}

\* Mutant of CacheFinishedReq: the doubles are not freed.
CacheFinishedReqLeak(r) ==
  /\ Finishes(r)
  /\ free' = free
  /\ tree' = DecLockRef(Insert(tree, req[r].ids, req[r].row), req[r].last)
  /\ req' = [req EXCEPT ![r] = Out]
  /\ UNCHANGED job

\* cache_finished_req
CacheFinishedReq(r) ==
  /\ Finishes(r)
  /\ free' = Freed(Doubles(r))
  /\ tree' = DecLockRef(Insert(tree, req[r].ids, req[r].row), req[r].last)
  /\ req' = [req EXCEPT ![r] = Out]
  /\ UNCHANGED job

\* flush_cache.  It is refused while requests are waiting or running; that none is
\* in last_batch only, where it does not look, is the worker's part: see
\* NothingLiveIsFlushed in RolloutEngine.
Flush ==
  /\ Idle /\ Admitted = {}
  /\ tree' = EmptyTree
  /\ free' = [x \in Slot |-> 1]
  /\ UNCHANGED <<req, job>>

Next ==
  \/ \E s \in Keys : Refuse(s)
  \/ \E r \in Req :
       \/ \E s \in Keys, limit \in 0 .. MaxLen - 1 : Admit(r, s, limit)
       \/ CacheUnfinishedReq(r) \/ CacheFinishedReq(r) \/ Retract(r)
  \/ Extend \/ \E next \in [At("running") -> Token] : Decode(next)
  \/ \E n \in Nodes(tree) : EvictLeaf(n)
  \/ Alloc \/ Flush

Spec == Init /\ [][Next]_vars

-------------------------------------------------------------------------------
(* Properties *)

\* Every slot is in exactly one place: free, in the tree, or a request's own.
\* None is leaked and none is freed twice, whichever requests compute the same
\* tokens at the same time.
Holders(x) ==
  free[x] + Cardinality({p \in DOMAIN tree.slot : tree.slot[p] = x})
          + Cardinality({g \in Req \X (1 .. MaxLen) :
                            /\ g[2] \in req[g[1]].prefix + 1 .. Len(req[g[1]].row)
                            /\ req[g[1]].row[g[2]] = x})
SlotsConserved == \A x \in Slot : Holders(x) = 1

\* What a request reads below its prefix are the tree's slots, for its own
\* tokens: no slot it uses has been evicted or given to another.
RowsAreTheTrees ==
  \A r \in Admitted :
    /\ req[r].last = Take(req[r].ids, req[r].prefix)
    /\ req[r].last \in Nodes(tree) \cup {<<>>}
    /\ \A i \in 1 .. req[r].prefix :
         Take(req[r].ids, i) \in DOMAIN tree.slot /\ tree.slot[Take(req[r].ids, i)] = req[r].row[i]

\* lock_ref counts the holders of a node however it came to be, by a split of a
\* locked node too, and the counters the scheduler plans with are the sizes.
CountersExact ==
  /\ \A n \in Nodes(tree) : tree.ref[n] = Cardinality({r \in Admitted : IsPrefix(n, req[r].last)})
  /\ tree.evictable = Size(tree, {n \in Nodes(tree) : tree.ref[n] = 0})
  /\ tree.protected = Size(tree, {n \in Nodes(tree) : tree.ref[n] > 0})

\* evict delivers what evictable_size() promised: a prefill that was admitted
\* gets its slots, and when retracting has left one request there is room for it
\* ("Prefill out of memory", "No space left for only one request").
EvictionDelivers == Evicted => Enough \/ (job.for = "decode" /\ ~OneLeft)

\* For the scheduler it is a cache of prefixes in which what is held stays.
Cache == INSTANCE PrefixCache WITH
  Pool <- Cardinality(Slot), NoPrefix <- None, cached <- DOMAIN tree.slot, avail <- Available,
  held <- [r \in Req |-> IF r \in Admitted THEN req[r].last ELSE None],
  private <- [r \in Req |-> Len(req[r].row) - req[r].prefix]

ImplementsPrefixCache == Cache!Spec
===============================================================================
