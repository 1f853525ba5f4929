---------------------------- MODULE LatentBatch ----------------------------
(***************************************************************************)
(* The SGLang scheduler of the latent rollout engine, in the loop the      *)
(* trainer and the evaluation scripts start (disable_overlap_schedule):    *)
(* event_loop_normal receives requests, merges the last prefill batch into *)
(* the running batch, prefills what fits, else decodes, retracting         *)
(* requests when the KV pool is exhausted, and processes every row of the  *)
(* result.  One loop iteration is several actions, in the code's order;    *)
(* the scheduler is one thread, and requests arrive only at its head.      *)
(*                                                                         *)
(* A token is a member of Token; only the latent end token and the EOS     *)
(* token are distinguished.  A position of the KV cache is "soft" when it  *)
(* was computed from a superposition of embeddings and "hard" when it was  *)
(* computed from one token id.  Page size 1, no chunked prefill, no        *)
(* speculative decoding, FCFS policy, and no more requests in a call than  *)
(* max_running_requests.                                                   *)
(***************************************************************************)
EXTENDS Integers, Sequences, FiniteSets, SequencesExt, Sums

CONSTANTS Token,          \* the vocabulary
          LatentEnd,      \* latent_end_token_id
          Eos,            \* eos_token_ids
          Prompt,         \* origin_input_ids of the requests of a generate call
          MaxNew,         \* sampling_params.max_new_tokens of each request
          Pool,           \* max_total_num_tokens, the slots of the KV pool
          RetractSteps,   \* global_config.retract_decode_steps
          Ratios,         \* the values new_token_ratio takes, in percent
          ReturnLogprob   \* TRUE in training, FALSE in the evaluation scripts

Req == DOMAIN Prompt

ASSUME SchedulerAssumption ==
  /\ LatentEnd \in Token /\ Eos \in Token /\ LatentEnd # Eos
  /\ RetractSteps \in Nat \ {0}
  /\ Prompt \in Seq(Seq(Token) \ {<<>>})
  /\ MaxNew \in [DOMAIN Prompt -> Nat]
  /\ ReturnLogprob \in BOOLEAN /\ Ratios \subseteq 0 .. 100 /\ Ratios # {}

\* handle_generate_request clips max_new_tokens to the pool.
ASSUME PoolAssumption ==
  Pool \in Nat /\ \A r \in Req : Len(Prompt[r]) + MaxNew[r] + 2 <= Pool

VARIABLES
  pc,         \* where event_loop_normal is
  sent,       \* how many requests have been received
  waiting,    \* waiting_queue
  running,    \* running_batch: rows of a request and its latent_modes flag
  last,       \* last_batch when it was a prefill batch
  rows,       \* the rows of the forward pass not yet processed
  full,       \* running_batch.batch_is_full
  adding,     \* PrefillAdder.can_run_list
  offset,     \* PrefillAdder.rem_total_token_offset
  out,        \* output_ids
  rec,        \* per output: the recorded top-k row and the sampler that chose
  latent,     \* sampling_params.latent_mode
  done,       \* finished_reason is not None
  retracted,  \* history: the requests retracted so far
  kv,         \* the kinds of the KV slots of a request, by position
  locked,     \* len(prefix_indices): the tree path a request holds locked
  tree,       \* radix cache: kind of the KV slot of each cached prefix
  nodes,      \* radix cache: the prefixes its nodes end at
  avail       \* token_to_kv_pool_allocator.available_size()

loop == <<pc, rows, adding, offset>>
queues == <<sent, waiting, running, last, full>>
reqs == <<out, rec, latent, done, retracted>>
memory == <<kv, locked, tree, nodes, avail>>
vars == <<loop, queues, reqs, memory>>

Ids(r) == Prompt[r] \o out[r]
Take(s, n) == SubSeq(s, 1, n)
Paths(s) == {Take(s, n) : n \in 1 .. Len(s)}
ReqsOf(batch) == {batch[i].req : i \in DOMAIN batch}

\* The rows of a batch whose requests go on, in order.
Alive(batch) ==
  LET kept[n \in 0 .. Len(batch)] ==
        IF n = 0 THEN <<>>
        ELSE IF done[batch[n].req] THEN kept[n - 1] ELSE Append(kept[n - 1], batch[n])
  IN kept[Len(batch)]

----------------------------------------------------------------------------
(* The radix cache *)

Protected(path) == UNION {Paths(Take(Ids(r), path[r])) : r \in Req}
Free(path) == avail + Cardinality(DOMAIN tree \ Protected(path))
MatchLen(s) == CHOOSE n \in 0 .. Len(s) :
                 /\ Paths(Take(s, n)) \subseteq DOMAIN tree
                 /\ n < Len(s) => Take(s, n + 1) \notin DOMAIN tree
Kinds(t, s) == [n \in 1 .. Len(s) |-> t[Take(s, n)]]

\* adjust_max_prefix_ids: at least one token is recomputed, and all the tokens
\* from the last prompt token on when logprobs are returned.
MaxPrefix(r) == Take(Ids(r), IF ReturnLogprob THEN Len(Prompt[r]) - 1
                                              ELSE Len(Ids(r)) - 1)

\* The slots of the nodes D, when no node below one of them stays.
Slots(D) == (UNION {Paths(s) : s \in D}) \ (UNION {Paths(s) : s \in nodes \ D})

\* Sets of nodes evict(n) may delete: unlocked leaves one after the other until
\* n slots are free.  Which leaf is the oldest is not modelled.
Evictions(n, path) ==
  LET old == nodes \ Protected(path)
  IN IF n = 0 THEN {{}}
     ELSE {D \in SUBSET old :
             /\ \A s \in nodes \ D : Paths(s) \cap D = {}
             /\ Cardinality(Slots(D)) >= n \/ D = old
             /\ D # {} => \E s \in D :
                  Paths(s) \cap D = {s} /\ Cardinality(Slots(D \ {s})) < n}

\* evict: the slots of the nodes D go back to the allocator.
Evict(D) == /\ nodes' = nodes \ D
            /\ tree' = [s \in DOMAIN tree \ Slots(D) |-> tree[s]]

\* _match_prefix_helper and _insert_helper split a node where a key leaves it.
Splits(s) == {Take(s, MatchLen(s))} \ {<<>>}

\* insert: slots of s not in the tree move into it; where it has them, its own
\* stay.
Inserted(s, kinds) ==
  [p \in DOMAIN tree \cup Paths(s) |->
     IF p \in DOMAIN tree THEN tree[p] ELSE kinds[Len(p)]]
----------------------------------------------------------------------------
(* Receiving, merging and admitting *)

Init ==
  /\ pc = "recv" /\ sent = 0 /\ waiting = <<>> /\ running = <<>>
  /\ last = <<>> /\ rows = <<>> /\ full = FALSE /\ adding = <<>> /\ offset = 0
  /\ out = [r \in Req |-> <<>>] /\ rec = [r \in Req |-> <<>>]
  /\ latent = [r \in Req |-> TRUE] /\ done = [r \in Req |-> FALSE]
  /\ retracted = {}
  /\ kv = [r \in Req |-> <<>>] /\ locked = [r \in Req |-> 0]
  /\ tree = [s \in {} |-> "hard"] /\ nodes = {} /\ avail = Pool

\* recv_requests and handle_generate_request: the tokenizer manager sends the
\* requests of a call in order, any number may have arrived at a loop head.  With
\* n > 1 it first sends each prompt with max_new_tokens 0 and awaits the answer.
Submit ==
  /\ pc = "recv" /\ sent < Len(Prompt)
  /\ \A r \in 1 .. sent : MaxNew[r] = 0 => done[r]
  /\ sent' = sent + 1 /\ waiting' = Append(waiting, sent + 1)
  /\ UNCHANGED <<loop, running, last, full, reqs, memory>>

\* What the running requests may still take; PrefillAdder scales it with
\* new_token_ratio, whose decay and re-estimates are left open.
RunningBudget(batch) ==
  Total([i \in DOMAIN batch |-> MaxNew[batch[i].req] - Len(out[batch[i].req])], DOMAIN batch)

\* The first half of get_next_batch_to_run, and the early returns of
\* get_new_batch_prefill.
GetNextBatch ==
  /\ pc = "recv"
  /\ LET kept == Alive(last)
         merged == IF kept = <<>> THEN running
                   ELSE IF running = <<>> THEN kept ELSE running \o kept
         stillFull == /\ full /\ kept = last
                      /\ kept # <<>> => running # <<>>
     IN /\ running' = merged
        /\ full' = stillFull
        /\ IF stillFull \/ waiting = <<>>
           THEN pc' = "decode" /\ offset' = 0
           ELSE pc' = "admit" /\ \E q \in Ratios :
                  offset' = (RunningBudget(merged) * q) \div 100
  /\ last' = <<>> /\ adding' = <<>>
  /\ UNCHANGED <<rows, sent, waiting, reqs, memory>>

Candidate == waiting[Len(adding) + 1]

\* The two NO_TOKEN tests of add_one_req, before and after the prefix is locked.
Fits(r, prefix) ==
  LET total == Len(Ids(r)) - prefix + MaxNew[r]
  IN /\ total < Free(locked) - offset
     /\ total <= Free([locked EXCEPT ![r] = prefix]) - offset

\* init_next_round_input and PrefillAdder.add_one_req admit the next request.
AddOneReq ==
  /\ pc = "admit" /\ Len(adding) < Len(waiting)
  /\ LET r == Candidate
         prefix == MatchLen(MaxPrefix(r))
         path == [locked EXCEPT ![r] = prefix]
         cost == Len(Ids(r)) - prefix + MaxNew[r]
         noToken == Free(path) - offset - cost <= 0
     IN /\ Fits(r, prefix)
        /\ locked' = path
        /\ kv' = [kv EXCEPT ![r] = Kinds(tree, Take(Ids(r), prefix))]
        /\ adding' = Append(adding, r) /\ offset' = offset + cost
        /\ nodes' = nodes \cup Splits(MaxPrefix(r))
        /\ full' = (full \/ noToken)
        /\ pc' = IF noToken THEN "extend" ELSE "admit"
  /\ UNCHANGED <<rows, sent, waiting, running, last, reqs, tree, avail>>

\* The loop over the waiting queue ends: at its end, or at the first request
\* without room, which marks the running batch full.
EndOfAdding ==
  /\ pc = "admit"
  /\ \/ Len(adding) = Len(waiting) /\ UNCHANGED <<full, nodes>>
     \/ /\ Len(adding) < Len(waiting)
        /\ ~Fits(Candidate, MatchLen(MaxPrefix(Candidate)))
        /\ full' = TRUE /\ nodes' = nodes \cup Splits(MaxPrefix(Candidate))
  /\ pc' = IF adding = <<>> THEN "decode" ELSE "extend"
  /\ UNCHANGED <<rows, adding, offset, sent, waiting, running, last, reqs,
                 kv, locked, tree, avail>>
----------------------------------------------------------------------------
(* Prefill *)

\* Mutant of NewRow: a request that has outputs is taken for an explicit one.
NewRowIfFresh(r) == [req |-> r, latent |-> out[r] = <<>>]

\* SamplingBatchInfo.from_schedule_batch: the flag is read when the row is made.
NewRow(r) == [req |-> r, latent |-> latent[r]]

\* prepare_for_extend allocates; every uncached position is computed from ids.
RunExtend ==
  /\ pc = "extend"
  /\ LET need == Total([i \in DOMAIN adding |->
                        Len(Ids(adding[i])) - locked[adding[i]]], DOMAIN adding)
         batch == [i \in DOMAIN adding |-> NewRow(adding[i])]
     IN /\ \E D \in Evictions(IF avail < need THEN need ELSE 0, locked) :
             Evict(D) /\ avail' = avail + Cardinality(Slots(D)) - need
        /\ rows' = batch /\ last' = batch
  /\ kv' = [r \in Req |->
              IF r \in ToSet(adding)
              THEN kv[r] \o [n \in 1 .. Len(Ids(r)) - locked[r] |-> "hard"]
              ELSE kv[r]]
  /\ waiting' = SubSeq(waiting, Len(adding) + 1, Len(waiting))
  /\ pc' = "prefilled" /\ adding' = <<>> /\ offset' = 0
  /\ UNCHANGED <<sent, running, full, reqs, locked>>

\* check_finished after the token is appended.
Finishes(r, t) == Len(out[r]) + 1 >= MaxNew[r] \/ t = Eos

\* Mutant of UpdateLatentInfo: the end token's row keeps its superposition.
UpdateLatentInfoLate(row, t) ==
  /\ latent' = [latent EXCEPT ![row.req] = latent[row.req] /\ t # LatentEnd]
  /\ rec' = [rec EXCEPT ![row.req] =
               Append(@, [mix |-> IF latent[row.req] THEN "soft" ELSE "hard",
                          sampler |-> IF row.latent THEN "latent"
                                                    ELSE "explicit"])]

\* update_latent_info: the flag of the request, not of its row, is cleared, and
\* from then on the recorded row is the one-hot of the token.
UpdateLatentInfo(row, t) ==
  LET stays == latent[row.req] /\ t # LatentEnd
  IN /\ latent' = [latent EXCEPT ![row.req] = stays]
     /\ rec' = [rec EXCEPT ![row.req] =
                  Append(@, [mix |-> IF stays THEN "soft" ELSE "hard",
                             sampler |-> IF row.latent THEN "latent"
                                                       ELSE "explicit"])]

\* cache_finished_req: ids but the last go to the tree, doubles are freed.
CacheFinishedReq(r) ==
  /\ avail' = avail + MatchLen(Ids(r)) - locked[r]
  /\ tree' = Inserted(Ids(r), kv[r])
  /\ nodes' = nodes \cup Splits(Ids(r)) \cup {Ids(r)}
  /\ kv' = [kv EXCEPT ![r] = <<>>] /\ locked' = [locked EXCEPT ![r] = 0]

\* Mutant of CacheUnfinishedReq: slots the tree has already are not freed.
CacheUnfinishedReqLeak(r) ==
  LET grown == Inserted(Ids(r), kv[r])
  IN /\ avail' = avail
     /\ tree' = grown
     /\ nodes' = nodes \cup Splits(Ids(r)) \cup {Ids(r)}
     /\ kv' = [kv EXCEPT ![r] = Kinds(grown, Ids(r))]
     /\ locked' = [locked EXCEPT ![r] = Len(Ids(r))]

\* cache_unfinished_req: as above, then the request uses and locks the tree's.
CacheUnfinishedReq(r) ==
  LET grown == Inserted(Ids(r), kv[r])
  IN /\ avail' = avail + MatchLen(Ids(r)) - locked[r]
     /\ tree' = grown
     /\ nodes' = nodes \cup Splits(Ids(r)) \cup {Ids(r)}
     /\ kv' = [kv EXCEPT ![r] = Kinds(grown, Ids(r))]
     /\ locked' = [locked EXCEPT ![r] = Len(Ids(r))]

TakeToken(row, t) ==
  /\ out' = [out EXCEPT ![row.req] = Append(@, t)]
  /\ done' = [done EXCEPT ![row.req] = Finishes(row.req, t)]
  /\ UpdateLatentInfo(row, t)
  /\ rows' = Tail(rows)
  /\ pc' = IF Len(rows) = 1 THEN "recv" ELSE pc

\* process_batch_result_prefill, one row.
ProcessPrefill(t) ==
  /\ pc = "prefilled"
  /\ LET row == Head(rows)
     IN /\ TakeToken(row, t)
        /\ IF Finishes(row.req, t) THEN CacheFinishedReq(row.req)
                                   ELSE CacheUnfinishedReq(row.req)
  /\ UNCHANGED <<adding, offset, queues, retracted>>
----------------------------------------------------------------------------
(* Decode and retraction *)

\* Mutant of UpdateRunningBatch: decoding goes on without memory for it.
UpdateRunningBatchBlind ==
  /\ pc = "decode"
  /\ LET kept == Alive(running)
     IN /\ running' = kept
        /\ full' = (full /\ kept = running)
        /\ pc' = IF kept = <<>> THEN "recv" ELSE "decoding"
  /\ UNCHANGED <<rows, adding, offset, sent, waiting, last, reqs, memory>>

\* Mutant of UpdateRunningBatch: batch_is_full is not reset when rows leave.
UpdateRunningBatchStaysFull ==
  /\ pc = "decode"
  /\ LET kept == Alive(running)
         need == Len(kept)
     IN /\ running' = kept
        /\ full' = full
        /\ \E D \in Evictions(IF avail < need THEN need ELSE 0, locked) :
             /\ Evict(D) /\ avail' = avail + Cardinality(Slots(D))
             /\ pc' = IF kept = <<>> THEN "recv"
                      ELSE IF avail' >= need THEN "decoding" ELSE "retract"
  /\ UNCHANGED <<rows, adding, offset, sent, waiting, last, reqs, kv, locked>>

\* The second half of get_next_batch_to_run: update_running_batch drops the
\* finished rows, then check_decode_mem.  An empty batch leaves the loop idle.
UpdateRunningBatch ==
  /\ pc = "decode"
  /\ LET kept == Alive(running)
         need == Len(kept)
     IN /\ running' = kept
        /\ full' = (full /\ kept = running)
        /\ \E D \in Evictions(IF avail < need THEN need ELSE 0, locked) :
             /\ Evict(D) /\ avail' = avail + Cardinality(Slots(D))
             /\ pc' = IF kept = <<>> THEN "recv"
                      ELSE IF avail' >= need THEN "decoding" ELSE "retract"
  /\ UNCHANGED <<rows, adding, offset, sent, waiting, last, reqs, kv, locked>>

\* retract_decode sorts by outputs, most first, then by prompt, shortest first,
\* and takes from the end; the sort is stable.
Before(i, j) ==
  LET a == running[i].req
      b == running[j].req
  IN \/ Len(out[a]) > Len(out[b])
     \/ /\ Len(out[a]) = Len(out[b])
        /\ \/ Len(Prompt[a]) < Len(Prompt[b])
           \/ Len(Prompt[a]) = Len(Prompt[b]) /\ i < j

\* One round of retract_decode: release the slots of a request, evict what the
\* remaining rows lack, put the request at the end of the queue.
RetractDecode ==
  /\ pc = "retract" /\ Len(running) > 1
  /\ LET order == CHOOSE p \in [DOMAIN running -> DOMAIN running] :
                    \A i, j \in DOMAIN running : i < j => Before(p[i], p[j])
         r == running[order[Len(running)]].req
         left == Len(running) - 1
         free == avail + Len(kv[r]) - locked[r]
         path == [locked EXCEPT ![r] = 0]
         short == left * RetractSteps - free
     IN /\ \E D \in Evictions(IF short > 0 THEN short ELSE 0, path) :
             Evict(D) /\ avail' = free + Cardinality(Slots(D))
        /\ pc' = IF avail' < left * RetractSteps THEN "retract" ELSE "decoding"
        /\ running' = [i \in 1 .. left |-> running[order[i]]]
        /\ kv' = [kv EXCEPT ![r] = <<>>] /\ locked' = path
        /\ waiting' = Append(waiting, r) /\ retracted' = retracted \cup {r}
  /\ full' = FALSE
  /\ UNCHANGED <<rows, adding, offset, sent, last, out, rec, latent, done>>

\* The last request is never retracted.
KeepLastReq ==
  /\ pc = "retract" /\ Len(running) = 1
  /\ pc' = "decoding"
  /\ UNCHANGED <<rows, adding, offset, queues, reqs, memory>>

\* Mutant of RunDecode: the forward pass is given the token ids.
RunDecodeIds ==
  /\ pc = "decoding"
  /\ LET need == Len(running)
     IN \E D \in Evictions(IF avail < need THEN need ELSE 0, locked) :
          Evict(D) /\ avail' = avail + Cardinality(Slots(D)) - need
  /\ kv' = [r \in Req |-> IF r \in ReqsOf(running)
                          THEN Append(kv[r], "hard") ELSE kv[r]]
  /\ rows' = running /\ pc' = "decoded"
  /\ UNCHANGED <<adding, offset, queues, reqs, locked>>

\* prepare_for_decode and the forward pass: one slot per row, computed from the
\* recorded top-k row of the last output (get_model_worker_batch).
RunDecode ==
  /\ pc = "decoding"
  /\ LET need == Len(running)
     IN \E D \in Evictions(IF avail < need THEN need ELSE 0, locked) :
          Evict(D) /\ avail' = avail + Cardinality(Slots(D)) - need
  /\ kv' = [r \in Req |-> IF r \in ReqsOf(running)
                          THEN Append(kv[r], Last(rec[r]).mix) ELSE kv[r]]
  /\ rows' = running /\ pc' = "decoded"
  /\ UNCHANGED <<adding, offset, queues, reqs, locked>>

\* process_batch_result_decode, one row.
ProcessDecode(t) ==
  /\ pc = "decoded"
  /\ LET row == Head(rows)
     IN /\ TakeToken(row, t)
        /\ IF Finishes(row.req, t) THEN CacheFinishedReq(row.req)
                                   ELSE UNCHANGED memory
  /\ UNCHANGED <<adding, offset, queues, retracted>>
----------------------------------------------------------------------------
Step ==
  \/ GetNextBatch \/ AddOneReq \/ EndOfAdding \/ RunExtend
  \/ UpdateRunningBatch \/ RetractDecode \/ KeepLastReq \/ RunDecode
  \/ \E t \in Token : ProcessPrefill(t) \/ ProcessDecode(t)

Next == Step \/ Submit

\* The scheduler loops for ever: some step of its loop is always taken.
Spec == Init /\ [][Next]_vars /\ WF_vars(Step)
----------------------------------------------------------------------------
(* Properties *)

\* Every slot of the pool is free, cached, or held by one request beyond the
\* prefix it shares with the tree, whatever requests with a common prompt,
\* retractions and evictions came before (the leak check_memory looks for).
PoolConserved ==
  avail + Cardinality(DOMAIN tree)
    + Total([r \in Req |-> Len(kv[r]) - locked[r]], Req)
    = Pool

\* The admission estimate, the eviction and the retraction together leave a
\* slot for every token a forward pass writes, so alloc_token_slots never
\* raises its out-of-memory error.
NeverOutOfMemory == avail >= 0

\* The outputs of a request up to its end token: its latent phase.
LatentPhase(r) ==
  {j \in DOMAIN out[r] : \A i \in 1 .. j - 1 : out[r][i] # LatentEnd}

\* A token of the latent phase, the end token included, is chosen by the latent
\* sampler: merging, filtering and retracting never give a request another
\* request's latent_modes flag.
LatentIsSampledLatent ==
  \A r \in Req : \A j \in LatentPhase(r) : rec[r][j].sampler = "latent"

\* What the trainer receives: one top-k row per output, a superposition before
\* the end token and the one-hot of the token from it on, over retractions too.
RecordFollowsTheSwitch ==
  \A r \in Req :
    /\ Len(rec[r]) = Len(out[r])
    /\ \A j \in DOMAIN out[r] :
         rec[r][j].mix = "soft" <=> (j \in LatentPhase(r) /\ out[r][j] # LatentEnd)

\* The KV a request decodes with was computed from the rows it recorded, which
\* is what the actor recomputes log-probabilities from, unless it has been
\* retracted: a second prefill feeds it the token ids of its latent outputs.  The
\* radix cache compares token ids only, so a prompt must not extend another's.
KVIsTheRecord ==
  (\A r, q \in Req : IsStrictPrefix(Prompt[q], Prompt[r]) => FALSE) =>
  \A r \in Req \ retracted :
    \A n \in DOMAIN kv[r] :
      kv[r][n] = IF n <= Len(Prompt[r]) THEN "hard"
                 ELSE rec[r][n - Len(Prompt[r])].mix

\* The pool has room to admit a retracted request again: add_one_req asks for
\* all of max_new_tokens once more, on top of the outputs it already has.
RoomToReturn == \A r \in Req : Len(Prompt[r]) + 2 * MaxNew[r] <= Pool

\* Every request received is answered, retracted or not: neither batch_is_full
\* nor the admission estimate leaves the waiting queue stuck.
EveryRequestFinishes ==
  RoomToReturn => <>[](\A r \in 1 .. sent : done[r])

\* README.md:189: latent_end_token_id is the token "where the model switches
\* from latent reasoning to explicit reasoning", so no token after it is chosen
\* by the latent sampler.
ExplicitIsSampledExplicit ==
  \A r \in Req : \A j \in DOMAIN out[r] \ LatentPhase(r) :
    rec[r][j].sampler = "explicit"
=============================================================================
