---------------------------- MODULE RolloutEngine ----------------------------
(***************************************************************************)
(* How a worker uses its rollout engine for one generate_sequences call    *)
(* after another: FSDPSGLangShardingManager wakes the engine and gives it  *)
(* the weights tensor by tensor, SGLangRollout has it generate and flush,  *)
(* the sharding manager puts it to sleep.  The engine is another process,  *)
(* the scheduler in event_loop_normal; the two share a queue of messages.  *)
(*                                                                         *)
(* A tensor, a KV entry and an output are represented by the versions of   *)
(* the weights they come from.  Batches here only begin, go on and end:    *)
(* LatentBatch and RadixCache have what is in them.                        *)
(***************************************************************************)
EXTENDS Integers, Sequences, FiniteSets

CONSTANTS
  Calls,     \* bound: calls of generate_sequences
  Tensors,   \* how many tensors the weights are
  Prompts,   \* prompts of a call
  Samples,   \* n of the sampling parameters, more than one
  MaxNew,    \* max_new_tokens
  Lost       \* the content of memory that was released

ASSUME EngineAssumption ==
  {Calls, Tensors, Prompts, Samples, MaxNew} \subseteq Nat \ {0} /\ Lost \notin Nat

VARIABLES
  version,   \* of the actor's weights
  call,      \* number of the call under way
  at,        \* where the worker is in it
  next,      \* the tensor, prompt or sample that is next
  asked,     \* a message is awaited: "no", "sent" or "answered"
  reload,    \* _need_reload
  freeCache, \* free_cache_engine
  inbox,     \* messages on their way to the scheduler
  loop,      \* where event_loop_normal is; "dead" after a failed assertion
  todo,      \* the messages of this turn
  weights, paused, cached,           \* the engine's memory; cached: versions in the radix cache
  waiting, running, last, batch,     \* requests; last: last_batch if it was a prefill
  extend,    \* batch is a prefill
  left,      \* tokens a request may still generate; 0: finished
  from       \* history: the versions a request's outputs come from

worker == <<version, call, at, next, reload, freeCache>>
queue == <<waiting, running, last, batch, extend, left, from>>
memory == <<weights, paused, cached>>
vars == <<worker, asked, inbox, loop, todo, memory, queue>>

Req == (1 .. Calls) \X (1 .. Prompts) \X (0 .. Samples)
WarmUp(p) == <<call, p, 0>>     \* caches the prompt before it is sampled from
Sampled == {<<call, p, i>> : p \in 1 .. Prompts, i \in 1 .. Samples}

Init ==
  /\ version = 0 /\ call = 0 /\ at = "idle" /\ next = 1 /\ asked = "no"
  /\ reload = TRUE /\ freeCache \in BOOLEAN
  /\ inbox = <<>> /\ loop = "recv" /\ todo = <<>>
  /\ weights = [t \in 1 .. Tensors |-> 0] /\ paused = FALSE /\ cached = {}
  /\ waiting = {} /\ running = {} /\ last = {} /\ batch = {} /\ extend = FALSE
  /\ left = [r \in Req |-> IF r[3] = 0 THEN 1 ELSE MaxNew]
  /\ from = [r \in Req |-> {}]

-------------------------------------------------------------------------------
(* The worker *)

\* A call of generate_sequences; since the last one the actor has been updated,
\* loaded from a checkpoint, or neither (validation, groups that were filtered).
Call ==
  /\ at = "idle" /\ call < Calls
  /\ call' = call + 1
  /\ version' \in {version, version + 1}
  /\ at' = IF reload THEN "reload" ELSE "resume"
  /\ UNCHANGED <<next, asked, reload, freeCache, inbox, loop, todo, memory, queue>>

\* Mutant of UpdateMessage: the cache is not flushed.
UpdateWithoutFlush(t) == [op |-> "update", tensor |-> t, value |-> version, flush |-> FALSE]

UpdateMessage(t) == [op |-> "update", tensor |-> t, value |-> version, flush |-> t = Tensors]

Message ==
  CASE at \in {"reload", "release"} -> [op |-> "release"]
    [] at = "resume"  -> [op |-> "resume"]
    [] at = "sync"    -> UpdateMessage(next)
    [] at = "warmUp"  -> [op |-> "generate", req |-> WarmUp(next)]
    [] at = "flush"   -> [op |-> "flush"]

\* A message that is awaited.
Send ==
  /\ at \in {"reload", "resume", "sync", "warmUp", "flush", "release"} /\ asked = "no"
  /\ inbox' = Append(inbox, Message) /\ asked' = "sent"
  /\ UNCHANGED <<worker, loop, todo, memory, queue>>

\* update_weights, __enter__, __exit__ and the batch of warm-ups, one await after another.
Goto(place, n) == at' = place /\ next' = n
Proceed ==
  /\ asked = "answered" /\ asked' = "no"
  /\ CASE at = "reload"  -> Goto("resume", 1)
       [] at = "resume"  -> Goto("sync", 1)
       [] at = "sync"    -> IF next < Tensors THEN Goto(at, next + 1) ELSE Goto("warmUp", 1)
       [] at = "warmUp"  -> IF next < Prompts THEN Goto(at, next + 1) ELSE Goto("sample", 1)
       [] at = "flush"   -> Goto("release", 1)
       [] at = "release" -> Goto("idle", 1)
  /\ reload' = (reload /\ at # "reload")
  /\ UNCHANGED <<version, call, freeCache, inbox, loop, todo, memory, queue>>

\* The samples are sent without awaiting one before the next.
SendSample ==
  /\ at = "sample" /\ next <= Prompts * Samples
  /\ inbox' = Append(inbox, [op |-> "generate",
                             req |-> <<call, ((next - 1) \div Samples) + 1, ((next - 1) % Samples) + 1>>])
  /\ next' = next + 1
  /\ UNCHANGED <<version, call, at, asked, reload, freeCache, loop, todo, memory, queue>>

\* Mutant of Gather: the outputs are not waited for.
GatherUnanswered ==
  /\ at = "sample" /\ next > Prompts * Samples
  /\ IF freeCache THEN Goto("flush", 1) ELSE Goto("release", 1)
  /\ UNCHANGED <<version, call, asked, reload, freeCache, inbox, loop, todo, memory, queue>>

\* All have been answered: barrier, broadcast, and the flush of free_cache_engine.
Gather ==
  /\ at = "sample" /\ next > Prompts * Samples
  /\ \A r \in Sampled : left[r] = 0
  /\ IF freeCache THEN Goto("flush", 1) ELSE Goto("release", 1)
  /\ UNCHANGED <<version, call, asked, reload, freeCache, inbox, loop, todo, memory, queue>>

Worker == Call \/ Send \/ Proceed \/ SendSample \/ Gather

-------------------------------------------------------------------------------
(* The scheduler *)

\* recv_requests takes what has come.
Recv ==
  /\ loop = "recv"
  /\ todo' = inbox /\ inbox' = <<>> /\ loop' = "input"
  /\ UNCHANGED <<worker, asked, memory, queue>>

\* flush_cache refuses while requests wait or running_batch has any, finished or not.
MayFlush == waiting = {} /\ running = {}
Flushed == IF MayFlush THEN last' = {} /\ cached' = {} ELSE UNCHANGED <<last, cached>>

\* process_input_requests, one message.
Handle(m) ==
  \/ /\ m.op = "generate"
     /\ waiting' = waiting \cup {m.req}
     /\ UNCHANGED <<asked, loop, memory, running, last, batch, extend, left, from>>
  \/ /\ m.op = "flush"
     /\ Flushed /\ asked' = "answered"
     /\ UNCHANGED <<loop, weights, paused, waiting, running, batch, extend, left, from>>
  \* release_memory_occupation: the memory goes first, and what flush_cache returns is not looked at.
  \/ /\ m.op = "release"
     /\ paused' = TRUE /\ weights' = [t \in 1 .. Tensors |-> Lost]
     /\ IF MayFlush THEN last' = {} /\ cached' = {}
                    ELSE last' = last /\ cached' = {Lost : v \in cached}
     /\ asked' = "answered"
     /\ UNCHANGED <<loop, waiting, running, batch, extend, left, from>>
  \/ /\ m.op = "resume"
     /\ paused' = FALSE /\ asked' = "answered"
     /\ UNCHANGED <<loop, weights, cached, queue>>
  \* update_weights_from_tensor, which asserts that a flush it was asked for is done.
  \/ /\ m.op = "update"
     /\ weights' = [weights EXCEPT ![m.tensor] = m.value]
     /\ IF m.flush THEN Flushed ELSE UNCHANGED <<last, cached>>
     /\ IF m.flush /\ ~MayFlush THEN loop' = "dead" /\ asked' = asked
                                ELSE loop' = loop /\ asked' = "answered"
     /\ UNCHANGED <<paused, waiting, running, batch, extend, left, from>>

Input ==
  /\ loop = "input" /\ todo # <<>>
  /\ Handle(Head(todo)) /\ todo' = Tail(todo)
  /\ UNCHANGED <<worker, inbox>>

InputEnds ==
  /\ loop = "input" /\ todo = <<>> /\ loop' = "batch"
  /\ UNCHANGED <<worker, asked, inbox, todo, memory, queue>>

Filtered(R) == {r \in R : left[r] > 0}

\* Mutant of Merged: the prefill batch takes the place of the running batch.
MergedByReplacing == IF Filtered(last) = {} THEN running ELSE Filtered(last)

\* get_next_batch_to_run puts what is left of a prefill into running_batch.
Merged == running \cup Filtered(last)

\* get_new_batch_prefill; with nothing running the queue cannot be passed over.
Prefill(R) ==
  /\ loop = "batch" /\ R # {} /\ R \subseteq waiting
  /\ waiting' = waiting \ R /\ running' = Merged
  /\ batch' = R /\ extend' = TRUE /\ loop' = "run"
  /\ UNCHANGED <<worker, asked, inbox, todo, memory, last, left, from>>

\* update_running_batch: finished requests go, some may be retracted.
Decode(R) ==
  /\ loop = "batch" /\ Merged # {}
  /\ R \subseteq Filtered(Merged) /\ (R = {} => Filtered(Merged) = {})
  /\ running' = R /\ waiting' = waiting \cup (Filtered(Merged) \ R)
  /\ batch' = R /\ extend' = FALSE /\ last' = {}
  /\ loop' = IF R = {} THEN "recv" ELSE "run"
  /\ UNCHANGED <<worker, asked, inbox, todo, memory, left, from>>

NoBatch ==
  /\ loop = "batch" /\ waiting = {} /\ Merged = {}
  /\ last' = {} /\ loop' = "recv"
  /\ UNCHANGED <<worker, asked, inbox, todo, memory, waiting, running, batch, extend, left, from>>

\* run_batch: a prefill starts from what the radix cache has.
Run ==
  /\ loop = "run"
  /\ LET sources == {weights[t] : t \in 1 .. Tensors} \cup (IF extend THEN cached ELSE {})
     IN from' = [r \in Req |-> IF r \in batch THEN from[r] \cup sources ELSE from[r]]
  /\ loop' = "result"
  /\ UNCHANGED <<worker, asked, inbox, todo, memory, waiting, running, last, batch, extend, left>>

\* process_batch_result: the requests ended finish, early or at their limit, and are
\* answered; these, and all of a prefill, go into the radix cache.
Result(ended) ==
  /\ loop = "result" /\ ended \subseteq batch /\ \A r \in batch \ ended : left[r] > 1
  /\ left' = [r \in Req |-> IF r \in ended THEN 0 ELSE IF r \in batch THEN left[r] - 1 ELSE left[r]]
  /\ cached' = cached \cup UNION {from[r] : r \in IF extend THEN batch ELSE ended}
  /\ last' = IF extend THEN batch ELSE {}
  /\ asked' = IF \E r \in ended : r[3] = 0 /\ left[r] > 0 THEN "answered" ELSE asked
  /\ loop' = "recv"
  /\ UNCHANGED <<worker, inbox, todo, weights, paused, waiting, running, batch, extend, from>>

Scheduler ==
  \/ Recv \/ Input \/ InputEnds \/ NoBatch \/ Run
  \/ \E R \in SUBSET waiting : Prefill(R)
  \/ \E R \in SUBSET Merged : Decode(R)
  \/ \E R \in SUBSET batch : Result(R)

Next == Worker \/ Scheduler

Spec == Init /\ [][Next]_vars /\ WF_vars(Worker) /\ WF_vars(Scheduler)

-------------------------------------------------------------------------------
(* Properties *)

\* Rollouts are on-policy: whatever a request of a call is computed from, the
\* tensors and the KV cached before it, comes from the actor's weights at that
\* call, and none of it from memory that had been released.
RolloutsAreOnPolicy == \A r \in Req : r[1] = call => from[r] \subseteq {version}

\* flush_cache looks at waiting_queue and running_batch, but a request that was
\* just prefilled is only in last_batch, which it drops with the KV of all: when
\* a message that flushes is handled, nothing in the engine is unfinished.
Flushes(m) == m.op \in {"flush", "release"} \/ (m.op = "update" /\ m.flush)
NothingLiveIsFlushed ==
  loop = "input" /\ todo # <<>> /\ Flushes(Head(todo)) =>
    waiting = {} /\ Filtered(running \cup last) = {}

\* A flush neither finds a request it should not find nor misses one it should:
\* the one update_weights_from_tensor asserts is not refused, as finished requests
\* have left running_batch by the last tensor, however soon it comes; and none
\* forgets a live request.
FlushSucceeds == loop # "dead" /\ NothingLiveIsFlushed

\* Every call comes back: no request is dropped by a flush, a merge or a
\* retraction, and no message awaited goes unanswered.
EveryCallReturns == (at # "idle") ~> (at = "idle")
===============================================================================
