----------------------------- MODULE PolicyUpdate -----------------------------
(***************************************************************************)
(* update_actor: the driver hands a batch to N worker processes, each of   *)
(* which holds one shard of the model, runs the same loop over             *)
(* mini-batches and micro-batches (dp_actor.py, update_policy) and meets   *)
(* the others only in collective operations; what they report is merged by *)
(* the driver (merge_worker_observer_packets, merge_worker_p1_packets)     *)
(* into one row of the train table.                                        *)
(*                                                                         *)
(* A worker's pc is the collective it waits in or the local step it does   *)
(* next.  A collective happens when all ranks are in the same one; a rank  *)
(* that never comes leaves the others waiting.                             *)
(***************************************************************************)
EXTENDS Naturals, Sequences, FiniteSets, SequencesExt, Sums

CONSTANTS
  N,               \* ranks of the process group
  Steps,           \* bound: training steps
  Attempts,        \* mini-batches of one update (ppo_epochs included)
  MaxMicro,        \* bound: micro-batches of a mini-batch
  Configs,         \* the configurations of interest: see the assumption
  RanksMayRaise    \* a rank may fail in its local computation (out of memory, statistics)

\* observer: LATENT_GRPO_OBSERVER_ENABLED, which Ray passes on to every process;
\* dynamic: actor.use_dynamic_bsz, which fit refuses with the observer (what is
\* proved does not need that); monitor: trainer.pre_backward_monitor_probe, which
\* it refuses without.
ASSUME UpdateAssumption ==
  /\ {N, Steps, Attempts, MaxMicro} \subseteq Nat \ {0}
  /\ Configs \subseteq [observer : BOOLEAN, dynamic : BOOLEAN, monitor : BOOLEAN]
  /\ \A c \in Configs : c.monitor => c.observer
  /\ RanksMayRaise \in BOOLEAN

Ranks == 0 .. N - 1

VARIABLES
  config,      \* the configuration of the run
  \* the driver
  driver,      \* "ready", "waiting" for update_actor, "emitted" (its row), "failed", "done"
  due,         \* checkpoint_due of the current step
  optimizer,   \* DurableMetricsObserver._optimizer_step
  rows,        \* the rows emitted to the train table
  probes,      \* the checkpoint probes emitted
  \* every rank
  credit,      \* the ranks with LATENT_GRPO_CREDIT_PROBE_ENABLED in their environment
  pc,
  mini,        \* the mini-batch it is in
  micro,       \* micro-batches left of it
  grads,       \* the <<step, mini, micro>> accumulated in its shard's gradient
  bad,         \* its shard of the gradient has a non-finite element
  finite,      \* the gradient norm it was told is finite
  weights,     \* the <<step, mini>> applied to its shard, in order
  ticks,       \* lr_scheduler steps
  count,       \* last_update_count, update_count while in the loop
  facts,       \* _latent_grpo_observer_facts
  output,      \* the packet it returned
  forwards     \* history: forward passes of the current update

local   == <<mini, micro, grads, bad, finite, weights, ticks, count>>
report  == <<facts, output>>
drivers == <<config, driver, due, optimizer, rows, probes, credit>>
vars == <<drivers, pc, local, report, forwards>>

Step == Len(rows) + 1

\* flags: did_step of every attempt; stats: micro-batches that entered the
\* statistics; probe: the number of mini-batches in the weights that were probed.
NoFacts == [flags |-> <<>>, stats |-> 0, probe |-> {}]

Init ==
  /\ config \in Configs
  /\ driver = "ready" /\ due = FALSE /\ optimizer = 0 /\ rows = <<>> /\ probes = <<>>
  /\ credit \in SUBSET Ranks
  /\ pc = [r \in Ranks |-> "idle"]
  /\ mini = [r \in Ranks |-> 0]
  /\ micro = [r \in Ranks |-> 0]
  /\ grads = [r \in Ranks |-> {}]
  /\ bad = [r \in Ranks |-> FALSE]
  /\ finite = [r \in Ranks |-> FALSE]
  /\ weights = [r \in Ranks |-> <<>>]
  /\ ticks = [r \in Ranks |-> 0]
  /\ count = [r \in Ranks |-> 0]
  /\ facts = [r \in Ranks |-> NoFacts]
  /\ output = [r \in Ranks |-> [count |-> 0, lr |-> 0, facts |-> NoFacts]]
  /\ forwards = 0

AllAt(place) == \A r \in Ranks : pc[r] = place
Goto(r, place) == pc' = [pc EXCEPT ![r] = place]
AllGoto(place) == pc' = [r \in Ranks |-> place]

-------------------------------------------------------------------------------
(* The workers *)

\* update_actor is called: update_policy resets its outcome and checks its flags.
Enter(r) ==
  /\ pc[r] = "enter"
  /\ count' = [count EXCEPT ![r] = 0]
  /\ mini' = [mini EXCEPT ![r] = 1]
  /\ Goto(r, IF due /\ (~config.observer \/ r \notin credit) THEN "raised" ELSE "plan")
  /\ UNCHANGED <<drivers, micro, grads, bad, finite, weights, ticks, report, forwards>>

\* As SplitBySize, without zero_grad.
SplitBySizeKeepGrads(r) ==
  /\ pc[r] = "plan" /\ ~config.dynamic
  /\ micro' = [micro EXCEPT ![r] = MaxMicro]
  /\ Goto(r, "forward")
  /\ UNCHANGED <<drivers, mini, grads, bad, finite, weights, ticks, count, report, forwards>>

\* A mini-batch is cut into micro-batches of a fixed size; then zero_grad.
SplitBySize(r) ==
  /\ pc[r] = "plan" /\ ~config.dynamic
  /\ micro' = [micro EXCEPT ![r] = MaxMicro]
  /\ grads' = [grads EXCEPT ![r] = {}]
  /\ bad' = [bad EXCEPT ![r] = FALSE]
  /\ Goto(r, "forward")
  /\ UNCHANGED <<drivers, mini, finite, weights, ticks, count, report, forwards>>

\* Or by tokens, of which every rank has its own number: rearrange_micro_batches ...
CountByTokens(r) ==
  /\ pc[r] = "plan" /\ config.dynamic
  /\ \E k \in 1 .. MaxMicro : micro' = [micro EXCEPT ![r] = k]
  /\ Goto(r, "split")
  /\ UNCHANGED <<drivers, mini, grads, bad, finite, weights, ticks, count, report, forwards>>

\* As AgreedMicro, without the all-reduce.
OwnMicro == micro

\* ... all-reduces the number of micro-batches; then zero_grad.
AgreedMicro == [r \in Ranks |-> Max({micro[q] : q \in Ranks})]

SplitByTokens ==
  /\ AllAt("split")
  /\ micro' = AgreedMicro
  /\ grads' = [r \in Ranks |-> {}]
  /\ bad' = [r \in Ranks |-> FALSE]
  /\ AllGoto("forward")
  /\ UNCHANGED <<drivers, mini, finite, weights, ticks, count, report, forwards>>

\* FSDP gathers the parameters of all shards.
ForwardPass ==
  /\ AllAt("forward")
  /\ forwards' = forwards + 1
  /\ AllGoto("result")
  /\ UNCHANGED <<drivers, local, report>>

\* As ProbeNow, in every micro-batch.
ProbeEveryTime == due

\* collect_checkpoint_probe: in the first micro-batch only.
ProbeNow == due /\ forwards = 1

\* Statistics are recorded, and the probe if one is due.
Observed(r) ==
  IF config.observer
  THEN [facts[r] EXCEPT !.stats = @ + 1, !.probe = IF ProbeNow THEN {Len(weights[r])} ELSE @]
  ELSE facts[r]

UseResult(r) ==
  /\ pc[r] = "result" /\ ~config.monitor
  /\ facts' = [facts EXCEPT ![r] = Observed(r)]
  /\ Goto(r, "backward")
  /\ UNCHANGED <<drivers, local, output, forwards>>

\* In the monitor probe the worker returns before it has computed a gradient.
ReturnBeforeBackward(r) ==
  /\ pc[r] = "result" /\ config.monitor
  /\ grads' = [grads EXCEPT ![r] = {}]
  /\ count' = [count EXCEPT ![r] = 0]
  /\ output' = [output EXCEPT ![r] = [count |-> 0, lr |-> ticks[r], facts |-> Observed(r)]]
  /\ facts' = [facts EXCEPT ![r] = NoFacts]
  /\ Goto(r, "returned")
  /\ UNCHANGED <<drivers, mini, micro, bad, finite, weights, ticks, forwards>>

\* The local computation of a rank fails; the others will wait for it.
Raise(r) ==
  /\ RanksMayRaise
  /\ pc[r] = "result"
  /\ Goto(r, "raised")
  /\ UNCHANGED <<drivers, local, report, forwards>>

\* FSDP reduces the gradient over the ranks and leaves each its shard of it; any
\* shard may have got a non-finite element.
Backward ==
  /\ AllAt("backward")
  /\ grads' = [r \in Ranks |-> grads[r] \union {<<Step, mini[r], micro[r]>>}]
  /\ \E broken \in SUBSET Ranks : bad' = [r \in Ranks |-> bad[r] \/ r \in broken]
  /\ micro' = [r \in Ranks |-> micro[r] - 1]
  /\ pc' = [r \in Ranks |-> IF micro[r] > 1 THEN "forward" ELSE "clip"]
  /\ UNCHANGED <<drivers, mini, finite, weights, ticks, count, report, forwards>>

\* As GlobalNormIsFinite, every rank with the norm of its shard.
LocalNormIsFinite == [r \in Ranks |-> ~bad[r]]

\* clip_grad_norm_ of FSDP: the norm is over all shards, every rank gets it.
GlobalNormIsFinite == [r \in Ranks |-> \A q \in Ranks : ~bad[q]]

ClipGradNorm ==
  /\ AllAt("clip")
  /\ finite' = GlobalNormIsFinite
  /\ AllGoto("step")
  /\ UNCHANGED <<drivers, mini, micro, grads, bad, weights, ticks, count, report, forwards>>

\* The rest of _optimizer_step, with _record_optimizer_step_outcome and the loop:
\* the next mini-batch, or the end.
AfterAttempt(r) ==
  /\ facts' = [facts EXCEPT ![r].flags = IF config.observer THEN Append(@, finite[r]) ELSE @]
  /\ IF mini[r] < Attempts
     THEN mini' = [mini EXCEPT ![r] = @ + 1] /\ Goto(r, "plan")
     ELSE Goto(r, "finish") /\ UNCHANGED mini
  /\ UNCHANGED <<drivers, micro, finite, ticks, output, forwards>>

\* The rank updates its shard ...
OptimizerStep(r) ==
  /\ pc[r] = "step" /\ finite[r]
  /\ weights' = [weights EXCEPT ![r] = Append(@, <<Step, mini[r]>>)]
  /\ count' = [count EXCEPT ![r] = @ + 1]
  /\ UNCHANGED <<grads, bad>>
  /\ AfterAttempt(r)

\* ... or skips.
SkipStep(r) ==
  /\ pc[r] = "step" /\ ~finite[r]
  /\ grads' = [grads EXCEPT ![r] = {}]
  /\ bad' = [bad EXCEPT ![r] = FALSE]
  /\ UNCHANGED <<weights, count>>
  /\ AfterAttempt(r)

\* As AdvancedTicks, whatever was skipped.
AlwaysAdvanced(r) == ticks[r] + 1

\* _advance_actor_scheduler_after_update
AdvancedTicks(r) == IF count[r] > 0 THEN ticks[r] + 1 ELSE ticks[r]

\* As AfterConsume, the statistics left in place.
KeepsStatistics(r) == [facts[r] EXCEPT !.flags = <<>>]

\* consume_latent_grpo_observer_facts empties what it returns.
AfterConsume(r) == NoFacts

\* The tail of update_policy and update_actor: zero_grad, the learning rate is
\* read, the scheduler advances, the packet goes out.
ReturnOutput(r) ==
  /\ pc[r] = "finish"
  /\ grads' = [grads EXCEPT ![r] = {}]
  /\ bad' = [bad EXCEPT ![r] = FALSE]
  /\ output' = [output EXCEPT ![r] = [count |-> count[r], lr |-> ticks[r], facts |-> facts[r]]]
  /\ ticks' = [ticks EXCEPT ![r] = AdvancedTicks(r)]
  /\ facts' = [facts EXCEPT ![r] = AfterConsume(r)]
  /\ Goto(r, "returned")
  /\ UNCHANGED <<drivers, mini, micro, finite, weights, count, forwards>>

-------------------------------------------------------------------------------
(* The driver *)

\* fit calls update_actor on every rank.
UpdateActor ==
  /\ driver = "ready" /\ Len(rows) < Steps
  /\ due' \in (IF config.observer /\ ~config.monitor THEN BOOLEAN ELSE {FALSE})
  /\ driver' = "waiting"
  /\ AllGoto("enter")
  /\ forwards' = 0
  /\ UNCHANGED <<config, optimizer, rows, probes, credit, local, report>>

\* A rank's own outcome is coherent, and all ranks tell the same one.
Outcome(r) == [count |-> output[r].count, flags |-> output[r].facts.flags]

Consensus ==
  \A r \in Ranks :
    /\ Outcome(r).count = Len(SelectSeq(Outcome(r).flags, LAMBDA flag : flag))
    /\ Outcome(r) = Outcome(0)

\* What merge_worker_observer_packets, merge_worker_p1_packets and
\* _commit_train_step ask of the packets before a row is written.
Accepted ==
  /\ Consensus
  /\ \A r \in Ranks : output[r].facts.stats > 0
  /\ config.monitor => output[0].count = 0

Collected == driver = "waiting" /\ AllAt("returned")

\* The row: statistics are added over the ranks, the optimizer steps are the
\* ranks' common count, the learning rate is that of rank 0's meta_info.
EmitRow ==
  /\ Collected /\ config.observer /\ Accepted
  /\ optimizer' = optimizer + output[0].count
  /\ rows' = Append(rows, [step |-> Step, opt |-> optimizer', lr |-> output[0].lr,
                           stats |-> Total([r \in Ranks |-> output[r].facts.stats], Ranks)])
  /\ driver' = IF due THEN "emitted" ELSE IF config.monitor THEN "done" ELSE "ready"
  /\ AllGoto("idle")
  /\ UNCHANGED <<config, due, probes, credit, local, report, forwards>>

\* Packets without an observer to take them, or packets it does not accept: fit raises.
RefuseOutput ==
  /\ Collected /\ ~(config.observer /\ Accepted)
  /\ driver' = "failed"
  /\ UNCHANGED <<config, due, optimizer, rows, probes, credit, pc, local, report, forwards>>

\* The probe of the step just emitted, merged from one packet of every rank and
\* labelled with the optimizer step and the checkpoint that follow the update.
EmitProbe ==
  LET packets == {r \in Ranks : output[r].facts.probe # {}}
  IN /\ driver = "emitted"
     /\ IF packets = Ranks
        THEN /\ probes' = Append(probes, [checkpoint |-> Len(rows), opt |-> optimizer,
                            probed |-> UNION {output[r].facts.probe : r \in packets}])
             /\ driver' = "ready"
        ELSE driver' = "failed" /\ UNCHANGED probes
     /\ UNCHANGED <<config, due, optimizer, rows, credit, pc, local, report, forwards>>

\* ray.get raises with the first error; the run is over, whoever still waits.
DriverSeesFailure ==
  /\ driver = "waiting"
  /\ \E r \in Ranks : pc[r] = "raised"
  /\ driver' = "failed"
  /\ UNCHANGED <<config, due, optimizer, rows, probes, credit, pc, local, report, forwards>>

Rank(r) ==
  \/ Enter(r) \/ SplitBySize(r) \/ CountByTokens(r) \/ UseResult(r) \/ ReturnBeforeBackward(r)
  \/ Raise(r) \/ OptimizerStep(r) \/ SkipStep(r) \/ ReturnOutput(r)

Collective == SplitByTokens \/ ForwardPass \/ Backward \/ ClipGradNorm

Driver == UpdateActor \/ EmitRow \/ RefuseOutput \/ EmitProbe \/ DriverSeesFailure

Next == Driver \/ (driver = "waiting" /\ (Collective \/ \E r \in Ranks : Rank(r)))

\* Processes that can do something do: Ray and NCCL run every worker.
Spec == Init /\ [][Next]_vars /\ WF_vars(Next)

-------------------------------------------------------------------------------
(* Properties *)

\* The shards are of one model whenever a forward pass puts them together, and
\* whenever a checkpoint could save them: a mini-batch is applied by all ranks
\* or by none, although each decides alone (dp_actor.py:688).
ShardsAgree ==
  AllAt("forward") \/ AllAt("idle") =>
    \A r, q \in Ranks : weights[r] = weights[q] /\ ticks[r] = ticks[q]

\* A rank steps with the gradient of the whole of its current mini-batch and of
\* nothing else, left over from an attempt that was skipped or a step before;
\* and all ranks cut the mini-batch into as many micro-batches.
GradientsAreOfOneBatch ==
  \A r \in Ranks : pc[r] = "step" =>
    \E k \in 1 .. MaxMicro : \A q \in Ranks :
      pc[q] = "step" => grads[q] = {<<Step, mini[r], i>> : i \in 1 .. k}

\* What the trainer sees: the worker of PolicyStep is rank 0, whose learning rate
\* is the one reported, or the last of the others, which are alike.
Shown == [i \in DOMAIN rows |-> [step |-> rows[i].step, opt |-> rows[i].opt, lr |-> rows[i].lr]]
FirstRank == INSTANCE PolicyStep WITH weights <- weights[0], ticks <- ticks[0], rows <- Shown
LastRank == INSTANCE PolicyStep WITH weights <- weights[N - 1], ticks <- ticks[N - 1], rows <- Shown

\* N ranks behave as one worker with one copy of the weights: the rows tell what
\* was applied to every shard and with which learning rate.
ImplementsOneWorker == FirstRank!Spec /\ LastRank!Spec

\* A row's statistics are those of every micro-batch of every rank in that
\* update, each counted once: nothing of an earlier update, no rank left out.
RowsCountEveryShard ==
  driver \in {"ready", "emitted", "done"} /\ rows # <<>> => Last(rows).stats = N * forwards

\* The probe shows one model, the same on all ranks: the one the previous row
\* describes, also when the update has several mini-batches.
ProbesAreOfTheOldModel ==
  \A i \in DOMAIN probes :
    probes[i].probed = {IF probes[i].checkpoint = 1 THEN 0 ELSE rows[probes[i].checkpoint - 1].opt}

\* Every call of update_actor comes back: no rank waits in a collective the
\* others have left (seqlen_balancing.py:258), and a rank that fails ends the
\* call for the driver.
EveryUpdateEnds == driver = "waiting" ~> driver # "waiting"

\* What docs/upstream_changes.md:39 says of a run without observer, "the existing
\* shape is retained": such a run does not fail because of the packets.
DisabledIsHarmless == ~config.observer /\ ~RanksMayRaise => driver # "failed"
===============================================================================
