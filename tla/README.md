# TLA+ models of Latent-GRPO

Latent-GRPO trains language models that reason in latent tokens. The repository
joins three bodies of code: a trainer derived from verl 0.4
(`src/Latent-GRPO/verl-0.4.x`), a rollout engine derived from SGLang
(`src/Latent-GRPO/sglang_latent_reasoning_pkg`), and a runner that launches the
trainer and keeps durable metrics of what it does (`src/latent_grpo_runner`,
`src/train_latent_grpo.py`). A run lasts for days, is killed, and is resumed:
most of what can go wrong without a unit test noticing lies in how the stores a
run writes agree after that, and that is where these models begin.

## Inventory

| Component | State it keeps | Operations | Correct when |
|---|---|---|---|
| Metrics part storage (`metrics/storage.py`) | one directory per table: Parquet parts, manifest, writer checkpoint, lock file; in memory the manifest and the committed keys | open (lock, scan, quarantine, rebuild, load keys), append, close | no key committed twice, one writer at a time, memory and manifest agree with the directory, what append returned for survives power loss |
| Training loop (`ray_trainer.py`, `fit`) | step, epoch, dataloader position, accumulated groups, raw lengths | draw, filter, accumulate, fill, train, checkpoint, resume | batches complete and without repeated ids, statistics of one step only, no prompt lost or repeated by a resume, the search for groups ends |
| Training run: observer and checkpoint publication (`metrics/integration.py`, `checkpointing.py`, `ray_trainer.py`, `fsdp_checkpoint_manager.py`) | five metrics tables, two JSON files, checkpoint directories with sidecar, the tracker, `optimizer_step` | start_run, emit, checkpoint, save, load | tables describe the weights in training, the tracked checkpoint is whole, a published run can be completed |
| FSDP checkpoint manager (`fsdp_checkpoint_manager.py`, `checkpoint_manager.py`) | `previous_saved_paths` of each rank, the directories | remove, write, remember | a bounded number of checkpoints, the tracked one among them |
| Policy update on N ranks (`dp_actor.py`, `update_actor` in `fsdp_workers.py`, `seqlen_balancing.py`) | per rank: a shard of the weights, gradients, scheduler, statistics of the update, a flag in its environment | split, forward, backward, clip, step or skip, advance the scheduler, return | all ranks apply the same mini-batches with whole gradients, and every call comes back |
| Worker packets (`upstream_adapter.py`, `metrics/p1.py`, `stage1.py`, `stage2.py`, `support.py`) | none across steps | merge | consensus on the optimizer outcome, sums equal to those of the whole batch |
| Probe (`metrics/probe.py`) | saved RNG, gradients, mode | probe, restore | a probe is of one model, known to its reader, and training is unchanged by it |
| Sharding manager and rollout (`fsdp_sglang.py`, `sglang_rollout.py`) | `_need_reload`, the call under way, a queue of messages to the engine | wake, send weights tensor by tensor, generate, flush, release | rollouts are on-policy, an asserted flush is never refused, every call comes back |
| Engine, scheduler (SGLang `scheduler`, `schedule_batch`, `schedule_policy`, `sampler`) | requests with a latent and an explicit phase, the flag of each batch row, waiting queue, running batch | receive, admit, prefill, decode, retract, finish, flush, update weights | no out of memory, rows sampled and recorded as their phase says, every request answered |
| Engine, memory (`radix_cache`, `memory_pool`) | radix tree with locks and counters, free KV slots, the row of each request | match, lock, allocate, insert, split, evict, unlock | no slot freed twice or leaked, what is held stays, what admission counts on can be evicted |
| Launcher (`train_latent_grpo.py`, `config.py`, `distributed.py`, `environment.py`) | none | resolve, check, start, stop | a launch that is not allowed never reaches the trainer |
| Output validation (`validation/`, `tools/validate_3gpu_final.py`) | none (reads) | validate | accepts exactly complete outputs |

How they interact: the launcher starts one driver process. The driver runs `fit`,
which calls the workers (generation, log-probabilities, update), and at fixed
points calls `DurableMetricsObserver.emit` and `.checkpoint`. The observer owns
one `AppendOnlyPartWriter` per table. Workers write their shards of a checkpoint
when the driver asks for it. In an update the workers meet only in NCCL
collectives and hand the driver a packet each, which it merges into a row. A worker
talks to its engine through a queue that the scheduler reads once per turn of its
loop. Nothing is shared between drivers but the output root, and there `flock` decides.

What is hard: a kill between any two writes of four stores that are written one
after the other; a restart that must cut three of them back to the fourth; two
drivers on one directory; accumulators that live across iterations of a loop with
`continue`; ranks that each decide for themselves what all must decide alike, since
one that stays out of a collective stops the others; messages that reach the
scheduler at whatever point of its loop it is; and inside the engine, batches that
are merged, filtered and retracted while each request carries its own phase, its own
KV and its own record, over a tree whose nodes are split while they are held.
`PROJECT.json` lists each hazard at its line.

## Modules

| Module | Models | Notes |
|---|---|---|
| `PartLog` | the promise of a metrics table: whole batches, no key twice | abstract |
| `PartWriter` | `AppendOnlyPartWriter`, one action per system call that matters | implements `PartLog` |
| `TrainLoop` | `RayPPOTrainer.fit`: data passes, dynamic sampling, resume | |
| `TrainRun` | a run across kills: observer, checkpoint, rotation, tracker, resume | uses tables as `PartLog`s |
| `PolicyStep` | what the trainer takes "the actor" to be: one worker, one copy of the weights | abstract |
| `PolicyUpdate` | `update_actor` on N ranks, the merge of their packets, the probe | implements `PolicyStep` |
| `RolloutEngine` | a worker and its engine over successive `generate_sequences` calls | two processes and a queue |
| `LatentBatch` | SGLang's `event_loop_normal` with latent requests | |
| `PrefixCache` | what the scheduler takes its memory to be: a cache of prefixes and a pool | abstract |
| `RadixCache` | the tree node by node, the slots one by one, and the scheduler's calls on them | implements `PrefixCache` |
| `Sums` | the sum of a function over a finite set | used by the four modules above that count |
| `PartWriter_proofs`, `TrainLoop_proofs`, `TrainRun_proofs`, `PolicyUpdate_proofs`, `RolloutEngine_proofs`, `LatentBatch_proofs`, `RadixCache_proofs` | theorems | TLAPS |
| `Sums_proofs` | lemmas about finite sums, for three of them | TLAPS |
| `MC*` | instances for TLC | |

Each module takes its neighbours by what they promise. `TrainRun` commits to a table
in one step because `PartWriter` implements `PartLog`, and has one actor because
`PolicyUpdate` implements `PolicyStep`. `RolloutEngine` has versions of KV where
`LatentBatch` has the KV of each request, and `LatentBatch` has cached prefixes where
`RadixCache` has nodes and slots.

**PartWriter.** A writer's `pc` is where it is in `__init__` or `append`. `place`,
`body` and `number` are the part files; `parts` is `self.manifest["parts"]`, `keys`
is `self._keys`; `manifest` and `ckpt` are the two JSON files. `whole`, `synced` and
`durable` say what a power failure would leave. A row is its primary key. `Crash`
keeps what the operating system was told, `PowerLoss` only what was fsynced. A
move into `quarantine/` is taken to be durable at once; the code does not fsync it,
and a power failure that undoes it puts back a part the next open would
quarantine again.

**TrainLoop.** A group is all responses to one prompt. Whether the filter keeps it
is left open, so every pattern of kept groups is explored. `Draw` is the head of
the loop body, `KeepSampling` the `continue`, `GiveUp` the `ValueError`, `FillBatch`
the slice to `train_batch_size` groups, `TakeAll` the loop without the filter, `Train`
the rest of the body up to `global_steps += 1`. `saved` is what the newest checkpoint
holds. `pass`, `trained` and `seen` are history: which prompts of the pass the weights
have been trained on, and which were drawn for their steps, dropped ones included.

**TrainRun.** `pc` walks through one iteration of `fit` in the order of its writes.
The weights are represented by the number of updates after each step, so a
checkpoint, a table row and the observer's count can be compared. The tables are
sets of `[step, opt]` rows; one commit is atomic because `PartWriter` says so.
`Stop` may come between any two writes, the truncation of the tracker and the write of
its number included. `kept` is `previous_saved_paths`: it lives in the
worker processes and is empty after a launch. `Rotate` removes old shards before the
new ones are written, so with `max_actor_ckpt_to_keep: 1` a kill in between leaves
nothing to resume from, and `TrackedIsWhole` and `RecoversOnceSaved` are false (TLC
shows it with `MaxKeep = 1`); they are stated for the other settings. The driver and
all ranks are one actor here: `_save_checkpoint` waits for every rank.

**LatentBatch.** The scheduler is one thread; `pc` is where `event_loop_normal` is,
and only `Submit` (a request arrives, at a loop head) comes from outside.
`GetNextBatch` merges the last prefill batch, `AddOneReq` and `EndOfAdding` are the
`PrefillAdder` loop, `RunExtend` and `ProcessPrefill` the prefill batch,
`UpdateRunningBatch`, `RetractDecode` (one round of the loop in `retract_decode`) and
`KeepLastReq` prepare a decode batch, `RunDecode` and `ProcessDecode` run it; results
are processed row by row. `waiting`, `running`, `last`, `full` are the queue and the
batches; a row carries the `latent_modes` flag of `SamplingBatchInfo`, `latent` is the
flag of the request. `tree` and `nodes` are the radix cache: the cached prefixes, each
with how its KV was computed, and where its nodes end; `kv` is what a request's row of
`req_to_token` points to, `locked` how much of it lies on the path it holds locked, and
`avail` the free slots. Which token the model yields is open, which leaf is
evicted first too (the code takes the oldest), and so is `new_token_ratio` within
`Ratios`. `rec` and `retracted` are history: the first is also what the trainer receives.

Two properties have a premise. `KVIsTheRecord` is about prompts none of which extends
another and about requests not retracted: the second prefill of a retracted
request feeds it the ids of its latent tokens, so its superpositions are lost.
`EveryRequestFinishes` needs `RoomToReturn`, a pool of a prompt and twice its
`max_new_tokens`: `add_one_req` asks for all of `max_new_tokens` again on top of the
outputs a retracted request has. The code only guarantees room for a prompt
and `max_new_tokens` once.

**PolicyUpdate.** A rank's `pc` is the collective it waits in or the local step it
does next. `SplitByTokens`, `ForwardPass`, `Backward` and `ClipGradNorm` are
collectives: they need all ranks in the same place, and a rank that has raised never
comes. Everything else a rank does alone, so ranks are at different points of an
update, and each decides from its own `finite` whether to step (dp_actor.py:688).
`grads` is a set of `<<step, mini-batch, micro-batch>>`, `weights` the sequence of
`<<step, mini-batch>>` applied. `Configs` covers the observer, `use_dynamic_bsz` and
the monitor probe that returns before the first backward; dynamic batches go only
without the observer, as ray_trainer.py:408-418 demands. `EmitRow` merges the
packets as `merge_worker_observer_packets` and `merge_worker_p1_packets` do;
`RefuseOutput` is every way that fails. The refinement is stated twice: the one worker
is rank 0, whose learning rate the row carries, and it is the last rank.

**RolloutEngine.** `at` is where the worker is in a call and `loop` where the
scheduler is in its turn. The worker sends a message and waits (`asked`), except for
the samples, which it sends one after the other before it waits for all. A tensor, a
cached KV and an output are the versions of the weights they come from; `Lost` is the
content of memory after `release_memory_occupation`. `flush_cache` is refused while
there are requests waiting or running (`MayFlush`); it does not look at the last
prefill batch, and `NothingLiveIsFlushed`, a part of `FlushSucceeds`, says that this
does no harm. After the last tensor its result is asserted
(`loop = "dead"`); in `free_cache_engine` it is ignored, and there it may really be
refused, since finished requests stay in `running_batch` until the next turn. The
flush after the last tensor is what makes that harmless. `Prefill` and `Decode` take
any subset of the requests, which covers every admission and retraction.

**RadixCache.** A node is named by the token sequence from the root to its end, which
a split does not change. `req` is what the scheduler knows of a request: its row of
`req_to_token`, `prefix_indices`, `last_node`; `job` is the allocation under way, for a
prefill or a decode batch, of which evicting and retracting are steps. Which tokens
the model yields and which unlocked leaf goes first are open. `PrefixCache` knows no
nodes: only a set of cached sequences closed under prefixes, what each request holds
of it, and how many slots it has of its own. `Flush` waits until no request is
admitted, which is what `NothingLiveIsFlushed` shows of the protocol in `RolloutEngine`.

## Runs

| Run | Question | Bounds |
|---|---|---|
| `writer` | do keys, memory, numbers and durability survive all failures, and does the writer implement `PartLog`? | 2 writers, 3 files, 3 keys over 2 steps, one cut, all failures on |
| `loop` | are batches and statistics whole, is any prompt trained on twice or passed over, what does a kill cost? | filter on and off, 7 prompts, gen and train batch 2, 1 extra generation batch, 2 epochs, save every 2 steps, 2 kills, 1 relaunch |
| `loop_ends` | does every launch end, and is the last step reached without the filter? | fair, filter on and off |
| `run` | do the stores agree after any kills, and is a published run completed, unless a kill left the tracker empty? | 3 steps, save each, keep 2, support and probe on, 2 kills between any two writes, fair |
| `run_tracker` (violation) | is the tracker replaced atomically? | 2 steps, 1 kill |
| `update` | do N ranks behave as one worker, and does every update end? | 3 ranks, 2 steps, 2 mini-batches, up to 2 micro-batches, every configuration, ranks may raise, fair |
| `update_no_observer` (violation) | is a run without observer left as it was? | 2 ranks, none raises |
| `engine` | are rollouts on-policy, is the asserted flush accepted, is a live request ever flushed, does every call return? | 3 calls, 2 tensors, 1 prompt, 3 samples, 3 new tokens, fair |
| `rollout` | do pool, flags and records agree under batching, eviction, retraction? | one prompt, the request that caches it and 3 samples, 4 new tokens, pool 10, log-probs on |
| `rollout_finishes` | is every request answered? | 3 prompts, 3 new tokens, pool 10, log-probs off, fair |
| `rollout_explicit` (violation) | does the explicit sampler take over after the end token? | as `rollout` |
| `radix` | are slots conserved, counters exact, held prefixes safe, and is it a `PrefixCache`? | 2 tokens, 4 slots, 3 requests of up to 3 tokens, symmetry |

Why the bounds are enough. Two writers and three files allow a part of a dead
writer, a part of the live one and a temporary file; two steps with a cut between
them allow kept, cut and mixed parts. Seven prompts in batches of two leave a
remainder that `drop_last` discards; a filter that keeps one group of a batch and
two of the next fills a training batch with a surplus, and one that keeps none
exhausts the search; with a checkpoint every second step a pass can end, and with it
the data, one step after the last checkpoint. Three steps, each with a checkpoint, put a kill before the
first checkpoint, between two, during the rotation (at step 3, or later in a
resumed run) and during the overwriting of a step already saved; two kills allow a
kill during a resume.

Three ranks allow one ahead of the second and one behind it; two steps of two
mini-batches put a skipped mini-batch before and after an applied one, and a step
without an update before one with; two micro-batches let ranks with differently long
sequences disagree before the all-reduce. The three calls of the engine run begin with
fresh memory, after a release, and after a release that itself followed new weights;
with two tensors one arrives while the other is still old; with three samples one can
have ended while one runs and one waits. Three requests over two tokens in four slots
share a prefix, split a node that is held, outgrow the pool, and are retracted down to
one. The symmetry of the radix run is over requests, slots and tokens, none of which
the code tells apart; no liveness is checked there.

The vocabulary of the rollout runs is the end token, EOS and one other; the pool is
smaller than what the admitted requests can grow to, so that they are retracted and
admitted again, and `RetractSteps` (20 in the code) is large enough for a retraction
to go down to one request. Ratios 0 and 1 are the extremes of `new_token_ratio`: at 0
too many requests are admitted, at 1 none too many.

Deadlock is checked in `rollout`, `rollout_finishes`, `radix` and `engine`, whose loops
never stop. It is not in the others: a run ends, a bounded number of files is used
up, and an unreadable tracker or a failed update really stops everything.

Fairness. `TrainLoop!FairSpec`: the loop goes on while it can (it is sequential
code), and a killed run is started again. `TrainRun!FairSpec`: the same for the
run as a whole; `Stop` is not fair and bounded by `MaxStops`. `LatentBatch!Spec`: the
scheduler's endless loop takes steps; arrivals are not fair. `RolloutEngine!Spec`: each
of the two processes takes steps. `PolicyUpdate!Spec`: as long as some process can do
something, one does; no rank is promised its turn before another, and none is needed,
as an update is finite. Nothing is assumed of which groups the filter keeps.

## Findings

The violation runs state what a document or comment says and show an execution of
the code that does otherwise: the tracker is not replaced atomically (`run_tracker`);
after its end token a request is still sampled by the latent sampler, since the end
token clears the flag of the request and not that of its row (`rollout_explicit`); and
a run with the observer disabled fails after its first update, because the workers
return their packets all the same (`update_no_observer`).

Other values of the constants show limits that the properties exclude by a premise
or the instance by its settings: with `CallerRetries = TRUE` a caller that goes on
after a late failure of an append commits keys twice; with `AnyCheckpoint = TRUE` a run
resumed from an older checkpoint overwrites the tracked one in place; with
`MaxKeep = 1` a kill during a save leaves nothing to resume from. `RecoversOnceSaved`
has two premises, then: `MaxKeep # 1`, and no kill inside the rewrite of the tracker
(ray_trainer.py:999-1000), which its formula names as the one way to end otherwise.
After such a kill no launch succeeds by itself; `OnlyTheNumberIsLost`, a part of
`TrackedIsWhole`, says that the checkpoint is whole and the train table has the rows of
its steps, so that writing the number back is enough.

Some hazards of the code have no property, as what they would promise is not so and
no text promises it: a retracted request loses its superpositions, a prompt that
extends another's prompt and outputs reuses the KV of superpositions, a run killed before its
first checkpoint is refused on the same output root, and with the filter the data may run out
before the last step, without final checkpoint and validation (`LittleIsLost` bounds
what that loses). Three more can be read
off the modules: checkpoints of an earlier launch are never rotated out (`kept` starts
empty), the number of a quarantined part can be given to a new one (`NumbersUnique` is
about published parts), and a probe labelled with a checkpoint shows the model before
that step's update (`ProbesAreOfTheOldModel`).

## Proofs

| Theorem | Assumes | States |
|---|---|---|
| `PartWriter_proofs!TypeCorrect` | | `[]TypeOK` |
| `PartWriter_proofs!KeysAreUnique` | `~CallerRetries` | `[]UniqueKeys` |
| `PartWriter_proofs!WritersExclude` | `~CallerRetries` | `[]OneWriter` |
| `PartWriter_proofs!ReadyMemory` | `~CallerRetries` | `[]ReadyIsExact` |
| `PartWriter_proofs!PartNumbers` | `~CallerRetries` | `[]NumbersUnique` |
| `PartWriter_proofs!Durable` | `~CallerRetries` | `[]CommittedIsDurable` |
| `PartWriter_proofs!WriterIsALog` | `~CallerRetries` | `ImplementsLog`: the writer refines `PartLog` |
| `TrainLoop_proofs!BatchesAreWhole` | | `[]BatchIsComplete` |
| `TrainLoop_proofs!StatisticsOfTheStep` | | `[]RawIsExact` |
| `TrainLoop_proofs!PromptsSeenOnce` | | `[]TrainedOnce` |
| `TrainLoop_proofs!NoPromptSkipped` | | `[]NoPromptIsSkipped` |
| `TrainLoop_proofs!SearchEnds` | | `[]SearchIsBounded` |
| `TrainLoop_proofs!LittleLost` | | `[]LittleIsLost` |
| `TrainRun_proofs!TrackedCheckpoint` | `~AnyCheckpoint`, `MaxKeep # 1` | `[]TrackedIsWhole` |
| `TrainRun_proofs!CountOfTheWeights` | the same | `[]OptimizerStepIsExact` |
| `TrainRun_proofs!TableOfTheWeights` | the same | `[]TrainTableIsTheRun` |
| `TrainRun_proofs!PastOfTheTracked` | the same | `[]TrackedHasRows` |
| `TrainRun_proofs!EventsArePaired` | the same | `[]EventsAreWhole` |
| `TrainRun_proofs!EvidenceOfTheRun` | the same | `[]ValidatorReadsTheRun` |
| `PolicyUpdate_proofs!OneModel` | | `[]ShardsAgree` |
| `PolicyUpdate_proofs!WholeGradients` | | `[]GradientsAreOfOneBatch` |
| `PolicyUpdate_proofs!RanksAreOneWorker` | | `ImplementsOneWorker`: the ranks refine `PolicyStep` |
| `PolicyUpdate_proofs!ProbesShowTheOldModel` | | `[]ProbesAreOfTheOldModel` |
| `PolicyUpdate_proofs!StatisticsOfEveryShard` | | `[]RowsCountEveryShard` |
| `RolloutEngine_proofs!EngineTyped` | | `[]TypeOK` |
| `RolloutEngine_proofs!OnPolicy` | | `[]RolloutsAreOnPolicy` |
| `RolloutEngine_proofs!FlushIsNeverRefused` | | `[]FlushSucceeds` |
| `LatentBatch_proofs!LatentTokens` | | `[]LatentIsSampledLatent` |
| `LatentBatch_proofs!RecordedRows` | | `[]RecordFollowsTheSwitch` |
| `LatentBatch_proofs!PoolIsConserved` | | `[]PoolConserved` |
| `LatentBatch_proofs!MemorySuffices` | | `[]NeverOutOfMemory` |
| `LatentBatch_proofs!KVFollowsTheRecord` | | `[]KVIsTheRecord` |
| `RadixCache_proofs!RowsFit` | | `[]RowsAreTheTrees` |
| `RadixCache_proofs!LocksAreCounted` | | `[]CountersExact` |
| `RadixCache_proofs!NoSlotIsLost` | | `[]SlotsConserved` |
| `RadixCache_proofs!PromisesAreKept` | | `[]EvictionDelivers` |
| `RadixCache_proofs!TreeIsACache` | | `ImplementsPrefixCache`: the tree refines `PrefixCache` |

Each is a consequence of `Spec`, for every value of the constants that the named
assumptions of the modules allow, and of what the second column adds. Without
`~CallerRetries` `UniqueKeys` is false, and without the additions to `TrainRun`
`TrackedIsWhole` is, as the section before says.

**Writer.** `UniqueKeys` is not inductive. An append compares with the keys in memory,
so the argument needs that memory agrees with the directory; that is broken for a while
during an append and during an open, and power failures remove files under it. The
inductive invariant says for every `pc` what the writer's memory misses: during a
scan the parts still to look at, between rename and manifest the one file just
published. It also says that only the holder of the lock has memory at all, and
that a published file's keys are disjoint from those of any other and of a file
about to be renamed. `Numbered` adds that
a writer about to publish has a number above that of every published part: it takes it
from the parts in memory, which are all there are while it has the lock. The disk comes
with `Stored`, what is fsynced of
what was ever published, and `Secured`, what an append has fsynced and verified at each
`pc`. As keys are unique, different published files have different rows, so the set of
their bodies is a log: a rename is `PartLog`'s commit, the return of `append` its
acknowledgement, a quarantine a cut or a discard, a power failure the loss of batches
not acknowledged, and everything else a stutter.

**Loop.** `Accumulated` says that while sampling the accumulators are empty together, or
the record of raw trajectories holds what they were filled from, and that they are empty
while training; `RawOfStep` that the record is of this step and pass, and apart from what
is left and what was trained on; `SavedApart` the latter of a checkpoint. `Covered` adds
for `NoPromptIsSkipped` that a record which is about to be started anew is of a step the
weights have seen, and that a checkpoint has no record but its own prompts. `Bounded`
counts: the record has at most `numGen` generation batches. `Saves` says that no step
since the last checkpoint was one to save and that the last checkpoint is of a multiple
of `save_freq` or of the last step, so less than `save_freq` steps are at stake.

**Run.** The invariant says at each point of a step where the
weights and the observer's count are (`Position`), that the tracker is behind the
step being saved (`TrackerBehind`: so a save never touches the tracked checkpoint),
that among the remembered checkpoints only the last can be the tracked one
(`KeptBehind`: so rotation never removes it), which parts of the new checkpoint are in
place (`SavedSoFar`), and that the train table holds the rows of the tracked weights
even while the run is down (`TrainRows`: so cutting it off at that step restores
exactly the past of the weights loaded). For the records of a step (`Records`) it
goes on: which steps have left their line in the JSON files (`MemoryEvidence`,
`RuntimeEvidence`) and their row in the tables (`SupportEvidence`, `ProbeEvidence`) at
each `pc` and up to the tracker. An event and its benchmark row are two commits, so
`Paired` allows one row without its partner: that of the event under way (`Between`),
or one that a kill left behind, which lies after the tracked checkpoint and is
cut off by the resume, table by table (`opened`). A launch from scratch cuts nothing off,
and may find a support row of step 1 that a killed launch left (`Leftover`); if it
finds a train row, it is refused before a later step begins (`Fresh`). `Emptied` says of
an empty tracker what `SavedSoFar` says just before it is emptied. `FirstEntry` ties the
memory entry of step 1 to its train row, which no cut takes away, and `LastProbe` says
whose entry is last at each `pc` of a step that is saved.

**Update.** Between two collectives ranks differ, so no statement about `weights` alone
is inductive. `Agree` compares where ranks will be once they have caught up: the
weights after the step a rank is at (`After`), the mini-batches it has then applied and
been through (`Applied`, `Through`), the learning rate it came with (`CameWith`).
`Phases` says that ranks are idle between updates. For the gradients, `Whole(k)` says
that every rank past the split counts down the same `k` micro-batches and has the
gradients of those it is through with; `k` is the maximum the all-reduce
finds, which exists by an induction on the naturals. For the refinement comes
what a rank's own history says: where a rank is tells what of the current step is in
its weights (`OneWorker`), their number is what the observer counts once the row is
emitted, and the learning rate a rank came with is the number of earlier steps that
changed them. So an optimizer step is `PolicyStep`'s on both the first and the last
rank, a return its scheduler tick if anything was applied, and the row of rank 0's
`meta_info` tells the truth about every other rank. For the probe, `Probed` says that before
the first forward pass, and until the step after it, nothing of the update is in the weights, and that what
a rank has probed stays the observer's count until its row is emitted. For the
statistics, `Counted` says at each `pc` how many forward passes a rank has counted since
it last handed its counter over; all ranks run the same number of them, so the sum in a
row is that number once per rank.

**Engine.** `Messages` says that an awaited message is the only one under way and that
samples are handled in the order they are sent; `Queues` that only requests of the
current phase are in a queue, so at a release, a resume or a tensor there are none;
`Unasked` that what was not asked for is not finished; `Weights` how far the tensors
have come and that nothing older is cached after the last; `Emptied` that finished
requests have left `running_batch` before the scheduler reads another message, so the
flush after the last tensor never finds one. A flush comes with the last tensor or around a
release, and then all requests of the call are answered (`NothingLiveIsFlushed`).

**Scheduler.** The invariant has four layers, each proved with the help of those before.
`Located`: a request is sent and then in exactly one of the queue, the running batch, the
last prefill batch, or done (`Placed`), and `pc` tells which of the loop's batches there
are (`Loop`). `Sampled`: the latent flag of a request says that its outputs do not have
the end token yet, and wherever a row of it is, the row has the flag if the request has
(`Rowed`), which merging, filtering and retracting keep. `Divided`: how long the KV of a request
is in each place (`Lengths`), that what it holds ends at a node (`Held`), and the sum
itself; `Room` that what the batch being made will write (`Need`) is covered by what
`add_one_req` estimated it on, and that a decode batch that is let through has a slot for each row.
`Kinded`: the KV of a prompt is that of token ids, in the tree as in the requests, and the KV of
an output is the row recorded for it, unless the request was retracted. `retract_decode`
sorts the batch by the outputs; that there is such an order, which the model
chooses, is proved too, since the victim would otherwise be unknown.

**Memory.** `Shape` takes the tree as a set of words closed under prefixes, in which each
word has one owner: the first node at or below its end. What the requests hold is then
a set of words as well (`HeldBy`), and `Locked` counts in words: the evictable size is the
number of cached words nobody holds, the protected size the number of those somebody
does. A split changes the nodes and no word, so only the counter of the new node has to be
looked at; an insertion changes what is cached and not what is held; an eviction takes a
leaf whose words are held by nobody. `Fits` and `Phased` say how far the row of a request
goes in each phase, and that below its prefix the row is the tree's. Slots are counted one
by one: `Pairs` are the places of the requests' own rows where a slot is, and with the
words that have it and its count in `free` there is always one (`SlotsConserved` itself is
inductive on top). Summed up over the slots this is `Balance`: free, cached and private
slots are all there are. For `EvictionDelivers` two facts about the estimates are added:
what an admitted request lacks is free or evictable (`Promised`), and what the batch under
way needs is free or still to be evicted (`Pending`). If no leaf is left to evict,
everything cached is held; with one request in the batch its own tokens are all that is not
free, and they are at most `MaxLen`, which is at most the pool. In the refinement
`cached` is the set of words, `held` the word of `last_node`, `private` the row beyond the
prefix; `Admit` is `Hold`, `EvictLeaf` `Evict`, `Alloc` `TakeSlots`, `Retract` `Drop`,
`CacheUnfinishedReq` `Share`, `CacheFinishedReq` `Leave`, `Flush` `Flush`, and the rest
stutters.

**Sums.** `FoldSet` is recursive, and the library's induction theorems take an
operator. `Sums_proofs` states induction over finite sets for a set of sets instead
(`FiniteSetInduction`), shows with it that the fold does not depend on the order in which
elements are chosen, and derives what the proofs use: the sum with an element more or
less, with one value changed, of a sum of functions, of equal values, and a bound.

Model-checked only are the six liveness properties (`EveryLaunchEnds`, `ReachesLastStep`,
`RecoversOnceSaved`, `EveryUpdateEnds`, `EveryCallReturns`, `EveryRequestFinishes`): the
provers have no rule for fairness and `ENABLED`. Every safety invariant and every
refinement that a passing run checks is a theorem. The type invariants are part of the
inductive invariants and proved with them; no run repeats them.

## Plan

1. Proofs: the promises of the abstract modules, so that they hold of the detailed ones
   by refinement (what is held in `PrefixCache` stays cached, the rows of `PolicyStep`
   are in order); the safety half of the liveness arguments, as measures that each step
   of an update or a search lowers.
2. SGLang: the overlap loop as a second module over the same requests, chunked
   prefill, and an abstract request (submitted, latent, explicit, answered) that
   `LatentBatch` implements.
3. The ranks of an engine's tensor-parallel group, of which one talks to the worker.
4. `Launch`: the gates of the launcher.

## Not modelled

Each part has a row in `PROJECT.json` with the reason; in short:

- loss and advantage arithmetic, the sampler's arithmetic, the numbers inside the
  worker statistics, tensors: data whose values no state machine tells apart;
- the probe's autograd credit and its restore of gradients and RNG: local and
  deterministic, and nothing runs between saving and restoring;
- tokenisation, configuration parsing, schemas, identities, reward functions: pure
  functions with unit tests;
- evaluation, data preparation, output validation, shell scripts: no state that
  outlives them;
- validation during training: it reads, and generates as `RolloutEngine` does;
- the critic, multi-turn rollout, LoRA, grammars, speculative decoding,
  aborts, page sizes above 1: not used in this project's training;
- the vendored remainder of verl and SGLang (models, kernels, other backends and
  entry points), by far the largest part of the repository: third-party code that
  training does not reach.
