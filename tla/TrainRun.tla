------------------------------ MODULE TrainRun ------------------------------
(***************************************************************************)
(* One training run across crashes: the steps of RayPPOTrainer.fit         *)
(* (ray_trainer.py), what DurableMetricsObserver commits for each of them   *)
(* (metrics/integration.py), the publication of a checkpoint with its       *)
(* metrics sidecar, and the resume from it (checkpointing.py).              *)
(*                                                                         *)
(* Four stores are written one after the other and have to agree after any *)
(* crash: the metrics tables, the JSON files beside them, the checkpoint    *)
(* directories, and the tracker file that names the newest checkpoint.      *)
(* A table is a PartLog whose batches are the rows of one step; how a batch *)
(* gets into it is PartWriter's business.  How a training batch is sampled  *)
(* is TrainLoop's.                                                          *)
(*                                                                         *)
(* The weights are represented by their history: weights[s] is the number  *)
(* of optimizer updates applied up to and including step s.                 *)
(***************************************************************************)
EXTENDS Integers, Sequences, FiniteSets

CONSTANTS TotalSteps,      \* total_training_steps
          SaveFreq,        \* trainer.save_freq
          MaxKeep,         \* trainer.max_actor_ckpt_to_keep; 0: null
          MaxUpdates,      \* updates of one step: ppo_epochs * mini-batches
          SupportEnabled,  \* LATENT_GRPO_SUPPORT_ENABLED
          ProbeEnabled,    \* both probe switches
          MemoryReported,  \* do all workers report their GPU memory?
          AnyCheckpoint,   \* may a launch name a checkpoint other than the newest?

          Torn, Missing,   \* a half-written and an absent file
          MaxStops         \* bound: how often the run is killed or fails

ASSUME StepAssumption == {TotalSteps, SaveFreq} \subseteq Nat \ {0}
ASSUME UpdateAssumption == {MaxUpdates, MaxKeep} \subseteq Nat
ASSUME FileAssumption == Torn # Missing /\ {Torn, Missing} \cap (Nat \cup Seq(Nat)) = {}
ASSUME StopAssumption == MaxStops \in Nat
ASSUME SwitchAssumption ==
  {SupportEnabled, ProbeEnabled, MemoryReported, AnyCheckpoint} \subseteq BOOLEAN

VARIABLES
  \* the driver
  pc,          \* "down", or what comes next in fit, or "done"
  opened,      \* tables start_run has opened
  step,        \* self.global_steps
  weights,     \* the model and optimizer in the workers
  kept,        \* previous_saved_paths of the workers' checkpoint managers
  opt,         \* DurableMetricsObserver._optimizer_step
  resumeStep,  \* resume_checkpoint_step; 0: None
  \* the output root
  tables,      \* rows of each metrics table
  gpu,         \* steps in gpu_runtime_metrics.json
  runtime,     \* steps in probe_worker_runtime.json
  ckpt,        \* global_step_<N>/: actor, data.pt and sidecar
  tracker,     \* latest_checkpointed_iteration.txt; 0: absent, -1: empty
  stops        \* history: how often the run was stopped

worker == <<weights, kept>>
driver == <<pc, opened, step, worker, opt, resumeStep>>
files == <<tables, gpu, runtime, ckpt, tracker>>
vars == <<driver, files, stops>>

\* A run resumed from its last checkpoint trains one step more.
Step == 1..TotalSteps + MaxStops
TableOrder == <<"train", "support", "supportBench", "probe", "probeBench">>
Table == {"train", "support", "supportBench", "probe", "probeBench"}
NoCheckpoint == [actor |-> Missing, data |-> Missing, sidecar |-> Missing]

\* Updates applied by the first s steps of a history.
Total(history, s) == IF s = 0 THEN 0 ELSE history[s]

IsLastStep == step >= TotalSteps
SaveDue == IsLastStep \/ step % SaveFreq = 0
ProbeDue == ProbeEnabled /\ SaveDue

Init ==
  /\ pc = "down" /\ opened = 0 /\ step = 1
  /\ weights = <<>> /\ kept = <<>> /\ opt = 0 /\ resumeStep = 0
  /\ tables = [t \in Table |-> {}]
  /\ gpu = <<>> /\ runtime = <<>>
  /\ ckpt = [s \in Step |-> NoCheckpoint]
  /\ tracker = 0
  /\ stops = 0

-----------------------------------------------------------------------------
(* Launch: _load_checkpoint, then start_run *)

Launch(c) ==
  /\ pc = "down"
  /\ pc' = "open" /\ opened' = 0
  /\ step' = c + 1
  /\ resumeStep' = c
  /\ opt' = 0 /\ kept' = <<>>
  /\ UNCHANGED <<files, stops>>

LaunchFromScratch == tracker = 0 /\ Launch(0) /\ weights' = <<>>

\* The newest checkpoint (resume_mode auto, or the path the runbook computes
\* from the tracker), or one the operator names; the tracker is parsed in either
\* case.  A half-written checkpoint cannot be loaded, and one without a sidecar
\* is refused.
LaunchFrom(c) ==
  /\ c = tracker \/ AnyCheckpoint
  /\ tracker # -1
  /\ ckpt[c].actor \notin {Torn, Missing}
  /\ ckpt[c].data # Torn
  /\ ckpt[c].sidecar # Missing
  /\ Launch(c)
  /\ weights' = ckpt[c].actor

\* Mutant of CutOff: a resumed table keeps the rows after the checkpoint.
CutOffNothing(rows) == rows

\* Mutant of CutOff: the rows of the checkpoint's own step go too.
CutOffInclusive(rows) ==
  IF resumeStep = 0 THEN rows ELSE {r \in rows : r.step < resumeStep}

\* A resumed writer quarantines what lies beyond the checkpoint.
CutOff(rows) == IF resumeStep = 0 THEN rows ELSE {r \in rows : r.step <= resumeStep}

\* Mutant of StartingOptimizerStep: the sidecar's count is not restored.
StartingOptimizerStepZero == 0

StartingOptimizerStep == IF resumeStep = 0 THEN 0 ELSE ckpt[resumeStep].sidecar

\* Mutant of OpenTable: only the tables with one row a step are reconciled.
OpenTableOneRow ==
  /\ pc = "open"
  /\ opened < Len(TableOrder)
  /\ opened' = opened + 1
  /\ LET t == TableOrder[opened + 1] IN
     tables' = [tables EXCEPT ![t] = IF t \in {"support", "probe"} THEN @ ELSE CutOff(@)]
  /\ UNCHANGED <<pc, step, worker, opt, resumeStep, gpu, runtime, ckpt, tracker, stops>>

\* The tables are opened in a fixed order, each reconciled by itself.
OpenTable ==
  /\ pc = "open"
  /\ opened < Len(TableOrder)
  /\ opened' = opened + 1
  /\ LET t == TableOrder[opened + 1] IN tables' = [tables EXCEPT ![t] = CutOff(@)]
  /\ UNCHANGED <<pc, step, worker, opt, resumeStep, gpu, runtime, ckpt, tracker, stops>>

Started ==
  /\ pc = "open"
  /\ opened = Len(TableOrder)
  /\ opt' = StartingOptimizerStep
  /\ pc' = "gen"
  /\ UNCHANGED <<opened, step, worker, resumeStep, files, stops>>

-----------------------------------------------------------------------------
(* One step *)

Generate ==
  /\ pc = "gen"
  /\ pc' = IF SupportEnabled THEN "support" ELSE "update"
  /\ UNCHANGED <<opened, step, worker, opt, resumeStep, files, stops>>

Recorded(t) == \E r \in tables[t] : r.step = step

\* Mutant of Append1: a committed key is not refused.
Append1Again(t, count) ==
  tables' = [tables EXCEPT ![t] = @ \cup {[step |-> step, opt |-> count]}]

\* writer.append of one row (or one batch of rows) of this step.
Append1(t, count) ==
  /\ ~Recorded(t)
  /\ tables' = [tables EXCEPT ![t] = @ \cup {[step |-> step, opt |-> count]}]

\* The committed key is refused and the exception ends the run.
Emitting == {<<"support", "support">>, <<"supportBench", "supportBench">>, <<"row", "train">>,
             <<"probe", "probe">>, <<"probeBench", "probeBench">>}

Refused ==
  /\ \E e \in Emitting : pc = e[1] /\ Recorded(e[2])
  /\ pc' = "down"
  /\ UNCHANGED <<opened, step, worker, opt, resumeStep, files, stops>>

\* One append to a table.
Commit(t, count, next) ==
  /\ pc = t
  /\ Append1(t, count)
  /\ pc' = next
  /\ UNCHANGED <<opened, step, worker, opt, resumeStep, gpu, runtime, ckpt, tracker, stops>>

\* The rows of an event and its benchmark row are two commits.  The support
\* collector may have no rows to offer.
NoRows ==
  /\ pc = "support"
  /\ pc' = "supportBench"
  /\ UNCHANGED <<opened, step, worker, opt, resumeStep, files, stops>>

EmitSupport == NoRows \/ Commit("support", opt, "supportBench")
EmitSupportBenchmark == Commit("supportBench", opt, "update")

\* update_actor: a mini-batch with a non-finite gradient is skipped.
UpdateActor ==
  /\ pc = "update"
  /\ \E u \in 0..MaxUpdates :
       weights' = Append(weights, Total(weights, step - 1) + u)
  /\ pc' = "row"
  /\ UNCHANGED <<opened, step, kept, opt, resumeStep, files, stops>>

\* The count the workers agreed on for this step.
UpdateCount == Total(weights, step) - Total(weights, step - 1)

EmitTrainStep ==
  /\ pc = "row"
  /\ Append1("train", opt + UpdateCount)
  /\ pc' = "gpu"
  /\ UNCHANGED <<opened, step, worker, opt, resumeStep, gpu, runtime, ckpt, tracker, stops>>

AfterStep == IF ProbeDue THEN "probe" ELSE IF SaveDue THEN "actor" ELSE "next"

\* The file is read, extended and replaced; only then the count moves on.
EmitGpuRuntime ==
  /\ pc = "gpu"
  /\ gpu' = IF MemoryReported THEN Append(gpu, step) ELSE gpu
  /\ opt' = opt + UpdateCount
  /\ pc' = AfterStep
  /\ UNCHANGED <<opened, step, worker, resumeStep, tables, runtime, ckpt, tracker, stops>>

EmitProbe == Commit("probe", opt, "probeBench")
EmitProbeBenchmark == Commit("probeBench", opt, "probeRuntime")

EmitProbeRuntime ==
  /\ pc = "probeRuntime"
  /\ runtime' = Append(runtime, step)
  /\ pc' = "actor"
  /\ UNCHANGED <<opened, step, worker, opt, resumeStep, tables, gpu, ckpt, tracker, stops>>

-----------------------------------------------------------------------------
(* _save_checkpoint *)

Save(part, value, from, to) ==
  /\ pc = from
  /\ ckpt' = [ckpt EXCEPT ![step] = [@ EXCEPT ![part] = value]]
  /\ pc' = to
  /\ UNCHANGED <<opened, step, weights, opt, resumeStep, tables, gpu, runtime, tracker, stops>>

\* How many of the paths this process has saved go before the next is written.
Surplus == IF MaxKeep > 0 /\ Len(kept) >= MaxKeep THEN Len(kept) - MaxKeep + 1 ELSE 0

RemoveFirst(n) ==
  /\ pc = "actor"
  /\ LET gone == {kept[i] : i \in 1..n} IN
     ckpt' = [s \in Step |-> IF s \in gone THEN [ckpt[s] EXCEPT !.actor = Missing]
                                           ELSE ckpt[s]]
  /\ kept' = SubSeq(kept, n + 1, Len(kept))
  /\ pc' = "mkdir"
  /\ UNCHANGED <<opened, step, weights, opt, resumeStep, tables, gpu, runtime, tracker, stops>>

\* Mutant of Rotate: an off-by-one in keep_start, as if room had to be made
\* for one checkpoint more.
RotateOneMore ==
  RemoveFirst(IF Surplus > 0 /\ Surplus < Len(kept) THEN Surplus + 1 ELSE Surplus)

\* Old shards are removed before the new ones are written; the rest of the old
\* checkpoint stays.  (Half removed is as useless as removed.)
Rotate == RemoveFirst(Surplus)

\* The ranks write their shards in place, over those of an earlier save.
SaveActor == Save("actor", Torn, "mkdir", "shards") /\ UNCHANGED kept
SaveActorDone == Save("actor", weights, "shards", "data") /\ kept' = Append(kept, step)

\* data.pt: where the dataloader is after the steps these weights have seen.
SaveData == Save("data", Torn, "data", "datapt") /\ UNCHANGED kept

\* Mutant of SaveDataDone: the observer's checkpoint hook is not called.
SaveDataDoneNoSidecar == Save("data", weights, "datapt", "tracker") /\ UNCHANGED kept

SaveDataDone == Save("data", weights, "datapt", "sidecar") /\ UNCHANGED kept
SaveSidecar == Save("sidecar", opt, "sidecar", "tracker") /\ UNCHANGED kept

\* open(..., "w") truncates, then the step is written.
TruncateTracker ==
  /\ pc = "tracker"
  /\ tracker' = -1
  /\ pc' = "number"
  /\ UNCHANGED <<opened, step, worker, opt, resumeStep, tables, gpu, runtime, ckpt, stops>>

WriteTracker ==
  /\ pc = "number"
  /\ tracker' = step
  /\ pc' = "next"
  /\ UNCHANGED <<opened, step, worker, opt, resumeStep, tables, gpu, runtime, ckpt, stops>>

NextStep ==
  /\ pc = "next"
  /\ pc' = IF IsLastStep THEN "done" ELSE "gen"
  /\ step' = step + 1
  /\ UNCHANGED <<opened, worker, opt, resumeStep, files, stops>>

-----------------------------------------------------------------------------
\* The process is killed, or an exception ends the run; what was written stays.
\* At "number" that leaves the tracker empty, and no launch can parse it.
Stop ==
  /\ pc \notin {"down", "done"}
  /\ stops < MaxStops
  /\ stops' = stops + 1
  /\ pc' = "down"
  /\ UNCHANGED <<opened, step, worker, opt, resumeStep, files>>

LaunchAny == LaunchFromScratch \/ \E c \in Step : LaunchFrom(c)

TrainStep == \/ Generate \/ EmitSupport \/ EmitSupportBenchmark \/ UpdateActor
             \/ EmitTrainStep \/ EmitGpuRuntime
             \/ EmitProbe \/ EmitProbeBenchmark \/ EmitProbeRuntime
             \/ Refused

Publish == \/ Rotate \/ SaveActor \/ SaveActorDone \/ SaveData \/ SaveDataDone \/ SaveSidecar
           \/ TruncateTracker \/ WriteTracker \/ NextStep

Run == LaunchAny \/ OpenTable \/ Started \/ TrainStep \/ Publish

Next == Run \/ Stop

Spec == Init /\ [][Next]_vars

\* A run that can go on goes on, and one that is down is launched again.
FairSpec == Spec /\ WF_vars(Run)

-----------------------------------------------------------------------------
Row == [step : Step, opt : Nat]

TypeOK ==
  /\ pc \in {"down", "open", "gen", "support", "supportBench", "update", "row", "gpu",
             "probe", "probeBench", "probeRuntime", "actor", "mkdir", "shards", "data",
             "datapt", "sidecar", "tracker", "number", "next", "done"}
  /\ opened \in 0..Len(TableOrder)
  /\ step \in Nat \ {0}
  /\ weights \in Seq(Nat)
  /\ kept \in Seq(Step)
  /\ opt \in Nat /\ resumeStep \in Step \cup {0}
  /\ tables \in [Table -> SUBSET Row]
  /\ gpu \in Seq(Step) /\ runtime \in Seq(Step)
  /\ ckpt \in [Step -> [actor : {Torn, Missing} \cup Seq(Nat),
                        data : {Torn, Missing} \cup Seq(Nat),
                        sidecar : {Missing} \cup Nat]]
  /\ tracker \in Step \cup {0, -1}
  /\ stops \in 0..MaxStops

RowsOf(history, s) == {[step |-> i, opt |-> history[i]] : i \in 1..s}

\* Whatever was killed and resumed before, the train table describes the weights
\* being trained: one row for each step they have seen, with the number of
\* updates they had then.  (A launch from scratch over old tables is at step 1
\* and will be refused.)
TrainTableIsTheRun ==
  pc = "gen" /\ step > 1 => tables["train"] = RowsOf(weights, step - 1)

\* The observer's optimizer_step is the weights': it is restored from the
\* sidecar, and only counts what all workers report (integration.py:404).
OptimizerStepIsExact == pc = "gen" => opt = Total(weights, step - 1)

\* No step of the run is missing from the memory evidence, nor a checkpoint
\* from the probe's.
RuntimeIsComplete ==
  pc = "gen" =>
    /\ MemoryReported => \A s \in 1..step - 1 : \E i \in DOMAIN gpu : gpu[i] = s
    /\ ProbeEnabled => \A s \in 1..step - 1 : s % SaveFreq = 0 => \E i \in DOMAIN runtime : runtime[i] = s

\* The validator sorts the memory entries by step and takes the first two for
\* those of two steps, and the last probe entry for the newest checkpoint's
\* (validate_3gpu_final.py:108-125, 182-183).  The files are never cut back, so
\* entries of steps that were lost stay and repeat; still the first step has one
\* entry only, because a run killed before its first checkpoint is refused when
\* it is launched again, and the last probe entry of a finished run is its own.
ValidatorReadsTheRun ==
  /\ RuntimeIsComplete
  /\ \A i, j \in DOMAIN gpu : gpu[i] = 1 /\ gpu[j] = 1 => i = j
  /\ pc = "done" /\ ProbeEnabled => runtime # <<>> /\ runtime[Len(runtime)] = step - 1

\* A checkpoint of one save: weights, data position and optimizer_step of the
\* sidecar belong together.
Whole(s) ==
  /\ ckpt[s].actor \notin {Torn, Missing} /\ Len(ckpt[s].actor) = s
  /\ ckpt[s].data = ckpt[s].actor
  /\ ckpt[s].sidecar = ckpt[s].actor[s]

\* A kill inside the rewrite of the tracker (ray_trainer.py:999-1000) loses no
\* more than the number: the checkpoint it was about to name is whole, and the
\* train table has the rows of its steps, so the number can be put back.
OnlyTheNumberIsLost ==
  tracker = -1 =>
    /\ Whole(step)
    /\ {r \in tables["train"] : r.step <= step} = RowsOf(ckpt[step].actor, step)

\* The checkpoint the tracker names is whole (ray_trainer.py:985-987), and so is
\* the one it was to name if a kill left it empty.
TrackedIsWhole == (tracker > 0 => Whole(tracker)) /\ OnlyTheNumberIsLost

\* The rows of every step up to the tracked checkpoint are committed: a resume
\* has a complete past in every table that is written at each step.
TrackedHasRows ==
  tracker > 0 /\ ckpt[tracker].actor \notin {Torn, Missing} =>
    /\ {r \in tables["train"] : r.step <= tracker} = RowsOf(ckpt[tracker].actor, tracker)
    /\ SupportEnabled => \A s \in 1..tracker : \E r \in tables["supportBench"] : r.step = s
    /\ ProbeEnabled => \E r \in tables["probeBench"] : r.step = tracker

\* The rows of one event are in two tables: after a resume no table has rows
\* whose benchmark row is missing, though a crash may fall between the two.
EventsAreWhole ==
  pc = "gen" /\ step > 1 =>
    \A p \in {<<"support", "supportBench">>, <<"probe", "probeBench">>} :
      \A r \in tables[p[1]] : r \in tables[p[2]]

\* Once a checkpoint has been published, the run is completed whatever kills it,
\* unless a kill falls between the truncation of the tracker and the write of
\* its number (ray_trainer.py:999-1000): after that one no launch succeeds, see
\* TrackerIsReadable.  With max_ckpt_to_keep = 1 a kill between the removal of
\* the tracked checkpoint and the next save ends the run too; MaxKeep # 1 here.
RecoversOnceSaved ==
  (tracker > 0) ~> (pc = "done" \/ (pc = "down" /\ tracker = -1))

\* ray_trainer.py:997: the tracker is there "for atomic usage": whenever the run
\* is down it is absent or names a checkpoint.
TrackerIsReadable == pc = "down" => tracker # -1
=============================================================================
