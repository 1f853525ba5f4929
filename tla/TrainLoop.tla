------------------------------ MODULE TrainLoop ------------------------------
(***************************************************************************)
(* The driver loop RayPPOTrainer.fit of verl/trainer/ppo/ray_trainer.py:   *)
(* passes over the data, dynamic sampling of prompt groups until a training *)
(* batch is full, checkpoints, and the resume of a run that was killed.     *)
(*                                                                         *)
(* A group is all responses to one prompt of one generation batch; whether *)
(* its rewards differ (np.std > 0), so that the filter keeps it, is open.  *)
(* What the workers compute, and what the metrics observer records of a    *)
(* step, is left out: TrainRun models the latter.                          *)
(***************************************************************************)
EXTENDS Integers, FiniteSets

CONSTANTS Prompt,          \* the dataset
          GenBatchSize,    \* data.gen_batch_size
          TrainBatchSize,  \* data.train_batch_size
          Filters,         \* values of algorithm.filter_groups.enable a run may have
          MaxGenBatches,   \* filter_groups.max_num_gen_batches; <= 0: no limit
          TotalEpochs,     \* trainer.total_epochs
          TotalSteps,      \* trainer.total_training_steps; 0: null
          SaveFreq,        \* trainer.save_freq; <= 0: never
          NoSave,
          MaxCrashes,      \* bound: how often the driver is killed
          MaxRelaunches    \* bound: how often a run that ended is launched again

ASSUME DataAssumption ==
  /\ IsFiniteSet(Prompt)
  /\ GenBatchSize \in 1..Cardinality(Prompt)
  /\ TrainBatchSize \in Nat \ {0}
ASSUME ConfigAssumption ==
  /\ Filters \subseteq BOOLEAN
  /\ {MaxGenBatches, SaveFreq} \subseteq Int
  /\ {TotalEpochs, TotalSteps, MaxCrashes, MaxRelaunches} \subseteq Nat

\* The content of a checkpoint.
Checkpoint ==
  [step : Nat, left : SUBSET Prompt, pass : Nat, trained : SUBSET Prompt, seen : SUBSET Prompt]
ASSUME NoSaveAssumption == NoSave \notin Checkpoint

VARIABLES
  pc,         \* "loop" | "train", or how the launch ended
  step,       \* self.global_steps
  epoch,      \* the loop variable of range(total_epochs)
  left,       \* prompts the dataloader has not yet drawn in this pass
  acc,        \* acc_batch, as a set of groups
  numPrompt,  \* num_prompt_in_batch
  numGen,     \* num_gen_batches
  raw,        \* groups of raw_generated_trajectory_lengths
  batch,      \* the groups trained on
  filterGroups, \* algorithm.filter_groups.enable
  saved,      \* the checkpoint latest_checkpointed_iteration.txt names
  \* history
  pass,       \* passes over the data the weights have begun before this one
  trained,    \* prompts of this pass the weights have been trained on
  seen,       \* prompts of this pass drawn for the steps of the weights, dropped ones included
  crashes, relaunches

sampling == <<acc, numPrompt, numGen, raw>>
bounds == <<filterGroups, crashes, relaunches>>
vars == <<pc, step, epoch, left, sampling, batch, saved, pass, trained, seen, bounds>>

Ended == {"done", "exhausted", "failed"}
Group == [prompt : Prompt, pass : Nat, step : Nat]
PromptsOf(groups) == {g.prompt : g \in groups}

TotalTrainingSteps ==
  IF TotalSteps # 0 THEN TotalSteps ELSE (Cardinality(Prompt) \div GenBatchSize) * TotalEpochs

\* Mutant of IsLastStep: an off-by-one.
IsLastStepStrict == step > TotalTrainingSteps

IsLastStep == step >= TotalTrainingSteps

\* Mutant of SaveDue: checkpoints are taken at the last step only.
SaveDueLast == SaveFreq > 0 /\ IsLastStep

SaveDue == SaveFreq > 0 /\ (IsLastStep \/ step % SaveFreq = 0)

Cleared == acc' = {} /\ numPrompt' = 0 /\ numGen' = 0

Init ==
  /\ pc = "loop"
  /\ step = 1 /\ epoch = 0
  /\ left = Prompt
  /\ acc = {} /\ numPrompt = 0 /\ numGen = 0 /\ raw = {}
  /\ batch = {}
  /\ saved = NoSave
  /\ pass = 0 /\ trained = {} /\ seen = {}
  /\ filterGroups \in Filters
  /\ crashes = 0 /\ relaunches = 0

-----------------------------------------------------------------------------
Groups(B) == [prompt : B, pass : {pass}, step : {step}]

\* Mutant of Draw: the record is never started anew.
DrawNoReset(B) ==
  /\ pc = "loop"
  /\ B \subseteq left /\ Cardinality(B) = GenBatchSize
  /\ left' = left \ B
  /\ raw' = raw \cup Groups(B)

\* A generation batch is drawn (drop_last: a whole one or none) and its
\* trajectories are recorded; the record starts anew with the accumulators.
Draw(B) ==
  /\ pc = "loop"
  /\ B \subseteq left /\ Cardinality(B) = GenBatchSize
  /\ left' = left \ B
  /\ raw' = (IF acc = {} /\ numPrompt = 0 /\ numGen = 0 THEN {} ELSE raw)
            \cup Groups(B)

\* Without the filter every generation batch is a training batch.
TakeAll(B) ==
  /\ ~filterGroups
  /\ Draw(B)
  /\ batch' = Groups(B)
  /\ pc' = "train"
  /\ UNCHANGED <<step, epoch, acc, numPrompt, numGen, saved, pass, trained, seen, bounds>>

\* Mutant of MoreAllowed: the count of generation batches is not looked at.
MoreAlwaysAllowed == TRUE

MoreAllowed == MaxGenBatches <= 0 \/ numGen < MaxGenBatches

\* Too few groups kept so far: draw again, or give up.
KeepSampling(B, K) ==
  /\ filterGroups /\ K \subseteq B
  /\ numPrompt + Cardinality(K) < TrainBatchSize
  /\ MoreAllowed
  /\ Draw(B)
  /\ acc' = acc \cup Groups(K)
  /\ numPrompt' = numPrompt + Cardinality(K)
  /\ numGen' = numGen + 1
  /\ UNCHANGED <<pc, step, epoch, batch, saved, pass, trained, seen, bounds>>

GiveUp(B, K) ==
  /\ filterGroups /\ K \subseteq B
  /\ numPrompt + Cardinality(K) < TrainBatchSize
  /\ ~MoreAllowed
  /\ Draw(B)
  /\ acc' = acc \cup Groups(K)
  /\ numPrompt' = numPrompt + Cardinality(K)
  /\ pc' = "failed"
  /\ UNCHANGED <<step, epoch, numGen, batch, saved, pass, trained, seen, bounds>>

\* Enough groups: the first TrainBatchSize in order of appearance, which is
\* all accumulated before and some (S) of this batch; the surplus is dropped.
FillBatch(B, K, S) ==
  /\ filterGroups /\ K \subseteq B
  /\ numPrompt + Cardinality(K) >= TrainBatchSize
  /\ Draw(B)
  /\ S \subseteq K
  /\ batch' = acc \cup Groups(S)
  /\ Cardinality(batch') = TrainBatchSize
  /\ Cleared
  /\ pc' = "train"
  /\ UNCHANGED <<step, epoch, saved, pass, trained, seen, bounds>>

\* Mutant of EndOfPass: what the previous pass accumulated is carried on.
EndOfPassCarryOver ==
  /\ pc = "loop"
  /\ Cardinality(left) < GenBatchSize
  /\ epoch' = epoch + 1
  /\ pc' = IF epoch' < TotalEpochs THEN "loop" ELSE "exhausted"
  /\ left' = Prompt /\ pass' = pass + 1 /\ trained' = {} /\ seen' = {}
  /\ UNCHANGED <<step, sampling, batch, saved, bounds>>

\* Mutant of EndOfPass: the pass is not counted.
EndOfPassForever ==
  /\ pc = "loop"
  /\ Cardinality(left) < GenBatchSize
  /\ Cleared /\ raw' = {}
  /\ left' = Prompt /\ trained' = {} /\ seen' = {}
  /\ UNCHANGED <<pc, step, epoch, batch, saved, pass, bounds>>

\* The dataloader has no whole batch left: the next pass begins with nothing
\* accumulated, or fit falls off the end of its loop.
EndOfPass ==
  /\ pc = "loop"
  /\ Cardinality(left) < GenBatchSize
  /\ epoch' = epoch + 1
  /\ pc' = IF epoch' < TotalEpochs THEN "loop" ELSE "exhausted"
  /\ Cleared /\ raw' = {}
  /\ left' = Prompt /\ pass' = pass + 1 /\ trained' = {} /\ seen' = {}
  /\ UNCHANGED <<step, batch, saved, bounds>>

\* Mutant of Train: the dataloader's state is that of a loader that has fetched
\* a batch ahead.
TrainFetchedAhead ==
  /\ pc = "train"
  /\ trained' = trained \cup PromptsOf(batch)
  /\ seen' = seen \cup PromptsOf(raw)
  /\ IF SaveDue
     THEN \E B \in SUBSET left :
            /\ Cardinality(B) = GenBatchSize
            /\ saved' = [step |-> step, left |-> left \ B, pass |-> pass, trained |-> trained', seen |-> seen']
     ELSE saved' = saved
  /\ step' = step + 1
  /\ batch' = {}
  /\ pc' = IF IsLastStep THEN "done" ELSE "loop"
  /\ UNCHANGED <<epoch, left, sampling, pass, bounds>>

\* Updates, checkpoint when due, next step.  The checkpoint holds the weights,
\* the step and the state of the dataloader, and none of the accumulators.
Train ==
  /\ pc = "train"
  /\ trained' = trained \cup PromptsOf(batch)
  /\ seen' = seen \cup PromptsOf(raw)
  /\ saved' = IF SaveDue
              THEN [step |-> step, left |-> left, pass |-> pass, trained |-> trained', seen |-> seen']
              ELSE saved
  /\ step' = step + 1
  /\ batch' = {}
  /\ pc' = IF IsLastStep THEN "done" ELSE "loop"
  /\ UNCHANGED <<epoch, left, sampling, pass, bounds>>

-----------------------------------------------------------------------------
Crash ==
  /\ pc \in {"loop", "train"}
  /\ crashes < MaxCrashes
  /\ crashes' = crashes + 1
  /\ pc' = "down"
  /\ UNCHANGED <<step, epoch, left, sampling, batch, saved, pass, trained, seen,
                 filterGroups, relaunches>>

\* Mutant of Resume: data.pt is not read back.
ResumeWithoutData ==
  /\ pc' = "loop" /\ epoch' = 0
  /\ Cleared /\ raw' = {} /\ batch' = {}
  /\ left' = Prompt
  /\ IF saved = NoSave
     THEN step' = 1 /\ pass' = 0 /\ trained' = {} /\ seen' = {}
     ELSE /\ step' = saved.step + 1 /\ pass' = saved.pass
          /\ trained' = saved.trained /\ seen' = saved.seen
  /\ UNCHANGED saved

\* _load_checkpoint and the start of the loop: the epoch count begins at 0.
Resume ==
  /\ pc' = "loop" /\ epoch' = 0
  /\ Cleared /\ raw' = {} /\ batch' = {}
  /\ IF saved = NoSave
     THEN step' = 1 /\ left' = Prompt /\ pass' = 0 /\ trained' = {} /\ seen' = {}
     ELSE /\ step' = saved.step + 1 /\ left' = saved.left /\ pass' = saved.pass
          /\ trained' = saved.trained /\ seen' = saved.seen
  /\ UNCHANGED saved

Restart == pc = "down" /\ Resume /\ UNCHANGED bounds

Relaunch ==
  /\ pc \in Ended
  /\ relaunches < MaxRelaunches
  /\ relaunches' = relaunches + 1
  /\ Resume
  /\ UNCHANGED <<filterGroups, crashes>>

Sample == \/ \E B \in SUBSET left : TakeAll(B)
          \/ \E B \in SUBSET left : \E K \in SUBSET B :
               KeepSampling(B, K) \/ GiveUp(B, K) \/ \E S \in SUBSET K : FillBatch(B, K, S)

Loop == Sample \/ EndOfPass \/ Train

Next == Loop \/ Crash \/ Restart \/ Relaunch

Spec == Init /\ [][Next]_vars

\* The loop runs on while it can, and whoever operates it restarts it.
FairSpec == Spec /\ WF_vars(Loop) /\ WF_vars(Restart)

-----------------------------------------------------------------------------
TypeOK ==
  /\ pc \in {"loop", "train", "down"} \cup Ended
  /\ step \in Nat \ {0} /\ epoch \in Nat
  /\ {left, trained, seen} \subseteq SUBSET Prompt
  /\ acc \subseteq Group /\ raw \subseteq Group /\ batch \subseteq Group
  /\ numPrompt \in Nat /\ numGen \in Nat /\ pass \in Nat
  /\ saved \in Checkpoint \cup {NoSave}
  /\ filterGroups \in Filters
  /\ crashes \in 0..MaxCrashes /\ relaunches \in 0..MaxRelaunches

\* A training batch put together from several generation batches has exactly
\* train_batch_size groups, each with an id of its own: the id is a hash of
\* the step and the prompt (identity.py:25-33), and every metrics row of the
\* step is keyed by it, so the same prompt must not enter twice.
BatchIsComplete ==
  pc = "train" =>
    /\ filterGroups => Cardinality(batch) = TrainBatchSize
    /\ \A g, h \in batch : g # h => <<g.step, g.prompt>> # <<h.step, h.prompt>>
    /\ \A g \in batch : g.step = step /\ g.prompt \notin left

\* The raw generation statistics of a step count every trajectory generated
\* for it, those the filter threw away included, and none of another step
\* or of an accumulation that was abandoned (ray_trainer.py:1136, 1187).
RawIsExact ==
  pc = "train" =>
    /\ batch \subseteq raw
    /\ \A g \in raw : g.step = step /\ g.pass = pass
    /\ PromptsOf(raw) \cap (left \cup trained) = {}

\* The weights see a prompt at most once in a pass, whatever is resumed.
TrainedOnce == trained \cap (left \cup PromptsOf(acc) \cup PromptsOf(batch)) = {}

\* No prompt is passed over: what has been drawn in this pass was drawn for a step
\* the weights have seen, or for the one under way, whatever is resumed.  So a
\* checkpoint must not be taken while groups are accumulated, which it does not
\* hold, and its data.pt must be neither behind its weights nor ahead of them.
\* Without the filter every prompt drawn for a step is trained on.
NoPromptIsSkipped ==
  /\ Prompt \ left = seen \cup PromptsOf(raw)
  /\ ~filterGroups => trained = seen

\* However a launch ends, and so also when the data or the bound of the search end
\* it with no final checkpoint (ray_trainer.py:1126), its weights are at most
\* save_freq steps ahead of the checkpoint; a finished run's last step is in it.
LastSave == IF saved = NoSave THEN 0 ELSE saved.step
LittleIsLost ==
  SaveFreq > 0 => /\ step - 1 - LastSave < SaveFreq
                  /\ pc = "done" => LastSave = step - 1

\* The search for groups is bounded: one generation batch more than
\* max_num_gen_batches is made, then the run fails.  The bound is per pass: a new
\* pass starts counting anew.
SearchIsBounded ==
  MaxGenBatches > 0 => Cardinality(raw) <= (MaxGenBatches + 1) * GenBatchSize

\* Every launch comes to an end: the last step, the end of the data, the
\* error, or the kill.
EveryLaunchEnds == pc \in {"loop", "train"} ~> pc \in Ended \cup {"down"}

\* Without the filter the data last to the final step, crashes or not, so the
\* final checkpoint and validation take place.
ReachesLastStep == ~filterGroups => <>(pc = "done")
=============================================================================
