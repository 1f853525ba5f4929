--------------------------- MODULE TrainRun_proofs ---------------------------
(***************************************************************************)
(* Theorems about TrainRun, for runs that resume from the tracked           *)
(* checkpoint and keep more than one (or all) of them.                      *)
(***************************************************************************)
EXTENDS TrainRun, TLAPS

BeforeUpdate == {"gen", "support", "supportBench", "update"}
Counting == {"row", "gpu"}
Probing == {"probe", "probeBench", "probeRuntime"}
Saving == {"actor", "mkdir", "shards"}
Publishing == {"data", "datapt", "sidecar", "tracker", "number"}
AfterCount == Probing \cup Saving \cup Publishing \cup {"next"}
InStep == BeforeUpdate \cup Counting \cup AfterCount
Running == InStep \cup {"open"}

\* Where the weights and the observer's count are, at each point of a step.
Position ==
  /\ pc = "open" => /\ resumeStep = tracker /\ step = tracker + 1
                    /\ Len(weights) = tracker
                    /\ tracker > 0 => weights = ckpt[tracker].actor
  /\ pc \in BeforeUpdate => Len(weights) = step - 1 /\ opt = Total(weights, step - 1)
  /\ pc \in Counting => Len(weights) = step /\ opt = Total(weights, step - 1)
  /\ pc \in AfterCount => Len(weights) = step /\ opt = weights[step]

\* The tracker names a checkpoint of an earlier step until it is rewritten, and
\* steps beyond TotalSteps are paid for with a stop each.
TrackerBehind ==
  /\ pc \in Running \ {"next"} => tracker < step
  /\ pc = "next" => tracker <= step
  /\ pc \in Running => step <= TotalSteps + stops
  /\ pc = "down" => tracker < TotalSteps + stops

\* What this process has saved lies behind it, and the tracked checkpoint is
\* the last of it.
KeptBehind ==
  /\ pc \in Running \ (Publishing \cup {"next"}) =>
       \A i \in 1..Len(kept) : kept[i] < step
  /\ pc \in Publishing \cup {"next"} =>
       \A i \in 1..Len(kept) : kept[i] <= step /\ (i < Len(kept) => kept[i] < step)
  /\ pc \in Running \ Publishing =>
       \A i \in 1..Len(kept) : i < Len(kept) => kept[i] # tracker

\* What of the checkpoint being saved is in place.
SavedSoFar ==
  /\ pc \in Publishing => ckpt[step].actor = weights
  /\ pc \in {"sidecar", "tracker", "number"} => ckpt[step].data = weights
  /\ pc \in {"tracker", "number"} => ckpt[step].sidecar = opt

\* The train table follows the weights; below the tracked step it does so even
\* while the run is down.
TrainRows ==
  /\ tables["train"] # {} => \E r \in tables["train"] : r.step = 1
  /\ tracker > 0 =>
       {r \in tables["train"] : r.step <= tracker} = RowsOf(ckpt[tracker].actor, tracker)
  /\ pc = "open" /\ opened > 0 /\ step > 1 => tables["train"] = RowsOf(weights, step - 1)
  /\ pc \in BeforeUpdate \cup {"row"} /\ step > 1 =>
       tables["train"] = RowsOf(weights, step - 1)
  /\ pc \in {"gpu"} \cup AfterCount => tables["train"] = RowsOf(weights, step)

\* The checkpoint the tracker names is of one save.
NamedIsWhole == tracker > 0 => Whole(tracker)

IInv == /\ TypeOK /\ Position /\ TrackerBehind /\ KeptBehind
        /\ SavedSoFar /\ NamedIsWhole /\ TrainRows

-----------------------------------------------------------------------------
LEMMA InitIInv == Init => IInv
BY StepAssumption, StopAssumption, FileAssumption
   DEF Init, IInv, TypeOK, Position, TrackerBehind, KeptBehind, SavedSoFar, NamedIsWhole, Whole,
       TrainRows, Running, InStep, BeforeUpdate, Counting, AfterCount, Probing, Saving,
       Publishing, Step, Table, TableOrder, NoCheckpoint, Row

\* The step in progress is within the bound of the model.
LEMMA StepInRange == ASSUME IInv, pc \in Running PROVE step \in Step
BY StepAssumption, StopAssumption DEF IInv, TypeOK, TrackerBehind, Step

-----------------------------------------------------------------------------
(* Steps that leave the weights, the count and the checkpoints alone *)

\* A row of the current step in a table.
LEMMA AppendTypes ==
  ASSUME IInv, pc \in Running, NEW t \in Table, NEW count \in Nat, Append1(t, count)
  PROVE  /\ tables' \in [Table -> SUBSET Row]
         /\ \A u \in Table : u # t => tables'[u] = tables[u]
         /\ tables'[t] = tables[t] \cup {[step |-> step, opt |-> count]}
BY StepInRange DEF IInv, TypeOK, Append1, Row

\* Such a step within one phase preserves everything but, perhaps, the types.
LEMMA QuietStep ==
  ASSUME IInv, TypeOK',
         UNCHANGED <<step, worker, opt, resumeStep, ckpt, tracker, stops>>,
         tables'["train"] = tables["train"],
         \/ pc \in BeforeUpdate /\ pc' \in BeforeUpdate
         \/ pc \in Probing /\ pc' \in Probing \cup {"actor"}
  PROVE  IInv'
<1>1. Position'
  BY DEF IInv, Position, Total, worker, BeforeUpdate, Counting, AfterCount, Probing, Saving, Publishing
<1>2. TrackerBehind'
  BY DEF IInv, TrackerBehind, Running, InStep, BeforeUpdate, Counting, AfterCount, Probing, Saving,
         Publishing
<1>3. KeptBehind'
  BY DEF IInv, KeptBehind, worker, Running, InStep, BeforeUpdate, Counting, AfterCount, Probing,
         Saving, Publishing
<1>4. SavedSoFar'
  BY DEF BeforeUpdate, Probing, Publishing, SavedSoFar
<1>5. NamedIsWhole'
  BY DEF IInv, NamedIsWhole, Whole
<1>6. TrainRows'
  BY DEF IInv, TrainRows, RowsOf, worker, BeforeUpdate, Counting, AfterCount, Probing, Saving,
         Publishing
<1> QED BY <1>1, <1>2, <1>3, <1>4, <1>5, <1>6 DEF IInv

LEMMA GenerateIInv == ASSUME IInv, Generate PROVE IInv'
<1>1. TypeOK' BY DEF IInv, TypeOK, Generate, worker, files
<1> QED BY <1>1, QuietStep DEF Generate, worker, files, BeforeUpdate

LEMMA CommitIInv ==
  ASSUME IInv, NEW t \in {"support", "supportBench", "probe", "probeBench"},
         NEW next \in {"supportBench", "update", "probeBench", "probeRuntime"},
         Commit(t, opt, next),
         {t, next} \subseteq BeforeUpdate \/ {t, next} \subseteq Probing
  PROVE  IInv'
<1>1. t \in Table /\ t # "train" BY DEF Table
<1>2. pc \in Running BY DEF Commit, Running, InStep, AfterCount, Probing, BeforeUpdate
<1>3. opt \in Nat BY DEF IInv, TypeOK
<1>4. tables' \in [Table -> SUBSET Row] /\ tables'["train"] = tables["train"]
  <2>1. Append1(t, opt) BY DEF Commit
  <2> QED BY <1>1, <1>2, <1>3, <2>1, AppendTypes DEF Table
<1>5. TypeOK' BY <1>4 DEF IInv, TypeOK, Commit, worker
<1> QED BY <1>4, <1>5, QuietStep DEF Commit, worker

LEMMA EmitIInv ==
  ASSUME IInv, EmitSupport \/ EmitSupportBenchmark \/ EmitProbe \/ EmitProbeBenchmark
  PROVE  IInv'
<1>1. CASE NoRows
  <2>1. TypeOK' BY <1>1 DEF IInv, TypeOK, NoRows, worker, files
  <2> QED BY <1>1, <2>1, QuietStep DEF NoRows, worker, files, BeforeUpdate
<1>2. CASE Commit("support", opt, "supportBench") BY <1>2, CommitIInv DEF BeforeUpdate
<1>3. CASE Commit("supportBench", opt, "update") BY <1>3, CommitIInv DEF BeforeUpdate
<1>4. CASE Commit("probe", opt, "probeBench") BY <1>4, CommitIInv DEF Probing
<1>5. CASE Commit("probeBench", opt, "probeRuntime") BY <1>5, CommitIInv DEF Probing
<1> QED BY <1>1, <1>2, <1>3, <1>4, <1>5
        DEF EmitSupport, EmitSupportBenchmark, EmitProbe, EmitProbeBenchmark

LEMMA EmitProbeRuntimeIInv == ASSUME IInv, EmitProbeRuntime PROVE IInv'
<1>1. step \in Step
  BY StepInRange DEF EmitProbeRuntime, Running, InStep, AfterCount, Probing
<1>2. TypeOK' BY <1>1 DEF IInv, TypeOK, EmitProbeRuntime, worker
<1> QED BY <1>2, QuietStep DEF EmitProbeRuntime, worker, Probing

-----------------------------------------------------------------------------
(* The run goes down *)

LEMMA StopsAhead ==
  ASSUME NEW t \in Int, NEW s \in Int, NEW n \in Int, NEW a \in Int, NEW b \in Int,
         s <= n + a, (t < s /\ b = a) \/ (t <= s /\ b = a + 1)
  PROVE  t < n + b
OBVIOUS

LEMMA DownStep ==
  ASSUME IInv, pc' = "down", pc \in Running,
         UNCHANGED <<opened, step, worker, opt, resumeStep, files>>,
         stops' \in 0..MaxStops,
         stops' = stops + 1 \/ (stops' = stops /\ pc # "next")
  PROVE  IInv'
<1>1. TypeOK' BY DEF IInv, TypeOK, worker, files
<1>2. Position' BY DEF Position, BeforeUpdate, Counting, AfterCount, Probing, Saving, Publishing
<1>3. TrackerBehind'
  <2>1. tracker' < TotalSteps + stops'
    <3>1. tracker' = tracker /\ tracker \in Int /\ step \in Int /\ TotalSteps \in Int
      BY StepAssumption, StopAssumption DEF IInv, TypeOK, Step, files
    <3>2. stops \in Int /\ stops' \in Int BY StopAssumption DEF IInv, TypeOK
    <3>3. step <= TotalSteps + stops /\ (pc # "next" => tracker < step) /\ (pc = "next" => tracker <= step)
      BY DEF IInv, TrackerBehind
    <3>4. stops' = stops + 1 \/ (stops' = stops /\ pc # "next") OBVIOUS
    <3>5. PICK t, s, n, a, b : t = tracker /\ s = step /\ n = TotalSteps /\ a = stops /\ b = stops'
      OBVIOUS
    <3>6. t \in Int /\ s \in Int /\ n \in Int /\ a \in Int /\ b \in Int BY <3>1, <3>2, <3>5
    <3>7. s <= n + a /\ ((t < s /\ b = a) \/ (t <= s /\ b = a + 1))
      <4>1. t <= s
        <5>1. t < s => t <= s BY <3>6
        <5> QED BY <3>3, <3>5, <5>1
      <4> QED BY <3>3, <3>4, <3>5, <4>1
    <3>8. t < n + b BY <3>6, <3>7, StopsAhead
    <3> QED BY <3>1, <3>5, <3>8
  <2> QED BY <2>1 DEF TrackerBehind, Running, InStep, BeforeUpdate, Counting, AfterCount, Probing,
                     Saving, Publishing
<1>4. KeptBehind'
  BY DEF KeptBehind, Running, InStep, BeforeUpdate, Counting, AfterCount, Probing, Saving, Publishing
<1>5. SavedSoFar' BY DEF SavedSoFar, Publishing
<1>6. NamedIsWhole' BY DEF IInv, NamedIsWhole, Whole, files
<1>7. TrainRows'
  BY DEF IInv, TrainRows, RowsOf, files, BeforeUpdate, Counting, AfterCount, Probing, Saving, Publishing
<1> QED BY <1>1, <1>2, <1>3, <1>4, <1>5, <1>6, <1>7 DEF IInv

LEMMA StopIInv == ASSUME IInv, Stop PROVE IInv'
<1>1. pc \in Running
  BY DEF IInv, TypeOK, Stop, Running, InStep, BeforeUpdate, Counting, AfterCount, Probing, Saving,
         Publishing
<1>2. stops' = stops + 1 /\ stops' \in 0..MaxStops BY StopAssumption DEF IInv, TypeOK, Stop
<1>3. pc' = "down" /\ UNCHANGED <<opened, step, worker, opt, resumeStep, files>> BY DEF Stop
<1> QED BY <1>1, <1>2, <1>3, DownStep

LEMMA RefusedIInv == ASSUME IInv, Refused PROVE IInv'
<1>1. pc \in Running /\ pc # "next"
  BY DEF Refused, Emitting, Running, InStep, BeforeUpdate, Counting, AfterCount, Probing
<1> QED BY <1>1, DownStep DEF Refused, IInv, TypeOK

-----------------------------------------------------------------------------
(* The update, its row and its count *)

LEMMA AppendKeeps ==
  ASSUME NEW w \in Seq(Nat), NEW x \in Nat, NEW n \in 0..Len(w)
  PROVE  RowsOf(Append(w, x), n) = RowsOf(w, n) /\ Total(Append(w, x), n) = Total(w, n)
BY DEF RowsOf, Total

LEMMA TotalInNat == ASSUME NEW w \in Seq(Nat), NEW n \in 0..Len(w) PROVE Total(w, n) \in Nat
BY DEF Total

LEMMA UpdateActorIInv == ASSUME IInv, UpdateActor PROVE IInv'
<1>1. step \in Nat \ {0} /\ weights \in Seq(Nat) /\ Len(weights) = step - 1 /\ step - 1 \in 0..Len(weights)
  BY DEF IInv, TypeOK, Position, UpdateActor, BeforeUpdate
<1>2. PICK u \in 0..MaxUpdates : weights' = Append(weights, Total(weights, step - 1) + u)
  BY DEF UpdateActor
<1>3. Total(weights, step - 1) + u \in Nat BY <1>1, TotalInNat, UpdateAssumption
<1>4. /\ weights' \in Seq(Nat) /\ Len(weights') = step
      /\ RowsOf(weights', step - 1) = RowsOf(weights, step - 1)
      /\ Total(weights', step - 1) = Total(weights, step - 1)
  BY <1>1, <1>2, <1>3, AppendKeeps
<1>5. TypeOK' BY <1>4 DEF IInv, TypeOK, UpdateActor, files
<1>6. Position'
  BY <1>4 DEF IInv, Position, UpdateActor, BeforeUpdate, Counting, AfterCount, Probing, Saving, Publishing
<1>7. TrackerBehind'
  BY DEF IInv, TrackerBehind, UpdateActor, files, Running, InStep, BeforeUpdate, Counting, AfterCount,
         Probing, Saving, Publishing
<1>8. KeptBehind'
  BY DEF IInv, KeptBehind, UpdateActor, files, Running, InStep, BeforeUpdate, Counting, AfterCount,
         Probing, Saving, Publishing
<1>9. SavedSoFar' BY DEF SavedSoFar, UpdateActor, Publishing
<1>10. NamedIsWhole' BY DEF IInv, NamedIsWhole, Whole, UpdateActor, files
<1>11. TrainRows'
  <2>1. {r \in tables'["train"] : r.step <= tracker'} = {r \in tables["train"] : r.step <= tracker}
    BY DEF UpdateActor, files
  <2>2. RowsOf(ckpt'[tracker'].actor, tracker') = RowsOf(ckpt[tracker].actor, tracker)
    BY DEF UpdateActor, files
  <2> QED BY <1>4, <2>1, <2>2 DEF IInv, TrainRows, UpdateActor, files, BeforeUpdate, AfterCount, Probing, Saving,
                         Publishing
<1> QED BY <1>5, <1>6, <1>7, <1>8, <1>9, <1>10, <1>11 DEF IInv

\* The observer's count plus the count of this step is the weights'.
LEMMA CountOfStep ==
  ASSUME IInv, pc \in Counting
  PROVE  opt + UpdateCount = weights[step] /\ weights[step] \in Nat
<1>1. step \in Nat \ {0} /\ weights \in Seq(Nat) /\ Len(weights) = step
  BY DEF IInv, TypeOK, Position, Counting
<1>2. weights[step] \in Nat /\ Total(weights, step - 1) \in Nat BY <1>1, TotalInNat
<1> QED BY <1>1, <1>2 DEF IInv, Position, UpdateCount, Total

LEMMA EmitTrainStepIInv == ASSUME IInv, EmitTrainStep PROVE IInv'
<1> DEFINE new == [step |-> step, opt |-> weights[step]]
<1>1. pc \in Counting /\ pc \in Running BY DEF EmitTrainStep, Counting, Running, InStep
<1>2. opt + UpdateCount = weights[step] /\ opt + UpdateCount \in Nat BY <1>1, CountOfStep
<1>3. step \in Step /\ step \in Nat \ {0} BY <1>1, StepInRange DEF IInv, TypeOK
<1>4. tables' \in [Table -> SUBSET Row] /\ tables'["train"] = tables["train"] \cup {new}
  <2>1. Append1("train", opt + UpdateCount) /\ "train" \in Table BY DEF EmitTrainStep, Table
  <2> QED BY <1>1, <1>2, <2>1, AppendTypes
<1>5. TypeOK' BY <1>4 DEF IInv, TypeOK, EmitTrainStep, worker
<1>6. Position'
  BY DEF IInv, Position, EmitTrainStep, worker, BeforeUpdate, Counting, AfterCount, Probing, Saving,
         Publishing
<1>7. TrackerBehind'
  BY DEF IInv, TrackerBehind, EmitTrainStep, Running, InStep, BeforeUpdate, Counting, AfterCount,
         Probing, Saving, Publishing
<1>8. KeptBehind'
  BY DEF IInv, KeptBehind, EmitTrainStep, worker, Running, InStep, BeforeUpdate, Counting, AfterCount,
         Probing, Saving, Publishing
<1>9. SavedSoFar' BY DEF SavedSoFar, EmitTrainStep, Publishing
<1>10. NamedIsWhole' BY DEF IInv, NamedIsWhole, Whole, EmitTrainStep
<1>11. TrainRows'
  <2>1. tables["train"] = RowsOf(weights, step - 1)
    <3>1. CASE step > 1 BY <3>1 DEF IInv, TrainRows, EmitTrainStep
    <3>2. CASE step = 1
      <4>1. tables["train"] = {} BY <3>2 DEF IInv, TrainRows, EmitTrainStep, Append1, Recorded
      <4> QED BY <3>2, <4>1 DEF RowsOf
    <3> QED BY <1>3, <3>1, <3>2
  <2>2. tables'["train"] = RowsOf(weights, step) BY <1>3, <1>4, <2>1 DEF RowsOf
  <2>3. \E r \in tables'["train"] : r.step = 1
    <3>1. [step |-> 1, opt |-> weights[1]] \in RowsOf(weights, step) BY <1>3 DEF RowsOf
    <3> QED BY <2>2, <3>1
  <2>4. tracker < step BY <1>1 DEF IInv, TrackerBehind, EmitTrainStep
  <2>5. {r \in tables'["train"] : r.step <= tracker} = {r \in tables["train"] : r.step <= tracker}
    BY <1>3, <1>4, <2>4 DEF IInv, TypeOK, Step
  <2> QED BY <2>2, <2>3, <2>5
          DEF IInv, TrainRows, RowsOf, EmitTrainStep, worker, BeforeUpdate, AfterCount, Probing, Saving,
              Publishing
<1> QED BY <1>5, <1>6, <1>7, <1>8, <1>9, <1>10, <1>11 DEF IInv

LEMMA EmitGpuRuntimeIInv == ASSUME IInv, EmitGpuRuntime PROVE IInv'
<1>1. pc \in Counting /\ pc \in Running BY DEF EmitGpuRuntime, Counting, Running, InStep
<1>2. opt' = weights[step] /\ opt' \in Nat BY <1>1, CountOfStep DEF EmitGpuRuntime
<1>3. step \in Step BY <1>1, StepInRange
<1>4. pc' \in {"probe", "actor", "next"} BY DEF EmitGpuRuntime, AfterStep
<1>5. TypeOK'
  <2>1. gpu' \in Seq(Step) BY <1>3 DEF IInv, TypeOK, EmitGpuRuntime
  <2>2. /\ UNCHANGED <<opened, step, weights, kept, resumeStep, tables, runtime, ckpt, tracker, stops>>
    BY DEF EmitGpuRuntime, worker
  <2> QED BY <1>2, <1>4, <2>1, <2>2 DEF IInv, TypeOK
<1>6. Position'
  BY <1>2, <1>4 DEF IInv, Position, EmitGpuRuntime, worker, BeforeUpdate, Counting, AfterCount, Probing,
                    Saving, Publishing
<1>7. TrackerBehind'
  BY <1>3, <1>4 DEF IInv, TypeOK, Step, TrackerBehind, EmitGpuRuntime, Running, InStep, BeforeUpdate,
                    Counting, AfterCount, Probing, Saving, Publishing
<1>8. KeptBehind'
  <2>1. \A i \in 1..Len(kept) : kept[i] \in Step BY DEF IInv, TypeOK
  <2>2. /\ \A i \in 1..Len(kept) : kept[i] < step
        /\ \A i \in 1..Len(kept) : i < Len(kept) => kept[i] # tracker
    BY <1>1 DEF IInv, KeptBehind, EmitGpuRuntime, Running, InStep, Counting, Publishing
  <2>3. \A i \in 1..Len(kept) : kept[i] <= step BY <1>3, <2>1, <2>2 DEF Step
  <2> QED BY <2>2, <2>3 DEF KeptBehind, EmitGpuRuntime, worker
<1>9. SavedSoFar' BY <1>4 DEF SavedSoFar, Publishing
<1>10. NamedIsWhole' BY DEF IInv, NamedIsWhole, Whole, EmitGpuRuntime
<1>11. TrainRows'
  BY <1>4 DEF IInv, TrainRows, RowsOf, EmitGpuRuntime, worker, BeforeUpdate, AfterCount, Probing, Saving,
              Publishing
<1> QED BY <1>5, <1>6, <1>7, <1>8, <1>9, <1>10, <1>11 DEF IInv

-----------------------------------------------------------------------------
(* Launch and resume *)

LEMMA LaunchFromScratchIInv == ASSUME IInv, LaunchFromScratch PROVE IInv'
<1> USE DEF LaunchFromScratch, Launch, files
<1>1. TypeOK' BY DEF IInv, TypeOK
<1>2. Position' BY DEF Position, BeforeUpdate, Counting, AfterCount, Probing, Saving, Publishing
<1>3. TrackerBehind'
  BY StepAssumption, StopAssumption
     DEF IInv, TypeOK, TrackerBehind, Running, InStep, BeforeUpdate, Counting, AfterCount, Probing, Saving,
         Publishing
<1>4. KeptBehind' BY DEF KeptBehind
<1>5. SavedSoFar' BY DEF SavedSoFar, Publishing
<1>6. NamedIsWhole' BY DEF IInv, NamedIsWhole, Whole
<1>7. TrainRows'
  BY DEF IInv, TrainRows, RowsOf, BeforeUpdate, AfterCount, Probing, Saving, Publishing
<1> QED BY <1>1, <1>2, <1>3, <1>4, <1>5, <1>6, <1>7 DEF IInv

LEMMA LaunchFromIInv == ASSUME IInv, ~AnyCheckpoint, NEW c \in Step, LaunchFrom(c) PROVE IInv'
<1>1. c = tracker /\ tracker \in Step /\ tracker > 0 BY DEF LaunchFrom, Step
<1>2. /\ ckpt[c].actor \in Seq(Nat) /\ Len(ckpt[c].actor) = tracker
      /\ weights' = ckpt[c].actor
  BY <1>1 DEF IInv, TypeOK, NamedIsWhole, Whole, LaunchFrom
<1> USE DEF LaunchFrom, Launch, files
<1>3. TypeOK' BY <1>1, <1>2 DEF IInv, TypeOK, Step
<1>4. Position'
  BY <1>1, <1>2 DEF Position, BeforeUpdate, Counting, AfterCount, Probing, Saving, Publishing
<1>5. TrackerBehind'
  BY <1>1, StepAssumption, StopAssumption
     DEF IInv, TypeOK, Step, TrackerBehind, Running, InStep, BeforeUpdate, Counting, AfterCount, Probing,
         Saving, Publishing
<1>6. KeptBehind' BY DEF KeptBehind
<1>7. SavedSoFar' BY DEF SavedSoFar, Publishing
<1>8. NamedIsWhole' BY DEF IInv, NamedIsWhole, Whole
<1>9. TrainRows'
  BY DEF IInv, TrainRows, RowsOf, BeforeUpdate, AfterCount, Probing, Saving, Publishing
<1> QED BY <1>3, <1>4, <1>5, <1>6, <1>7, <1>8, <1>9 DEF IInv

\* Cutting the train table off at the tracked step leaves the rows of the weights.
LEMMA OpenTableIInv == ASSUME IInv, OpenTable PROVE IInv'
<1> DEFINE t == TableOrder[opened + 1]
<1>1. opened \in 0..4 /\ opened + 1 \in 1..5 BY DEF IInv, TypeOK, OpenTable, TableOrder
<1>2. t \in Table /\ (opened > 0 => t # "train") BY <1>1 DEF Table, TableOrder
<1>3. tables' = [tables EXCEPT ![t] = CutOff(@)] BY DEF OpenTable
<1>4. tables \in [Table -> SUBSET Row] BY DEF IInv, TypeOK
<1>5. tables' \in [Table -> SUBSET Row] BY <1>2, <1>3, <1>4 DEF CutOff
<1>6. TypeOK' BY <1>1, <1>5 DEF IInv, TypeOK, OpenTable, worker, TableOrder
<1>7. Position'
  BY DEF IInv, Position, OpenTable, worker, BeforeUpdate, Counting, AfterCount, Probing, Saving, Publishing
<1>8. TrackerBehind'
  BY DEF IInv, TrackerBehind, OpenTable, Running, InStep, BeforeUpdate, Counting, AfterCount, Probing,
         Saving, Publishing
<1>9. KeptBehind'
  BY DEF IInv, KeptBehind, OpenTable, worker, Running, InStep, BeforeUpdate, Counting, AfterCount, Probing,
         Saving, Publishing
<1>10. SavedSoFar' BY DEF SavedSoFar, OpenTable, Publishing
<1>11. NamedIsWhole' BY DEF IInv, NamedIsWhole, Whole, OpenTable
<1>12. TrainRows'
  <2>1. resumeStep = tracker /\ step = tracker + 1 /\ tracker \in Step \cup {0}
    BY DEF IInv, TypeOK, Position, OpenTable, Step
  <2>2. pc' = "open" /\ UNCHANGED <<step, worker, ckpt, tracker>> BY DEF OpenTable
  <2>3. CASE tables'["train"] = tables["train"] /\ (opened > 0 \/ tracker = 0)
    BY <2>1, <2>2, <2>3
       DEF IInv, TrainRows, RowsOf, OpenTable, worker, Step, BeforeUpdate, AfterCount, Probing, Saving, Publishing
  <2>4. CASE tracker > 0 /\ tables'["train"] = {r \in tables["train"] : r.step <= tracker}
    <3>1. tables'["train"] = RowsOf(weights, tracker)
      BY <2>4 DEF IInv, TrainRows, Position, OpenTable
    <3>2. [step |-> 1, opt |-> weights[1]] \in RowsOf(weights, tracker) BY <2>1, <2>4 DEF RowsOf, Step
    <3>3. \E r \in tables'["train"] : r.step = 1 BY <3>1, <3>2
    <3>4. {r \in tables'["train"] : r.step <= tracker} = tables'["train"] BY <2>4
    <3>5. weights = ckpt[tracker].actor BY <2>4 DEF IInv, Position, OpenTable
    <3> QED BY <2>1, <2>2, <2>4, <3>1, <3>3, <3>4, <3>5
            DEF TrainRows, RowsOf, worker, Step, BeforeUpdate, AfterCount, Probing, Saving, Publishing
  <2>5. \/ tables'["train"] = tables["train"] /\ (opened > 0 \/ tracker = 0)
        \/ tracker > 0 /\ tables'["train"] = {r \in tables["train"] : r.step <= tracker}
    <3>1. CASE opened > 0 BY <1>2, <1>3, <1>4, <3>1 DEF Table
    <3>2. CASE opened = 0
      <4>1. t = "train" BY <3>2 DEF TableOrder
      <4>2. tables'["train"] = CutOff(tables["train"]) BY <1>3, <1>4, <4>1 DEF Table
      <4> QED BY <2>1, <4>2 DEF CutOff, Step
    <3> QED BY <1>1, <3>1, <3>2
  <2> QED BY <2>3, <2>4, <2>5
<1> QED BY <1>6, <1>7, <1>8, <1>9, <1>10, <1>11, <1>12 DEF IInv

\* The sidecar holds the count that belongs to the weights loaded.
LEMMA StartedIInv == ASSUME IInv, Started PROVE IInv'
<1>1. /\ resumeStep = tracker /\ step = tracker + 1 /\ tracker \in Step \cup {0}
      /\ Len(weights) = tracker
  BY DEF IInv, TypeOK, Position, Started, Step
<1>2. opt' = Total(weights, step - 1) /\ opt' \in Nat
  <2>1. CASE tracker = 0 BY <1>1, <2>1 DEF Started, StartingOptimizerStep, Total
  <2>2. CASE tracker > 0
    <3>1. weights = ckpt[tracker].actor /\ ckpt[tracker].sidecar = weights[tracker]
      BY <2>2 DEF IInv, Position, NamedIsWhole, Whole, Started
    <3>2. weights[tracker] \in Nat BY <1>1, <2>2 DEF IInv, TypeOK, Step
    <3> QED BY <1>1, <2>2, <3>1, <3>2 DEF Started, StartingOptimizerStep, Total
  <2> QED BY <1>1, <2>1, <2>2 DEF Step
<1> USE DEF Started, worker, files
<1>3. TypeOK' BY <1>2 DEF IInv, TypeOK
<1>4. Position' BY <1>1, <1>2 DEF Position, Total, BeforeUpdate, Counting, AfterCount, Probing, Saving, Publishing
<1>5. TrackerBehind'
  BY DEF IInv, TrackerBehind, Running, InStep, BeforeUpdate, Counting, AfterCount, Probing, Saving, Publishing
<1>6. KeptBehind'
  BY DEF IInv, KeptBehind, Running, InStep, BeforeUpdate, Counting, AfterCount, Probing, Saving, Publishing
<1>7. SavedSoFar' BY DEF SavedSoFar, Publishing
<1>8. NamedIsWhole' BY DEF IInv, NamedIsWhole, Whole
<1>9. TrainRows'
  BY DEF IInv, TrainRows, RowsOf, TableOrder, BeforeUpdate, AfterCount, Probing, Saving, Publishing
<1> QED BY <1>3, <1>4, <1>5, <1>6, <1>7, <1>8, <1>9 DEF IInv

-----------------------------------------------------------------------------
(* Publication of a checkpoint *)

\* Old checkpoints other than the last one saved are removed, so the tracked one
\* stays.
LEMMA RotateIInv == ASSUME IInv, MaxKeep # 1, Rotate PROVE IInv'
<1> DEFINE n == Surplus
           gone == {kept[i] : i \in 1..n}
<1>1. pc = "actor" /\ kept \in Seq(Step) BY DEF IInv, TypeOK, Rotate, RemoveFirst
<1>2. n \in Nat /\ (n = 0 \/ n < Len(kept)) BY <1>1, UpdateAssumption DEF Surplus
<1>3. /\ kept' \in Seq(Step) /\ Len(kept') = Len(kept) - n
      /\ \A i \in 1..Len(kept') : kept'[i] = kept[n + i]
  BY <1>1, <1>2 DEF Rotate, RemoveFirst
<1>4. ckpt' = [s \in Step |-> IF s \in gone THEN [ckpt[s] EXCEPT !.actor = Missing] ELSE ckpt[s]]
  BY DEF Rotate, RemoveFirst
<1>5. tracker \notin gone
  BY <1>1, <1>2 DEF IInv, KeptBehind, Running, InStep, AfterCount, Saving, Publishing
<1>6. tracker > 0 => ckpt'[tracker] = ckpt[tracker] BY <1>4, <1>5 DEF IInv, TypeOK, Step
<1> HIDE DEF n, gone
<1>7. /\ pc' = "mkdir"
      /\ UNCHANGED <<opened, step, weights, opt, resumeStep, tables, gpu, runtime, tracker, stops>>
  BY DEF Rotate, RemoveFirst
<1>8. TypeOK'
  <2>1. ckpt' \in [Step -> [actor : {Torn, Missing} \cup Seq(Nat),
                            data : {Torn, Missing} \cup Seq(Nat), sidecar : {Missing} \cup Nat]]
    BY <1>4 DEF IInv, TypeOK
  <2> QED BY <1>3, <1>7, <2>1 DEF IInv, TypeOK
<1>9. Position'
  BY <1>1, <1>7 DEF IInv, Position, BeforeUpdate, Counting, AfterCount, Probing, Saving, Publishing
<1>10. TrackerBehind'
  BY <1>1, <1>7 DEF IInv, TrackerBehind, Running, InStep, BeforeUpdate, Counting, AfterCount, Probing,
                    Saving, Publishing
<1>11. KeptBehind'
  <2>1. /\ \A i \in 1..Len(kept) : kept[i] < step
        /\ \A i \in 1..Len(kept) : i < Len(kept) => kept[i] # tracker
    BY <1>1 DEF IInv, KeptBehind, Running, InStep, AfterCount, Saving, Publishing
  <2>2. \A i \in 1..Len(kept') : n + i \in 1..Len(kept) /\ (i < Len(kept') => n + i < Len(kept))
    BY <1>1, <1>2, <1>3
  <2>3. \A i \in 1..Len(kept') : kept'[i] < step BY <1>3, <2>1, <2>2
  <2>4. \A i \in 1..Len(kept') : i < Len(kept') => kept'[i] # tracker BY <1>3, <2>1, <2>2
  <2> QED BY <1>7, <2>3, <2>4
          DEF KeptBehind, Running, InStep, AfterCount, Saving, Publishing
<1>12. SavedSoFar' BY <1>7 DEF SavedSoFar, Publishing
<1>13. NamedIsWhole' BY <1>6, <1>7 DEF IInv, NamedIsWhole, Whole
<1>14. TrainRows'
  BY <1>1, <1>6, <1>7 DEF IInv, TrainRows, RowsOf, BeforeUpdate, AfterCount, Probing, Saving, Publishing
<1> QED BY <1>8, <1>9, <1>10, <1>11, <1>12, <1>13, <1>14 DEF IInv

\* A part of the checkpoint of this step is written: the tracked one is another.
LEMMA SaveStep ==
  ASSUME IInv, pc \in {"mkdir", "shards", "data", "datapt", "sidecar"},
         NEW new \in [actor : {Torn, Missing} \cup Seq(Nat),
                      data : {Torn, Missing} \cup Seq(Nat), sidecar : {Missing} \cup Nat],
         ckpt' = [ckpt EXCEPT ![step] = new],
         pc' \in {"shards", "data", "datapt", "sidecar", "tracker"},
         kept' \in Seq(Step),
         UNCHANGED <<opened, step, weights, opt, resumeStep, tables, gpu, runtime, tracker, stops>>
  PROVE  /\ TypeOK' /\ Position' /\ TrackerBehind' /\ NamedIsWhole' /\ TrainRows'
         /\ ckpt'[step] = new
<1>1. pc \in Running BY DEF Running, InStep, AfterCount, Saving, Publishing
<1>2. step \in Step BY <1>1, StepInRange
<1>3. tracker < step BY <1>1 DEF IInv, TrackerBehind
<1>4. ckpt'[step] = new BY <1>2 DEF IInv, TypeOK
<1>5. tracker > 0 => ckpt'[tracker] = ckpt[tracker]
  BY <1>2, <1>3 DEF IInv, TypeOK, Step
<1>6. TypeOK' BY <1>2 DEF IInv, TypeOK
<1>7. Position'
  BY DEF IInv, Position, BeforeUpdate, Counting, AfterCount, Probing, Saving, Publishing
<1>8. TrackerBehind'
  BY DEF IInv, TrackerBehind, Running, InStep, BeforeUpdate, Counting, AfterCount, Probing, Saving, Publishing
<1>9. NamedIsWhole' BY <1>5 DEF IInv, NamedIsWhole, Whole
<1>10. TrainRows'
  BY <1>5 DEF IInv, TrainRows, RowsOf, BeforeUpdate, AfterCount, Probing, Saving, Publishing
<1> QED BY <1>4, <1>6, <1>7, <1>8, <1>9, <1>10

\* What is known of the checkpoint of this step before a part of it is written.
LEMMA Here ==
  ASSUME IInv, pc \in {"mkdir", "shards", "data", "datapt", "sidecar"}
  PROVE  /\ step \in Step /\ kept \in Seq(Step)
         /\ weights \in Seq(Nat) /\ opt \in Nat
         /\ ckpt[step] \in [actor : {Torn, Missing} \cup Seq(Nat),
                            data : {Torn, Missing} \cup Seq(Nat), sidecar : {Missing} \cup Nat]
<1>1. pc \in Running BY DEF Running, InStep, AfterCount, Saving, Publishing
<1> QED BY <1>1, StepInRange DEF IInv, TypeOK

LEMMA SaveActorIInv == ASSUME IInv, SaveActor PROVE IInv'
<1>1. pc = "mkdir" /\ pc' = "shards" /\ UNCHANGED kept BY DEF SaveActor, Save
<1> DEFINE new == [ckpt[step] EXCEPT !["actor"] = Torn]
<1>2. new \in [actor : {Torn, Missing} \cup Seq(Nat),
               data : {Torn, Missing} \cup Seq(Nat), sidecar : {Missing} \cup Nat]
  BY <1>1, Here
<1>3. ckpt' = [ckpt EXCEPT ![step] = new] BY <1>1, Here DEF IInv, TypeOK, SaveActor, Save
<1>4. UNCHANGED <<opened, step, weights, opt, resumeStep, tables, gpu, runtime, tracker, stops>>
  BY DEF SaveActor, Save
<1> HIDE DEF new
<1>5. TypeOK' /\ Position' /\ TrackerBehind' /\ NamedIsWhole' /\ TrainRows'
  BY <1>1, <1>2, <1>3, <1>4, Here, SaveStep
<1>6. KeptBehind'
  BY <1>1, <1>4 DEF IInv, KeptBehind, Running, InStep, AfterCount, Saving, Publishing
<1>7. SavedSoFar' BY <1>1 DEF SavedSoFar, Publishing
<1> QED BY <1>5, <1>6, <1>7 DEF IInv

LEMMA SaveActorDoneIInv == ASSUME IInv, SaveActorDone PROVE IInv'
<1>1. pc = "shards" /\ pc' = "data" /\ kept' = Append(kept, step) BY DEF SaveActorDone, Save
<1> DEFINE new == [ckpt[step] EXCEPT !["actor"] = weights]
<1>2. /\ new \in [actor : {Torn, Missing} \cup Seq(Nat),
                  data : {Torn, Missing} \cup Seq(Nat), sidecar : {Missing} \cup Nat]
      /\ new.actor = weights
  BY <1>1, Here
<1>3. ckpt' = [ckpt EXCEPT ![step] = new] BY <1>1, Here DEF IInv, TypeOK, SaveActorDone, Save
<1>4. UNCHANGED <<opened, step, weights, opt, resumeStep, tables, gpu, runtime, tracker, stops>>
  BY DEF SaveActorDone, Save
<1> HIDE DEF new
<1>5. kept' \in Seq(Step) BY <1>1, Here
<1>6. TypeOK' /\ Position' /\ TrackerBehind' /\ NamedIsWhole' /\ TrainRows' /\ ckpt'[step] = new
  BY <1>1, <1>2, <1>3, <1>4, <1>5, SaveStep
<1>7. KeptBehind'
  <2>1. \A i \in 1..Len(kept) : kept[i] \in Step /\ kept[i] < step
    BY <1>1 DEF IInv, TypeOK, KeptBehind, Running, InStep, AfterCount, Saving, Publishing
  <2>2. step \in Step /\ kept \in Seq(Step) BY <1>1, Here
  <2>3. \A i \in 1..Len(kept') : kept'[i] <= step /\ (i < Len(kept') => kept'[i] < step)
    BY <1>1, <2>1, <2>2 DEF Step
  <2> QED BY <1>1, <1>4, <2>3 DEF KeptBehind, Running, InStep, AfterCount, Saving, Publishing
<1>8. SavedSoFar' BY <1>1, <1>2, <1>4, <1>6 DEF SavedSoFar, Publishing
<1> QED BY <1>6, <1>7, <1>8 DEF IInv

\* While a part behind the shards is written.
LEMMA SaveRestStep ==
  ASSUME IInv, pc \in {"data", "datapt", "sidecar"},
         NEW new \in [actor : {Torn, Missing} \cup Seq(Nat),
                      data : {Torn, Missing} \cup Seq(Nat), sidecar : {Missing} \cup Nat],
         ckpt' = [ckpt EXCEPT ![step] = new],
         pc' \in {"datapt", "sidecar", "tracker"},
         UNCHANGED <<opened, step, weights, kept, opt, resumeStep, tables, gpu, runtime, tracker, stops>>,
         new.actor = weights,
         pc' \in {"sidecar", "tracker"} => new.data = weights,
         pc' = "tracker" => new.sidecar = opt
  PROVE  IInv'
<1>1. TypeOK' /\ Position' /\ TrackerBehind' /\ NamedIsWhole' /\ TrainRows' /\ ckpt'[step] = new
  BY Here, SaveStep
<1>2. KeptBehind' BY DEF IInv, KeptBehind, Running, InStep, AfterCount, Saving, Publishing
<1>3. SavedSoFar' BY <1>1 DEF SavedSoFar, Publishing
<1> QED BY <1>1, <1>2, <1>3 DEF IInv

LEMMA SaveDataIInv == ASSUME IInv, SaveData PROVE IInv'
<1> DEFINE new == [ckpt[step] EXCEPT !["data"] = Torn]
<1>1. pc = "data" /\ pc' = "datapt" BY DEF SaveData, Save
<1>2. /\ new \in [actor : {Torn, Missing} \cup Seq(Nat),
                  data : {Torn, Missing} \cup Seq(Nat), sidecar : {Missing} \cup Nat]
      /\ new.actor = ckpt[step].actor
  BY <1>1, Here
<1>3. ckpt' = [ckpt EXCEPT ![step] = new] BY <1>1, Here DEF IInv, TypeOK, SaveData, Save
<1>4. UNCHANGED <<opened, step, weights, kept, opt, resumeStep, tables, gpu, runtime, tracker, stops>>
  BY DEF SaveData, Save
<1>5. ckpt[step].actor = weights BY <1>1 DEF IInv, SavedSoFar, Publishing
<1> HIDE DEF new
<1> QED BY <1>1, <1>2, <1>3, <1>4, <1>5, SaveRestStep

LEMMA SaveDataDoneIInv == ASSUME IInv, SaveDataDone PROVE IInv'
<1> DEFINE new == [ckpt[step] EXCEPT !["data"] = weights]
<1>1. pc = "datapt" /\ pc' = "sidecar" BY DEF SaveDataDone, Save
<1>2. /\ new \in [actor : {Torn, Missing} \cup Seq(Nat),
                  data : {Torn, Missing} \cup Seq(Nat), sidecar : {Missing} \cup Nat]
      /\ new.actor = ckpt[step].actor /\ new.data = weights
  BY <1>1, Here
<1>3. ckpt' = [ckpt EXCEPT ![step] = new] BY <1>1, Here DEF IInv, TypeOK, SaveDataDone, Save
<1>4. UNCHANGED <<opened, step, weights, kept, opt, resumeStep, tables, gpu, runtime, tracker, stops>>
  BY DEF SaveDataDone, Save
<1>5. ckpt[step].actor = weights BY <1>1 DEF IInv, SavedSoFar, Publishing
<1> HIDE DEF new
<1> QED BY <1>1, <1>2, <1>3, <1>4, <1>5, SaveRestStep

LEMMA SaveSidecarIInv == ASSUME IInv, SaveSidecar PROVE IInv'
<1> DEFINE new == [ckpt[step] EXCEPT !["sidecar"] = opt]
<1>1. pc = "sidecar" /\ pc' = "tracker" BY DEF SaveSidecar, Save
<1>2. /\ new \in [actor : {Torn, Missing} \cup Seq(Nat),
                  data : {Torn, Missing} \cup Seq(Nat), sidecar : {Missing} \cup Nat]
      /\ new.actor = ckpt[step].actor /\ new.data = ckpt[step].data /\ new.sidecar = opt
  BY <1>1, Here
<1>3. ckpt' = [ckpt EXCEPT ![step] = new] BY <1>1, Here DEF IInv, TypeOK, SaveSidecar, Save
<1>4. UNCHANGED <<opened, step, weights, kept, opt, resumeStep, tables, gpu, runtime, tracker, stops>>
  BY DEF SaveSidecar, Save
<1>5. ckpt[step].actor = weights /\ ckpt[step].data = weights
  BY <1>1 DEF IInv, SavedSoFar, Publishing
<1> HIDE DEF new
<1> QED BY <1>1, <1>2, <1>3, <1>4, <1>5, SaveRestStep

LEMMA TruncateTrackerIInv == ASSUME IInv, TruncateTracker PROVE IInv'
<1> USE DEF TruncateTracker, worker
<1>1. TypeOK' BY DEF IInv, TypeOK
<1>2. Position'
  BY DEF IInv, Position, BeforeUpdate, Counting, AfterCount, Probing, Saving, Publishing
<1>3. TrackerBehind'
  BY DEF IInv, TypeOK, TrackerBehind, Running, InStep, BeforeUpdate, Counting, AfterCount, Probing, Saving,
         Publishing
<1>4. KeptBehind' BY DEF IInv, KeptBehind, Running, InStep, AfterCount, Saving, Publishing
<1>5. SavedSoFar' BY DEF IInv, SavedSoFar, Publishing
<1>6. NamedIsWhole' BY DEF NamedIsWhole, Whole
<1>7. TrainRows'
  BY DEF IInv, TrainRows, RowsOf, BeforeUpdate, AfterCount, Probing, Saving, Publishing
<1> QED BY <1>1, <1>2, <1>3, <1>4, <1>5, <1>6, <1>7 DEF IInv

LEMMA WriteTrackerIInv == ASSUME IInv, WriteTracker PROVE IInv'
<1>1. step \in Step BY StepInRange DEF WriteTracker, Running, InStep, AfterCount, Publishing
<1> USE DEF WriteTracker, worker
<1>2. TypeOK' BY <1>1 DEF IInv, TypeOK
<1>3. Position'
  BY DEF IInv, Position, BeforeUpdate, Counting, AfterCount, Probing, Saving, Publishing
<1>4. TrackerBehind'
  BY <1>1 DEF IInv, TypeOK, Step, TrackerBehind, Running, InStep, BeforeUpdate, Counting, AfterCount,
              Probing, Saving, Publishing
<1>5. KeptBehind'
  <2>1. \A i \in 1..Len(kept) : kept[i] \in Step BY DEF IInv, TypeOK
  <2>2. \A i \in 1..Len(kept) : kept[i] <= step /\ (i < Len(kept) => kept[i] < step)
    BY DEF IInv, KeptBehind, Publishing
  <2>3. \A i \in 1..Len(kept) : i < Len(kept) => kept[i] # step BY <1>1, <2>1, <2>2 DEF Step
  <2> QED BY <2>2, <2>3 DEF KeptBehind, Running, InStep, AfterCount, Saving, Publishing
<1>6. SavedSoFar' BY DEF SavedSoFar, Publishing
<1>7. /\ ckpt[step].actor = weights /\ ckpt[step].data = weights /\ ckpt[step].sidecar = weights[step]
      /\ weights \in Seq(Nat) /\ Len(weights) = step
  BY DEF IInv, TypeOK, SavedSoFar, Position, AfterCount, Publishing
<1>8. NamedIsWhole'
  <2>1. weights \notin {Torn, Missing} BY <1>7, FileAssumption
  <2> QED BY <1>7, <2>1 DEF NamedIsWhole, Whole
<1>9. TrainRows'
  <2>1. tables["train"] = RowsOf(weights, step) BY DEF IInv, TrainRows, AfterCount, Publishing
  <2>2. {r \in tables["train"] : r.step <= step} = tables["train"] BY <1>1, <2>1 DEF RowsOf, Step
  <2> QED BY <1>7, <2>1, <2>2
          DEF IInv, TrainRows, RowsOf, BeforeUpdate, AfterCount, Probing, Saving, Publishing
<1> QED BY <1>2, <1>3, <1>4, <1>5, <1>6, <1>8, <1>9 DEF IInv

LEMMA NextStepIInv == ASSUME IInv, NextStep PROVE IInv'
<1>1. step \in Step BY StepInRange DEF NextStep, Running, InStep, AfterCount
<1> USE DEF NextStep, worker, files
<1>2. /\ pc' = "done" \/ pc' = "gen"
      /\ pc' = "gen" => step' <= TotalSteps
  BY <1>1, StepAssumption, StopAssumption DEF IsLastStep, Step
<1>3. TypeOK' BY <1>1, <1>2 DEF IInv, TypeOK, Step
<1>4. Position'
  BY <1>1, <1>2 DEF IInv, Position, Total, Step, BeforeUpdate, Counting, AfterCount, Probing, Saving,
                    Publishing
<1>5. TrackerBehind'
  BY <1>1, <1>2, StepAssumption, StopAssumption
     DEF IInv, TypeOK, Step, TrackerBehind, Running, InStep, BeforeUpdate, Counting, AfterCount, Probing,
         Saving, Publishing
<1>6. KeptBehind'
  <2>1. \A i \in 1..Len(kept) : kept[i] \in Step BY DEF IInv, TypeOK
  <2>2. /\ \A i \in 1..Len(kept) : kept[i] <= step
        /\ \A i \in 1..Len(kept) : i < Len(kept) => kept[i] # tracker
    BY DEF IInv, KeptBehind, Running, InStep, AfterCount, Publishing
  <2>3. \A i \in 1..Len(kept) : kept[i] < step + 1 BY <1>1, <2>1, <2>2 DEF Step
  <2> QED BY <1>2, <2>2, <2>3 DEF KeptBehind, Running, InStep, BeforeUpdate, AfterCount, Publishing
<1>7. SavedSoFar' BY <1>2 DEF SavedSoFar, Publishing
<1>8. NamedIsWhole' BY DEF IInv, NamedIsWhole, Whole
<1>9. TrainRows'
  BY <1>1, <1>2 DEF IInv, TrainRows, RowsOf, Step, BeforeUpdate, AfterCount, Probing, Saving, Publishing
<1> QED BY <1>3, <1>4, <1>5, <1>6, <1>7, <1>8, <1>9 DEF IInv

-----------------------------------------------------------------------------
LEMMA NextIInv == ASSUME ~AnyCheckpoint, MaxKeep # 1, IInv, [Next]_vars PROVE IInv'
<1>1. CASE LaunchAny
  <2>1. CASE LaunchFromScratch BY <2>1, LaunchFromScratchIInv
  <2>2. CASE \E c \in Step : LaunchFrom(c) BY <2>2, LaunchFromIInv
  <2> QED BY <1>1, <2>1, <2>2 DEF LaunchAny
<1>2. CASE OpenTable BY <1>2, OpenTableIInv
<1>3. CASE Started BY <1>3, StartedIInv
<1>4. CASE TrainStep
  BY <1>4, GenerateIInv, EmitIInv, UpdateActorIInv, EmitTrainStepIInv, EmitGpuRuntimeIInv,
     EmitProbeRuntimeIInv, RefusedIInv
     DEF TrainStep
<1>5. CASE Publish
  BY <1>5, RotateIInv, SaveActorIInv, SaveActorDoneIInv, SaveDataIInv, SaveDataDoneIInv, SaveSidecarIInv,
     TruncateTrackerIInv, WriteTrackerIInv, NextStepIInv
     DEF Publish
<1>6. CASE Stop BY <1>6, StopIInv
<1>7. CASE UNCHANGED vars
  <2> USE <1>7 DEF IInv, vars, driver, worker, files
  <2>1. TypeOK' BY DEF TypeOK
  <2>2. Position' BY DEF Position, Total
  <2>3. TrackerBehind' /\ KeptBehind' /\ SavedSoFar' /\ NamedIsWhole'
    BY DEF TrackerBehind, KeptBehind, SavedSoFar, NamedIsWhole, Whole
  <2>4. TrainRows' BY DEF TrainRows, RowsOf
  <2> QED BY <2>1, <2>2, <2>3, <2>4
<1> QED BY <1>1, <1>2, <1>3, <1>4, <1>5, <1>6, <1>7 DEF Next, Run

-----------------------------------------------------------------------------
(* The records of every step: what each point of a step adds to the tables and
   JSON files, and what of it outlives a kill *)

StepsIn(list) == {list[i] : i \in DOMAIN list}
StepsOf(rows) == {r.step : r \in rows}
Due(n) == {s \in 1..n : s % SaveFreq = 0}

\* Every earlier step has left its records, and so has every step up to the
\* tracked one, also while the run is down.
MemoryEvidence ==
  MemoryReported =>
    /\ 1..tracker \subseteq StepsIn(gpu)
    /\ pc \in BeforeUpdate \cup Counting => 1..step - 1 \subseteq StepsIn(gpu)
    /\ pc \in AfterCount => 1..step \subseteq StepsIn(gpu)
RuntimeEvidence ==
  ProbeEnabled =>
    /\ Due(tracker) \subseteq StepsIn(runtime)
    /\ pc \in BeforeUpdate \cup Counting \cup Probing => Due(step - 1) \subseteq StepsIn(runtime)
    /\ pc \in Saving \cup Publishing \cup {"next"} => Due(step) \subseteq StepsIn(runtime)
SupportEvidence ==
  SupportEnabled =>
    /\ 1..tracker \subseteq StepsOf(tables["supportBench"])
    /\ pc \in BeforeUpdate \ {"update"} => 1..step - 1 \subseteq StepsOf(tables["supportBench"])
    /\ pc \in {"update"} \cup Counting \cup AfterCount => 1..step \subseteq StepsOf(tables["supportBench"])
ProbeEvidence ==
  ProbeEnabled =>
    /\ tracker > 0 => tracker \in StepsOf(tables["probeBench"])
    /\ pc \in {"probeRuntime"} \cup Saving \cup Publishing => step \in StepsOf(tables["probeBench"])

\* A launch from scratch may find the first rows of one that was killed before
\* its first checkpoint; if there is a train row among them it will be refused.
Fresh == step > 1 \/ tables["train"] = {} \/ pc \in {"gpu"} \cup AfterCount

\* What such a launch may find otherwise, in the support table or not at all.
Leftover ==
  tables["train"] = {} => tables["probe"] = {} /\ tables["support"] \subseteq {[step |-> 1, opt |-> 0]}

\* A row without its benchmark row is of the event being emitted, or left over
\* from step 1, and lies after the tracked checkpoint.
Place(t) == IF t = "support" THEN 2 ELSE 4
Partner(t) == IF t = "support" THEN "supportBench" ELSE "probeBench"
Between(t) ==
  \/ pc = Partner(t)
  \/ t = "support" /\ step = 1 /\ pc \in {"gen", "support"}
Entry == [step |-> step, opt |-> opt]
Paired(t) ==
  /\ \A r \in tables[t] : r.step <= tracker => r \in tables[Partner(t)]
  /\ pc = "open" /\ resumeStep > 0 /\ opened >= Place(t) => \A r \in tables[t] : r.step <= tracker
  /\ pc \in InStep /\ Fresh =>
       \A r \in tables[t] : r \in tables[Partner(t)] \/ (Between(t) /\ r = Entry)

Switched == ~SupportEnabled => tables["support"] = {} /\ pc \notin {"support", "supportBench"}

Records ==
  /\ MemoryEvidence /\ RuntimeEvidence /\ SupportEvidence /\ ProbeEvidence
  /\ Leftover /\ Switched /\ Paired("support") /\ Paired("probe")

LEMMA InitRecords == Init => Records
BY DEF Init, Records, MemoryEvidence, RuntimeEvidence, SupportEvidence, ProbeEvidence, Leftover,
       Switched, Paired, Partner, Table, Due, InStep, BeforeUpdate, Counting, AfterCount, Probing,
       Saving, Publishing

LEMMA StepsAppend ==
  ASSUME NEW S, NEW q \in Seq(S), NEW x \in S
  PROVE  StepsIn(Append(q, x)) = StepsIn(q) \cup {x}
<1>1. DOMAIN q = 1..Len(q) /\ DOMAIN Append(q, x) = 1..Len(q) + 1 /\ Len(q) \in Nat
  OBVIOUS
<1>2. /\ \A i \in 1..Len(q) : Append(q, x)[i] = q[i]
      /\ Append(q, x)[Len(q) + 1] = x
  OBVIOUS
<1>3. \A i : i \in 1..Len(q) + 1 <=> i \in 1..Len(q) \/ i = Len(q) + 1 BY <1>1
<1> QED BY <1>1, <1>2, <1>3 DEF StepsIn

\* The next step to record.
LEMMA UpTo ==
  ASSUME NEW n \in Nat \ {0}
  PROVE  1..n = 1..n - 1 \cup {n} /\ Due(n) \subseteq Due(n - 1) \cup {n}
BY DEF Due

LEMMA NoneYet == 1..0 = {} /\ 1..-1 = {} /\ Due(0) = {} /\ Due(-1) = {}
BY DEF Due

\* How a step of the run moves on: what it does to where the run is, and to the
\* JSON files.
Ends == pc' \in {"down", "open", "done"} /\ UNCHANGED <<tracker, gpu, runtime>>
Moves == {<<"gen", "support">>, <<"gen", "update">>, <<"support", "supportBench">>,
          <<"supportBench", "update">>, <<"update", "row">>, <<"row", "gpu">>, <<"probe", "probeBench">>,
          <<"probeBench", "probeRuntime">>, <<"actor", "mkdir">>, <<"mkdir", "shards">>,
          <<"shards", "data">>, <<"data", "datapt">>, <<"datapt", "sidecar">>, <<"sidecar", "tracker">>}
Moved == <<pc, pc'>> \in Moves /\ UNCHANGED <<step, tracker, gpu, runtime>>
Begins == pc = "open" /\ pc' = "gen" /\ step = tracker + 1 /\ UNCHANGED <<step, tracker, gpu, runtime>>
Reports ==
  /\ pc = "gpu" /\ pc' = AfterStep /\ UNCHANGED <<step, tracker, runtime>>
  /\ gpu' = IF MemoryReported THEN Append(gpu, step) ELSE gpu
Probes ==
  /\ pc = "probeRuntime" /\ pc' = "actor" /\ UNCHANGED <<step, tracker, gpu>>
  /\ runtime' = Append(runtime, step)
Truncates == pc = "tracker" /\ pc' = "number" /\ tracker' = -1 /\ UNCHANGED <<step, gpu, runtime>>
Tracks == pc = "number" /\ pc' = "next" /\ tracker' = step /\ UNCHANGED <<step, gpu, runtime>>
Advances == pc = "next" /\ pc' = "gen" /\ step' = step + 1 /\ UNCHANGED <<tracker, gpu, runtime>>
Stays == UNCHANGED <<pc, step, tracker, gpu, runtime>>

LEMMA Kinds ==
  ASSUME IInv, ~AnyCheckpoint, [Next]_vars
  PROVE  Stays \/ Ends \/ Moved \/ Begins \/ Reports \/ Probes \/ Truncates \/ Tracks \/ Advances
<1> USE DEF Stays, Ends, Moved, Moves
<1>1. CASE LaunchAny BY <1>1 DEF LaunchAny, LaunchFromScratch, LaunchFrom, Launch, files
<1>2. CASE OpenTable BY <1>2 DEF OpenTable
<1>3. CASE Started BY <1>3 DEF Started, files, IInv, Position, Begins
<1>4. CASE TrainStep
  BY <1>4 DEF TrainStep, Generate, EmitSupport, EmitSupportBenchmark, NoRows, Commit, UpdateActor,
    EmitTrainStep, EmitGpuRuntime, EmitProbe, EmitProbeBenchmark, EmitProbeRuntime, Refused, files,
    Reports, Probes
<1>5. CASE Publish
  BY <1>5 DEF Publish, Rotate, RemoveFirst, SaveActor, SaveActorDone, SaveData, SaveDataDone, SaveSidecar,
    Save, TruncateTracker, WriteTracker, NextStep, files, Truncates, Tracks, Advances
<1>6. CASE Stop BY <1>6 DEF Stop, files
<1>7. CASE UNCHANGED vars BY <1>7 DEF vars, driver, files
<1> QED BY <1>1, <1>2, <1>3, <1>4, <1>5, <1>6, <1>7 DEF Next, Run

LEMMA StepJson ==
  ASSUME IInv, ~AnyCheckpoint, MemoryEvidence, RuntimeEvidence, [Next]_vars
  PROVE  MemoryEvidence' /\ RuntimeEvidence'
<1>1. step \in Nat \ {0} /\ gpu \in Seq(Step) /\ runtime \in Seq(Step) BY DEF IInv, TypeOK
<1>2. pc \in Running => step \in Step BY StepInRange
<1>3. 1..step = 1..step - 1 \cup {step} /\ Due(step) \subseteq Due(step - 1) \cup {step} /\ step + 1 - 1 = step
  BY <1>1, UpTo
<1>4. pc \in Running => /\ StepsIn(Append(gpu, step)) = StepsIn(gpu) \cup {step}
                        /\ StepsIn(Append(runtime, step)) = StepsIn(runtime) \cup {step}
  BY <1>1, <1>2, StepsAppend
<1>5. step % SaveFreq # 0 => Due(step) = Due(step - 1) BY <1>1, <1>3 DEF Due
<1> USE DEF MemoryEvidence, RuntimeEvidence, BeforeUpdate, Counting, AfterCount, Probing, Saving, Publishing
<1>6. CASE Stays BY <1>6 DEF Stays
<1>7. CASE Ends BY <1>7 DEF Ends
<1>8. CASE Moved BY <1>8 DEF Moved, Moves
<1>9. CASE Begins
  <2>1. step - 1 = tracker BY <1>1, <1>9 DEF Begins, IInv, TypeOK, Step
  <2> QED BY <1>9, <2>1 DEF Begins
<1>10. CASE Reports
  <2>1. pc \in Running BY <1>10 DEF Reports, Running, InStep
  <2>2. MemoryEvidence' BY <1>3, <1>4, <1>10, <2>1 DEF Reports, AfterStep
  <2>3. RuntimeEvidence' BY <1>5, <1>10 DEF Reports, AfterStep, ProbeDue, SaveDue
  <2> QED BY <2>2, <2>3
<1>11. CASE Probes
  <2>1. pc \in Running BY <1>11 DEF Probes, Running, InStep
  <2> QED BY <1>3, <1>4, <1>11, <2>1 DEF Probes
<1>12. CASE Truncates BY <1>12, NoneYet DEF Truncates
<1>13. CASE Tracks BY <1>13 DEF Tracks
<1>14. CASE Advances BY <1>3, <1>14 DEF Advances
<1> QED BY Kinds, <1>6, <1>7, <1>8, <1>9, <1>10, <1>11, <1>12, <1>13, <1>14

\* The same for the tables.
Closes == pc' \in {"down", "open", "done"} /\ (pc' = "open" => opened' = 0) /\ UNCHANGED <<tracker, tables>>
StartsAt1 == /\ pc = "open" /\ pc' = "gen" /\ UNCHANGED <<step, tracker, tables>> /\ step = tracker + 1
             /\ resumeStep = tracker /\ opened = Len(TableOrder) /\ (tracker = 0 => opt' = 0)
Going == {<<"support", "supportBench">>, <<"update", "row">>, <<"probeRuntime", "actor">>,
          <<"actor", "mkdir">>, <<"mkdir", "shards">>, <<"shards", "data">>, <<"data", "datapt">>,
          <<"datapt", "sidecar">>, <<"sidecar", "tracker">>}
Goes ==
  /\ \/ <<pc, pc'>> \in Going
     \/ pc = "gen" /\ pc' = IF SupportEnabled THEN "support" ELSE "update"
  /\ UNCHANGED <<step, opt, tracker, tables>>
Counts == pc = "gpu" /\ pc' = AfterStep /\ UNCHANGED <<step, tracker, tables>>
Publishes ==
  \/ pc = "tracker" /\ pc' = "number" /\ tracker' = -1 /\ UNCHANGED <<step, opt, tables>>
  \/ pc = "number" /\ pc' = "next" /\ tracker' = step /\ UNCHANGED <<step, opt, tables>>
GoesOn == pc = "next" /\ pc' = "gen" /\ step' = step + 1 /\ UNCHANGED <<opt, tracker, tables>>
Rests == UNCHANGED <<pc, step, opt, tracker, tables, opened, resumeStep>>
Benchmarks ==
  \/ Commit("support", opt, "supportBench") \/ EmitSupportBenchmark \/ EmitProbe \/ EmitProbeBenchmark

LEMMA TableKinds ==
  ASSUME IInv, ~AnyCheckpoint, [Next]_vars
  PROVE  \/ Rests \/ Closes \/ OpenTable \/ StartsAt1 \/ Goes \/ Benchmarks \/ EmitTrainStep
         \/ Counts \/ Publishes \/ GoesOn
<1> USE DEF Rests, Closes, Goes, Going
<1>1. CASE LaunchAny BY <1>1 DEF LaunchAny, LaunchFromScratch, LaunchFrom, Launch, files
<1>2. CASE OpenTable BY <1>2
<1>3. CASE Started BY <1>3 DEF Started, files, IInv, Position, StartsAt1, StartingOptimizerStep
<1>4. CASE TrainStep
  BY <1>4 DEF TrainStep, Generate, EmitSupport, NoRows, UpdateActor,
    EmitGpuRuntime, EmitProbeRuntime, Refused, files, Benchmarks, Counts
<1>5. CASE Publish
  BY <1>5 DEF Publish, Rotate, RemoveFirst, SaveActor, SaveActorDone, SaveData, SaveDataDone, SaveSidecar,
    Save, TruncateTracker, WriteTracker, NextStep, files, worker, Publishes, GoesOn
<1>6. CASE Stop BY <1>6 DEF Stop, files
<1>7. CASE UNCHANGED vars BY <1>7 DEF vars, driver, files
<1> QED BY <1>1, <1>2, <1>3, <1>4, <1>5, <1>6, <1>7 DEF Next, Run

\* Opening keeps what lies up to the tracked step, and nothing beyond it.
LEMMA OpenKeeps ==
  ASSUME IInv, OpenTable, NEW t \in Table
  PROVE  /\ tables'[t] \subseteq tables[t]
         /\ \A r \in tables[t] : r.step <= tracker => r \in tables'[t]
         /\ resumeStep = 0 => tables'[t] = tables[t]
         /\ resumeStep > 0 /\ t = TableOrder[opened + 1] => \A r \in tables'[t] : r.step <= tracker
         /\ t # TableOrder[opened + 1] => tables'[t] = tables[t]
<1>1. resumeStep = tracker /\ tables \in [Table -> SUBSET Row] /\ resumeStep \in Step \cup {0}
  BY DEF OpenTable, IInv, TypeOK, Position
<1>2. tables' = [tables EXCEPT ![TableOrder[opened + 1]] = CutOff(tables[TableOrder[opened + 1]])]
  BY DEF OpenTable
<1>3. \A r \in tables[t] : r.step \in Nat BY <1>1 DEF Row, Step
<1>4. \/ tables'[t] = tables[t] /\ t # TableOrder[opened + 1]
      \/ tables'[t] = CutOff(tables[t]) /\ t = TableOrder[opened + 1]
  BY <1>1, <1>2
<1>5. tracker = 0 => resumeStep = 0 BY <1>1
<1> QED BY <1>1, <1>3, <1>4 DEF CutOff, Step

\* A row of the step is added to a table.
LEMMA CommitAdds ==
  ASSUME IInv, Benchmarks \/ EmitTrainStep
  PROVE  /\ \E t \in Table :
              /\ pc = t \/ (pc = "row" /\ t = "train")
              /\ <<t, pc'>> \in {<<"support", "supportBench">>, <<"supportBench", "update">>, <<"train", "gpu">>,
                                 <<"probe", "probeBench">>, <<"probeBench", "probeRuntime">>}
              /\ \A u \in Table : u # t => tables'[u] = tables[u]
              /\ \E count : /\ tables'[t] = tables[t] \cup {[step |-> step, opt |-> count]}
                            /\ t # "train" => count = opt
              /\ ~Recorded(t)
         /\ UNCHANGED <<step, tracker, opt, resumeStep, opened>>
<1>1. tables \in [Table -> SUBSET Row] BY DEF IInv, TypeOK
<1> USE DEF Table, Commit, Append1, worker
<1>2. CASE Commit("support", opt, "supportBench") BY <1>1, <1>2
<1>3. CASE EmitSupportBenchmark BY <1>1, <1>3 DEF EmitSupportBenchmark
<1>4. CASE EmitProbe BY <1>1, <1>4 DEF EmitProbe
<1>5. CASE EmitProbeBenchmark BY <1>1, <1>5 DEF EmitProbeBenchmark
<1>6. CASE EmitTrainStep BY <1>1, <1>6 DEF EmitTrainStep
<1> QED BY <1>2, <1>3, <1>4, <1>5, <1>6 DEF Benchmarks

LEMMA StepBench ==
  ASSUME IInv, ~AnyCheckpoint, SupportEvidence, ProbeEvidence, Switched, [Next]_vars
  PROVE  SupportEvidence' /\ ProbeEvidence'
<1>1. step \in Nat \ {0} /\ tables \in [Table -> SUBSET Row] BY DEF IInv, TypeOK
<1>2. 1..step = 1..step - 1 \cup {step} /\ step + 1 - 1 = step BY <1>1, UpTo
<1>3. {"supportBench", "probeBench", "train", "support", "probe"} = Table BY DEF Table
<1> USE DEF SupportEvidence, ProbeEvidence, BeforeUpdate, Counting, AfterCount, Probing, Saving, Publishing
<1>4. CASE Rests BY <1>4 DEF Rests
<1>5. CASE Closes BY <1>5 DEF Closes
<1>6. CASE OpenTable
  <2>1. ASSUME NEW t \in Table
        PROVE  /\ 1..tracker \subseteq StepsOf(tables[t]) => 1..tracker \subseteq StepsOf(tables'[t])
               /\ tracker > 0 /\ tracker \in StepsOf(tables[t]) => tracker \in StepsOf(tables'[t])
    <3>1. tracker \in Step \cup {0, -1} BY DEF IInv, TypeOK
    <3>2. \A r \in tables[t] : r.step <= tracker => r \in tables'[t] BY <1>6, OpenKeeps
    <3> QED BY <3>1, <3>2 DEF StepsOf, Step
  <2>2. UNCHANGED <<pc, tracker>> /\ pc = "open" BY <1>6 DEF OpenTable
  <2> QED BY <1>3, <2>1, <2>2
<1>7. CASE StartsAt1
  <2>1. step - 1 = tracker BY <1>1, <1>7 DEF StartsAt1, IInv, TypeOK, Step
  <2> QED BY <1>7, <2>1 DEF StartsAt1
<1>8. CASE Goes BY <1>8 DEF Goes, Going, Switched
<1>9. CASE Benchmarks \/ EmitTrainStep
  <2>1. PICK t \in Table :
              /\ pc = t \/ (pc = "row" /\ t = "train")
              /\ <<t, pc'>> \in {<<"support", "supportBench">>, <<"supportBench", "update">>, <<"train", "gpu">>,
                                 <<"probe", "probeBench">>, <<"probeBench", "probeRuntime">>}
              /\ \A u \in Table : u # t => tables'[u] = tables[u]
              /\ \E count : tables'[t] = tables[t] \cup {[step |-> step, opt |-> count]}
    BY <1>9, CommitAdds
  <2>2. StepsOf(tables'[t]) = StepsOf(tables[t]) \cup {step}
    <3>1. PICK count : tables'[t] = tables[t] \cup {[step |-> step, opt |-> count]} BY <2>1
    <3>2. \A R, e : StepsOf(R \cup {e}) = StepsOf(R) \cup {e.step} BY DEF StepsOf
    <3>3. StepsOf(tables'[t]) = StepsOf(tables[t]) \cup {[step |-> step, opt |-> count].step}
      BY <3>1, <3>2, Zenon
    <3> QED BY <3>3
  <2>3. UNCHANGED <<step, tracker>> BY <1>9, CommitAdds
  <2> HIDE DEF SupportEvidence, ProbeEvidence
  <2>4. SupportEvidence'
    <3>1. /\ t = "supportBench" => StepsOf(tables'["supportBench"]) = StepsOf(tables["supportBench"]) \cup {step}
          /\ t # "supportBench" => tables'["supportBench"] = tables["supportBench"]
      BY <1>3, <2>1, <2>2
    <3>2. \/ pc = "support" /\ pc' = "supportBench" /\ t # "supportBench"
          \/ pc = "supportBench" /\ pc' = "update" /\ t = "supportBench"
          \/ pc = "row" /\ pc' = "gpu" /\ t # "supportBench"
          \/ pc \in Probing /\ pc' \in Probing /\ t # "supportBench"
      <4>1. pc # "train" BY DEF IInv, TypeOK
      <4> QED BY <2>1, <4>1
    <3>3. CASE t # "supportBench"
      BY <2>3, <3>1, <3>2, <3>3 DEF SupportEvidence
    <3>4. CASE t = "supportBench"
      BY <1>2, <2>3, <3>1, <3>2, <3>4 DEF SupportEvidence
    <3> QED BY <3>3, <3>4
  <2>5. ProbeEvidence'
    <3>1. /\ t = "probeBench" => StepsOf(tables'["probeBench"]) = StepsOf(tables["probeBench"]) \cup {step}
          /\ t # "probeBench" => tables'["probeBench"] = tables["probeBench"]
      BY <1>3, <2>1, <2>2
    <3> QED BY <2>1, <2>3, <3>1 DEF ProbeEvidence
  <2> QED BY <2>4, <2>5
<1>10. CASE Counts
  <2>1. ProbeEnabled => pc' \in {"probe", "next"} BY <1>10 DEF Counts, AfterStep, ProbeDue
  <2>2. pc' \in {"probe", "actor", "next"} BY <1>10 DEF Counts, AfterStep
  <2> QED BY <1>10, <2>1, <2>2 DEF Counts
<1>11. CASE Publishes BY <1>11, NoneYet DEF Publishes
<1>12. CASE GoesOn BY <1>2, <1>12 DEF GoesOn
<1> QED BY TableKinds, <1>4, <1>5, <1>6, <1>7, <1>8, <1>9, <1>10, <1>11, <1>12

LEMMA StepLeftover ==
  ASSUME IInv, ~AnyCheckpoint, Leftover, Switched, [Next]_vars
  PROVE  Leftover' /\ Switched'
<1>1. step \in Nat \ {0} /\ tables \in [Table -> SUBSET Row] BY DEF IInv, TypeOK
<1>2. {"supportBench", "probeBench", "train", "support", "probe"} = Table BY DEF Table
<1> USE DEF Leftover, Switched
<1>4. CASE Rests BY <1>4 DEF Rests
<1>5. CASE Closes BY <1>5 DEF Closes
<1>6. CASE OpenTable
  <2>1. tables'["support"] \subseteq tables["support"] /\ tables'["probe"] \subseteq tables["probe"]
    BY <1>2, <1>6, OpenKeeps
  <2>2. tables'["train"] = {} => tables["train"] = {}
    <3> SUFFICES ASSUME tables["train"] # {}, tables'["train"] = {} PROVE FALSE
      OBVIOUS
    <3>1. PICK r \in tables["train"] : r.step = 1 BY DEF IInv, TrainRows
    <3>2. ~(r.step <= tracker) BY <1>2, <1>6, <3>1, OpenKeeps
    <3>3. tables'["train"] # tables["train"] BY <3>1
    <3>4. resumeStep # 0 /\ resumeStep = tracker BY <1>2, <1>6, <3>3, OpenKeeps DEF IInv, Position, OpenTable
    <3>5. tracker \in Step BY <3>4 DEF IInv, TypeOK
    <3> QED BY <3>1, <3>2, <3>5 DEF Step
  <2>3. pc' = "open" /\ pc = "open" BY <1>6 DEF OpenTable
  <2> QED BY <2>1, <2>2, <2>3
<1>7. CASE StartsAt1 BY <1>7 DEF StartsAt1
<1>8. CASE Goes BY <1>8 DEF Goes, Going
<1>9. CASE Benchmarks \/ EmitTrainStep
  <2>1. PICK t \in Table :
              /\ pc = t \/ (pc = "row" /\ t = "train")
              /\ <<t, pc'>> \in {<<"support", "supportBench">>, <<"supportBench", "update">>, <<"train", "gpu">>,
                                 <<"probe", "probeBench">>, <<"probeBench", "probeRuntime">>}
              /\ \A u \in Table : u # t => tables'[u] = tables[u]
              /\ \E count : /\ tables'[t] = tables[t] \cup {[step |-> step, opt |-> count]}
                            /\ t # "train" => count = opt
    BY <1>9, CommitAdds
  <2>2. CASE t = "train" BY <1>2, <2>1, <2>2
  <2>3. CASE t = "support"
    <3>1. pc = "support" /\ pc' = "supportBench" BY <2>1, <2>3
    <3>2. SupportEnabled BY <3>1
    <3>3. /\ tables'["train"] = tables["train"] /\ tables'["probe"] = tables["probe"]
          /\ tables'["support"] = tables["support"] \cup {[step |-> step, opt |-> opt]}
      BY <1>2, <2>1, <2>3
    <3>4. step > 1 => tables["train"] = RowsOf(weights, step - 1) BY <3>1 DEF IInv, TrainRows, BeforeUpdate
    <3>5. step > 1 => tables["train"] # {}
      <4>1. step > 1 => 1 \in 1..step - 1 BY <1>1
      <4> QED BY <3>4, <4>1 DEF RowsOf
    <3>6. opt = Total(weights, step - 1) BY <3>1 DEF IInv, Position, BeforeUpdate
    <3>7. ~(step > 1) => step = 1 /\ opt = 0 BY <1>1, <3>6 DEF Total
    <3> QED BY <3>2, <3>3, <3>5, <3>7
  <2>4. CASE t \in {"probe"}
    <3>1. pc = "probe" /\ pc' = "probeBench" BY <2>1, <2>4
    <3>2. tables["train"] = RowsOf(weights, step) BY <3>1 DEF IInv, TrainRows, AfterCount, Probing
    <3>3. 1 \in 1..step BY <1>1
    <3>4. tables["train"] # {} BY <3>2, <3>3 DEF RowsOf
    <3> QED BY <1>2, <2>1, <2>4, <3>1, <3>4
  <2>5. CASE t \in {"supportBench", "probeBench"} BY <1>2, <2>1, <2>5
  <2> QED BY <1>2, <2>2, <2>3, <2>4, <2>5
<1>10. CASE Counts BY <1>10 DEF Counts, AfterStep
<1>11. CASE Publishes BY <1>11 DEF Publishes
<1>12. CASE GoesOn BY <1>12 DEF GoesOn
<1> QED BY TableKinds, <1>4, <1>5, <1>6, <1>7, <1>8, <1>9, <1>10, <1>11, <1>12

LEMMA StepPaired ==
  ASSUME IInv, ~AnyCheckpoint, Leftover, Switched, [Next]_vars,
         NEW t \in {"support", "probe"}, Paired(t)
  PROVE  Paired(t)'
<1> DEFINE b == Partner(t)
<1>1. /\ step \in Nat \ {0} /\ tables \in [Table -> SUBSET Row] /\ t \in Table /\ b \in Table /\ t # b
      /\ opened \in 0..5 /\ resumeStep \in Step \cup {0} /\ tracker \in Step \cup {0, -1}
  BY DEF IInv, TypeOK, Table, TableOrder, Partner
<1>2. /\ \A r \in tables[t] : r \in Row /\ r.step \in Step /\ r.step \in Nat
      /\ TableOrder[Place(t)] = t /\ Place(t) \in 1..5 /\ Len(TableOrder) = 5
  BY <1>1 DEF Row, Step, Place, TableOrder
<1>3. /\ \A r \in tables[t] : r.step <= tracker => r \in tables[b]
      /\ pc = "open" /\ resumeStep > 0 /\ opened >= Place(t) => \A r \in tables[t] : r.step <= tracker
      /\ pc \in InStep /\ Fresh => \A r \in tables[t] : r \in tables[b] \/ (Between(t) /\ r = Entry)
  BY DEF Paired
<1>4. b = IF t = "support" THEN "supportBench" ELSE "probeBench" BY DEF Partner
<1>5. b' = b BY DEF Partner
<1> HIDE DEF b
<1> SUFFICES /\ \A r \in tables'[t] : r.step <= tracker' => r \in tables'[b]
             /\ pc' = "open" /\ resumeStep' > 0 /\ opened' >= Place(t) => \A r \in tables'[t] : r.step <= tracker'
             /\ pc' \in InStep /\ Fresh' => \A r \in tables'[t] : r \in tables'[b] \/ (Between(t)' /\ r = Entry')
  BY <1>4, <1>5 DEF Paired, Partner
<1>6. CASE Rests BY <1>3, <1>6 DEF Rests, Fresh, Between, Entry
<1>7. CASE Closes
  <2>1. pc' = "open" => ~(opened' >= Place(t)) BY <1>2, <1>7 DEF Closes
  <2>2. pc' \notin InStep
    BY <1>7 DEF Closes, InStep, BeforeUpdate, Counting, AfterCount, Probing, Saving, Publishing
  <2>3. UNCHANGED <<tracker, tables>> BY <1>7 DEF Closes
  <2> QED BY <1>3, <2>1, <2>2, <2>3
<1>8. CASE OpenTable
  <2>1. /\ pc = "open" /\ pc' = "open" /\ opened' = opened + 1 /\ UNCHANGED <<resumeStep, tracker>>
    BY <1>8 DEF OpenTable
  <2>2. pc' \notin InStep
    BY <2>1 DEF InStep, BeforeUpdate, Counting, AfterCount, Probing, Saving, Publishing
  <2>3. \A r \in tables'[t] : r \in tables[t] BY <1>1, <1>8, OpenKeeps
  <2>4. \A r \in tables[b] : r.step <= tracker => r \in tables'[b] BY <1>1, <1>8, OpenKeeps
  <2>5. ASSUME resumeStep > 0, opened + 1 >= Place(t) PROVE \A r \in tables'[t] : r.step <= tracker
    <3>1. CASE opened >= Place(t) BY <1>3, <2>1, <2>3, <2>5, <3>1
    <3>2. CASE opened + 1 = Place(t) BY <1>1, <1>2, <1>8, <2>5, <3>2, OpenKeeps
    <3> QED BY <1>1, <1>2, <2>5, <3>1, <3>2
  <2> QED BY <1>3, <2>1, <2>2, <2>3, <2>4, <2>5
<1>9. CASE StartsAt1
  <2>1. /\ pc = "open" /\ pc' = "gen" /\ UNCHANGED <<step, tracker, tables>> /\ step = tracker + 1
        /\ resumeStep = tracker /\ opened = 5 /\ (tracker = 0 => opt' = 0)
    BY <1>2, <1>9 DEF StartsAt1
  <2>2. CASE resumeStep > 0
    <3>1. \A r \in tables[t] : r \in tables[b] BY <1>2, <1>3, <2>1, <2>2
    <3> QED BY <1>3, <2>1, <3>1
  <2>3. CASE ~(resumeStep > 0)
    <3>1. tracker = 0 /\ step = 1 /\ opt' = 0 BY <1>1, <2>1, <2>3 DEF Step
    <3>2. Fresh' => tables["train"] = {}
      BY <2>1, <3>1 DEF Fresh, AfterCount, Probing, Saving, Publishing
    <3>3. Fresh' => \A r \in tables[t] : t = "support" /\ r = [step |-> 1, opt |-> 0]
      BY <3>2 DEF Leftover
    <3>4. Entry' = [step |-> 1, opt |-> 0] BY <2>1, <3>1 DEF Entry
    <3>5. Fresh' => \A r \in tables[t] : Between(t)' /\ r = Entry'
      BY <2>1, <3>1, <3>3, <3>4 DEF Between
    <3> QED BY <1>3, <2>1, <3>5
  <2> QED BY <2>2, <2>3
<1> USE DEF InStep, BeforeUpdate, Counting, AfterCount, Probing, Saving, Publishing
<1>10. CASE Goes
  <2>1. UNCHANGED <<step, opt, tracker, tables>> /\ pc' # "open" /\ pc \in InStep BY <1>10 DEF Goes, Going
  <2>2. Fresh' => Fresh BY <1>10, <2>1 DEF Fresh, Goes, Going
  <2>3. Between(t) => Between(t)' \/ tables[t] = {}
    BY <1>4, <1>10, <2>1 DEF Between, Partner, Goes, Going, Switched
  <2>4. Entry' = Entry BY <2>1 DEF Entry
  <2> QED BY <1>3, <2>1, <2>2, <2>3, <2>4
<1>11. CASE Benchmarks \/ EmitTrainStep
  <2>1. PICK u \in Table :
              /\ pc = u \/ (pc = "row" /\ u = "train")
              /\ <<u, pc'>> \in {<<"support", "supportBench">>, <<"supportBench", "update">>, <<"train", "gpu">>,
                                 <<"probe", "probeBench">>, <<"probeBench", "probeRuntime">>}
              /\ \A q \in Table : q # u => tables'[q] = tables[q]
              /\ \E count : /\ tables'[u] = tables[u] \cup {[step |-> step, opt |-> count]}
                            /\ u # "train" => count = opt
              /\ ~Recorded(u)
    BY <1>11, CommitAdds
  <2>2. UNCHANGED <<step, tracker, opt, resumeStep, opened>> BY <1>11, CommitAdds
  <2>3. pc # "train" BY DEF IInv, TypeOK
  <2>4. pc \in InStep /\ pc' # "open" /\ pc' \in InStep BY <2>1, <2>3
  <2>5. Entry' = Entry BY <2>2 DEF Entry
  <2>6. tracker < step BY <2>1, <2>3 DEF IInv, TrackerBehind, Running
  <2>7. u # "train" => tables'[u] = tables[u] \cup {Entry} BY <2>1 DEF Entry
  <2>8. Fresh' => Fresh
    <3>1. CASE u # "train"
      <4>1. tables'["train"] = tables["train"] /\ pc' \notin {"gpu", "next"} BY <2>1, <3>1 DEF Table
      <4> QED BY <2>1, <2>2, <2>3, <3>1, <4>1 DEF Fresh
    <3>2. CASE u = "train"
      <4>1. step = 1 => ~\E r \in tables["train"] : r.step = 1 BY <2>1, <3>2 DEF Recorded
      <4>2. step = 1 => tables["train"] = {} BY <4>1 DEF IInv, TrainRows
      <4> QED BY <1>1, <4>2 DEF Fresh
    <3> QED BY <3>1, <3>2
  <2>9. CASE u = t
    <3>1. tables'[t] = tables[t] \cup {Entry} /\ tables'[b] = tables[b] BY <1>1, <1>4, <2>1, <2>7, <2>9
    <3>2. pc' = b BY <1>4, <2>1, <2>9
    <3>3. Between(t)' BY <1>4, <3>2 DEF Between, Partner
    <3>4. ~(Entry.step <= tracker) BY <1>1, <2>6 DEF Entry, Step
    <3> QED BY <1>3, <2>2, <2>4, <2>5, <2>8, <3>1, <3>3, <3>4
  <2>10. CASE u = b
    <3>1. tables'[b] = tables[b] \cup {Entry} /\ tables'[t] = tables[t] BY <1>1, <1>4, <2>1, <2>7, <2>10
    <3> QED BY <1>3, <2>2, <2>4, <2>8, <3>1
  <2>11. CASE u # t /\ u # b
    <3>1. tables'[b] = tables[b] /\ tables'[t] = tables[t] BY <1>1, <2>1, <2>11
    <3>2. Between(t) => Between(t)' BY <1>4, <2>1, <2>2, <2>3, <2>11 DEF Between, Partner
    <3> QED BY <1>3, <2>2, <2>4, <2>5, <2>8, <3>1, <3>2
  <2> QED BY <2>9, <2>10, <2>11
<1>12. CASE Counts
  <2>1. /\ pc = "gpu" /\ pc' \in {"probe", "actor", "next"} /\ UNCHANGED <<step, tracker, tables>>
    BY <1>12 DEF Counts, AfterStep
  <2>2. Fresh /\ ~Between(t) BY <2>1 DEF Fresh, Between, Partner
  <2> QED BY <1>3, <2>1, <2>2
<1>13. CASE Publishes
  <2>1. /\ pc \in {"tracker", "number"} /\ pc' \in {"number", "next"} /\ UNCHANGED tables
        /\ tracker' = -1 \/ tracker' = step
    BY <1>13 DEF Publishes
  <2>2. Fresh /\ ~Between(t) BY <2>1 DEF Fresh, Between, Partner
  <2>3. \A r \in tables[t] : r \in tables[b] BY <1>3, <2>1, <2>2
  <2> QED BY <2>1, <2>3
<1>14. CASE GoesOn
  <2>1. pc = "next" /\ pc' = "gen" /\ UNCHANGED <<tracker, tables>> BY <1>14 DEF GoesOn
  <2>2. Fresh /\ ~Between(t) BY <2>1 DEF Fresh, Between, Partner
  <2> QED BY <1>3, <2>1, <2>2
<1> QED BY TableKinds, <1>6, <1>7, <1>8, <1>9, <1>10, <1>11, <1>12, <1>13, <1>14

LEMMA NextRecords == ASSUME ~AnyCheckpoint, IInv, Records, [Next]_vars PROVE Records'
<1>1. MemoryEvidence' /\ RuntimeEvidence' BY StepJson DEF Records
<1>2. SupportEvidence' /\ ProbeEvidence' BY StepBench DEF Records
<1>3. Leftover' /\ Switched' BY StepLeftover DEF Records
<1>4. Paired("support")' BY StepPaired DEF Records
<1>5. Paired("probe")' BY StepPaired DEF Records
<1> QED BY <1>1, <1>2, <1>3, <1>4, <1>5 DEF Records

-----------------------------------------------------------------------------
LEMMA RunInv ==
  ASSUME ~AnyCheckpoint, MaxKeep # 1
  PROVE  Spec => [](IInv /\ Records)
<1>1. IInv /\ Records /\ [Next]_vars => IInv' /\ Records' BY NextIInv, NextRecords
<1> QED BY InitIInv, InitRecords, <1>1, PTL DEF Spec

\* In such a run the observer's optimizer_step is that of the weights at the
\* beginning of every step, however it was resumed (integration.py:404).
THEOREM CountOfTheWeights == ASSUME ~AnyCheckpoint, MaxKeep # 1 PROVE Spec => []OptimizerStepIsExact
<1>1. IInv => OptimizerStepIsExact BY DEF IInv, Position, OptimizerStepIsExact, BeforeUpdate
<1> QED BY RunInv, <1>1, PTL

\* The train table has exactly the rows of the steps the weights in training
\* have seen: rows of steps that were lost are cut off, none is cut off besides.
THEOREM TableOfTheWeights == ASSUME ~AnyCheckpoint, MaxKeep # 1 PROVE Spec => []TrainTableIsTheRun
<1>1. IInv => TrainTableIsTheRun BY DEF IInv, TrainRows, TrainTableIsTheRun, BeforeUpdate
<1> QED BY RunInv, <1>1, PTL

\* The records a completed run is validated by are there for every step, although
\* the two JSON files are never cut back.
LEMMA MemoryAndRuntime == ASSUME ~AnyCheckpoint, MaxKeep # 1 PROVE Spec => []RuntimeIsComplete
<1>1. IInv /\ Records => RuntimeIsComplete
  <2> SUFFICES ASSUME IInv, Records, pc = "gen" PROVE RuntimeIsComplete
    BY DEF RuntimeIsComplete
  <2>1. /\ MemoryReported => 1..step - 1 \subseteq StepsIn(gpu)
        /\ ProbeEnabled => Due(step - 1) \subseteq StepsIn(runtime)
    BY DEF Records, MemoryEvidence, RuntimeEvidence, BeforeUpdate
  <2> QED BY <2>1 DEF RuntimeIsComplete, StepsIn, Due
<1> QED BY RunInv, <1>1, PTL

\* A resume finds a complete past in the tables: the rows of the tracked
\* checkpoint's history, the support rows of each of its steps and the probe's.
THEOREM PastOfTheTracked == ASSUME ~AnyCheckpoint, MaxKeep # 1 PROVE Spec => []TrackedHasRows
<1>1. IInv /\ Records => TrackedHasRows
  <2> SUFFICES ASSUME IInv, Records, tracker > 0
               PROVE  /\ {r \in tables["train"] : r.step <= tracker} = RowsOf(ckpt[tracker].actor, tracker)
                      /\ SupportEnabled => \A s \in 1..tracker : \E r \in tables["supportBench"] : r.step = s
                      /\ ProbeEnabled => \E r \in tables["probeBench"] : r.step = tracker
    BY DEF TrackedHasRows
  <2>1. {r \in tables["train"] : r.step <= tracker} = RowsOf(ckpt[tracker].actor, tracker)
    BY DEF IInv, TrainRows
  <2>2. SupportEnabled => 1..tracker \subseteq StepsOf(tables["supportBench"])
    BY DEF Records, SupportEvidence
  <2>3. ProbeEnabled => tracker \in StepsOf(tables["probeBench"]) BY DEF Records, ProbeEvidence
  <2> QED BY <2>1, <2>2, <2>3 DEF StepsOf
<1> QED BY RunInv, <1>1, PTL

\* A kill between the two commits of an event leaves no table with rows whose
\* benchmark row is missing once the run has been resumed (integration.py).
THEOREM EventsArePaired == ASSUME ~AnyCheckpoint, MaxKeep # 1 PROVE Spec => []EventsAreWhole
<1>1. IInv /\ Records => EventsAreWhole
  <2> SUFFICES ASSUME IInv, Records, pc = "gen", step > 1 PROVE EventsAreWhole
    BY DEF EventsAreWhole
  <2>1. pc \in InStep /\ Fresh BY DEF InStep, BeforeUpdate, Fresh
  <2>2. ASSUME NEW t \in {"support", "probe"} PROVE ~Between(t) BY DEF Between, Partner
  <2>3. \A r \in tables["support"] : r \in tables["supportBench"]
    BY <2>1, <2>2 DEF Records, Paired, Partner
  <2>4. \A r \in tables["probe"] : r \in tables["probeBench"]
    BY <2>1, <2>2 DEF Records, Paired, Partner
  <2> QED BY <2>3, <2>4 DEF EventsAreWhole
<1> QED BY RunInv, <1>1, PTL

-----------------------------------------------------------------------------
\* While the tracker is empty its rewrite is in progress or was killed.
Emptied ==
  tracker = -1 => pc \in {"number", "down"} /\ OnlyTheNumberIsLost

LEMMA InitEmptied == Init => Emptied
BY DEF Init, Emptied

LEMMA NextEmptied == ASSUME IInv, Emptied, [Next]_vars PROVE Emptied'
<1> SUFFICES ASSUME tracker' = -1 PROVE pc' \in {"number", "down"} /\ OnlyTheNumberIsLost'
  BY DEF Emptied
<1>1. CASE TruncateTracker
  <2>1. pc = "tracker" /\ pc' = "number" /\ UNCHANGED <<step, weights, opt, tables, ckpt>>
    BY <1>1 DEF TruncateTracker, worker
  <2>2. Whole(step)
    <3>1. ckpt[step].actor = weights /\ ckpt[step].data = weights /\ ckpt[step].sidecar = opt
      BY <2>1 DEF IInv, SavedSoFar, Publishing
    <3>2. Len(weights) = step /\ opt = weights[step]
      BY <2>1 DEF IInv, Position, AfterCount, Publishing
    <3>3. weights \notin {Torn, Missing} BY FileAssumption DEF IInv, TypeOK
    <3> QED BY <3>1, <3>2, <3>3 DEF Whole
  <2>3. {r \in tables["train"] : r.step <= step} = RowsOf(ckpt[step].actor, step)
    <3>1. tables["train"] = RowsOf(weights, step)
      BY <2>1 DEF IInv, TrainRows, AfterCount, Publishing
    <3>2. ckpt[step].actor = weights BY <2>1 DEF IInv, SavedSoFar, Publishing
    <3>3. \A r \in RowsOf(weights, step) : r.step <= step BY DEF RowsOf
    <3> QED BY <3>1, <3>2, <3>3
  <2> QED BY <2>1, <2>2, <2>3 DEF OnlyTheNumberIsLost, Whole, RowsOf
<1>2. CASE tracker = -1
  <2>1. pc \in {"number", "down"} /\ OnlyTheNumberIsLost BY <1>2 DEF Emptied
  <2>2. CASE UNCHANGED vars
    BY <2>1, <2>2 DEF vars, driver, files, OnlyTheNumberIsLost, Whole, RowsOf
  <2>3. CASE Stop
    BY <2>1, <2>3 DEF Stop, files, OnlyTheNumberIsLost, Whole, RowsOf
  <2>4. CASE WriteTracker
    <3>1. tracker' = step BY <2>4 DEF WriteTracker
    <3>2. step # -1 BY DEF IInv, TypeOK
    <3> QED BY <3>1, <3>2
  <2>5. ~LaunchAny BY <1>2 DEF LaunchAny, LaunchFromScratch, LaunchFrom
  <2>6. ~OpenTable /\ ~Started /\ ~TrainStep
    BY <2>1 DEF OpenTable, Started, TrainStep, Generate, EmitSupport, NoRows, EmitSupportBenchmark,
         Commit, UpdateActor, EmitTrainStep, EmitGpuRuntime, EmitProbe, EmitProbeBenchmark,
         EmitProbeRuntime, Refused, Emitting
  <2>7. Publish => WriteTracker
    BY <2>1 DEF Publish, Rotate, RemoveFirst, SaveActor, SaveActorDone, SaveData, SaveDataDone,
         SaveSidecar, Save, TruncateTracker, NextStep
  <2> QED BY <2>2, <2>3, <2>4, <2>5, <2>6, <2>7 DEF Next, Run
<1>3. CASE tracker # -1 /\ ~TruncateTracker
  <2>1. tracker' # tracker BY <1>3
  <2>2. ~WriteTracker
    <3>1. step # -1 BY DEF IInv, TypeOK
    <3> QED BY <3>1 DEF WriteTracker
  <2>3. ~UNCHANGED vars /\ ~Stop /\ ~LaunchAny /\ ~OpenTable /\ ~Started
    BY <2>1 DEF vars, files, Stop, LaunchAny, LaunchFromScratch, LaunchFrom, Launch, OpenTable, Started
  <2>4. ~TrainStep
    BY <2>1 DEF files, TrainStep, Generate, EmitSupport, NoRows, EmitSupportBenchmark, Commit,
         UpdateActor, EmitTrainStep, EmitGpuRuntime, EmitProbe, EmitProbeBenchmark, EmitProbeRuntime,
         Refused
  <2>5. ~(Publish /\ ~WriteTracker)
    BY <1>3, <2>1 DEF files, Publish, Rotate, RemoveFirst, SaveActor, SaveActorDone, SaveData,
         SaveDataDone, SaveSidecar, Save, NextStep
  <2> QED BY <2>2, <2>3, <2>4, <2>5 DEF Next, Run
<1> QED BY <1>1, <1>2, <1>3

\* Whatever is killed and whenever, for any schedule of checkpoints and any
\* number of steps and stops: when runs resume from the tracked checkpoint and
\* more than one checkpoint is kept, the checkpoint the tracker names is whole and
\* of one save (ray_trainer.py:921-1000).  A kill between the truncation of the
\* tracker and the write of its number loses the number only: the checkpoint it
\* was about to name is whole and the train table has its rows.
THEOREM TrackedCheckpoint == ASSUME ~AnyCheckpoint, MaxKeep # 1 PROVE Spec => []TrackedIsWhole
<1>1. IInv /\ Emptied /\ [Next]_vars => Emptied' BY NextEmptied
<1>2. IInv /\ Emptied => TrackedIsWhole
  BY DEF IInv, NamedIsWhole, Emptied, OnlyTheNumberIsLost, TrackedIsWhole
<1> QED BY RunInv, InitEmptied, <1>1, <1>2, PTL DEF Spec

-----------------------------------------------------------------------------
\* The first step is in the memory evidence once, and not before its row is in
\* the train table, which no cut takes away.
FirstEntry ==
  /\ \A i, j \in DOMAIN gpu : gpu[i] = 1 /\ gpu[j] = 1 => i = j
  /\ 1 \in StepsIn(gpu) => \E r \in tables["train"] : r.step = 1
  /\ pc = "gpu" /\ step = 1 => 1 \notin StepsIn(gpu)

LEMMA InitFirstEntry == Init => FirstEntry
BY DEF Init, FirstEntry, StepsIn

\* No step takes the row of the first step away.
LEMMA FirstRowStays ==
  ASSUME IInv, [Next]_vars, \E r \in tables["train"] : r.step = 1
  PROVE  \E r \in tables'["train"] : r.step = 1
<1>1. tables \in [Table -> SUBSET Row] /\ resumeStep \in Nat /\ "train" \in Table
  BY DEF IInv, TypeOK, Step, Table
<1>2. CASE UNCHANGED tables BY <1>2
<1>3. CASE OpenTable
  <2> DEFINE t == TableOrder[opened + 1]
  <2>1. tables' = [tables EXCEPT ![t] = CutOff(@)] BY <1>3 DEF OpenTable
  <2>2. CASE t = "train"
    BY <1>1, <2>1, <2>2 DEF CutOff
  <2>3. CASE t # "train" BY <1>1, <2>1, <2>3
  <2> QED BY <2>2, <2>3
<1>4. ASSUME NEW t \in Table, NEW count, Append1(t, count) PROVE \E r \in tables'["train"] : r.step = 1
  BY <1>1, <1>4 DEF Append1
<1>5. CASE TrainStep
  <2>1. CASE EmitTrainStep BY <1>1, <1>4, <2>1 DEF EmitTrainStep
  <2>2. ASSUME NEW t \in Table, NEW next, Commit(t, opt, next) PROVE \E r \in tables'["train"] : r.step = 1
    BY <1>4, <2>2 DEF Commit
  <2>3. CASE EmitSupport \/ EmitSupportBenchmark \/ EmitProbe \/ EmitProbeBenchmark
    BY <1>2, <2>2, <2>3 DEF EmitSupport, EmitSupportBenchmark, EmitProbe, EmitProbeBenchmark, NoRows, files,
       Table
  <2>4. CASE Generate \/ UpdateActor \/ EmitGpuRuntime \/ EmitProbeRuntime \/ Refused
    BY <1>2, <2>4 DEF Generate, UpdateActor, EmitGpuRuntime, EmitProbeRuntime, Refused, files
  <2> QED BY <1>5, <2>1, <2>3, <2>4 DEF TrainStep
<1>6. CASE LaunchAny
  BY <1>2, <1>6 DEF LaunchAny, LaunchFromScratch, LaunchFrom, Launch, files
<1>7. CASE Publish
  BY <1>2, <1>7 DEF Publish, Rotate, RemoveFirst, SaveActor, SaveActorDone, SaveData, SaveDataDone,
     SaveSidecar, Save, TruncateTracker, WriteTracker, NextStep, files
<1>8. CASE Started \/ Stop \/ UNCHANGED vars BY <1>2, <1>8 DEF Started, Stop, vars, files
<1> QED BY <1>3, <1>5, <1>6, <1>7, <1>8 DEF Next, Run

LEMMA NextFirstEntry ==
  ASSUME IInv, ~AnyCheckpoint, FirstEntry, [Next]_vars PROVE FirstEntry'
<1>1. step \in Nat \ {0} /\ gpu \in Seq(Step) BY DEF IInv, TypeOK
<1>2. CASE UNCHANGED gpu /\ pc' # "gpu"
  BY <1>2, FirstRowStays DEF FirstEntry, StepsIn
<1>3. CASE UNCHANGED <<gpu, pc, step>>
  BY <1>3, FirstRowStays DEF FirstEntry, StepsIn
<1>4. CASE EmitTrainStep
  <2>1. UNCHANGED <<gpu, step>> /\ ~Recorded("train") BY <1>4 DEF EmitTrainStep, Append1
  <2>2. step = 1 => 1 \notin StepsIn(gpu) BY <2>1 DEF FirstEntry, Recorded
  <2> QED BY <2>1, <2>2, FirstRowStays DEF FirstEntry, StepsIn
<1>5. CASE Reports /\ EmitGpuRuntime
  <2>1. pc = "gpu" /\ pc' # "gpu" /\ step \in Step
    BY <1>5, StepInRange DEF Reports, AfterStep, Running, InStep, Counting
  <2>2. CASE UNCHANGED gpu BY <1>2, <2>1, <2>2
  <2>3. CASE gpu' = Append(gpu, step)
    <3>1. DOMAIN gpu = 1..Len(gpu) /\ DOMAIN gpu' = 1..Len(gpu) + 1 /\ Len(gpu) \in Nat
      BY <1>1, <2>1, <2>3
    <3>2. (\A i \in 1..Len(gpu) : gpu'[i] = gpu[i]) /\ gpu'[Len(gpu) + 1] = step
      BY <1>1, <2>1, <2>3
    <3>3. step = 1 => \A i \in 1..Len(gpu) : gpu[i] # 1
      BY <2>1, <3>1 DEF FirstEntry, StepsIn
    <3>4. \A i, j \in DOMAIN gpu' : gpu'[i] = 1 /\ gpu'[j] = 1 => i = j
      <4> SUFFICES ASSUME NEW i \in DOMAIN gpu', NEW j \in DOMAIN gpu', gpu'[i] = 1, gpu'[j] = 1
                   PROVE  i = j
        OBVIOUS
      <4>1. CASE i \in 1..Len(gpu) /\ j \in 1..Len(gpu) BY <3>1, <3>2, <4>1 DEF FirstEntry
      <4>2. CASE i = Len(gpu) + 1 /\ j \in 1..Len(gpu) BY <3>2, <3>3, <4>2
      <4>3. CASE j = Len(gpu) + 1 /\ i \in 1..Len(gpu) BY <3>2, <3>3, <4>3
      <4> QED BY <3>1, <4>1, <4>2, <4>3
    <3>5. \E r \in tables["train"] : step = 1 => r.step = 1
      <4>1. tables["train"] = RowsOf(weights, step)
        BY <2>1 DEF IInv, TrainRows
      <4>2. [step |-> step, opt |-> weights[step]] \in RowsOf(weights, step)
        BY <1>1 DEF RowsOf
      <4> QED BY <4>1, <4>2
    <3>6. 1 \in StepsIn(gpu') => \E r \in tables["train"] : r.step = 1
      <4>1. StepsIn(gpu') = StepsIn(gpu) \cup {step} BY <1>1, <2>1, <2>3, StepsAppend
      <4> QED BY <3>5, <4>1 DEF FirstEntry
    <3>7. UNCHANGED tables BY <1>5 DEF EmitGpuRuntime
    <3> QED BY <2>1, <3>4, <3>6, <3>7 DEF FirstEntry, StepsIn
  <2> QED BY <1>5, <2>2, <2>3 DEF Reports
<1>6. \/ UNCHANGED gpu /\ pc' # "gpu"
      \/ UNCHANGED <<gpu, pc, step>>
      \/ EmitTrainStep
      \/ Reports /\ EmitGpuRuntime
  <2>1. CASE LaunchAny BY <2>1 DEF LaunchAny, LaunchFromScratch, LaunchFrom, Launch, files
  <2>2. CASE OpenTable \/ Started BY <2>2 DEF OpenTable, Started, files
  <2>3. CASE TrainStep
    BY <2>3 DEF TrainStep, Generate, EmitSupport, EmitSupportBenchmark, NoRows, Commit, UpdateActor,
      EmitGpuRuntime, EmitProbe, EmitProbeBenchmark, EmitProbeRuntime, Refused, files, Reports
  <2>4. CASE Publish
    BY <2>4 DEF Publish, Rotate, RemoveFirst, SaveActor, SaveActorDone, SaveData, SaveDataDone,
      SaveSidecar, Save, TruncateTracker, WriteTracker, NextStep, files
  <2>5. CASE Stop \/ UNCHANGED vars BY <2>5 DEF Stop, vars, driver, files
  <2> QED BY <2>1, <2>2, <2>3, <2>4, <2>5 DEF Next, Run
<1> QED BY <1>2, <1>3, <1>4, <1>5, <1>6

\* The last probe entry is of the checkpoint in progress until the run goes on.
LastProbe ==
  /\ pc \in Saving \cup Publishing \cup {"next"} /\ ProbeDue =>
       runtime # <<>> /\ runtime[Len(runtime)] = step
  /\ pc = "done" /\ ProbeEnabled => runtime # <<>> /\ runtime[Len(runtime)] = step - 1

LEMMA InitLastProbe == Init => LastProbe
BY DEF Init, LastProbe, Saving, Publishing

LEMMA NextLastProbe == ASSUME IInv, ~AnyCheckpoint, LastProbe, [Next]_vars PROVE LastProbe'
<1>1. step \in Nat \ {0} /\ runtime \in Seq(Step) BY DEF IInv, TypeOK
<1> USE DEF LastProbe, Saving, Publishing
<1>2. CASE Stays BY <1>2 DEF Stays, ProbeDue, SaveDue, IsLastStep
<1>3. CASE pc' \in {"down", "open"} BY <1>3
<1>4. CASE Moved BY <1>4 DEF Moved, Moves, ProbeDue, SaveDue, IsLastStep
<1>5. CASE Begins \/ Advances BY <1>5 DEF Begins, Advances
<1>6. CASE Reports BY <1>6 DEF Reports, AfterStep, ProbeDue, SaveDue, IsLastStep
<1>7. CASE Probes
  <2>1. step \in Step BY <1>7, StepInRange DEF Probes, Running, InStep, AfterCount, Probing
  <2>2. runtime' # <<>> /\ runtime'[Len(runtime')] = step BY <1>1, <1>7, <2>1 DEF Probes
  <2> QED BY <1>7, <2>2 DEF Probes
<1>8. CASE Truncates \/ Tracks BY <1>8 DEF Truncates, Tracks, ProbeDue, SaveDue, IsLastStep
<1>9. CASE NextStep /\ pc' = "done"
  <2>1. pc = "next" /\ IsLastStep /\ step' = step + 1 /\ UNCHANGED runtime
    BY <1>9 DEF NextStep, files
  <2>2. step' - 1 = step BY <1>1, <2>1
  <2> QED BY <1>9, <2>1, <2>2 DEF ProbeDue, SaveDue
<1>10. Ends => pc' \in {"down", "open"} \/ (NextStep /\ pc' = "done") \/ Stays
  <2>1. SUFFICES ASSUME Ends, pc' = "done" PROVE NextStep \/ Stays BY DEF Ends
  <2>2. CASE LaunchAny BY <2>1, <2>2 DEF LaunchAny, LaunchFromScratch, LaunchFrom, Launch
  <2>3. CASE OpenTable \/ Started \/ Stop BY <2>1, <2>3 DEF OpenTable, Started, Stop
  <2>4. CASE TrainStep
    BY <2>1, <2>4 DEF TrainStep, Generate, EmitSupport, EmitSupportBenchmark, NoRows, Commit,
      UpdateActor, EmitTrainStep, EmitGpuRuntime, AfterStep, EmitProbe, EmitProbeBenchmark,
      EmitProbeRuntime, Refused
  <2>5. CASE Publish
    BY <2>1, <2>5 DEF Publish, Rotate, RemoveFirst, SaveActor, SaveActorDone, SaveData,
      SaveDataDone, SaveSidecar, Save, TruncateTracker, WriteTracker
  <2>6. CASE UNCHANGED vars BY <2>6 DEF vars, driver, files, Stays
  <2> QED BY <2>2, <2>3, <2>4, <2>5, <2>6 DEF Next, Run
<1> QED BY Kinds, <1>2, <1>3, <1>4, <1>5, <1>6, <1>7, <1>8, <1>9, <1>10

\* What the validator takes from the JSON files is the run's although no resume
\* cuts them back: no step is missing, the first has one memory entry, and at the
\* end of the run the last probe entry is the last checkpoint's
\* (integration.py:174-193, 392-404).
THEOREM EvidenceOfTheRun ==
  ASSUME ~AnyCheckpoint, MaxKeep # 1 PROVE Spec => []ValidatorReadsTheRun
<1>1. IInv /\ FirstEntry /\ [Next]_vars => FirstEntry' BY NextFirstEntry
<1>2. IInv /\ LastProbe /\ [Next]_vars => LastProbe' BY NextLastProbe
<1>3. FirstEntry /\ LastProbe /\ RuntimeIsComplete => ValidatorReadsTheRun
  BY DEF FirstEntry, LastProbe, ValidatorReadsTheRun
<1> QED BY RunInv, MemoryAndRuntime, InitFirstEntry, InitLastProbe, <1>1, <1>2, <1>3, PTL DEF Spec
===============================================================================
