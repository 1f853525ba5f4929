--------------------------- MODULE TrainLoop_proofs ---------------------------
(***************************************************************************)
(* Theorems about TrainLoop: batches, statistics and the search for groups, *)
(* for any data, batch sizes, filter, schedule, kills and relaunches.       *)
(***************************************************************************)
EXTENDS TrainLoop, FiniteSetTheorems, TLAPS

\* The record of raw trajectories is of the step and the pass under way.
RawOfStep ==
  \A g \in raw : g.step = step /\ g.pass = pass /\ g.prompt \notin left /\ g.prompt \notin trained

\* While sampling, the three accumulators are empty together, or the record
\* holds what they were filled from; while training they are empty.
Accumulated ==
  /\ pc = "loop" => IF numGen = 0 THEN acc = {} /\ numPrompt = 0 ELSE RawOfStep /\ acc \subseteq raw
  /\ pc = "loop" /\ ~filterGroups => numGen = 0
  /\ pc = "train" => /\ acc = {} /\ numPrompt = 0 /\ numGen = 0
                     /\ RawOfStep /\ batch \subseteq raw
                     /\ filterGroups => Cardinality(batch) = TrainBatchSize

\* What is saved has trained prompts and prompts to come apart.
SavedApart == saved # NoSave => saved.trained \cap saved.left = {}

IInv == TypeOK /\ TrainedOnce /\ Accumulated /\ SavedApart

-------------------------------------------------------------------------------
LEMMA InitIInv == Init => IInv
BY ConfigAssumption DEF Init, IInv, TypeOK, TrainedOnce, Accumulated, SavedApart, PromptsOf

\* What a generation batch adds to the record.
LEMMA GroupsOf ==
  ASSUME IInv, NEW B \in SUBSET left
  PROVE  /\ Groups(B) \subseteq Group
         /\ \A g \in Groups(B) : g.step = step /\ g.pass = pass /\ g.prompt \in B
BY DEF Groups, Group, IInv, TypeOK

\* After a generation batch has been drawn the record is of this step, and it
\* has what was accumulated.
LEMMA DrawRaw ==
  ASSUME IInv, NEW B \in SUBSET left, Draw(B), step' = step, pass' = pass, trained' = trained
  PROVE  /\ raw' \subseteq Group /\ left' \subseteq left
         /\ RawOfStep' /\ acc \subseteq raw' /\ Groups(B) \subseteq raw'
<1>1. pc = "loop" /\ left' = left \ B BY DEF Draw
<1>2. \A g \in Groups(B) : g.prompt \notin left' /\ g.prompt \notin trained
  BY <1>1, GroupsOf DEF IInv, TrainedOnce
<1>3. CASE acc = {} /\ numPrompt = 0 /\ numGen = 0
  <2>1. raw' = Groups(B) BY <1>3 DEF Draw
  <2> QED BY <1>1, <1>2, <1>3, <2>1, GroupsOf DEF RawOfStep
<1>4. CASE ~(acc = {} /\ numPrompt = 0 /\ numGen = 0)
  <2>1. raw' = raw \cup Groups(B) BY <1>4 DEF Draw
  <2>2. RawOfStep /\ acc \subseteq raw /\ raw \subseteq Group
    BY <1>1, <1>4 DEF IInv, Accumulated, TypeOK
  <2> QED BY <1>1, <1>2, <2>1, <2>2, GroupsOf DEF RawOfStep
<1> QED BY <1>3, <1>4

LEMMA TakeAllIInv == ASSUME IInv, NEW B \in SUBSET left, TakeAll(B) PROVE IInv'
<1> USE DEF TakeAll, bounds
<1>1. pc = "loop" /\ left' = left \ B /\ Draw(B) BY DEF Draw
<1>2. /\ raw' \subseteq Group /\ left' \subseteq left
      /\ RawOfStep' /\ acc \subseteq raw' /\ Groups(B) \subseteq raw'
  BY <1>1, DrawRaw
<1>3. TypeOK' BY <1>1, <1>2, GroupsOf DEF IInv, TypeOK
<1>4. acc = {} /\ numPrompt = 0 /\ numGen = 0 BY <1>1 DEF IInv, Accumulated
<1>5. TrainedOnce'
  <2>1. PromptsOf(batch') \subseteq B BY GroupsOf DEF PromptsOf
  <2> QED BY <1>1, <1>4, <2>1 DEF IInv, TrainedOnce, PromptsOf
<1>6. Accumulated' BY <1>1, <1>2, <1>4 DEF Accumulated, RawOfStep
<1> QED BY <1>3, <1>5, <1>6 DEF IInv, SavedApart

\* The prompts accumulated with some of B have been drawn and not trained on.
LEMMA PromptsApart ==
  ASSUME IInv, NEW B \in SUBSET left, NEW K \in SUBSET B, left' = left \ B, trained' = trained,
         NEW G, G \in SUBSET (acc \cup Groups(K))
  PROVE  trained \cap (left' \cup PromptsOf(G)) = {}
<1>1. \A g \in Groups(K) : g.prompt \in left BY GroupsOf
<1> QED BY <1>1 DEF IInv, TrainedOnce, PromptsOf

LEMMA KeepSamplingIInv ==
  ASSUME IInv, NEW B \in SUBSET left, NEW K \in SUBSET B, KeepSampling(B, K)
  PROVE  IInv'
<1> USE DEF KeepSampling, bounds
<1>1. pc = "loop" /\ left' = left \ B /\ Draw(B) BY DEF Draw
<1>2. /\ raw' \subseteq Group /\ left' \subseteq left
      /\ RawOfStep' /\ acc \subseteq raw' /\ Groups(B) \subseteq raw'
  BY <1>1, DrawRaw
<1>3. Groups(K) \subseteq Groups(B) BY DEF Groups
<1>4. TypeOK'
  <2>1. IsFiniteSet(K) /\ Cardinality(K) \in Nat
    BY DataAssumption, FS_Subset, FS_CardinalityType DEF IInv, TypeOK
  <2>2. acc' \subseteq Group BY <1>3, GroupsOf DEF IInv, TypeOK
  <2>3. numPrompt' \in Nat /\ numGen' \in Nat BY <2>1 DEF IInv, TypeOK
  <2> HIDE DEF KeepSampling
  <2>4. UNCHANGED <<pc, step, epoch, batch, saved, pass, trained, seen, bounds>> BY DEF KeepSampling
  <2> QED BY <1>1, <1>2, <2>2, <2>3, <2>4 DEF IInv, TypeOK
<1>5. TrainedOnce'
  <2>1. trained \cap (left' \cup PromptsOf(acc')) = {} BY <1>1, PromptsApart
  <2> QED BY <2>1 DEF IInv, TrainedOnce
<1>6. Accumulated'
  <2>1. numGen' # 0 BY DEF IInv, TypeOK
  <2> QED BY <1>1, <1>2, <1>3, <2>1 DEF Accumulated, RawOfStep
<1> QED BY <1>4, <1>5, <1>6 DEF IInv, SavedApart

LEMMA GiveUpIInv ==
  ASSUME IInv, NEW B \in SUBSET left, NEW K \in SUBSET B, GiveUp(B, K)
  PROVE  IInv'
<1> USE DEF GiveUp, bounds
<1>1. pc = "loop" /\ left' = left \ B /\ Draw(B) BY DEF Draw
<1>2. raw' \subseteq Group /\ left' \subseteq left /\ acc \subseteq raw' /\ Groups(B) \subseteq raw'
  BY <1>1, DrawRaw
<1>3. Groups(K) \subseteq Groups(B) BY DEF Groups
<1>4. TypeOK'
  <2>1. IsFiniteSet(K) /\ Cardinality(K) \in Nat
    BY DataAssumption, FS_Subset, FS_CardinalityType DEF IInv, TypeOK
  <2>2. acc' \subseteq Group BY <1>3, GroupsOf DEF IInv, TypeOK
  <2>3. numPrompt' \in Nat BY <2>1 DEF IInv, TypeOK
  <2> HIDE DEF GiveUp
  <2>4. pc' = "failed" /\ UNCHANGED <<step, epoch, numGen, batch, saved, pass, trained, seen, bounds>>
    BY DEF GiveUp
  <2> QED BY <1>1, <1>2, <2>2, <2>3, <2>4 DEF IInv, TypeOK, Ended
<1>5. TrainedOnce'
  <2>1. trained \cap (left' \cup PromptsOf(acc')) = {} BY <1>1, PromptsApart
  <2> QED BY <2>1 DEF IInv, TrainedOnce
<1> QED BY <1>4, <1>5 DEF IInv, SavedApart, Accumulated

LEMMA FillBatchIInv ==
  ASSUME IInv, NEW B \in SUBSET left, NEW K \in SUBSET B, NEW S \in SUBSET K, FillBatch(B, K, S)
  PROVE  IInv'
<1> USE DEF FillBatch, Cleared, bounds
<1>1. pc = "loop" /\ left' = left \ B /\ Draw(B) BY DEF Draw
<1>2. /\ raw' \subseteq Group /\ left' \subseteq left
      /\ RawOfStep' /\ acc \subseteq raw' /\ Groups(B) \subseteq raw'
  BY <1>1, DrawRaw
<1>3. Groups(S) \subseteq Groups(B) /\ Groups(S) \subseteq Groups(K) BY DEF Groups
<1>4. TypeOK' BY <1>1, <1>2, <1>3, GroupsOf DEF IInv, TypeOK
<1>5. TrainedOnce'
  <2>1. trained \cap (left' \cup PromptsOf(batch')) = {} BY <1>1, <1>3, PromptsApart
  <2> QED BY <2>1 DEF TrainedOnce, PromptsOf
<1>6. Accumulated' BY <1>2, <1>3 DEF Accumulated
<1> QED BY <1>4, <1>5, <1>6 DEF IInv, SavedApart

LEMMA EndOfPassIInv == ASSUME IInv, EndOfPass PROVE IInv'
<1> USE DEF EndOfPass, Cleared, bounds
<1>1. TypeOK' BY DEF IInv, TypeOK, Ended
<1>2. TrainedOnce' BY DEF TrainedOnce
<1>3. Accumulated' BY DEF Accumulated
<1> QED BY <1>1, <1>2, <1>3 DEF IInv, SavedApart

LEMMA TrainIInv == ASSUME IInv, Train PROVE IInv'
<1> USE DEF Train, sampling, bounds
<1>1. /\ acc = {} /\ numPrompt = 0 /\ numGen = 0
      /\ \A g \in batch : g.prompt \notin left /\ g \in Group
  BY DEF IInv, Accumulated, RawOfStep, TypeOK
<1>2. PromptsOf(batch) \subseteq Prompt /\ PromptsOf(batch) \cap left = {}
  BY <1>1 DEF PromptsOf, Group
<1>3. trained' \cap left = {} BY <1>2 DEF IInv, TrainedOnce
<1>4. TypeOK'
  <2>1. PromptsOf(raw) \subseteq Prompt BY DEF PromptsOf, Group, IInv, TypeOK
  <2>2. trained' \subseteq Prompt /\ seen' \subseteq Prompt BY <1>2, <2>1 DEF IInv, TypeOK
  <2>3. saved' \in Checkpoint \cup {NoSave} BY <2>2 DEF IInv, TypeOK, Checkpoint
  <2> QED BY <2>2, <2>3 DEF IInv, TypeOK, Ended
<1>5. TrainedOnce' BY <1>1, <1>3 DEF TrainedOnce, PromptsOf
<1>6. Accumulated' BY <1>1 DEF Accumulated
<1>7. SavedApart' BY <1>3 DEF IInv, SavedApart
<1> QED BY <1>4, <1>5, <1>6, <1>7 DEF IInv

LEMMA ResumeIInv ==
  ASSUME IInv, Resume, filterGroups' = filterGroups,
         crashes' \in 0..MaxCrashes, relaunches' \in 0..MaxRelaunches
  PROVE  IInv'
<1> USE DEF Resume, Cleared
<1>1. TypeOK' BY DEF IInv, TypeOK, Checkpoint
<1>2. TrainedOnce' BY DEF IInv, TrainedOnce, SavedApart, PromptsOf
<1>3. Accumulated' BY DEF Accumulated
<1> QED BY <1>1, <1>2, <1>3 DEF IInv, SavedApart

LEMMA CrashIInv == ASSUME IInv, Crash PROVE IInv'
BY ConfigAssumption
   DEF IInv, Crash, TypeOK, TrainedOnce, Accumulated, SavedApart, sampling, PromptsOf

LEMMA NextIInv == IInv /\ [Next]_vars => IInv'
<1> SUFFICES ASSUME IInv, [Next]_vars PROVE IInv'
  OBVIOUS
<1>1. CASE Loop
  BY <1>1, TakeAllIInv, KeepSamplingIInv, GiveUpIInv, FillBatchIInv, EndOfPassIInv, TrainIInv
     DEF Loop, Sample
<1>2. CASE Crash BY <1>2, CrashIInv
<1>3. CASE Restart BY <1>3, ResumeIInv DEF Restart, bounds, IInv, TypeOK
<1>4. CASE Relaunch
  <2>1. relaunches' \in 0..MaxRelaunches
    BY <1>4, ConfigAssumption DEF Relaunch, IInv, TypeOK
  <2> QED BY <1>4, <2>1, ResumeIInv DEF Relaunch, IInv, TypeOK
<1>5. CASE UNCHANGED vars
  BY <1>5 DEF vars, sampling, bounds, IInv, TypeOK, TrainedOnce, Accumulated, SavedApart, RawOfStep, PromptsOf
<1> QED BY <1>1, <1>2, <1>3, <1>4, <1>5 DEF Next

LEMMA LoopInv == Spec => []IInv
BY InitIInv, NextIInv, PTL DEF Spec

\* For any data, batch sizes, filter settings, checkpoint schedule, kills and
\* relaunches: with the filter a training batch has exactly train_batch_size
\* groups, no group id occurs twice in it, and all its groups were generated in
\* the step (ray_trainer.py:1245-1345).
THEOREM BatchesAreWhole == Spec => []BatchIsComplete
<1>1. ASSUME IInv PROVE BatchIsComplete
  <2> SUFFICES ASSUME pc = "train"
               PROVE  /\ filterGroups => Cardinality(batch) = TrainBatchSize
                      /\ \A g, h \in batch : g # h => <<g.step, g.prompt>> # <<h.step, h.prompt>>
                      /\ \A g \in batch : g.step = step /\ g.prompt \notin left
    BY DEF BatchIsComplete
  <2>1. \A g \in batch : g \in Group /\ g.step = step /\ g.pass = pass /\ g.prompt \notin left
    BY <1>1 DEF IInv, TypeOK, Accumulated, RawOfStep
  <2>2. \A g, h \in batch : g # h => g.prompt # h.prompt BY <2>1 DEF Group
  <2> QED BY <1>1, <2>1, <2>2 DEF IInv, Accumulated
<1> QED BY LoopInv, <1>1, PTL

\* The raw statistics of a step are of its own generation batches, with and
\* without the filter: none is left over from an earlier step, and what is
\* trained on is among what they count.
THEOREM StatisticsOfTheStep == Spec => []RawIsExact
<1>1. IInv => RawIsExact BY DEF IInv, Accumulated, RawOfStep, RawIsExact, PromptsOf
<1> QED BY LoopInv, <1>1, PTL

\* The weights see a prompt at most once in a pass over the data, whatever is
\* killed and resumed: the data position of a checkpoint is that of its weights.
THEOREM PromptsSeenOnce == Spec => []TrainedOnce
<1>1. IInv => TrainedOnce BY DEF IInv
<1> QED BY LoopInv, <1>1, PTL

-------------------------------------------------------------------------------
(* No prompt is skipped *)

\* Where the prompts drawn are accounted for: by the steps of the weights or by the
\* record of the step under way, and in a checkpoint, which has no record, by the
\* former alone.
Covered ==
  /\ NoPromptIsSkipped
  /\ pc = "loop" /\ numGen = 0 => PromptsOf(raw) \subseteq seen
  /\ pc = "train" /\ ~filterGroups => batch = raw
  /\ saved # NoSave => Prompt \ saved.left = saved.seen /\ (~filterGroups => saved.trained = saved.seen)

LEMMA InitCovered == Init => Covered
BY DEF Init, Covered, NoPromptIsSkipped, PromptsOf

LEMMA DrawCovers ==
  ASSUME IInv, Covered, NEW B \in SUBSET left, Draw(B), seen' = seen, trained' = trained,
         filterGroups' = filterGroups
  PROVE  NoPromptIsSkipped'
<1>1. pc = "loop" /\ left' = left \ B /\ B \subseteq Prompt BY DEF Draw, IInv, TypeOK
<1>2. PromptsOf(Groups(B)) = B
  <2>1. \A p \in B : /\ [prompt |-> p, pass |-> pass, step |-> step] \in Groups(B)
                     /\ [prompt |-> p, pass |-> pass, step |-> step].prompt = p
    BY DEF Groups
  <2>2. \A p \in B : p \in PromptsOf(Groups(B)) BY <2>1, Zenon DEF PromptsOf
  <2>3. \A p \in PromptsOf(Groups(B)) : p \in B BY DEF PromptsOf, Groups
  <2> QED BY <2>2, <2>3
<1>3. Prompt \ left' = (Prompt \ left) \cup B BY <1>1
<1>4. CASE acc = {} /\ numPrompt = 0 /\ numGen = 0
  <2>1. raw' = Groups(B) /\ PromptsOf(raw) \subseteq seen BY <1>1, <1>4 DEF Draw, Covered
  <2> QED BY <1>2, <1>3, <2>1 DEF Covered, NoPromptIsSkipped
<1>5. CASE ~(acc = {} /\ numPrompt = 0 /\ numGen = 0)
  <2>1. raw' = raw \cup Groups(B) BY <1>5 DEF Draw
  <2>2. PromptsOf(raw') = PromptsOf(raw) \cup B BY <1>2, <2>1 DEF PromptsOf
  <2> QED BY <1>3, <2>2 DEF Covered, NoPromptIsSkipped
<1> QED BY <1>4, <1>5

LEMMA NextCovered == ASSUME IInv, Covered, [Next]_vars PROVE Covered'
<1>1. ASSUME NEW B \in SUBSET left, TakeAll(B) PROVE Covered'
  <2>1. NoPromptIsSkipped' BY <1>1, DrawCovers DEF TakeAll, bounds
  <2>2. pc = "loop" /\ numGen = 0 BY <1>1 DEF TakeAll, Draw, IInv, Accumulated
  <2>3. acc = {} /\ numPrompt = 0 BY <2>2 DEF IInv, Accumulated
  <2>4. raw' = Groups(B) BY <1>1, <2>2, <2>3 DEF TakeAll, Draw
  <2> QED BY <1>1, <2>1, <2>4 DEF TakeAll, bounds, Covered
<1>2. ASSUME NEW B \in SUBSET left, NEW K \in SUBSET B, KeepSampling(B, K) \/ GiveUp(B, K) PROVE Covered'
  <2>1. NoPromptIsSkipped' BY <1>2, DrawCovers DEF KeepSampling, GiveUp, bounds
  <2>2. pc' = "failed" \/ numGen' # 0 BY <1>2 DEF KeepSampling, GiveUp, IInv, TypeOK
  <2>3. filterGroups /\ UNCHANGED <<saved, filterGroups>> BY <1>2 DEF KeepSampling, GiveUp, bounds
  <2> QED BY <2>1, <2>2, <2>3 DEF Covered
<1>3. ASSUME NEW B \in SUBSET left, NEW K \in SUBSET B, NEW S \in SUBSET K, FillBatch(B, K, S) PROVE Covered'
  <2>1. NoPromptIsSkipped' BY <1>3, DrawCovers DEF FillBatch, bounds
  <2>2. pc' = "train" /\ filterGroups /\ UNCHANGED <<saved, filterGroups>> BY <1>3 DEF FillBatch, bounds
  <2> QED BY <2>1, <2>2 DEF Covered
<1>4. CASE EndOfPass
  <2>1. PromptsOf({}) = {} BY DEF PromptsOf
  <2> QED BY <1>4, <2>1 DEF EndOfPass, bounds, Covered, NoPromptIsSkipped
<1>5. CASE Train
  <2>1. pc = "train" /\ pc' # "train" /\ trained' = trained \cup PromptsOf(batch) /\ seen' = seen \cup PromptsOf(raw)
        /\ UNCHANGED <<left, raw, filterGroups>>
    BY <1>5 DEF Train, sampling, bounds
  <2>2. ~filterGroups => trained' = seen' BY <2>1 DEF Covered, NoPromptIsSkipped
  <2>3. Prompt \ left = seen' BY <2>1 DEF Covered, NoPromptIsSkipped
  <2>4. NoPromptIsSkipped' BY <2>1, <2>2, <2>3 DEF NoPromptIsSkipped
  <2>5. \/ saved' = saved
        \/ saved'.left = left /\ saved'.trained = trained' /\ saved'.seen = seen'
    BY <1>5 DEF Train
  <2> QED BY <2>1, <2>2, <2>3, <2>4, <2>5 DEF Covered
<1>6. ASSUME Resume, filterGroups' = filterGroups PROVE Covered'
  <2>1. pc' = "loop" /\ raw' = {} /\ saved' = saved BY <1>6 DEF Resume
  <2>2. PromptsOf({}) = {} BY DEF PromptsOf
  <2>3. CASE saved = NoSave
    <3>1. left' = Prompt /\ trained' = {} /\ seen' = {} BY <1>6, <2>3 DEF Resume
    <3> QED BY <1>6, <2>1, <2>2, <2>3, <3>1 DEF Covered, NoPromptIsSkipped
  <2>4. CASE saved # NoSave
    <3>1. left' = saved.left /\ trained' = saved.trained /\ seen' = saved.seen
      BY <1>6, <2>4 DEF Resume
    <3> QED BY <1>6, <2>1, <2>2, <2>4, <3>1 DEF Covered, NoPromptIsSkipped
  <2> QED BY <2>3, <2>4
<1>7. CASE Restart \/ Relaunch BY <1>6, <1>7 DEF Restart, Relaunch, bounds
<1>8. CASE Crash BY <1>8 DEF Crash, sampling, Covered, NoPromptIsSkipped
<1>9. CASE UNCHANGED vars BY <1>9 DEF vars, sampling, bounds, Covered, NoPromptIsSkipped
<1> QED BY <1>1, <1>2, <1>3, <1>4, <1>5, <1>7, <1>8, <1>9 DEF Next, Loop, Sample

\* However a run is killed and resumed, each prompt drawn in a pass was drawn for
\* a step the weights have seen or for the one under way: no checkpoint is taken
\* while groups are pending, and none has the dataloader ahead of its weights.
THEOREM NoPromptSkipped == Spec => []NoPromptIsSkipped
<1>1. IInv /\ Covered /\ [Next]_vars => Covered' BY NextCovered
<1>2. Covered => NoPromptIsSkipped BY DEF Covered
<1> QED BY LoopInv, InitCovered, <1>1, <1>2, PTL DEF Spec

-------------------------------------------------------------------------------
(* The search for groups *)

\* The record grows by one generation batch at a time, and as long as fit goes
\* on sampling no more than MaxGenBatches have been drawn.
Bounded ==
  /\ IsFiniteSet(raw)
  /\ pc = "loop" /\ numGen # 0 => Cardinality(raw) <= numGen * GenBatchSize
  /\ pc = "loop" /\ MaxGenBatches > 0 => numGen <= MaxGenBatches
  /\ SearchIsBounded

SInv == IInv /\ Bounded

LEMMA OneMore ==
  ASSUME NEW a \in Nat, NEW b \in Nat, NEW g \in Nat, a <= b
  PROVE  a * g + g = (a + 1) * g /\ (a + 1) * g <= (b + 1) * g /\ g <= (b + 1) * g
OBVIOUS

\* A generation batch has GenBatchSize groups.
LEMMA GroupsCount ==
  ASSUME NEW B, IsFiniteSet(B)
  PROVE  IsFiniteSet(Groups(B)) /\ Cardinality(Groups(B)) <= Cardinality(B)
<1> DEFINE f == [p \in B |-> [prompt |-> p, pass |-> pass, step |-> step]]
<1>1. f \in Surjection(B, Groups(B)) BY DEF Surjection, Groups
<1> QED BY <1>1, FS_Surjection

\* One more batch in the record, and the record is started anew or continued.
LEMMA DrawCount ==
  ASSUME SInv, NEW B \in SUBSET left, Draw(B)
  PROVE  /\ IsFiniteSet(raw') /\ Cardinality(raw') \in Nat
         /\ Cardinality(raw') <= (numGen + 1) * GenBatchSize
<1>1. pc = "loop" /\ Cardinality(B) = GenBatchSize /\ numGen \in Nat /\ GenBatchSize \in Nat
  BY DataAssumption, FS_CardinalityType DEF Draw, SInv, IInv, TypeOK
<1>2. IsFiniteSet(B) BY DataAssumption, FS_Subset DEF SInv, IInv, TypeOK
<1>3. IsFiniteSet(Groups(B)) /\ Cardinality(Groups(B)) \in Nat /\ Cardinality(Groups(B)) <= GenBatchSize
  BY <1>1, <1>2, GroupsCount, FS_CardinalityType
<1>4. CASE numGen = 0
  <2>1. raw' = Groups(B) BY <1>1, <1>4 DEF Draw, SInv, IInv, Accumulated
  <2>2. (numGen + 1) * GenBatchSize = GenBatchSize BY <1>1, <1>4
  <2> QED BY <1>3, <2>1, <2>2
<1>5. CASE numGen # 0
  <2>1. raw' = raw \cup Groups(B) BY <1>5 DEF Draw
  <2>2. IsFiniteSet(raw) /\ Cardinality(raw) \in Nat /\ Cardinality(raw) <= numGen * GenBatchSize
    BY <1>1, <1>5, FS_CardinalityType DEF SInv, Bounded
  <2>3. IsFiniteSet(raw') /\ Cardinality(raw') \in Nat
    BY <1>3, <2>1, <2>2, FS_Union, FS_CardinalityType
  <2>4. Cardinality(raw') <= Cardinality(raw) + Cardinality(Groups(B))
    <3>1. /\ IsFiniteSet(raw \cap Groups(B))
          /\ Cardinality(raw') = Cardinality(raw) + Cardinality(Groups(B)) - Cardinality(raw \cap Groups(B))
      BY <1>3, <2>1, <2>2, FS_Union, FS_Intersection
    <3>2. Cardinality(raw \cap Groups(B)) \in Nat BY <3>1, FS_CardinalityType
    <3> QED BY <1>3, <2>2, <3>1, <3>2
  <2>5. numGen * GenBatchSize + GenBatchSize = (numGen + 1) * GenBatchSize BY <1>1, OneMore
  <2>6. numGen * GenBatchSize \in Nat BY <1>1
  <2> QED BY <1>1, <1>3, <2>2, <2>3, <2>4, <2>5, <2>6
<1> QED BY <1>4, <1>5

\* Whatever follows a draw, the bound on the record holds.
LEMMA DrawBounded ==
  ASSUME SInv, NEW B \in SUBSET left, Draw(B)
  PROVE  SearchIsBounded'
<1> SUFFICES ASSUME MaxGenBatches > 0 PROVE Cardinality(raw') <= (MaxGenBatches + 1) * GenBatchSize
  BY DEF SearchIsBounded
<1>1. numGen \in Nat /\ MaxGenBatches \in Nat /\ numGen <= MaxGenBatches /\ GenBatchSize \in Nat
  BY ConfigAssumption, DataAssumption, FS_CardinalityType DEF SInv, IInv, TypeOK, Bounded, Draw
<1>2. (numGen + 1) * GenBatchSize <= (MaxGenBatches + 1) * GenBatchSize BY <1>1, OneMore
<1>3. (numGen + 1) * GenBatchSize \in Nat /\ (MaxGenBatches + 1) * GenBatchSize \in Nat BY <1>1
<1> QED BY <1>2, <1>3, DrawCount

LEMMA NothingBounded == raw' = {} /\ numGen' = 0 /\ GenBatchSize \in Nat => Bounded'
<1> SUFFICES ASSUME raw' = {}, numGen' = 0, GenBatchSize \in Nat PROVE Bounded'
  OBVIOUS
<1>1. IsFiniteSet(raw') /\ Cardinality(raw') = 0 BY FS_EmptySet
<1>2. MaxGenBatches > 0 => (MaxGenBatches + 1) * GenBatchSize \in Nat BY ConfigAssumption
<1> QED BY <1>1, <1>2, ConfigAssumption DEF Bounded, SearchIsBounded

LEMMA SampleBounded == ASSUME SInv, Sample PROVE Bounded'
<1>1. CASE \E B \in SUBSET left : TakeAll(B)
  <2> PICK B \in SUBSET left : TakeAll(B) BY <1>1
  <2>1. Draw(B) /\ pc' = "train" BY DEF TakeAll
  <2> QED BY <2>1, DrawCount, DrawBounded DEF Bounded
<1>2. CASE \E B \in SUBSET left : \E K \in SUBSET B : KeepSampling(B, K)
  <2> PICK B \in SUBSET left : \E K \in SUBSET B : KeepSampling(B, K) BY <1>2
  <2> PICK K \in SUBSET B : KeepSampling(B, K) OBVIOUS
  <2>1. Draw(B) /\ numGen' = numGen + 1 /\ MoreAllowed BY DEF KeepSampling
  <2>2. MaxGenBatches > 0 => numGen' <= MaxGenBatches
    BY <2>1, ConfigAssumption DEF MoreAllowed, SInv, IInv, TypeOK
  <2> QED BY <2>1, <2>2, DrawCount, DrawBounded DEF Bounded
<1>3. CASE \E B \in SUBSET left : \E K \in SUBSET B : GiveUp(B, K)
  <2> PICK B \in SUBSET left : \E K \in SUBSET B : GiveUp(B, K) BY <1>3
  <2> PICK K \in SUBSET B : GiveUp(B, K) OBVIOUS
  <2>1. Draw(B) /\ pc' = "failed" BY DEF GiveUp
  <2> QED BY <2>1, DrawCount, DrawBounded DEF Bounded
<1>4. CASE \E B \in SUBSET left : \E K \in SUBSET B : \E S \in SUBSET K : FillBatch(B, K, S)
  <2> PICK B \in SUBSET left : \E K \in SUBSET B : \E S \in SUBSET K : FillBatch(B, K, S) BY <1>4
  <2> PICK K \in SUBSET B : \E S \in SUBSET K : FillBatch(B, K, S) OBVIOUS
  <2> PICK S \in SUBSET K : FillBatch(B, K, S) OBVIOUS
  <2>1. Draw(B) /\ pc' = "train" BY DEF FillBatch
  <2> QED BY <2>1, DrawCount, DrawBounded DEF Bounded
<1> QED BY <1>1, <1>2, <1>3, <1>4 DEF Sample

LEMMA NextBounded == SInv /\ [Next]_vars => Bounded'
<1> SUFFICES ASSUME SInv, [Next]_vars PROVE Bounded'
  OBVIOUS
<1>0. GenBatchSize \in Nat BY DataAssumption, FS_CardinalityType
<1>1. CASE Sample BY <1>1, SampleBounded
<1>2. CASE EndOfPass BY <1>0, <1>2, NothingBounded DEF EndOfPass, Cleared
<1>3. CASE Train
  <2>1. numGen' = 0 /\ raw' = raw BY <1>3 DEF Train, sampling, SInv, IInv, Accumulated
  <2> QED BY <2>1, ConfigAssumption DEF SInv, Bounded, SearchIsBounded
<1>4. CASE Crash BY <1>4 DEF Crash, sampling, SInv, Bounded, SearchIsBounded
<1>5. CASE Restart \/ Relaunch BY <1>0, <1>5, NothingBounded DEF Restart, Relaunch, Resume, Cleared
<1>6. CASE UNCHANGED vars BY <1>6 DEF vars, sampling, SInv, Bounded, SearchIsBounded
<1> QED BY <1>1, <1>2, <1>3, <1>4, <1>5, <1>6 DEF Next, Loop

\* Whatever the rewards are, fit gives the search for groups up after one
\* generation batch more than max_num_gen_batches.
THEOREM SearchEnds == Spec => []SearchIsBounded
<1>1. Init => SInv
  <2>1. GenBatchSize \in Nat BY DataAssumption, FS_CardinalityType
  <2>2. ASSUME Init PROVE Bounded
    <3>1. raw = {} /\ numGen = 0 /\ IsFiniteSet(raw) /\ Cardinality(raw) = 0 BY <2>2, FS_EmptySet DEF Init
    <3>2. MaxGenBatches > 0 => (MaxGenBatches + 1) * GenBatchSize \in Nat BY <2>1, ConfigAssumption
    <3> QED BY <3>1, <3>2, ConfigAssumption DEF Bounded, SearchIsBounded
  <2> QED BY <2>2, InitIInv DEF SInv
<1>2. SInv /\ [Next]_vars => SInv' BY NextIInv, NextBounded DEF SInv
<1>3. SInv => SearchIsBounded BY DEF SInv, Bounded
<1> QED BY <1>1, <1>2, <1>3, PTL DEF Spec
-------------------------------------------------------------------------------
(* What a kill costs *)

\* Since the last checkpoint no step was one to save, and the last checkpoint is
\* of a multiple of save_freq or of the last step, after which every step is saved.
Saves ==
  SaveFreq > 0 =>
    /\ LastSave \in Nat
    /\ LastSave <= step - 1
    /\ LastSave % SaveFreq = 0 \/ LastSave >= TotalTrainingSteps
    /\ \A i \in LastSave + 1 .. step - 1 : i % SaveFreq # 0
    /\ LastSave >= TotalTrainingSteps => LastSave = step - 1
    /\ pc = "done" => LastSave = step - 1

LEMMA MultipleHasNoRest == ASSUME NEW m \in Nat, NEW n \in Nat, n > 0 PROVE (n * m) % n = 0
<1> DEFINE b == n * m
           q == b \div n
           r == b % n
<1>1. b \in Nat OBVIOUS
<1>2. q \in Int /\ r \in 0 .. n-1 /\ n * m = n * q + r BY <1>1
<1> HIDE DEF q, r, b
<1>3. PICK d \in Int : d = m - q BY <1>2
<1>4. n * d = r BY <1>2, <1>3
<1>5. d >= 1 => n * d >= n OBVIOUS
<1>6. d <= -1 => n * d <= -n OBVIOUS
<1>7. d = 0 BY <1>2, <1>4, <1>5, <1>6
<1>8. r = 0 BY <1>4, <1>7
<1> QED BY <1>8 DEF r, b

LEMMA NextMultiple == ASSUME NEW a \in Nat, NEW n \in Nat, n > 0, a % n = 0 PROVE (a + n) % n = 0
<1>1. PICK k \in Nat : a = n * k
  <2>1. a = n * (a \div n) + (a % n) /\ a \div n \in Nat OBVIOUS
  <2> QED BY <2>1
<1>2. PICK j \in Nat : j = k + 1 OBVIOUS
<1>3. a + n = n * j BY <1>1, <1>2
<1>4. (n * j) % n = 0 BY MultipleHasNoRest
<1> QED BY <1>3, <1>4, Zenon

LEMMA TotalType == TotalTrainingSteps \in Nat
<1>1. /\ Cardinality(Prompt) \in Nat /\ GenBatchSize \in Nat /\ GenBatchSize > 0
      /\ TotalEpochs \in Nat /\ TotalSteps \in Nat
  BY DataAssumption, ConfigAssumption, FS_CardinalityType
<1>2. Cardinality(Prompt) \div GenBatchSize \in Nat BY <1>1
<1>3. (Cardinality(Prompt) \div GenBatchSize) * TotalEpochs \in Nat BY <1>1, <1>2
<1> QED BY <1>1, <1>3 DEF TotalTrainingSteps

LEMMA InitSaves == Init => Saves
<1> SUFFICES ASSUME Init, SaveFreq > 0 PROVE Saves
  BY DEF Saves
<1>1. LastSave = 0 /\ step = 1 /\ pc = "loop" BY DEF Init, LastSave
<1>2. 0 % SaveFreq = 0 BY ConfigAssumption
<1> QED BY <1>1, <1>2, TotalType DEF Saves

LEMMA TrainSaves == ASSUME IInv, Saves, SaveFreq > 0, Train PROVE Saves'
<1> USE TotalType, ConfigAssumption
<1>1. step \in Nat \ {0} /\ pc = "train" /\ step' = step + 1 /\ SaveFreq \in Nat
  BY DEF IInv, TypeOK, Train
<1>2. pc' = IF step >= TotalTrainingSteps THEN "done" ELSE "loop" BY DEF Train, IsLastStep
<1>3. TotalTrainingSteps' = TotalTrainingSteps BY DEF TotalTrainingSteps
<1>4. CASE SaveDue
  <2>1. saved' = [step |-> step, left |-> left, pass |-> pass, trained |-> trained', seen |-> seen'] BY <1>4 DEF Train
  <2>2. LastSave' = step
    <3>1. trained' \subseteq Prompt /\ seen' \subseteq Prompt BY TrainIInv DEF IInv, TypeOK
    <3>2. saved' \in Checkpoint BY <1>1, <2>1, <3>1 DEF Checkpoint, IInv, TypeOK
    <3> QED BY <2>1, <3>2, NoSaveAssumption DEF LastSave
  <2>3. step % SaveFreq = 0 \/ step >= TotalTrainingSteps BY <1>4 DEF SaveDue, IsLastStep
  <2> QED BY <1>1, <1>2, <1>3, <2>2, <2>3 DEF Saves
<1>5. CASE ~SaveDue
  <2>1. LastSave' = LastSave BY <1>5 DEF Train, LastSave
  <2>2. step < TotalTrainingSteps /\ step % SaveFreq # 0 BY <1>1, <1>5 DEF SaveDue, IsLastStep
  <2>3. /\ LastSave \in Nat /\ LastSave <= step - 1
        /\ LastSave % SaveFreq = 0 \/ LastSave >= TotalTrainingSteps
        /\ \A i \in LastSave + 1 .. step - 1 : i % SaveFreq # 0
    BY <1>1 DEF Saves
  <2>4. \A i \in LastSave + 1 .. step : i % SaveFreq # 0
    <3> TAKE i \in LastSave + 1 .. step
    <3>1. i = step \/ i \in LastSave + 1 .. step - 1 BY <1>1, <2>3
    <3> QED BY <2>2, <2>3, <3>1
  <2>5. ~(LastSave >= TotalTrainingSteps) BY <1>1, <2>2, <2>3
  <2>6. step' - 1 = step /\ pc' = "loop" BY <1>1, <1>2, <2>2
  <2> QED BY <1>1, <1>3, <2>1, <2>3, <2>4, <2>5, <2>6 DEF Saves
<1> QED BY <1>4, <1>5

LEMMA NextSaves == ASSUME IInv, Saves, [Next]_vars PROVE Saves'
<1> SUFFICES ASSUME SaveFreq > 0 PROVE Saves'
  BY DEF Saves
<1>0. TotalTrainingSteps' = TotalTrainingSteps /\ step \in Nat BY DEF TotalTrainingSteps, IInv, TypeOK
<1>1. CASE Sample
  <2>1. /\ pc = "loop" /\ pc' \in {"loop", "train", "failed"} /\ step' = step /\ saved' = saved
    BY <1>1 DEF Sample, TakeAll, KeepSampling, GiveUp, FillBatch, Draw
  <2> QED BY <1>0, <2>1 DEF Saves, LastSave
<1>2. CASE EndOfPass
  <2>1. pc = "loop" /\ pc' \in {"loop", "exhausted"} /\ step' = step /\ saved' = saved
    BY <1>2 DEF EndOfPass
  <2> QED BY <1>0, <2>1 DEF Saves, LastSave
<1>3. CASE Train BY <1>3, TrainSaves
<1>4. CASE Crash BY <1>0, <1>4 DEF Crash, Saves, LastSave
<1>5. CASE Restart \/ Relaunch
  <2>1. pc' = "loop" /\ saved' = saved /\ step' = LastSave + 1
    BY <1>5 DEF Restart, Relaunch, Resume, LastSave
  <2>2. LastSave' = LastSave /\ LastSave \in Nat BY <2>1 DEF LastSave, Saves
  <2> QED BY <1>0, <2>1, <2>2 DEF Saves
<1>6. CASE UNCHANGED vars BY <1>0, <1>6 DEF vars, Saves, LastSave
<1> QED BY <1>1, <1>2, <1>3, <1>4, <1>5, <1>6 DEF Next, Loop

\* A kill, the end of the data or a search given up costs at most save_freq steps,
\* whatever was killed and resumed before, and a run that reaches its last step has
\* it in a checkpoint.
THEOREM LittleLost == Spec => []LittleIsLost
<1>1. ASSUME IInv, Saves PROVE LittleIsLost
  <2> SUFFICES ASSUME SaveFreq > 0 PROVE step - 1 - LastSave < SaveFreq
    BY <1>1 DEF LittleIsLost, Saves
  <2>1. /\ SaveFreq \in Nat /\ LastSave \in Nat /\ step \in Nat /\ LastSave <= step - 1
        /\ \A i \in LastSave + 1 .. step - 1 : i % SaveFreq # 0
    BY <1>1, ConfigAssumption DEF IInv, TypeOK, Saves
  <2>2. CASE LastSave = step - 1 BY <2>1, <2>2
  <2>3. CASE LastSave % SaveFreq = 0
    <3>1. (LastSave + SaveFreq) % SaveFreq = 0 BY <2>1, <2>3, NextMultiple
    <3>2. LastSave + SaveFreq \notin LastSave + 1 .. step - 1 BY <2>1, <3>1
    <3> QED BY <2>1, <3>2
  <2> QED BY <1>1, <2>2, <2>3 DEF Saves
<1>2. Init => IInv /\ Saves BY InitIInv, InitSaves
<1>3. IInv /\ Saves /\ [Next]_vars => IInv' /\ Saves' BY NextIInv, NextSaves
<1> QED BY <1>1, <1>2, <1>3, PTL DEF Spec
===============================================================================
