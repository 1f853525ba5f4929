-------------------------- MODULE PolicyUpdate_proofs --------------------------
(***************************************************************************)
(* Theorems about PolicyUpdate, for any number of ranks, steps and         *)
(* mini-batches: the shards of the model agree wherever they are put       *)
(* together.  Between two collectives some ranks are ahead of others, so   *)
(* the invariant compares where each of them will be when it has caught up. *)
(***************************************************************************)
EXTENDS PolicyUpdate, Sums_proofs

Places == {"idle", "enter", "plan", "split", "forward", "result", "backward", "clip", "step",
           "finish", "returned", "raised"}

Typed ==
  /\ driver \in {"ready", "waiting", "emitted", "failed", "done"}
  /\ pc \in [Ranks -> Places]
  /\ mini \in [Ranks -> Nat] /\ count \in [Ranks -> Nat] /\ ticks \in [Ranks -> Nat]
  /\ finite \in [Ranks -> BOOLEAN]
  /\ weights = [r \in Ranks |-> weights[r]]

\* Between two updates the ranks are idle; the monitor probe never gets to a gradient.
Phases ==
  /\ driver \in {"ready", "emitted", "done"} => AllAt("idle")
  /\ config.monitor => \A r \in Ranks : count[r] = 0 /\ pc[r] \notin {"backward", "clip", "step", "finish"}

\* The weights of a rank once it has done the step it is at, and the mini-batches
\* it has then been through and applied; the learning rate it came with.
Applies(r) == pc[r] = "step" /\ finite[r]
After(r) == IF Applies(r) THEN Append(weights[r], <<Step, mini[r]>>) ELSE weights[r]
Applied(r) == IF pc[r] = "enter" THEN 0 ELSE IF Applies(r) THEN count[r] + 1 ELSE count[r]
Through(r) ==
  IF pc[r] = "enter" THEN 0
  ELSE IF pc[r] \in {"step", "finish"} \/ (pc[r] = "returned" /\ ~config.monitor)
       THEN mini[r] ELSE mini[r] - 1
CameWith(r) == IF pc[r] = "returned" /\ count[r] > 0 THEN ticks[r] - 1 ELSE ticks[r]
Active(r) == pc[r] \notin {"idle", "raised"}

Agree ==
  \A r, q \in Ranks :
    /\ finite[r] = finite[q] /\ After(r) = After(q) /\ CameWith(r) = CameWith(q)
    /\ Active(r) /\ Active(q) => Applied(r) = Applied(q) /\ Through(r) = Through(q)

IInv == Typed /\ Phases /\ Agree

-------------------------------------------------------------------------------
LEMMA InitIInv == Init => IInv
<1> SUFFICES ASSUME Init PROVE IInv
  OBVIOUS
<1>1. Typed BY DEF Init, Typed, Places
<1>2. Phases BY DEF Init, Phases, AllAt
<1>3. Agree BY DEF Init, Agree, Active, After, CameWith, Applies
<1> QED BY <1>1, <1>2, <1>3 DEF IInv

\* What no rank shows differently stays agreed.
LEMMA Kept ==
  ASSUME Agree, finite' = finite,
         \A q \in Ranks : /\ After(q)' = After(q) /\ CameWith(q)' = CameWith(q)
                          /\ Active(q)' => /\ Active(q) /\ Applied(q)' = Applied(q)
                                           /\ Through(q)' = Through(q)
  PROVE  Agree'
<1> SUFFICES ASSUME NEW r \in Ranks, NEW q \in Ranks
             PROVE  /\ finite'[r] = finite'[q] /\ After(r)' = After(q)' /\ CameWith(r)' = CameWith(q)'
                    /\ Active(r)' /\ Active(q)' => Applied(r)' = Applied(q)' /\ Through(r)' = Through(q)'
  BY DEF Agree
<1> QED BY DEF Agree

\* A step of one rank that applies nothing and counts nothing.
LEMMA Moves ==
  ASSUME IInv, NEW r \in Ranks, NEW place \in Places,
         driver = "waiting", UNCHANGED <<drivers, mini, finite, weights, ticks, count>>,
         Goto(r, place),
         \/ pc[r] = "plan" /\ place \in {"split", "forward"}
         \/ pc[r] = "result" /\ place = "backward" /\ ~config.monitor
         \/ pc[r] \in {"enter", "result"} /\ place = "raised"
  PROVE  IInv'
<1> USE DEF drivers, Goto
<1>1. pc' = [pc EXCEPT ![r] = place] /\ pc \in [Ranks -> Places] BY DEF IInv, Typed
<1>2. Typed' BY <1>1 DEF IInv, Typed
<1>3. Phases' BY <1>1 DEF IInv, Phases, Typed
<1>4. \A q \in Ranks : After(q)' = After(q)
  BY <1>1 DEF After, Applies, Step
<1>5. \A q \in Ranks : CameWith(q)' = CameWith(q) BY <1>1 DEF CameWith
<1>6. \A q \in Ranks : Active(q)' => Active(q) /\ Applied(q)' = Applied(q) /\ Through(q)' = Through(q)
  BY <1>1 DEF Active, Applied, Through, Applies
<1>7. Agree' BY <1>4, <1>5, <1>6, Kept DEF IInv
<1> QED BY <1>2, <1>3, <1>7 DEF IInv

\* A collective that brings all ranks from one place to others.
LEMMA MovesAll ==
  ASSUME IInv, NEW place \in Places,
         driver = "waiting", UNCHANGED <<drivers, mini, finite, weights, ticks, count>>, AllAt(place),
         \/ place \in {"split", "forward"}
         \/ place = "backward" /\ ~config.monitor,
         pc' \in [Ranks -> {"forward", "result", "clip"}],
         config.monitor => pc' \in [Ranks -> {"forward", "result"}]
  PROVE  IInv'
<1> USE DEF drivers, AllAt
<1>1. Typed' BY DEF IInv, Typed, Places
<1>2. Phases' BY DEF IInv, Phases, Typed
<1>3. \A q \in Ranks : pc[q] = place /\ pc'[q] \in {"forward", "result", "clip"} OBVIOUS
<1>4. \A q \in Ranks : After(q)' = After(q) BY <1>3 DEF After, Applies
<1>5. \A q \in Ranks : CameWith(q)' = CameWith(q) BY <1>3 DEF CameWith
<1>6. \A q \in Ranks : Active(q) /\ Applied(q)' = Applied(q) /\ Through(q)' = Through(q)
  BY <1>3 DEF Active, Applied, Through, Applies
<1>7. Agree' BY <1>4, <1>5, <1>6, Kept DEF IInv
<1> QED BY <1>1, <1>2, <1>7 DEF IInv

LEMMA ClipIInv == ASSUME IInv, driver = "waiting", ClipGradNorm PROVE IInv'
<1> USE DEF drivers, AllAt, AllGoto
<1>1. /\ \A r \in Ranks : pc[r] = "clip" /\ pc'[r] = "step" /\ finite'[r] = (\A q \in Ranks : ~bad[q])
      /\ pc' = [r \in Ranks |-> "step"] /\ finite' \in [Ranks -> BOOLEAN]
      /\ UNCHANGED <<drivers, mini, weights, ticks, count>>
  BY DEF ClipGradNorm, GlobalNormIsFinite
<1>2. \A r, q \in Ranks : /\ weights[r] = weights[q] /\ count[r] = count[q] /\ mini[r] = mini[q]
                          /\ ticks[r] = ticks[q]
  <2> TAKE r, q \in Ranks
  <2>1. pc[r] = "clip" /\ pc[q] = "clip" /\ mini[r] \in Nat /\ mini[q] \in Nat BY <1>1 DEF IInv, Typed
  <2>2. /\ After(r) = After(q) /\ CameWith(r) = CameWith(q)
        /\ Applied(r) = Applied(q) /\ Through(r) = Through(q)
    BY <2>1 DEF IInv, Agree, Active
  <2>3. mini[r] - 1 = mini[q] - 1 BY <2>1, <2>2 DEF Through
  <2> QED BY <2>1, <2>2, <2>3 DEF After, CameWith, Applied, Applies
<1>3. Typed' BY <1>1 DEF IInv, Typed, Places
<1>4. Phases' BY <1>1 DEF IInv, Phases
<1>5. \A r, q \in Ranks : finite'[r] = finite'[q] BY <1>1
<1>6. \A r \in Ranks :
        /\ CameWith(r)' = ticks[r] /\ Through(r)' = mini[r]
        /\ After(r)' = IF finite'[r] THEN Append(weights[r], <<Step, mini[r]>>) ELSE weights[r]
        /\ Applied(r)' = IF finite'[r] THEN count[r] + 1 ELSE count[r]
  BY <1>1 DEF After, CameWith, Applied, Through, Applies, Step
<1>7. Agree'
  <2> SUFFICES ASSUME NEW r \in Ranks, NEW q \in Ranks
               PROVE  /\ finite'[r] = finite'[q] /\ After(r)' = After(q)' /\ CameWith(r)' = CameWith(q)'
                      /\ Applied(r)' = Applied(q)' /\ Through(r)' = Through(q)'
    BY DEF Agree
  <2>1. /\ weights[r] = weights[q] /\ count[r] = count[q] /\ mini[r] = mini[q] /\ ticks[r] = ticks[q]
        /\ finite'[r] = finite'[q]
    BY <1>2, <1>5
  <2>2. After(r)' = After(q)'
    <3>1. CASE finite'[r] BY <1>6, <2>1, <3>1
    <3>2. CASE ~finite'[r] BY <1>6, <2>1, <3>2
    <3> QED BY <3>1, <3>2
  <2>3. Applied(r)' = Applied(q)'
    <3>1. CASE finite'[r] BY <1>6, <2>1, <3>1
    <3>2. CASE ~finite'[r] BY <1>6, <2>1, <3>2
    <3> QED BY <3>1, <3>2
  <2> QED BY <1>6, <2>1, <2>2, <2>3
<1> QED BY <1>3, <1>4, <1>7 DEF IInv

\* A rank applies or skips its mini-batch: it is now where it was going to be.
LEMMA AttemptIInv ==
  ASSUME IInv, driver = "waiting", NEW r \in Ranks, OptimizerStep(r) \/ SkipStep(r)
  PROVE  IInv'
<1> USE DEF drivers, Goto
<1>1. pc[r] = "step" /\ mini[r] \in Nat /\ count[r] \in Nat /\ ~config.monitor /\ UNCHANGED <<drivers, finite, ticks>>
  BY DEF OptimizerStep, SkipStep, AfterAttempt, IInv, Typed, Phases
<1>2. \/ pc' = [pc EXCEPT ![r] = "plan"] /\ mini' = [mini EXCEPT ![r] = @ + 1]
      \/ pc' = [pc EXCEPT ![r] = "finish"] /\ mini' = mini
  BY DEF OptimizerStep, SkipStep, AfterAttempt
<1>3. \/ /\ finite[r] /\ weights' = [weights EXCEPT ![r] = Append(@, <<Step, mini[r]>>)]
         /\ count' = [count EXCEPT ![r] = @ + 1]
      \/ ~finite[r] /\ weights' = weights /\ count' = count
  BY DEF OptimizerStep, SkipStep
<1>4. Typed'
  <2>1. pc' \in [Ranks -> Places] /\ mini' \in [Ranks -> Nat] BY <1>2 DEF IInv, Typed, Places
  <2>2. count' \in [Ranks -> Nat] /\ weights' = [q \in Ranks |-> weights'[q]] BY <1>3 DEF IInv, Typed
  <2> QED BY <1>1, <2>1, <2>2 DEF IInv, Typed
<1>5. Phases' BY <1>1 DEF IInv, Phases
<1>6. /\ \A q \in Ranks \ {r} : /\ pc'[q] = pc[q] /\ mini'[q] = mini[q]
                                /\ count'[q] = count[q] /\ weights'[q] = weights[q]
      /\ pc'[r] \in {"plan", "finish"}
      /\ pc'[r] = "plan" => mini'[r] = mini[r] + 1
      /\ pc'[r] = "finish" => mini'[r] = mini[r]
      /\ finite[r] => weights'[r] = Append(weights[r], <<Step, mini[r]>>) /\ count'[r] = count[r] + 1
      /\ ~finite[r] => weights'[r] = weights[r] /\ count'[r] = count[r]
  BY <1>2, <1>3 DEF IInv, Typed
<1>7. \A q \in Ranks : After(q)' = After(q)
  BY <1>1, <1>6 DEF After, Applies, Step
<1>8. \A q \in Ranks : CameWith(q)' = CameWith(q) BY <1>1, <1>6 DEF CameWith
<1>9. Applied(r)' = Applied(r) /\ Through(r)' = Through(r) /\ Active(r)
  <2>1. Active(r) BY <1>1 DEF Active
  <2>2. Through(r) = mini[r]
    <3>1. pc[r] = "step" BY <1>1
    <3> QED BY <3>1 DEF Through
  <2>3. Through(r)' = mini[r]
    <3>1. CASE pc'[r] = "plan" BY <1>1, <1>6, <3>1 DEF Through
    <3>2. CASE pc'[r] = "finish" BY <1>6, <3>2 DEF Through
    <3> QED BY <1>6, <3>1, <3>2
  <2>4. Applied(r) = IF finite[r] THEN count[r] + 1 ELSE count[r] BY <1>1 DEF Applied, Applies
  <2>5. Applied(r)' = count'[r] BY <1>6 DEF Applied, Applies
  <2> QED BY <1>6, <2>1, <2>2, <2>3, <2>4, <2>5
<1>10. \A q \in Ranks \ {r} : Active(q)' => Active(q) /\ Applied(q)' = Applied(q) /\ Through(q)' = Through(q)
  BY <1>1, <1>6 DEF Applied, Through, Applies, Active
<1>11. Agree' BY <1>1, <1>7, <1>8, <1>9, <1>10, Kept DEF IInv
<1> QED BY <1>4, <1>5, <1>11 DEF IInv

LEMMA EnterIInv == ASSUME IInv, driver = "waiting", NEW r \in Ranks, Enter(r) PROVE IInv'
<1> USE DEF drivers, Goto
<1>1. /\ pc[r] = "enter" /\ count' = [count EXCEPT ![r] = 0] /\ mini' = [mini EXCEPT ![r] = 1]
      /\ UNCHANGED <<drivers, finite, weights, ticks>>
      /\ \E place \in {"raised", "plan"} : pc' = [pc EXCEPT ![r] = place]
  BY DEF Enter
<1>2. Typed' BY <1>1 DEF IInv, Typed, Places
<1>3. Phases' BY <1>1 DEF IInv, Phases, Typed
<1>4. /\ \A q \in Ranks \ {r} : pc'[q] = pc[q] /\ mini'[q] = mini[q] /\ count'[q] = count[q]
      /\ pc'[r] \in {"raised", "plan"} /\ mini'[r] = 1 /\ count'[r] = 0
  BY <1>1 DEF IInv, Typed
<1>5. \A q \in Ranks : After(q)' = After(q) BY <1>1, <1>4 DEF After, Applies, Step
<1>6. \A q \in Ranks : CameWith(q)' = CameWith(q) BY <1>1, <1>4 DEF CameWith
<1>7. \A q \in Ranks \ {r} : Active(q)' => Active(q) /\ Applied(q)' = Applied(q) /\ Through(q)' = Through(q)
  BY <1>1, <1>4 DEF Applied, Through, Applies, Active
<1>8. Active(r) /\ Applied(r)' = Applied(r) /\ (pc'[r] = "plan" => Through(r)' = Through(r))
  BY <1>1, <1>4 DEF Applied, Through, Applies, Active
<1>9. Agree' BY <1>1, <1>4, <1>5, <1>6, <1>7, <1>8, Kept DEF IInv, Active
<1> QED BY <1>2, <1>3, <1>9 DEF IInv

\* A rank is done: its scheduler advances if it applied anything.
LEMMA ReturnIInv ==
  ASSUME IInv, driver = "waiting", NEW r \in Ranks, ReturnOutput(r) \/ ReturnBeforeBackward(r)
  PROVE  IInv'
<1> USE DEF drivers, Goto
<1>1. /\ pc' = [pc EXCEPT ![r] = "returned"] /\ UNCHANGED <<drivers, mini, finite, weights>>
      /\ \/ /\ pc[r] = "finish" /\ count' = count /\ ~config.monitor
            /\ ticks' = [ticks EXCEPT ![r] = AdvancedTicks(r)]
         \/ /\ pc[r] = "result" /\ count' = [count EXCEPT ![r] = 0] /\ ticks' = ticks
            /\ config.monitor /\ count[r] = 0
  BY DEF ReturnOutput, ReturnBeforeBackward, IInv, Phases
<1>2. count[r] \in Nat /\ ticks[r] \in Nat /\ AdvancedTicks(r) \in Nat
  BY DEF IInv, Typed, AdvancedTicks
<1>3. Typed' BY <1>1, <1>2 DEF IInv, Typed, Places
<1>4. Phases' BY <1>1 DEF IInv, Phases, Typed
<1>5. /\ \A q \in Ranks \ {r} : pc'[q] = pc[q] /\ ticks'[q] = ticks[q] /\ count'[q] = count[q]
      /\ pc'[r] = "returned" /\ count'[r] = count[r] /\ pc[r] \in {"finish", "result"}
      /\ pc[r] = "finish" => ticks'[r] = AdvancedTicks(r) /\ ~config.monitor
      /\ pc[r] = "result" => ticks'[r] = ticks[r] /\ count[r] = 0 /\ config.monitor
  BY <1>1 DEF IInv, Typed
<1>6. \A q \in Ranks : After(q)' = After(q) BY <1>1, <1>5 DEF After, Applies, Step
<1>7. CameWith(r)' = CameWith(r) BY <1>2, <1>5 DEF CameWith, AdvancedTicks
<1>8. \A q \in Ranks \ {r} : CameWith(q)' = CameWith(q) BY <1>5 DEF CameWith
<1>9. \A q \in Ranks \ {r} : Active(q)' => Active(q) /\ Applied(q)' = Applied(q) /\ Through(q)' = Through(q)
  BY <1>1, <1>5 DEF Applied, Through, Applies, Active
<1>10. Active(r) /\ Applied(r)' = Applied(r) /\ Through(r)' = Through(r)
  BY <1>1, <1>5 DEF Applied, Through, Applies, Active
<1>11. Agree' BY <1>1, <1>6, <1>7, <1>8, <1>9, <1>10, Kept DEF IInv
<1> QED BY <1>3, <1>4, <1>11 DEF IInv

LEMMA UpdateActorIInv == ASSUME IInv, UpdateActor PROVE IInv'
<1>1. /\ \A r \in Ranks : pc[r] = "idle" /\ pc'[r] = "enter"
      /\ pc' = [r \in Ranks |-> "enter"] /\ driver' = "waiting"
      /\ UNCHANGED <<config, rows, mini, finite, weights, ticks, count>>
  BY DEF UpdateActor, IInv, Phases, AllAt, AllGoto, local
<1>2. Typed' BY <1>1 DEF IInv, Typed, Places
<1>3. Phases' BY <1>1 DEF IInv, Phases
<1>4. \A r \in Ranks : /\ After(r)' = After(r) /\ CameWith(r)' = CameWith(r)
                       /\ Applied(r)' = 0 /\ Through(r)' = 0
  BY <1>1 DEF After, CameWith, Applied, Through, Applies
<1>5. Agree' BY <1>1, <1>4 DEF IInv, Agree
<1> QED BY <1>2, <1>3, <1>5 DEF IInv

LEMMA EmitRowIInv == ASSUME IInv, EmitRow PROVE IInv'
<1>1. /\ \A r \in Ranks : pc[r] = "returned" /\ pc'[r] = "idle"
      /\ pc' = [r \in Ranks |-> "idle"] /\ driver' \in {"emitted", "done", "ready"}
      /\ UNCHANGED <<config, mini, finite, weights, ticks, count>>
  BY DEF EmitRow, Collected, AllAt, AllGoto, local
<1>2. Typed' BY <1>1 DEF IInv, Typed, Places
<1>3. Phases' BY <1>1 DEF IInv, Phases, AllAt
<1>4. \A r, q \in Ranks : ticks[r] = ticks[q]
  <2> TAKE r, q \in Ranks
  <2>1. /\ pc[r] = "returned" /\ pc[q] = "returned"
        /\ ticks[r] \in Nat /\ ticks[q] \in Nat BY <1>1 DEF IInv, Typed
  <2>2. CameWith(r) = CameWith(q) /\ Applied(r) = Applied(q) BY <2>1 DEF IInv, Agree, Active
  <2>3. count[r] = count[q] BY <2>1, <2>2 DEF Applied, Applies
  <2> QED BY <2>1, <2>2, <2>3 DEF CameWith
<1>5. \A r \in Ranks : /\ After(r)' = weights[r] /\ After(r) = weights[r] /\ CameWith(r)' = ticks[r]
                       /\ ~Active(r)'
  BY <1>1 DEF After, CameWith, Applies, Active
<1>6. Agree' BY <1>1, <1>4, <1>5 DEF IInv, Agree
<1> QED BY <1>2, <1>3, <1>6 DEF IInv

\* What the driver does besides leaves the ranks alone.
LEMMA DriverOnlyIInv ==
  ASSUME IInv, UNCHANGED <<config, rows, pc, local>>,
         driver' = "failed" \/ driver' = driver \/ (driver = "emitted" /\ driver' = "ready")
  PROVE  IInv'
<1> USE DEF local
<1>1. Typed' BY DEF IInv, Typed
<1>2. Phases' BY DEF IInv, Phases, AllAt
<1>3. Agree' BY DEF IInv, Agree, After, CameWith, Applied, Through, Applies, Step, Active
<1> QED BY <1>1, <1>2, <1>3 DEF IInv

LEMMA NextIInv == ASSUME IInv, [Next]_vars PROVE IInv'
<1>1. CASE UpdateActor BY <1>1, UpdateActorIInv
<1>2. CASE EmitRow BY <1>2, EmitRowIInv
<1>3. CASE RefuseOutput BY <1>3, DriverOnlyIInv DEF RefuseOutput
<1>4. CASE EmitProbe BY <1>4, DriverOnlyIInv DEF EmitProbe
<1>5. CASE DriverSeesFailure BY <1>5, DriverOnlyIInv DEF DriverSeesFailure
<1>6. CASE UNCHANGED vars BY <1>6, DriverOnlyIInv DEF vars, drivers
<1>7. CASE driver = "waiting" /\ Collective
  <2>1. CASE SplitByTokens
    <3>1. pc' = [r \in Ranks |-> "forward"] BY <2>1 DEF SplitByTokens, AllGoto
    <3> QED BY <1>7, <2>1, <3>1, MovesAll DEF SplitByTokens, Places
  <2>2. CASE ForwardPass
    <3>1. pc' = [r \in Ranks |-> "result"] BY <2>2 DEF ForwardPass, AllGoto
    <3> QED BY <1>7, <2>2, <3>1, MovesAll DEF ForwardPass, Places, local
  <2>3. CASE Backward
    <3>1. pc' \in [Ranks -> {"forward", "result", "clip"}] BY <2>3 DEF Backward
    <3>2. CASE config.monitor
      <4>1. Ranks = {} BY <2>3, <3>2 DEF Backward, AllAt, IInv, Phases
      <4>2. pc' \in [Ranks -> {"forward", "result"}] BY <3>1, <4>1
      <4> QED BY <4>1, UpdateAssumption DEF Ranks
    <3>3. CASE ~config.monitor
      BY <1>7, <2>3, <3>1, <3>3, MovesAll DEF Backward, Places
    <3> QED BY <3>2, <3>3
  <2>4. CASE ClipGradNorm BY <1>7, <2>4, ClipIInv
  <2> QED BY <1>7, <2>1, <2>2, <2>3, <2>4 DEF Collective
<1>8. CASE driver = "waiting" /\ \E r \in Ranks : Rank(r)
  <2>1. PICK r \in Ranks : Rank(r) BY <1>8
  <2>2. CASE Enter(r) BY <1>8, <2>2, EnterIInv
  <2>3. CASE SplitBySize(r) BY <1>8, <2>3, Moves DEF SplitBySize, Places
  <2>4. CASE CountByTokens(r) BY <1>8, <2>4, Moves DEF CountByTokens, Places
  <2>5. CASE UseResult(r) BY <1>8, <2>5, Moves DEF UseResult, Places, local
  <2>6. CASE Raise(r) BY <1>8, <2>6, Moves DEF Raise, Places, local
  <2>7. CASE OptimizerStep(r) \/ SkipStep(r) BY <1>8, <2>7, AttemptIInv
  <2>8. CASE ReturnOutput(r) \/ ReturnBeforeBackward(r) BY <1>8, <2>8, ReturnIInv
  <2> QED BY <2>1, <2>2, <2>3, <2>4, <2>5, <2>6, <2>7, <2>8 DEF Rank
<1> QED BY <1>1, <1>2, <1>3, <1>4, <1>5, <1>6, <1>7, <1>8 DEF Next, Driver

LEMMA Inductive == Spec => []IInv
BY InitIInv, NextIInv, PTL DEF Spec

\* A mini-batch is applied by all ranks or by none, although each decides for
\* itself: where the shards are put together or saved, they are of one model.
THEOREM OneModel == Spec => []ShardsAgree
<1>1. ASSUME IInv PROVE ShardsAgree
  <2> SUFFICES ASSUME AllAt("forward") \/ AllAt("idle"), NEW r \in Ranks, NEW q \in Ranks
               PROVE  weights[r] = weights[q] /\ ticks[r] = ticks[q]
    BY DEF ShardsAgree
  <2>1. After(r) = After(q) /\ CameWith(r) = CameWith(q) BY <1>1 DEF IInv, Agree
  <2>2. pc[r] \in {"forward", "idle"} /\ pc[q] \in {"forward", "idle"} BY DEF AllAt
  <2> QED BY <2>1, <2>2 DEF After, CameWith, Applies
<1> QED BY <1>1, Inductive, PTL
-------------------------------------------------------------------------------
(* Gradients *)

LEMMA MaxOfNaturals ==
  ASSUME NEW M \in Nat, NEW S, S \subseteq 1 .. M, S # {}
  PROVE  Max(S) \in S /\ \A y \in S : Max(S) >= y
<1> DEFINE T == {M - y : y \in S}
<1>1. \A y \in S : y \in Nat /\ M - y \in Nat /\ M - y \in T OBVIOUS
<1>2. T \subseteq Nat /\ T # {} BY <1>1
<1>3. \E x \in T : \A y \in T : x <= y BY <1>2, LeastNat
<1>4. PICK z \in S : \A y \in T : M - z <= y BY <1>3
<1> HIDE DEF T
<1>5. \A y \in S : z >= y
  <2> TAKE y \in S
  <2>1. M - z <= M - y BY <1>1, <1>4
  <2> QED BY <1>1, <2>1
<1> QED BY <1>5 DEF Max

\* At a micro-batch the gradient holds those of its mini-batch before it, after
\* them all of them; a rank counts down from as many as the others.
WithGradient == {"forward", "result", "backward", "clip", "step"}
Upto(r, k) == {<<Step, mini[r], i>> : i \in micro[r] + 1 .. k}
Whole(k) ==
  \A r \in Ranks :
    /\ pc[r] \in WithGradient => grads[r] = Upto(r, k)
    /\ pc[r] \in {"forward", "result", "backward"} => micro[r] \in 1 .. k
    /\ pc[r] \in {"clip", "step"} => micro[r] = 0
    /\ pc[r] = "split" => config.dynamic /\ micro[r] \in 1 .. MaxMicro
    /\ config.dynamic \/ k = MaxMicro
Gradients ==
  /\ micro \in [Ranks -> Nat] /\ grads = [r \in Ranks |-> grads[r]]
  /\ \E k \in 1 .. MaxMicro : Whole(k)

LEMMA InitGradients == Init => Gradients
<1> SUFFICES ASSUME Init PROVE Gradients
  OBVIOUS
<1>1. MaxMicro \in 1 .. MaxMicro BY UpdateAssumption
<1>2. Whole(MaxMicro) BY DEF Init, Whole, WithGradient
<1> QED BY <1>1, <1>2 DEF Init, Gradients

\* A step of one rank: it has no gradient yet, or begins with none, or keeps its own.
LEMMA OneRankGradients ==
  ASSUME Gradients, NEW r \in Ranks, UNCHANGED <<config, rows>>,
         \A q \in Ranks \ {r} : /\ pc'[q] = pc[q] /\ mini'[q] = mini[q]
                                /\ micro'[q] = micro[q] /\ grads'[q] = grads[q],
         micro' \in [Ranks -> Nat], grads' = [q \in Ranks |-> grads'[q]],
         \/ pc'[r] \notin WithGradient \cup {"split"}
         \/ pc[r] = "result" /\ pc'[r] = "backward" /\ UNCHANGED <<mini, micro, grads>>
         \/ pc'[r] = "split" /\ config.dynamic /\ micro'[r] \in 1 .. MaxMicro
         \/ pc'[r] = "forward" /\ ~config.dynamic /\ micro'[r] = MaxMicro /\ grads'[r] = {}
  PROVE  Gradients'
<1>1. PICK k \in 1 .. MaxMicro : Whole(k) BY DEF Gradients
<1>2. MaxMicro \in Nat \ {0} BY UpdateAssumption
<1>3. \A q \in Ranks \ {r} : Upto(q, k)' = Upto(q, k) BY DEF Upto, Step
<1>4. pc[r] = "result" /\ UNCHANGED <<mini, micro, grads>> => Upto(r, k)' = Upto(r, k) BY DEF Upto, Step
<1>5. k = MaxMicro /\ micro'[r] = MaxMicro => Upto(r, k)' = {} BY <1>2 DEF Upto
<1>6. config.dynamic \/ k = MaxMicro BY <1>1 DEF Whole
<1>7. Whole(k)'
  <2> SUFFICES ASSUME NEW q \in Ranks
               PROVE  /\ pc'[q] \in WithGradient => grads'[q] = Upto(q, k)'
                      /\ pc'[q] \in {"forward", "result", "backward"} => micro'[q] \in 1 .. k
                      /\ pc'[q] \in {"clip", "step"} => micro'[q] = 0
                      /\ pc'[q] = "split" => config'.dynamic /\ micro'[q] \in 1 .. MaxMicro
                      /\ config'.dynamic \/ k = MaxMicro
    BY DEF Whole, WithGradient
  <2>1. CASE q # r BY <1>1, <1>3, <2>1 DEF Whole
  <2>2. CASE q = r
    <3>1. CASE pc'[r] \notin WithGradient \cup {"split"} BY <1>6, <2>2, <3>1 DEF WithGradient
    <3>2. CASE pc[r] = "result" /\ pc'[r] = "backward" /\ UNCHANGED <<mini, micro, grads>>
      BY <1>1, <1>4, <2>2, <3>2 DEF Whole, WithGradient
    <3>3. CASE pc'[r] = "split" /\ config.dynamic /\ micro'[r] \in 1 .. MaxMicro
      BY <2>2, <3>3 DEF WithGradient
    <3>4. CASE pc'[r] = "forward" /\ ~config.dynamic /\ micro'[r] = MaxMicro /\ grads'[r] = {}
      BY <1>2, <1>5, <1>6, <2>2, <3>4 DEF WithGradient
    <3> QED BY <3>1, <3>2, <3>3, <3>4
  <2> QED BY <2>1, <2>2
<1> QED BY <1>7 DEF Gradients

LEMMA SplitGradients == ASSUME IInv, Gradients, SplitByTokens PROVE Gradients'
<1> DEFINE S == {micro[q] : q \in Ranks}
<1>1. PICK l \in 1 .. MaxMicro : Whole(l) BY DEF Gradients
<1>2. \A q \in Ranks : pc[q] = "split" BY DEF SplitByTokens, AllAt
<1>3. \A q \in Ranks : config.dynamic /\ micro[q] \in 1 .. MaxMicro BY <1>1, <1>2 DEF Whole
<1>4. MaxMicro \in Nat /\ 0 \in Ranks BY UpdateAssumption DEF Ranks
<1>5. S \subseteq 1 .. MaxMicro /\ S # {} BY <1>3, <1>4
<1> HIDE DEF S
<1>6. PICK k \in 1 .. MaxMicro : k = Max(S) BY <1>4, <1>5, MaxOfNaturals
<1>7. /\ micro' = [r \in Ranks |-> k] /\ grads' = [r \in Ranks |-> {}]
      /\ pc' = [r \in Ranks |-> "forward"] /\ config' = config
  BY <1>6 DEF SplitByTokens, AgreedMicro, AllGoto, S, drivers
<1>8. \A r \in Ranks : Upto(r, k)' = {} BY <1>6, <1>7 DEF Upto
<1>9. Whole(k)' BY <1>3, <1>4, <1>6, <1>7, <1>8 DEF Whole, WithGradient
<1> QED BY <1>6, <1>7, <1>9 DEF Gradients

LEMMA BackwardGradients == ASSUME IInv, Gradients, Backward PROVE Gradients'
<1>1. PICK k \in 1 .. MaxMicro : Whole(k) BY DEF Gradients
<1>2. /\ \A r \in Ranks : pc[r] = "backward"
      /\ grads' = [r \in Ranks |-> grads[r] \union {<<Step, mini[r], micro[r]>>}]
      /\ micro' = [r \in Ranks |-> micro[r] - 1]
      /\ pc' = [r \in Ranks |-> IF micro[r] > 1 THEN "forward" ELSE "clip"]
      /\ UNCHANGED <<config, rows, mini>>
  BY DEF Backward, AllAt, drivers
<1>3. \A r \in Ranks : micro[r] \in 1 .. k /\ grads[r] = Upto(r, k)
  BY <1>1, <1>2 DEF Whole, WithGradient
<1>4. \A r \in Ranks : grads'[r] = Upto(r, k)'
  <2> TAKE r \in Ranks
  <2>1. grads'[r] = Upto(r, k) \union {<<Step, mini[r], micro[r]>>} BY <1>2, <1>3
  <2>2. micro'[r] + 1 .. k = (micro[r] + 1 .. k) \union {micro[r]} BY <1>2, <1>3
  <2>3. Upto(r, k)' = {<<Step, mini[r], i>> : i \in (micro[r] + 1 .. k) \union {micro[r]}}
    BY <1>2, <2>2 DEF Upto, Step
  <2> QED BY <2>1, <2>3 DEF Upto
<1>5. micro' \in [Ranks -> Nat] BY <1>2, <1>3
<1>6. \A r \in Ranks : pc'[r] = "forward" => micro'[r] \in 1 .. k BY <1>2, <1>3
<1>7. \A r \in Ranks : pc'[r] = "clip" => micro'[r] = 0 BY <1>2, <1>3
<1>8. \A r \in Ranks : pc'[r] \in {"forward", "clip"} BY <1>2
<1>9. \A r \in Ranks : config.dynamic \/ k = MaxMicro BY <1>1 DEF Whole
<1>10. Whole(k)' BY <1>2, <1>4, <1>6, <1>7, <1>8, <1>9 DEF Whole
<1> QED BY <1>2, <1>5, <1>10 DEF Gradients

LEMMA NextGradients == ASSUME IInv, Gradients, [Next]_vars PROVE Gradients'
<1> USE DEF drivers, local
<1>1. CASE UpdateActor
  <2>1. pc' = [r \in Ranks |-> "enter"] /\ UNCHANGED <<config, micro, grads>>
    BY <1>1 DEF UpdateActor, AllGoto
  <2> QED BY <2>1 DEF Gradients, Whole, WithGradient
<1>2. CASE EmitRow
  <2>1. pc' = [r \in Ranks |-> "idle"] /\ UNCHANGED <<config, micro, grads>>
    BY <1>2 DEF EmitRow, AllGoto
  <2> QED BY <2>1 DEF Gradients, Whole, WithGradient
<1>3. CASE UNCHANGED <<config, rows, pc, local>>
  BY <1>3 DEF Gradients, Whole, Upto, Step
<1>4. CASE SplitByTokens BY <1>4, SplitGradients
<1>5. CASE Backward BY <1>5, BackwardGradients
<1>6. CASE ForwardPass \/ ClipGradNorm
  <2>1. PICK k \in 1 .. MaxMicro : Whole(k) BY DEF Gradients
  <2>2. /\ UNCHANGED <<config, rows, mini, micro, grads>>
        /\ \A r \in Ranks : \/ pc[r] = "forward" /\ pc'[r] = "result"
                            \/ pc[r] = "clip" /\ pc'[r] = "step"
    BY <1>6 DEF ForwardPass, ClipGradNorm, AllAt, AllGoto
  <2>3. \A r \in Ranks : Upto(r, k)' = Upto(r, k) BY <2>2 DEF Upto, Step
  <2>4. Whole(k)' BY <2>1, <2>2, <2>3 DEF Whole, WithGradient
  <2> QED BY <2>2, <2>4 DEF Gradients
<1>7. CASE \E r \in Ranks : Rank(r)
  <2>1. PICK r \in Ranks : Rank(r) BY <1>7
  <2>2. micro \in [Ranks -> Nat] /\ grads = [q \in Ranks |-> grads[q]] BY DEF Gradients
  <2>3. pc \in [Ranks -> Places] /\ mini \in [Ranks -> Nat] BY DEF IInv, Typed
  <2>4. MaxMicro \in Nat BY UpdateAssumption
  <2>5. CASE Enter(r)
    <3>1. /\ \A q \in Ranks \ {r} : pc'[q] = pc[q] /\ mini'[q] = mini[q]
          /\ pc'[r] \in {"raised", "plan"} /\ UNCHANGED <<config, rows, micro, grads>>
      BY <2>3, <2>5 DEF Enter, Goto
    <3> QED BY <2>2, <3>1, OneRankGradients DEF WithGradient
  <2>6. CASE SplitBySize(r)
    <3>1. /\ \A q \in Ranks \ {r} : pc'[q] = pc[q] /\ micro'[q] = micro[q] /\ grads'[q] = grads[q]
          /\ pc'[r] = "forward" /\ micro'[r] = MaxMicro /\ grads'[r] = {} /\ ~config.dynamic
          /\ micro' \in [Ranks -> Nat] /\ grads' = [q \in Ranks |-> grads'[q]]
          /\ UNCHANGED <<config, rows, mini>>
      BY <2>2, <2>3, <2>4, <2>6 DEF SplitBySize, Goto
    <3> QED BY <3>1, OneRankGradients
  <2>7. CASE CountByTokens(r)
    <3>1. PICK k \in 1 .. MaxMicro : micro' = [micro EXCEPT ![r] = k] BY <2>7 DEF CountByTokens
    <3>2. /\ \A q \in Ranks \ {r} : pc'[q] = pc[q] /\ micro'[q] = micro[q]
          /\ pc'[r] = "split" /\ micro'[r] \in 1 .. MaxMicro /\ config.dynamic
          /\ micro' \in [Ranks -> Nat] /\ UNCHANGED <<config, rows, mini, grads>>
      BY <2>2, <2>3, <2>7, <3>1 DEF CountByTokens, Goto
    <3> QED BY <2>2, <3>2, OneRankGradients
  <2>8. CASE UseResult(r) \/ Raise(r)
    <3>1. /\ \A q \in Ranks \ {r} : pc'[q] = pc[q]
          /\ pc[r] = "result" /\ pc'[r] \in {"backward", "raised"}
          /\ UNCHANGED <<config, rows, mini, micro, grads>>
      BY <2>3, <2>8 DEF UseResult, Raise, Goto
    <3> QED BY <2>2, <3>1, OneRankGradients DEF WithGradient
  <2>9. CASE ReturnBeforeBackward(r) \/ ReturnOutput(r)
    <3>1. /\ \A q \in Ranks \ {r} : pc'[q] = pc[q] /\ grads'[q] = grads[q]
          /\ pc'[r] = "returned" /\ grads' = [q \in Ranks |-> grads'[q]]
          /\ UNCHANGED <<config, rows, mini, micro>>
      BY <2>2, <2>3, <2>9 DEF ReturnBeforeBackward, ReturnOutput, Goto
    <3> QED BY <2>2, <3>1, OneRankGradients DEF WithGradient
  <2>10. CASE OptimizerStep(r) \/ SkipStep(r)
    <3>1. /\ \A q \in Ranks \ {r} : pc'[q] = pc[q] /\ mini'[q] = mini[q]
          /\ pc'[r] \in {"plan", "finish"} /\ UNCHANGED <<config, rows, micro>>
      BY <2>3, <2>10 DEF OptimizerStep, SkipStep, AfterAttempt, Goto
    <3>2. (\A q \in Ranks \ {r} : grads'[q] = grads[q]) /\ grads' = [q \in Ranks |-> grads'[q]]
      BY <2>2, <2>10 DEF OptimizerStep, SkipStep
    <3> QED BY <2>2, <3>1, <3>2, OneRankGradients DEF WithGradient
  <2> QED BY <2>1, <2>5, <2>6, <2>7, <2>8, <2>9, <2>10 DEF Rank
<1>8. Next => \/ UpdateActor \/ EmitRow \/ UNCHANGED <<config, rows, pc, local>> \/ SplitByTokens
              \/ Backward \/ ForwardPass \/ ClipGradNorm \/ \E r \in Ranks : Rank(r)
  BY DEF Next, Driver, Collective, RefuseOutput, EmitProbe, DriverSeesFailure
<1>9. UNCHANGED vars => UNCHANGED <<config, rows, pc, local>> BY DEF vars
<1> QED BY <1>1, <1>2, <1>3, <1>4, <1>5, <1>6, <1>7, <1>8, <1>9

\* A rank steps with the gradient of the whole of its mini-batch, cut into as
\* many micro-batches on every rank, and with nothing left over from before.
THEOREM WholeGradients == Spec => []GradientsAreOfOneBatch
<1>1. ASSUME IInv, Gradients PROVE GradientsAreOfOneBatch
  <2> SUFFICES ASSUME NEW r \in Ranks, pc[r] = "step"
               PROVE  \E k \in 1 .. MaxMicro : \A q \in Ranks :
                        pc[q] = "step" => grads[q] = {<<Step, mini[r], i>> : i \in 1 .. k}
    BY DEF GradientsAreOfOneBatch
  <2>1. PICK k \in 1 .. MaxMicro : Whole(k) BY <1>1 DEF Gradients
  <2>2. ASSUME NEW q \in Ranks, pc[q] = "step" PROVE grads[q] = {<<Step, mini[r], i>> : i \in 1 .. k}
    <3>1. grads[q] = Upto(q, k) /\ micro[q] = 0 BY <2>1, <2>2 DEF Whole, WithGradient
    <3>2. mini[q] = mini[r] BY <1>1, <2>2 DEF IInv, Agree, Active, Through
    <3> QED BY <3>1, <3>2 DEF Upto
  <2> QED BY <2>1, <2>2
<1> QED BY <1>1, InitIInv, InitGradients, NextIInv, NextGradients, PTL DEF Spec

-------------------------------------------------------------------------------
(* PolicyUpdate implements PolicyStep: to the trainer the ranks are one worker
   with one copy of the weights, whatever is skipped and whoever raises; and a
   checkpoint probe shows the model its label names. *)

\* The entries of a rank's weights that are of a step, and the earlier steps
\* that have any: PolicyStep's AppliedIn and Before.
Of(r, step) == {i \in DOMAIN weights[r] : weights[r][i][1] = step}
Changed(r) == {s \in DOMAIN rows : Of(r, s) # {}}
Earlier(r) == Cardinality(Changed(r))

\* Inside an update, between the entry of a rank and its last mini-batch.
Middle == {"plan", "split", "forward", "result", "backward", "clip", "step"}

\* Where a rank is tells what of the current step is in its weights.
OneWorker(r) ==
  /\ weights[r] \in Seq(Nat \X Nat)
  /\ \A i \in DOMAIN weights[r] : weights[r][i][1] <= Step
  /\ pc[r] \in {"idle", "enter"} => Of(r, Step) = {} /\ Len(weights[r]) = optimizer
  /\ pc[r] \in Middle \cup {"finish", "returned"} =>
       /\ Len(weights[r]) = optimizer + count[r]
       /\ count[r] > 0 <=> Of(r, Step) # {}
  /\ pc[r] \in Middle => /\ mini[r] \in 1 .. Attempts
                         /\ \A i \in Of(r, Step) : weights[r][i][2] < mini[r]
  /\ pc[r] = "returned" => output[r].count = count[r] /\ output[r].lr = CameWith(r)
  /\ CameWith(r) = Earlier(r)

IsSequence(s) == \E n \in Nat : s = [i \in 1 .. n |-> s[i]]

\* The row counts from what the observer counted before.
Reported ==
  /\ IsSequence(rows) /\ optimizer \in Nat
  /\ output = [r \in Ranks |-> output[r]]

WInv == IInv /\ Reported /\ \A r \in Ranks : OneWorker(r)

-------------------------------------------------------------------------------
LEMMA InitWorker == Init => WInv
<1> SUFFICES ASSUME Init PROVE WInv
  OBVIOUS
<1>1. IInv BY InitIInv
<1>2. rows = <<>> /\ optimizer = 0 /\ output = [r \in Ranks |-> output[r]] BY DEF Init
<1>3. IsSequence(rows)
  <2>1. rows = [i \in 1 .. 0 |-> rows[i]] BY <1>2
  <2> QED BY <2>1 DEF IsSequence
<1>4. ASSUME NEW r \in Ranks PROVE OneWorker(r)
  <2>1. weights[r] = <<>> /\ pc[r] = "idle" /\ ticks[r] = 0 BY DEF Init
  <2>2. Changed(r) = {} BY <1>2 DEF Changed
  <2>3. Earlier(r) = 0 BY <2>2, FS_EmptySet DEF Earlier
  <2> QED BY <1>2, <2>1, <2>3 DEF OneWorker, Of, CameWith, Middle
<1> QED BY <1>1, <1>2, <1>3, <1>4 DEF WInv, Reported

LEMMA RowsLength ==
  ASSUME IsSequence(rows)
  PROVE  Len(rows) \in Nat /\ DOMAIN rows = 1 .. Len(rows) /\ rows \in Seq({rows[i] : i \in DOMAIN rows})
<1>1. PICK n \in Nat : rows = [i \in 1 .. n |-> rows[i]] BY DEF IsSequence
<1>2. DOMAIN rows = 1 .. n BY <1>1
<1>3. rows \in Seq({rows[i] : i \in DOMAIN rows}) BY <1>1, <1>2
<1> QED BY <1>2, <1>3

LEMMA SequenceIsFunction ==
  ASSUME NEW S, NEW t \in Seq(S)
  PROVE  DOMAIN t = 1 .. Len(t) /\ t = [i \in 1 .. Len(t) |-> t[i]]
OBVIOUS

\* A rank whose weights, counters and packet stay and that moves within its
\* update, or out of it for good.
LEMMA Stays ==
  ASSUME NEW r \in Ranks, OneWorker(r), UNCHANGED <<rows, optimizer>>,
         weights'[r] = weights[r], ticks'[r] = ticks[r], count'[r] = count[r],
         mini'[r] = mini[r], output'[r] = output[r],
         \/ pc'[r] = pc[r]
         \/ pc[r] \in Middle /\ pc'[r] \in Middle \cup {"raised"}
         \/ pc[r] = "enter" /\ pc'[r] = "raised"
         \/ pc[r] = "idle" /\ pc'[r] = "enter"
  PROVE  OneWorker(r)'
<1>1. \A s : Of(r, s)' = Of(r, s) BY DEF Of
<1>2. Changed(r)' = Changed(r) BY <1>1 DEF Changed
<1>3. Earlier(r)' = Earlier(r) BY <1>2 DEF Earlier
<1>4. CameWith(r)' = CameWith(r) BY DEF CameWith, Middle
<1>5. Of(r, Step)' = Of(r, Step) /\ Step' = Step BY DEF Of, Step
<1> QED BY <1>1, <1>3, <1>4, <1>5 DEF OneWorker, Middle

LEMMA EnterWorker ==
  ASSUME WInv, NEW r \in Ranks, Enter(r)
  PROVE  OneWorker(r)'
<1>1. /\ pc[r] = "enter" /\ pc'[r] \in {"raised", "plan"} /\ count'[r] = 0 /\ mini'[r] = 1
      /\ UNCHANGED <<rows, optimizer, weights, ticks, output>>
  BY DEF Enter, Goto, WInv, IInv, Typed, drivers, report
<1>2. \A s : Of(r, s)' = Of(r, s) BY <1>1 DEF Of
<1>3. Changed(r)' = Changed(r) BY <1>1, <1>2 DEF Changed
<1>4. Earlier(r)' = Earlier(r) BY <1>3 DEF Earlier
<1>5. CameWith(r)' = CameWith(r) BY <1>1 DEF CameWith
<1>6. Of(r, Step)' = {} /\ Step' = Step BY <1>1 DEF Of, Step, WInv, OneWorker
<1>7. 1 \in 1 .. Attempts BY UpdateAssumption
<1>8. Len(weights[r]) = optimizer /\ optimizer \in Nat BY <1>1 DEF WInv, OneWorker, Reported
<1> QED BY <1>1, <1>4, <1>5, <1>6, <1>7, <1>8 DEF WInv, OneWorker, Middle

\* A mini-batch more in the weights of a rank.
LEMMA Appended ==
  ASSUME WInv, NEW r \in Ranks, NEW m \in Nat, rows' = rows,
         weights'[r] = Append(weights[r], <<Step, m>>)
  PROVE  /\ weights'[r] \in Seq(Nat \X Nat) /\ Len(weights'[r]) = Len(weights[r]) + 1
         /\ \A i \in DOMAIN weights'[r] : weights'[r][i][1] <= Step
         /\ Of(r, Step)' = Of(r, Step) \cup {Len(weights[r]) + 1}
         /\ weights'[r][Len(weights[r]) + 1] = <<Step, m>>
         /\ \A i \in Of(r, Step) : weights'[r][i] = weights[r][i]
         /\ Earlier(r)' = Earlier(r)
<1> DEFINE n == Len(weights[r])
<1>1. /\ weights[r] \in Seq(Nat \X Nat) /\ n \in Nat
      /\ \A i \in DOMAIN weights[r] : weights[r][i][1] <= Step
  BY DEF WInv, OneWorker
<1>2. Len(rows) \in Nat /\ DOMAIN rows = 1 .. Len(rows) BY RowsLength DEF WInv, Reported
<1>3. Step \in Nat /\ <<Step, m>> \in Nat \X Nat /\ Step' = Step BY <1>2 DEF Step
<1>4. weights'[r] \in Seq(Nat \X Nat) /\ Len(weights'[r]) = n + 1 BY <1>1, <1>3
<1>5. DOMAIN weights'[r] = DOMAIN weights[r] \cup {n + 1} /\ DOMAIN weights[r] = 1 .. n
  BY <1>1, <1>4
<1>6. /\ weights'[r][n + 1] = <<Step, m>>
      /\ \A i \in DOMAIN weights[r] : weights'[r][i] = weights[r][i]
  BY <1>1, <1>3, <1>5
<1>7. \A i \in DOMAIN weights'[r] : weights'[r][i][1] <= Step BY <1>1, <1>3, <1>5, <1>6
<1>8. Of(r, Step)' = Of(r, Step) \cup {n + 1} BY <1>3, <1>5, <1>6 DEF Of
<1>9. \A s \in DOMAIN rows : Of(r, s)' = Of(r, s)
  <2> TAKE s \in DOMAIN rows
  <2>1. s # Step BY <1>2 DEF Step
  <2> QED BY <1>5, <1>6, <2>1 DEF Of
<1>10. Changed(r)' = Changed(r) BY <1>9 DEF Changed
<1>11. Earlier(r)' = Earlier(r) BY <1>10 DEF Earlier
<1>12. \A i \in Of(r, Step) : weights'[r][i] = weights[r][i] BY <1>6 DEF Of
<1> QED BY <1>4, <1>6, <1>7, <1>8, <1>11, <1>12

\* What PolicyStep's Apply is for a rank.
AppliesOne(r) ==
  \E m \in 1 .. Attempts :
    /\ ticks[r] = Earlier(r)
    /\ \A i \in Of(r, Step) : weights[r][i][2] < m
    /\ weights'[r] = Append(weights[r], <<Step, m>>)
    /\ ticks'[r] = ticks[r] /\ rows' = rows

LEMMA OptimizerStepWorker ==
  ASSUME WInv, NEW r \in Ranks, OptimizerStep(r)
  PROVE  OneWorker(r)' /\ AppliesOne(r)
<1>1. /\ pc[r] = "step" /\ mini[r] \in 1 .. Attempts /\ Attempts \in Nat
      /\ \A i \in Of(r, Step) : weights[r][i][2] < mini[r]
      /\ Len(weights[r]) = optimizer + count[r] /\ optimizer \in Nat /\ count[r] \in Nat
      /\ weights[r] \in Seq(Nat \X Nat)
      /\ CameWith(r) = Earlier(r)
  BY UpdateAssumption DEF OptimizerStep, WInv, OneWorker, Middle, Reported, IInv, Typed
<1>2. /\ weights'[r] = Append(weights[r], <<Step, mini[r]>>) /\ count'[r] = count[r] + 1
      /\ UNCHANGED <<rows, optimizer, ticks, output>>
      /\ \/ mini[r] < Attempts /\ pc'[r] = "plan" /\ mini'[r] = mini[r] + 1
         \/ ~(mini[r] < Attempts) /\ pc'[r] = "finish" /\ mini'[r] = mini[r]
  BY DEF OptimizerStep, AfterAttempt, Goto, drivers, WInv, IInv, Typed
<1>3. /\ weights'[r] \in Seq(Nat \X Nat) /\ Len(weights'[r]) = Len(weights[r]) + 1
      /\ \A i \in DOMAIN weights'[r] : weights'[r][i][1] <= Step
      /\ Of(r, Step)' = Of(r, Step) \cup {Len(weights[r]) + 1}
      /\ weights'[r][Len(weights[r]) + 1] = <<Step, mini[r]>>
      /\ \A i \in Of(r, Step) : weights'[r][i] = weights[r][i]
      /\ Earlier(r)' = Earlier(r)
  <2>1. mini[r] \in Nat /\ rows' = rows BY <1>1, <1>2
  <2>2. weights'[r] = Append(weights[r], <<Step, mini[r]>>) BY <1>2
  <2> QED BY <2>1, <2>2, Appended
<1>4. ticks[r] = Earlier(r) BY <1>1 DEF CameWith
<1>5. CameWith(r)' = Earlier(r)' BY <1>2, <1>3, <1>4 DEF CameWith
<1>6. Step' = Step BY <1>2 DEF Step
<1>7. pc'[r] = "plan" => mini'[r] \in 1 .. Attempts
  BY <1>1, <1>2
<1>8. pc'[r] = "plan" => \A i \in Of(r, Step)' : weights'[r][i][2] < mini'[r]
  <2> SUFFICES ASSUME pc'[r] = "plan", NEW i \in Of(r, Step)' PROVE weights'[r][i][2] < mini'[r]
    OBVIOUS
  <2>1. mini[r] \in Nat /\ mini'[r] = mini[r] + 1 BY <1>1, <1>2
  <2>2. CASE i = Len(weights[r]) + 1
    <3>1. weights'[r][i] = <<Step, mini[r]>> BY <1>3, <2>2
    <3> QED BY <2>1, <3>1
  <2>3. CASE i \in Of(r, Step)
    <3>1. weights[r][i][2] \in Nat /\ weights[r][i][2] < mini[r] BY <1>1, <2>3 DEF Of
    <3>2. weights'[r][i] = weights[r][i] BY <1>3, <2>3
    <3> QED BY <2>1, <3>1, <3>2
  <2> QED BY <1>3, <2>2, <2>3
<1>9. Len(weights'[r]) = optimizer' + count'[r] /\ count'[r] > 0 /\ Of(r, Step)' # {}
  <2>1. Len(weights[r]) \in Nat BY <1>1
  <2>2. Of(r, Step)' # {} BY <1>3
  <2>3. Len(weights'[r]) = Len(weights[r]) + 1 BY <1>3
  <2>4. Len(weights[r]) = optimizer + count[r] /\ optimizer \in Nat /\ count[r] \in Nat BY <1>1
  <2>5. optimizer' = optimizer /\ count'[r] = count[r] + 1 BY <1>2
  <2>6. Len(weights'[r]) = optimizer' + count'[r] /\ count'[r] > 0 BY <2>1, <2>3, <2>4, <2>5
  <2> QED BY <2>2, <2>6
<1>10. OneWorker(r)' BY <1>2, <1>3, <1>5, <1>6, <1>7, <1>8, <1>9 DEF OneWorker, Middle
<1>11. AppliesOne(r) BY <1>1, <1>2, <1>4 DEF AppliesOne
<1> QED BY <1>10, <1>11

LEMMA SkipStepWorker ==
  ASSUME WInv, NEW r \in Ranks, SkipStep(r)
  PROVE  OneWorker(r)'
<1>1. /\ pc[r] = "step" /\ mini[r] \in 1 .. Attempts /\ Attempts \in Nat
      /\ \A i \in Of(r, Step) : weights[r][i][2] < mini[r]
      /\ weights[r] \in Seq(Nat \X Nat)
  BY UpdateAssumption DEF SkipStep, WInv, OneWorker, Middle
<1>2. /\ UNCHANGED <<rows, optimizer, ticks, output, weights, count>>
      /\ \/ mini[r] < Attempts /\ pc'[r] = "plan" /\ mini'[r] = mini[r] + 1
         \/ ~(mini[r] < Attempts) /\ pc'[r] = "finish" /\ mini'[r] = mini[r]
  BY DEF SkipStep, AfterAttempt, Goto, drivers, WInv, IInv, Typed
<1>3. \A s : Of(r, s)' = Of(r, s) BY <1>2 DEF Of
<1>4. Changed(r)' = Changed(r) BY <1>2, <1>3 DEF Changed
<1>5. Earlier(r)' = Earlier(r) BY <1>4 DEF Earlier
<1>6. CameWith(r)' = CameWith(r) BY <1>1, <1>2 DEF CameWith
<1>7. Of(r, Step)' = Of(r, Step) /\ Step' = Step BY <1>2 DEF Of, Step
<1>8. (mini'[r] > mini[r] /\ mini'[r] \in 1 .. Attempts) \/ pc'[r] = "finish" BY <1>1, <1>2
<1>9. \A i \in Of(r, Step) : weights[r][i][2] \in Nat BY <1>1 DEF Of
<1>10. pc'[r] \notin {"idle", "enter", "returned"} BY <1>2
<1>11. OneWorker(r) /\ pc[r] \in Middle /\ weights'[r] = weights[r] /\ count'[r] = count[r] /\ optimizer' = optimizer
  BY <1>1, <1>2 DEF WInv, Middle
<1>12. /\ weights'[r] \in Seq(Nat \X Nat) /\ \A i \in DOMAIN weights'[r] : weights'[r][i][1] <= Step'
       /\ Len(weights'[r]) = optimizer' + count'[r] /\ (count'[r] > 0 <=> Of(r, Step)' # {})
       /\ CameWith(r)' = Earlier(r)'
  BY <1>5, <1>6, <1>7, <1>11 DEF OneWorker
<1>13. pc'[r] \in Middle =>
         mini'[r] \in 1 .. Attempts /\ \A i \in Of(r, Step)' : weights'[r][i][2] < mini'[r]
  <2> SUFFICES ASSUME pc'[r] \in Middle
               PROVE  mini'[r] \in 1 .. Attempts /\ \A i \in Of(r, Step)' : weights'[r][i][2] < mini'[r]
    OBVIOUS
  <2>1. mini'[r] > mini[r] /\ mini'[r] \in 1 .. Attempts BY <1>8 DEF Middle
  <2> QED BY <1>1, <1>7, <1>9, <1>11, <2>1
<1> QED BY <1>10, <1>12, <1>13 DEF OneWorker

\* A rank returns its packet; PolicyStep's Tick if it applied anything.
Ticks(r) ==
  /\ Of(r, Step) # {}
  /\ ticks[r] = Earlier(r) /\ ticks'[r] = ticks[r] + 1
  /\ weights'[r] = weights[r] /\ rows' = rows

LEMMA ReturnWorker ==
  ASSUME WInv, NEW r \in Ranks, ReturnOutput(r) \/ ReturnBeforeBackward(r)
  PROVE  OneWorker(r)' /\ (ticks'[r] = ticks[r] \/ Ticks(r))
<1>1. /\ UNCHANGED <<rows, optimizer, weights>> /\ pc'[r] = "returned" /\ count'[r] = count[r]
      /\ output'[r].count = count[r] /\ output'[r].lr = ticks[r]
      /\ pc[r] \in {"finish", "result"}
      /\ ticks'[r] = IF count[r] > 0 THEN ticks[r] + 1 ELSE ticks[r]
  <2>1. CASE ReturnOutput(r)
    BY <2>1 DEF ReturnOutput, AdvancedTicks, Goto, drivers, WInv, Reported, IInv, Typed
  <2>2. CASE ReturnBeforeBackward(r)
    <3>1. count[r] = 0 BY <2>2 DEF ReturnBeforeBackward, WInv, IInv, Phases
    <3> QED BY <2>2, <3>1 DEF ReturnBeforeBackward, Goto, drivers, WInv, Reported, IInv, Typed
  <2> QED BY <2>1, <2>2
<1>2. ticks[r] \in Nat /\ count[r] \in Nat BY DEF WInv, IInv, Typed
<1>3. \A s : Of(r, s)' = Of(r, s) BY <1>1 DEF Of
<1>4. Changed(r)' = Changed(r) BY <1>1, <1>3 DEF Changed
<1>5. Earlier(r)' = Earlier(r) BY <1>4 DEF Earlier
<1>6. CameWith(r)' = ticks[r] /\ CameWith(r) = ticks[r] BY <1>1, <1>2 DEF CameWith
<1>7. Of(r, Step)' = Of(r, Step) /\ Step' = Step BY <1>1 DEF Of, Step
<1>8. OneWorker(r)' BY <1>1, <1>5, <1>6, <1>7 DEF WInv, OneWorker, Middle
<1>9. count[r] > 0 => Of(r, Step) # {} /\ ticks[r] = Earlier(r) BY <1>1, <1>6 DEF WInv, OneWorker, Middle
<1>10. CASE count[r] > 0 BY <1>1, <1>8, <1>9, <1>10 DEF Ticks
<1>11. CASE ~(count[r] > 0) BY <1>1, <1>8, <1>11
<1> QED BY <1>10, <1>11

\* The driver emits the row of a step; PolicyStep's Emit.
Emits(r) ==
  /\ Of(r, Step) # {} => ticks[r] = Earlier(r) + 1
  /\ Shown' = Append(Shown, [step |-> Step, opt |-> Len(weights[r]), lr |-> Earlier(r)])
  /\ weights'[r] = weights[r] /\ ticks'[r] = ticks[r]

LEMMA RowAppended ==
  ASSUME IsSequence(rows), NEW row, rows' = Append(rows, row)
  PROVE  /\ Len(rows') = Len(rows) + 1 /\ DOMAIN rows' = 1 .. Len(rows) + 1
         /\ IsSequence(rows')
         /\ rows'[Len(rows) + 1] = row /\ \A i \in 1 .. Len(rows) : rows'[i] = rows[i]
<1> DEFINE S == {rows[i] : i \in DOMAIN rows} \cup {row}
           n == Len(rows)
<1>1. n \in Nat /\ DOMAIN rows = 1 .. n BY RowsLength
<1>2. rows \in Seq(S) /\ row \in S BY RowsLength
<1> HIDE DEF S
<1>3. rows' \in Seq(S) /\ Len(rows') = n + 1 BY <1>2
<1>4. DOMAIN rows' = 1 .. n + 1 BY <1>3, SequenceIsFunction
<1>5. IsSequence(rows')
  <2>1. rows' = [i \in 1 .. Len(rows') |-> rows'[i]] BY <1>3, SequenceIsFunction
  <2>2. rows' = [i \in 1 .. n + 1 |-> rows'[i]] BY <1>3, <2>1
  <2>3. n + 1 \in Nat BY <1>1
  <2> HIDE DEF n
  <2> QED BY <2>2, <2>3 DEF IsSequence
<1>6. rows'[n + 1] = row BY <1>2
<1>7. \A i \in 1 .. n : rows'[i] = rows[i] BY <1>2
<1> QED BY <1>3, <1>4, <1>5, <1>6, <1>7

LEMMA EmitWorker ==
  ASSUME WInv, EmitRow, NEW r \in Ranks
  PROVE  OneWorker(r)' /\ Emits(r) /\ Reported'
<1> DEFINE n == Len(rows)
           new == [step |-> Step, opt |-> optimizer', lr |-> output[0].lr,
                   stats |-> Total([q \in Ranks |-> output[q].facts.stats], Ranks)]
<1>1. /\ \A q \in Ranks : pc[q] = "returned" /\ pc'[q] = "idle"
      /\ UNCHANGED <<weights, ticks, count, output>>
      /\ rows' = Append(rows, new) /\ optimizer' = optimizer + output[0].count
  BY DEF EmitRow, Collected, AllAt, AllGoto, local, report
<1> HIDE DEF new
<1>2. n \in Nat /\ DOMAIN rows = 1 .. n /\ Step = n + 1 /\ rows \in Seq({rows[i] : i \in DOMAIN rows})
  BY RowsLength DEF WInv, Reported, Step
<1>3. /\ Len(rows') = n + 1 /\ DOMAIN rows' = 1 .. n + 1
      /\ IsSequence(rows')
      /\ rows'[n + 1] = new /\ \A i \in 1 .. n : rows'[i] = rows[i]
  BY <1>1, RowAppended DEF WInv, Reported
<1>4. 0 \in Ranks BY UpdateAssumption DEF Ranks
<1>5. /\ output[0].count = count[0] /\ output[0].lr = CameWith(0)
      /\ count[0] = count[r] /\ CameWith(0) = CameWith(r)
  BY <1>1, <1>4 DEF WInv, OneWorker, IInv, Agree, Active, Applied, Applies
<1>6. /\ Len(weights[r]) = optimizer' /\ output[0].lr = Earlier(r) /\ optimizer' \in Nat
      /\ count[r] > 0 <=> Of(r, Step) # {}
      /\ CameWith(r) = Earlier(r) /\ ticks[r] \in Nat /\ count[r] \in Nat
  <2>1. pc[r] = "returned" /\ OneWorker(r) BY <1>1 DEF WInv
  <2>2. /\ Len(weights[r]) = optimizer + count[r] /\ CameWith(r) = Earlier(r)
        /\ count[r] > 0 <=> Of(r, Step) # {}
    BY <2>1 DEF OneWorker
  <2>3. ticks[r] \in Nat /\ count[r] \in Nat /\ optimizer \in Nat
    BY DEF WInv, IInv, Typed, Reported
  <2>4. optimizer' = optimizer + count[r] /\ output[0].lr = Earlier(r) BY <1>1, <1>5, <2>2
  <2> QED BY <2>2, <2>3, <2>4
<1>7. ticks[r] = IF Of(r, Step) # {} THEN Earlier(r) + 1 ELSE Earlier(r)
  BY <1>1, <1>6 DEF CameWith
<1>8. Reported'
  <2>1. IsSequence(rows)' BY <1>3
  <2> QED BY <1>1, <1>6, <2>1 DEF WInv, Reported
<1>9. Emits(r)
  <2>1. new.step = Step /\ new.opt = Len(weights[r]) /\ new.lr = Earlier(r) BY <1>6 DEF new
  <2> DEFINE row(i) == [step |-> rows[i].step, opt |-> rows[i].opt, lr |-> rows[i].lr]
             S == {row(i) : i \in DOMAIN rows}
  <2>2. Shown \in Seq(S) /\ Len(Shown) = n /\ Shown = [i \in 1 .. n |-> row(i)] BY <1>2 DEF Shown
  <2>3. Shown' = [i \in 1 .. n + 1 |-> IF i = n + 1
                                       THEN [step |-> Step, opt |-> Len(weights[r]), lr |-> Earlier(r)]
                                       ELSE row(i)]
    BY <1>2, <1>3, <2>1 DEF Shown
  <2> HIDE DEF row, S
  <2> DEFINE e == [step |-> Step, opt |-> Len(weights[r]), lr |-> Earlier(r)]
  <2>4. Append(Shown, e) = [i \in 1 .. n + 1 |-> IF i = n + 1 THEN e ELSE row(i)]
    <3> HIDE DEF e
    <3>1. Shown \in Seq(S \cup {e}) BY <2>2
    <3> QED BY <1>2, <2>2, <3>1
  <2>5. Shown' = Append(Shown, e) BY <2>3, <2>4
  <2> QED BY <1>1, <1>7, <2>5 DEF Emits
<1>10. Earlier(r)' = ticks[r]
  <2>1. \A s : Of(r, s)' = Of(r, s) BY <1>1 DEF Of
  <2>2. Changed(r)' = IF Of(r, Step) # {} THEN Changed(r) \cup {n + 1} ELSE Changed(r)
    BY <1>2, <1>3, <2>1 DEF Changed
  <2>3. n + 1 \notin Changed(r) BY <1>2 DEF Changed
  <2>4. IsFiniteSet(Changed(r))
    <3>1. Changed(r) \subseteq 1 .. n BY <1>2 DEF Changed
    <3>2. IsFiniteSet(1 .. n) BY <1>2, FS_Interval
    <3> QED BY <3>1, <3>2, FS_Subset
  <2>5. Cardinality(Changed(r) \cup {n + 1}) = Earlier(r) + 1 BY <2>3, <2>4, FS_AddElement DEF Earlier
  <2> QED BY <1>7, <2>2, <2>5 DEF Earlier
<1>11. OneWorker(r)'
  <2>1. Step' = n + 2 BY <1>2, <1>3 DEF Step
  <2>2. \A i \in DOMAIN weights[r] : weights[r][i][1] \in Nat /\ weights[r][i][1] <= n + 1
    BY <1>2 DEF WInv, OneWorker
  <2>3. Of(r, Step)' = {} BY <1>1, <1>2, <2>1, <2>2 DEF Of
  <2>4. CameWith(r)' = Earlier(r)' BY <1>1, <1>10 DEF CameWith
  <2>5. \A i \in DOMAIN weights[r] : weights[r][i][1] <= n + 2 BY <1>2, <2>2
  <2> QED BY <1>1, <1>6, <2>1, <2>3, <2>4, <2>5 DEF WInv, OneWorker, Middle
<1> QED BY <1>8, <1>9, <1>11

-------------------------------------------------------------------------------
\* What a rank does is a step of PolicyStep's worker, or nothing it knows of.
Still(r) == weights'[r] = weights[r] /\ ticks'[r] = ticks[r] /\ Shown' = Shown
WorkerStep(r) == AppliesOne(r) \/ Ticks(r) \/ Emits(r) \/ Still(r)

\* Nothing but the places of some ranks changes.
LEMMA QuietWorker ==
  ASSUME WInv, UNCHANGED <<rows, optimizer, weights, ticks, count, mini, output>>,
         \A r \in Ranks :
           \/ pc'[r] = pc[r]
           \/ pc[r] \in Middle /\ pc'[r] \in Middle \cup {"raised"}
           \/ pc[r] = "idle" /\ pc'[r] = "enter"
  PROVE  Reported' /\ \A r \in Ranks : OneWorker(r)' /\ WorkerStep(r)
<1>1. Reported' BY DEF WInv, Reported
<1>2. \A r \in Ranks : OneWorker(r)' BY Stays DEF WInv
<1>3. Shown' = Shown BY DEF Shown
<1> QED BY <1>1, <1>2, <1>3 DEF WorkerStep, Still

\* One rank changes something of its own.
LEMMA OtherRanks ==
  ASSUME WInv, NEW r \in Ranks, UNCHANGED <<rows, optimizer>>,
         output' = [q \in Ranks |-> output'[q]],
         \A q \in Ranks \ {r} :
           /\ weights'[q] = weights[q] /\ ticks'[q] = ticks[q] /\ count'[q] = count[q]
           /\ mini'[q] = mini[q] /\ output'[q] = output[q] /\ pc'[q] = pc[q]
  PROVE  Reported' /\ Shown' = Shown /\ \A q \in Ranks \ {r} : OneWorker(q)' /\ WorkerStep(q)
<1>1. Reported' BY DEF WInv, Reported
<1>2. \A q \in Ranks \ {r} : OneWorker(q)' BY Stays DEF WInv
<1>3. Shown' = Shown BY DEF Shown
<1> QED BY <1>1, <1>2, <1>3 DEF WorkerStep, Still

LEMMA CollectiveWorker ==
  ASSUME WInv, Collective
  PROVE  Reported' /\ \A r \in Ranks : OneWorker(r)' /\ WorkerStep(r)
<1>1. UNCHANGED <<rows, optimizer, weights, ticks, count, mini, output>>
  BY DEF Collective, SplitByTokens, ForwardPass, Backward, ClipGradNorm, drivers, local, report
<1>2. \A r \in Ranks : pc[r] \in Middle /\ pc'[r] \in Middle
  <2>1. CASE SplitByTokens BY <2>1 DEF SplitByTokens, AllAt, AllGoto, Middle
  <2>2. CASE ForwardPass BY <2>2 DEF ForwardPass, AllAt, AllGoto, Middle
  <2>3. CASE Backward BY <2>3 DEF Backward, AllAt, Middle
  <2>4. CASE ClipGradNorm BY <2>4 DEF ClipGradNorm, AllAt, AllGoto, Middle
  <2> QED BY <2>1, <2>2, <2>3, <2>4 DEF Collective
<1> QED BY <1>1, <1>2, QuietWorker

LEMMA RankWorker ==
  ASSUME WInv, NEW r \in Ranks, Rank(r)
  PROVE  Reported' /\ \A q \in Ranks : OneWorker(q)' /\ WorkerStep(q)
<1>1. CASE SplitBySize(r) \/ CountByTokens(r) \/ UseResult(r) \/ Raise(r)
  <2>1. UNCHANGED <<rows, optimizer, weights, ticks, count, mini, output>>
    BY <1>1 DEF SplitBySize, CountByTokens, UseResult, Raise, drivers, local, report
  <2>2. \A q \in Ranks : \/ pc'[q] = pc[q]
                         \/ pc[q] \in Middle /\ pc'[q] \in Middle \cup {"raised"}
    BY <1>1 DEF SplitBySize, CountByTokens, UseResult, Raise, Goto, Middle, WInv, IInv, Typed
  <2> QED BY <2>1, <2>2, QuietWorker
<1>2. CASE Enter(r)
  <2>1. /\ UNCHANGED <<rows, optimizer, weights, ticks, output>>
        /\ \A q \in Ranks \ {r} : count'[q] = count[q] /\ mini'[q] = mini[q] /\ pc'[q] = pc[q]
    BY <1>2 DEF Enter, Goto, drivers, report, WInv, IInv, Typed
  <2>2. Reported' /\ Shown' = Shown /\ \A q \in Ranks \ {r} : OneWorker(q)' /\ WorkerStep(q)
    BY <2>1, OtherRanks DEF WInv, Reported
  <2> QED BY <1>2, <2>1, <2>2, EnterWorker DEF WorkerStep, Still
<1>3. CASE OptimizerStep(r) \/ SkipStep(r)
  <2>1. /\ UNCHANGED <<rows, optimizer, ticks, output>>
        /\ \A q \in Ranks \ {r} : /\ count'[q] = count[q] /\ mini'[q] = mini[q] /\ pc'[q] = pc[q]
                                  /\ weights'[q] = weights[q]
    BY <1>3 DEF OptimizerStep, SkipStep, AfterAttempt, Goto, drivers, WInv, IInv, Typed
  <2>2. Reported' /\ Shown' = Shown /\ \A q \in Ranks \ {r} : OneWorker(q)' /\ WorkerStep(q)
    BY <2>1, OtherRanks DEF WInv, Reported
  <2>3. CASE OptimizerStep(r) BY <2>2, <2>3, OptimizerStepWorker DEF WorkerStep
  <2>4. CASE SkipStep(r)
    <3>1. weights' = weights BY <2>4 DEF SkipStep
    <3> QED BY <2>1, <2>2, <2>4, <3>1, SkipStepWorker DEF WorkerStep, Still
  <2> QED BY <1>3, <2>3, <2>4
<1>4. CASE ReturnOutput(r) \/ ReturnBeforeBackward(r)
  <2>1. /\ UNCHANGED <<rows, optimizer, weights, mini>>
        /\ output' = [q \in Ranks |-> output'[q]]
        /\ \A q \in Ranks \ {r} : /\ count'[q] = count[q] /\ ticks'[q] = ticks[q]
                                  /\ pc'[q] = pc[q] /\ output'[q] = output[q]
    BY <1>4 DEF ReturnOutput, ReturnBeforeBackward, Goto, drivers, WInv, Reported, IInv, Typed
  <2>2. Reported' /\ Shown' = Shown /\ \A q \in Ranks \ {r} : OneWorker(q)' /\ WorkerStep(q)
    BY <2>1, OtherRanks
  <2> QED BY <1>4, <2>1, <2>2, ReturnWorker DEF WorkerStep, Still
<1> QED BY <1>1, <1>2, <1>3, <1>4 DEF Rank

LEMMA NextWorker ==
  ASSUME WInv, [Next]_vars
  PROVE  WInv' /\ \A r \in Ranks : WorkerStep(r)
<1>1. IInv' BY NextIInv DEF WInv
<1>2. CASE UpdateActor
  <2>1. UNCHANGED <<rows, optimizer, weights, ticks, count, mini, output>>
    BY <1>2 DEF UpdateActor, local, report
  <2>2. \A r \in Ranks : pc[r] = "idle" /\ pc'[r] = "enter"
    BY <1>2 DEF UpdateActor, WInv, IInv, Phases, AllAt, AllGoto
  <2> QED BY <1>1, <2>1, <2>2, QuietWorker DEF WInv
<1>3. CASE EmitRow
  BY <1>1, <1>3, EmitWorker, UpdateAssumption DEF WInv, WorkerStep, Ranks
<1>4. CASE RefuseOutput \/ EmitProbe \/ DriverSeesFailure \/ UNCHANGED vars
  <2>1. UNCHANGED <<rows, optimizer, weights, ticks, count, mini, output, pc>>
    BY <1>4 DEF RefuseOutput, EmitProbe, DriverSeesFailure, vars, drivers, local, report
  <2> QED BY <1>1, <2>1, QuietWorker DEF WInv
<1>5. CASE Collective BY <1>1, <1>5, CollectiveWorker DEF WInv
<1>6. CASE \E r \in Ranks : Rank(r) BY <1>1, <1>6, RankWorker DEF WInv
<1> QED BY <1>2, <1>3, <1>4, <1>5, <1>6 DEF Next, Driver

LEMMA FirstIsTheWorker ==
  ASSUME Len(Shown) = Len(rows), DOMAIN Shown = DOMAIN rows
  PROVE  /\ FirstRank!Before = Earlier(0) /\ FirstRank!AppliedIn(FirstRank!Step) = Of(0, Step)
         /\ FirstRank!Step = Step
<1>1. FirstRank!Step = Step BY DEF FirstRank!Step, Step
<1>2. \A s : FirstRank!AppliedIn(s) = Of(0, s) BY DEF FirstRank!AppliedIn, Of
<1>3. {s \in DOMAIN Shown : {i \in DOMAIN weights[0] : weights[0][i][1] = s} # {}} = Changed(0)
  BY DEF Changed, Of
<1>4. \A S : FirstRank!Cardinality(S) = Cardinality(S) BY DEF FirstRank!Cardinality, Cardinality
<1>5. FirstRank!Before = Earlier(0) BY <1>3, <1>4 DEF FirstRank!Before, FirstRank!AppliedIn, Earlier
<1> QED BY <1>1, <1>2, <1>5

LEMMA LastIsTheWorker ==
  ASSUME Len(Shown) = Len(rows), DOMAIN Shown = DOMAIN rows
  PROVE  /\ LastRank!Before = Earlier(N - 1) /\ LastRank!AppliedIn(LastRank!Step) = Of(N - 1, Step)
         /\ LastRank!Step = Step
<1>1. LastRank!Step = Step BY DEF LastRank!Step, Step
<1>2. \A s : LastRank!AppliedIn(s) = Of(N - 1, s) BY DEF LastRank!AppliedIn, Of
<1>3. {s \in DOMAIN Shown : {i \in DOMAIN weights[N - 1] : weights[N - 1][i][1] = s} # {}} = Changed(N - 1)
  BY DEF Changed, Of
<1>4. \A S : LastRank!Cardinality(S) = Cardinality(S) BY DEF LastRank!Cardinality, Cardinality
<1>5. LastRank!Before = Earlier(N - 1) BY <1>3, <1>4 DEF LastRank!Before, LastRank!AppliedIn, Earlier
<1> QED BY <1>1, <1>2, <1>5

\* N ranks that each hold a shard, meet in collectives and decide for themselves
\* whether to step are the one worker the trainer thinks it has (dp_actor.py:782,
\* fsdp_workers.py:625): its rows tell what was applied, at which learning rate.
THEOREM RanksAreOneWorker == Spec => ImplementsOneWorker
<1>1. ASSUME Init PROVE FirstRank!Init /\ LastRank!Init
  <2>1. 0 \in Ranks /\ N - 1 \in Ranks BY UpdateAssumption DEF Ranks
  <2>2. Shown = <<>> BY <1>1 DEF Init, Shown
  <2> QED BY <1>1, <2>1, <2>2 DEF Init, FirstRank!Init, LastRank!Init
<1>2. ASSUME WInv, [Next]_vars
      PROVE  WInv' /\ [FirstRank!Next]_(FirstRank!vars) /\ [LastRank!Next]_(LastRank!vars)
  <2>1. 0 \in Ranks /\ N - 1 \in Ranks BY UpdateAssumption DEF Ranks
  <2>2. WInv' /\ WorkerStep(0) /\ WorkerStep(N - 1) BY <1>2, <2>1, NextWorker
  <2>3. Len(Shown) = Len(rows) /\ DOMAIN Shown = DOMAIN rows
    BY <1>2, RowsLength DEF WInv, Reported, Shown
  <2>4. rows' = rows => Shown' = Shown BY DEF Shown
  <2>5. [FirstRank!Next]_(FirstRank!vars)
    <3>1. CASE AppliesOne(0)
      <4>1. /\ FirstRank!Before = Earlier(0) /\ FirstRank!AppliedIn(FirstRank!Step) = Of(0, Step)
            /\ FirstRank!Step = Step
        BY <2>3, FirstIsTheWorker
      <4>2. PICK m \in 1 .. Attempts : FirstRank!Apply(m)
        BY <2>3, <2>4, <3>1, <4>1 DEF AppliesOne, FirstRank!Apply, FirstRank!Step, Step
      <4> QED BY <4>2 DEF FirstRank!Next
    <3>2. CASE Ticks(0)
      <4>1. /\ FirstRank!Before = Earlier(0) /\ FirstRank!AppliedIn(FirstRank!Step) = Of(0, Step)
            /\ FirstRank!Step = Step
        BY <2>3, FirstIsTheWorker
      <4> QED BY <2>4, <3>2, <4>1 DEF Ticks, FirstRank!Tick, FirstRank!Next
    <3>3. CASE Emits(0)
      <4>1. /\ FirstRank!Before = Earlier(0) /\ FirstRank!AppliedIn(FirstRank!Step) = Of(0, Step)
            /\ FirstRank!Step = Step
        BY <2>3, FirstIsTheWorker
      <4> QED BY <3>3, <4>1 DEF Emits, FirstRank!Emit, FirstRank!Next
    <3>4. CASE Still(0) BY <3>4 DEF Still, FirstRank!vars
    <3> QED BY <2>2, <3>1, <3>2, <3>3, <3>4 DEF WorkerStep
  <2>6. [LastRank!Next]_(LastRank!vars)
    <3>1. CASE AppliesOne(N - 1)
      <4>1. /\ LastRank!Before = Earlier(N - 1) /\ LastRank!AppliedIn(LastRank!Step) = Of(N - 1, Step)
            /\ LastRank!Step = Step
        BY <2>3, LastIsTheWorker
      <4>2. PICK m \in 1 .. Attempts : LastRank!Apply(m)
        BY <2>3, <2>4, <3>1, <4>1 DEF AppliesOne, LastRank!Apply, LastRank!Step, Step
      <4> QED BY <4>2 DEF LastRank!Next
    <3>2. CASE Ticks(N - 1)
      <4>1. /\ LastRank!Before = Earlier(N - 1) /\ LastRank!AppliedIn(LastRank!Step) = Of(N - 1, Step)
            /\ LastRank!Step = Step
        BY <2>3, LastIsTheWorker
      <4> QED BY <2>4, <3>2, <4>1 DEF Ticks, LastRank!Tick, LastRank!Next
    <3>3. CASE Emits(N - 1)
      <4>1. /\ LastRank!Before = Earlier(N - 1) /\ LastRank!AppliedIn(LastRank!Step) = Of(N - 1, Step)
            /\ LastRank!Step = Step
        BY <2>3, LastIsTheWorker
      <4> QED BY <3>3, <4>1 DEF Emits, LastRank!Emit, LastRank!Next
    <3>4. CASE Still(N - 1) BY <3>4 DEF Still, LastRank!vars
    <3> QED BY <2>2, <3>1, <3>2, <3>3, <3>4 DEF WorkerStep
  <2> QED BY <2>2, <2>5, <2>6
<1> QED BY <1>1, <1>2, InitWorker, PTL DEF Spec, ImplementsOneWorker, FirstRank!Spec, LastRank!Spec

-------------------------------------------------------------------------------
(* Checkpoint probes *)

Facts == [flags : Seq(BOOLEAN), stats : Nat, probe : SUBSET Nat]

\* What the observer counted when the k-th step began.
OldModel(k) == IF k = 1 THEN 0 ELSE rows[k - 1].opt

\* A probe is taken in the first micro-batch, before anything is applied, and
\* stays with the rank until it returns.
Probed(r) ==
  /\ pc[r] \in {"plan", "split", "forward"} /\ forwards = 0 => count[r] = 0
  /\ pc[r] \in {"result", "backward", "clip", "step"} =>
       forwards > 0 /\ (forwards = 1 => count[r] = 0)
  /\ pc[r] = "idle" => facts[r].probe = {}
  /\ pc[r] \notin {"idle", "returned"} => facts[r].probe \subseteq {optimizer}
  /\ pc[r] = "returned" => facts[r].probe = {} /\ output[r].facts.probe \subseteq {optimizer}
  /\ driver = "emitted" => output[r].facts.probe \subseteq {OldModel(Len(rows))}

Labelled ==
  /\ optimizer = OldModel(Len(rows) + 1)
  /\ driver = "emitted" => Len(rows) > 0
  /\ IsSequence(probes) /\ \A i \in DOMAIN probes : probes[i].checkpoint \in 1 .. Len(rows)
  /\ ProbesAreOfTheOldModel

PInv ==
  /\ WInv /\ Labelled /\ facts \in [Ranks -> Facts] /\ forwards \in Nat
  /\ \A r \in Ranks : Probed(r)

LEMMA InitProbed == Init => PInv
<1> SUFFICES ASSUME Init PROVE PInv
  OBVIOUS
<1>1. WInv BY InitWorker
<1>2. NoFacts \in Facts BY DEF NoFacts, Facts
<1>3. facts \in [Ranks -> Facts] /\ forwards \in Nat BY <1>2 DEF Init
<1>4. IsSequence(probes) /\ DOMAIN probes = {}
  <2>1. probes = [i \in 1 .. 0 |-> probes[i]] /\ DOMAIN probes = {} BY DEF Init
  <2>2. IsSequence(probes) BY <2>1 DEF IsSequence
  <2> QED BY <2>1, <2>2
<1>5. Labelled BY <1>4 DEF Init, Labelled, OldModel, ProbesAreOfTheOldModel
<1>6. \A r \in Ranks : Probed(r) BY DEF Init, Probed, NoFacts
<1> QED BY <1>1, <1>3, <1>5, <1>6 DEF PInv

\* Nothing is reported.
LEMMA Unlabelled ==
  ASSUME Labelled, UNCHANGED <<rows, optimizer, probes>>, driver' = driver \/ driver' # "emitted"
  PROVE  Labelled' /\ \A k : OldModel(k)' = OldModel(k)
BY DEF Labelled, OldModel, ProbesAreOfTheOldModel

\* A rank whose facts stay: it goes on, or it fails.
LEMMA StaysProbed ==
  ASSUME PInv, NEW r \in Ranks, UNCHANGED <<driver, optimizer, rows, forwards>>,
         facts'[r] = facts[r], output'[r] = output[r], count'[r] = count[r],
         \/ pc'[r] = pc[r]
         \/ pc[r] = "plan" /\ pc'[r] \in {"split", "forward"}
         \/ pc[r] = "split" /\ pc'[r] = "forward"
         \/ pc[r] = "backward" /\ pc'[r] \in {"forward", "clip"}
         \/ pc[r] = "clip" /\ pc'[r] = "step"
         \/ pc[r] \in {"enter", "result"} /\ pc'[r] = "raised"
  PROVE  Probed(r)'
<1>1. Probed(r) /\ OldModel(Len(rows))' = OldModel(Len(rows)) BY DEF PInv, OldModel
<1> QED BY <1>1 DEF Probed

LEMMA ObservedIsOld ==
  ASSUME PInv, NEW r \in Ranks, pc[r] = "result"
  PROVE  Observed(r) \in Facts /\ Observed(r).probe \subseteq {optimizer}
<1>1. weights[r] \in Seq(Nat \X Nat) /\ optimizer \in Nat /\ Len(weights[r]) = optimizer + count[r]
  BY DEF PInv, WInv, OneWorker, Reported, Middle
<1>2. facts[r] \in Facts /\ facts[r].probe \subseteq {optimizer} /\ (forwards = 1 => count[r] = 0)
  BY DEF PInv, Probed
<1> DEFINE shown == IF ProbeNow THEN {Len(weights[r])} ELSE facts[r].probe
<1>3. CASE ~config.observer BY <1>2, <1>3 DEF Observed
<1>4. ASSUME config.observer
      PROVE  Observed(r) = [flags |-> facts[r].flags, stats |-> facts[r].stats + 1, probe |-> shown]
  <2>1. PICK a \in Seq(BOOLEAN), b \in Nat, c \in SUBSET Nat :
          facts[r] = [flags |-> a, stats |-> b, probe |-> c]
    BY <1>2 DEF Facts
  <2> QED BY <1>4, <2>1 DEF Observed
<1>5. facts[r].flags \in Seq(BOOLEAN) /\ facts[r].stats + 1 \in Nat BY <1>2 DEF Facts
<1>6. CASE config.observer /\ ProbeNow
  <2>1. Len(weights[r]) = optimizer BY <1>1, <1>2, <1>6 DEF ProbeNow
  <2>2. shown = {optimizer} /\ shown \in SUBSET Nat BY <1>1, <1>6, <2>1
  <2> HIDE DEF shown
  <2> QED BY <1>4, <1>5, <1>6, <2>2 DEF Facts
<1>7. CASE config.observer /\ ~ProbeNow
  <2>1. shown = facts[r].probe /\ shown \in SUBSET Nat BY <1>1, <1>2, <1>7
  <2> HIDE DEF shown
  <2> QED BY <1>2, <1>4, <1>5, <1>7, <2>1 DEF Facts
<1> QED BY <1>3, <1>6, <1>7

LEMMA UseResultProbed ==
  ASSUME PInv, NEW r \in Ranks, driver = "waiting", UseResult(r)
  PROVE  Probed(r)' /\ facts' \in [Ranks -> Facts]
<1>1. pc[r] = "result" /\ pc'[r] = "backward" /\ UNCHANGED <<drivers, count, output, forwards>>
  BY DEF UseResult, Goto, local, PInv, WInv, IInv, Typed
<1>2. Observed(r) \in Facts /\ Observed(r).probe \subseteq {optimizer} BY <1>1, ObservedIsOld
<1>3. facts' \in [Ranks -> Facts] /\ facts'[r] = Observed(r) BY <1>2 DEF UseResult, PInv
<1> QED BY <1>1, <1>2, <1>3 DEF PInv, Probed, drivers

LEMMA AttemptProbed ==
  ASSUME PInv, NEW r \in Ranks, driver = "waiting", OptimizerStep(r) \/ SkipStep(r)
  PROVE  Probed(r)' /\ facts' \in [Ranks -> Facts]
<1>1. /\ pc[r] = "step" /\ pc'[r] \in {"plan", "finish"}
      /\ UNCHANGED <<drivers, output, forwards>>
      /\ facts' = [facts EXCEPT ![r].flags = IF config.observer THEN Append(@, finite[r]) ELSE @]
  BY DEF OptimizerStep, SkipStep, AfterAttempt, Goto, PInv, WInv, IInv, Typed
<1>2. forwards > 0 /\ forwards \in Nat /\ facts[r].probe \subseteq {optimizer} BY <1>1 DEF PInv, Probed
<1>3. facts[r].flags \in Seq(BOOLEAN) /\ finite[r] \in BOOLEAN /\ facts[r] \in Facts
  BY DEF PInv, Facts, WInv, IInv, Typed
<1>4. (IF config.observer THEN Append(facts[r].flags, finite[r]) ELSE facts[r].flags) \in Seq(BOOLEAN)
  <2> DEFINE flag == BOOLEAN
             flags == facts[r].flags
             did == finite[r]
  <2>1. flags \in Seq(flag) /\ did \in flag BY <1>3
  <2> HIDE DEF flag, flags, did
  <2>2. Append(flags, did) \in Seq(flag) BY <2>1
  <2> QED BY <2>1, <2>2 DEF flag, flags, did
<1>5. facts' \in [Ranks -> Facts] /\ facts'[r].probe = facts[r].probe
  <2> DEFINE f == IF config.observer THEN Append(facts[r].flags, finite[r]) ELSE facts[r].flags
  <2>1. facts' = [facts EXCEPT ![r] = [facts[r] EXCEPT !.flags = f]] BY <1>1
  <2> HIDE DEF f
  <2>2. f \in Seq(BOOLEAN) BY <1>4 DEF f
  <2>3. [facts[r] EXCEPT !.flags = f] \in Facts /\ [facts[r] EXCEPT !.flags = f].probe = facts[r].probe
    BY <1>3, <2>2 DEF Facts
  <2> QED BY <2>1, <2>3 DEF PInv
<1> QED BY <1>1, <1>2, <1>5 DEF PInv, Probed, drivers

LEMMA ReturnProbed ==
  ASSUME PInv, NEW r \in Ranks, driver = "waiting", ReturnOutput(r) \/ ReturnBeforeBackward(r)
  PROVE  Probed(r)' /\ facts' \in [Ranks -> Facts]
<1>1. NoFacts \in Facts /\ NoFacts.probe = {} BY DEF NoFacts, Facts
<1>2. UNCHANGED <<drivers, forwards>> /\ pc'[r] = "returned" /\ facts' = [facts EXCEPT ![r] = NoFacts]
  BY DEF ReturnOutput, ReturnBeforeBackward, AfterConsume, Goto, PInv, WInv, IInv, Typed
<1>3. output'[r].facts.probe \subseteq {optimizer}
  <2>1. CASE ReturnOutput(r)
    <3>1. output'[r].facts = facts[r] /\ pc[r] = "finish" BY <2>1 DEF ReturnOutput, PInv, WInv, Reported
    <3> QED BY <3>1 DEF PInv, Probed
  <2>2. CASE ReturnBeforeBackward(r)
    <3>1. output'[r].facts = Observed(r) /\ pc[r] = "result"
      BY <2>2 DEF ReturnBeforeBackward, PInv, WInv, Reported
    <3> QED BY <3>1, ObservedIsOld
  <2> QED BY <2>1, <2>2
<1>4. facts' \in [Ranks -> Facts] /\ facts'[r].probe = {} BY <1>1, <1>2 DEF PInv
<1> QED BY <1>2, <1>3, <1>4 DEF Probed, drivers

LEMMA EmitRowProbed ==
  ASSUME PInv, EmitRow
  PROVE  Labelled' /\ \A r \in Ranks : Probed(r)'
<1> DEFINE n == Len(rows)
           new == [step |-> Step, opt |-> optimizer', lr |-> output[0].lr,
                   stats |-> Total([q \in Ranks |-> output[q].facts.stats], Ranks)]
<1>1. /\ \A q \in Ranks : pc[q] = "returned" /\ pc'[q] = "idle"
      /\ UNCHANGED <<facts, output, probes>> /\ rows' = Append(rows, new)
  BY DEF EmitRow, Collected, AllAt, AllGoto, local, report
<1>2. new.opt = optimizer' OBVIOUS
<1> HIDE DEF new
<1>3. n \in Nat /\ DOMAIN rows = 1 .. n BY RowsLength DEF PInv, WInv, Reported
<1>4. Len(rows') = n + 1 /\ rows'[n + 1] = new /\ \A i \in 1 .. n : rows'[i] = rows[i]
  BY <1>1, RowAppended DEF PInv, WInv, Reported
<1>5. \A k \in 1 .. n + 1 : OldModel(k)' = OldModel(k) BY <1>3, <1>4 DEF OldModel
<1>6. OldModel(Len(rows) + 1)' = optimizer'
  <2>1. Len(rows') + 1 # 1 /\ (Len(rows') + 1) - 1 = n + 1 BY <1>3, <1>4
  <2>2. OldModel(Len(rows) + 1)' = rows'[(Len(rows') + 1) - 1].opt BY <2>1 DEF OldModel
  <2> QED BY <1>2, <1>4, <2>1, <2>2
<1>7. Labelled'
  <2>2. \A i \in DOMAIN probes : probes[i].checkpoint \in 1 .. n /\ probes[i].probed = {OldModel(probes[i].checkpoint)}
    BY DEF PInv, Labelled, ProbesAreOfTheOldModel, OldModel
  <2>3. ProbesAreOfTheOldModel'
    <3>1. ASSUME NEW i \in DOMAIN probes
          PROVE  probes[i].probed = {OldModel(probes[i].checkpoint)'}
      <4>1. probes[i].checkpoint \in 1 .. n + 1 /\ probes[i].probed = {OldModel(probes[i].checkpoint)}
        BY <1>3, <2>2
      <4>2. probes' = probes BY <1>1
      <4>3. PICK k \in 1 .. n + 1 : k = probes[i].checkpoint BY <4>1
      <4>4. OldModel(k)' = OldModel(k) BY <1>5
      <4>5. OldModel(probes[i].checkpoint)' = OldModel(k)' BY <4>2, <4>3
      <4> QED BY <4>1, <4>3, <4>4, <4>5
    <3> QED BY <1>1, <3>1 DEF ProbesAreOfTheOldModel, OldModel
  <2>4. \A i \in DOMAIN probes : probes[i].checkpoint \in 1 .. n + 1 BY <1>3, <2>2
  <2> QED BY <1>1, <1>3, <1>4, <1>6, <2>3, <2>4 DEF PInv, Labelled
<1>8. ASSUME NEW r \in Ranks PROVE Probed(r)'
  <2>1. facts[r].probe = {} /\ output[r].facts.probe \subseteq {optimizer} BY <1>1 DEF PInv, Probed
  <2>2. OldModel(Len(rows))' = optimizer BY <1>3, <1>4, <1>5 DEF PInv, Labelled, OldModel
  <2> QED BY <1>1, <2>1, <2>2 DEF Probed
<1> QED BY <1>7, <1>8

LEMMA EmitProbeProbed ==
  ASSUME PInv, EmitProbe
  PROVE  Labelled' /\ \A r \in Ranks : Probed(r)'
<1> DEFINE packets == {r \in Ranks : output[r].facts.probe # {}}
           shown == UNION {output[r].facts.probe : r \in packets}
           new == [checkpoint |-> Len(rows), opt |-> optimizer, probed |-> shown]
<1>1. /\ driver = "emitted" /\ driver' # "emitted"
      /\ UNCHANGED <<rows, optimizer, pc, count, facts, output, forwards>>
      /\ \/ packets = Ranks /\ probes' = Append(probes, new)
         \/ probes' = probes
  BY DEF EmitProbe, local, report
<1>2. \A r \in Ranks : Probed(r)' BY <1>1 DEF PInv, Probed
<1>3. \A k : OldModel(k)' = OldModel(k) BY <1>1 DEF OldModel
<1>4. CASE probes' = probes
  <2>1. Labelled' BY <1>1, <1>4, Unlabelled DEF PInv
  <2> QED BY <1>2, <2>1
<1>5. CASE packets = Ranks /\ probes' = Append(probes, new)
  <2>1. shown = {OldModel(Len(rows))}
    <3>1. \A r \in Ranks : output[r].facts.probe = {OldModel(Len(rows))}
      BY <1>1, <1>5 DEF PInv, Probed
    <3>2. 0 \in Ranks BY UpdateAssumption DEF Ranks
    <3> QED BY <1>5, <3>1, <3>2
  <2>2. new.checkpoint = Len(rows) /\ new.probed = shown OBVIOUS
  <2>3. PICK n \in Nat : probes = [i \in 1 .. n |-> probes[i]] BY DEF PInv, Labelled, IsSequence
  <2> HIDE DEF new, shown
  <2> DEFINE S == {probes[i] : i \in DOMAIN probes} \cup {new}
  <2>4. DOMAIN probes = 1 .. n /\ probes \in Seq(S) /\ new \in S /\ Len(probes) = n BY <2>3
  <2> HIDE DEF S
  <2>5. probes' \in Seq(S) /\ Len(probes') = n + 1 BY <1>5, <2>4
  <2>6. DOMAIN probes' = 1 .. n + 1 /\ probes' = [i \in 1 .. n + 1 |-> probes'[i]]
    <3>1. DOMAIN probes' = 1 .. n + 1 BY <2>5, SequenceIsFunction
    <3>2. probes' = [i \in 1 .. Len(probes') |-> probes'[i]] BY <2>5, SequenceIsFunction
    <3> QED BY <2>5, <3>1, <3>2
  <2>7. probes'[n + 1] = new /\ \A i \in 1 .. n : probes'[i] = probes[i] BY <1>5, <2>4
  <2>8. IsSequence(probes')
    <3>1. n + 1 \in Nat OBVIOUS
    <3> QED BY <2>6, <3>1 DEF IsSequence
  <2>9. Len(rows) \in 1 .. Len(rows) BY <1>1, RowsLength DEF PInv, Labelled, WInv, Reported
  <2>10. \A i \in 1 .. n : /\ probes[i].checkpoint \in 1 .. Len(rows)
                          /\ probes[i].probed = {OldModel(probes[i].checkpoint)}
    BY <2>4 DEF PInv, Labelled, ProbesAreOfTheOldModel, OldModel
  <2>11. \A i \in 1 .. n + 1 : /\ probes'[i].checkpoint \in 1 .. Len(rows)
                              /\ probes'[i].probed = {OldModel(probes'[i].checkpoint)}
    <3> TAKE i \in 1 .. n + 1
    <3>1. CASE i = n + 1 BY <2>1, <2>2, <2>7, <2>9, <3>1
    <3>2. CASE i \in 1 .. n BY <2>7, <2>10, <3>2
    <3> QED BY <3>1, <3>2
  <2>12. Labelled'
    BY <1>1, <2>6, <2>8, <2>11 DEF PInv, Labelled, ProbesAreOfTheOldModel, OldModel
  <2> QED BY <1>2, <2>12
<1> QED BY <1>1, <1>2, <1>4, <1>5

LEMMA CollectiveProbed ==
  ASSUME PInv, driver = "waiting", Collective
  PROVE  \A r \in Ranks : Probed(r)'
<1> SUFFICES ASSUME NEW r \in Ranks PROVE Probed(r)'
  OBVIOUS
<1>1. CASE SplitByTokens
  <2>1. pc[r] = "split" /\ pc'[r] = "forward" BY <1>1 DEF SplitByTokens, AllAt, AllGoto
  <2> QED BY <1>1, <2>1, StaysProbed DEF SplitByTokens, drivers, report
<1>2. CASE ForwardPass
  <2>1. /\ pc[r] = "forward" /\ pc'[r] = "result" /\ forwards' = forwards + 1
        /\ UNCHANGED <<driver, optimizer, rows, count, facts, output>>
    BY <1>2 DEF ForwardPass, AllAt, AllGoto, drivers, local, report
  <2>2. forwards \in Nat /\ Probed(r) BY DEF PInv
  <2>3. forwards' > 0 /\ (forwards' = 1 => forwards = 0) BY <2>1, <2>2
  <2> QED BY <2>1, <2>2, <2>3 DEF Probed
<1>3. CASE Backward
  <2>1. pc[r] = "backward" /\ pc'[r] \in {"forward", "clip"} BY <1>3 DEF Backward, AllAt
  <2> QED BY <1>3, <2>1, StaysProbed DEF Backward, drivers, report
<1>4. CASE ClipGradNorm
  <2>1. pc[r] = "clip" /\ pc'[r] = "step" BY <1>4 DEF ClipGradNorm, AllAt, AllGoto
  <2> QED BY <1>4, <2>1, StaysProbed DEF ClipGradNorm, drivers, report
<1> QED BY <1>1, <1>2, <1>3, <1>4 DEF Collective

LEMMA RankProbed ==
  ASSUME PInv, driver = "waiting", NEW r \in Ranks, Rank(r)
  PROVE  facts' \in [Ranks -> Facts] /\ \A q \in Ranks : Probed(q)'
<1>1. /\ UNCHANGED <<drivers, forwards>>
      /\ \A q \in Ranks \ {r} : /\ pc'[q] = pc[q] /\ count'[q] = count[q]
                                /\ facts'[q] = facts[q] /\ output'[q] = output[q]
  <2>1. CASE Enter(r) BY <2>1 DEF Enter, Goto, report, PInv, WInv, IInv, Typed
  <2>2. CASE SplitBySize(r) BY <2>2 DEF SplitBySize, Goto, report, PInv, WInv, IInv, Typed
  <2>3. CASE CountByTokens(r) BY <2>3 DEF CountByTokens, Goto, report, PInv, WInv, IInv, Typed
  <2>4. CASE UseResult(r) BY <2>4 DEF UseResult, Goto, local, PInv, WInv, IInv, Typed
  <2>5. CASE ReturnBeforeBackward(r)
    BY <2>5 DEF ReturnBeforeBackward, Goto, PInv, WInv, Reported, IInv, Typed
  <2>6. CASE Raise(r) BY <2>6 DEF Raise, Goto, local, report, PInv, WInv, IInv, Typed
  <2>7. CASE OptimizerStep(r)
    BY <2>7 DEF OptimizerStep, AfterAttempt, Goto, PInv, WInv, IInv, Typed
  <2>8. CASE SkipStep(r) BY <2>8 DEF SkipStep, AfterAttempt, Goto, PInv, WInv, IInv, Typed
  <2>9. CASE ReturnOutput(r) BY <2>9 DEF ReturnOutput, Goto, PInv, WInv, Reported, IInv, Typed
  <2> QED BY <2>1, <2>2, <2>3, <2>4, <2>5, <2>6, <2>7, <2>8, <2>9 DEF Rank
<1>2. Probed(r)' /\ facts' \in [Ranks -> Facts]
  <2>1. CASE Enter(r)
    <3>1. /\ pc[r] = "enter" /\ pc'[r] \in {"raised", "plan"} /\ count'[r] = 0
          /\ UNCHANGED <<facts, output>>
      BY <2>1 DEF Enter, Goto, report, PInv, WInv, IInv, Typed
    <3> QED BY <1>1, <3>1 DEF PInv, Probed, drivers
  <2>2. CASE SplitBySize(r) \/ CountByTokens(r)
    <3>1. /\ pc[r] = "plan" /\ pc'[r] \in {"split", "forward"}
          /\ UNCHANGED <<facts, output, count>>
      BY <2>2 DEF SplitBySize, CountByTokens, Goto, report, PInv, WInv, IInv, Typed
    <3> QED BY <1>1, <3>1, StaysProbed DEF PInv, drivers
  <2>3. CASE Raise(r)
    <3>1. /\ pc[r] = "result" /\ pc'[r] = "raised" /\ UNCHANGED <<facts, output, count>>
      BY <2>3 DEF Raise, Goto, local, report, PInv, WInv, IInv, Typed
    <3> QED BY <1>1, <3>1, StaysProbed DEF PInv, drivers
  <2>4. CASE UseResult(r) BY <2>4, UseResultProbed
  <2>5. CASE OptimizerStep(r) \/ SkipStep(r) BY <2>5, AttemptProbed
  <2>6. CASE ReturnOutput(r) \/ ReturnBeforeBackward(r) BY <2>6, ReturnProbed
  <2> QED BY <2>1, <2>2, <2>3, <2>4, <2>5, <2>6 DEF Rank
<1>3. ASSUME NEW q \in Ranks \ {r} PROVE Probed(q)' BY <1>1, StaysProbed DEF drivers
<1> QED BY <1>2, <1>3

LEMMA DriverProbed ==
  ASSUME PInv, Driver
  PROVE  Labelled' /\ facts' \in [Ranks -> Facts] /\ forwards' \in Nat /\ \A r \in Ranks : Probed(r)'
<1>1. CASE UpdateActor
  <2>1. /\ driver = "ready" /\ driver' = "waiting" /\ forwards' = 0
        /\ UNCHANGED <<optimizer, rows, probes, facts, output>>
        /\ \A r \in Ranks : pc[r] = "idle" /\ pc'[r] = "enter"
    BY <1>1 DEF UpdateActor, AllGoto, report, PInv, WInv, IInv, Phases, AllAt
  <2>2. Labelled' BY <2>1, Unlabelled DEF PInv
  <2> QED BY <2>1, <2>2 DEF PInv, Probed
<1>2. CASE EmitRow BY <1>2, EmitRowProbed DEF EmitRow, report, PInv
<1>3. CASE EmitProbe BY <1>3, EmitProbeProbed DEF EmitProbe, report, PInv
<1>4. CASE RefuseOutput \/ DriverSeesFailure
  <2>1. /\ driver' = "failed" /\ UNCHANGED <<optimizer, rows, probes, pc, count, facts, output, forwards>>
    BY <1>4 DEF RefuseOutput, DriverSeesFailure, local, report
  <2>2. Labelled' BY <2>1, Unlabelled DEF PInv
  <2> QED BY <2>1, <2>2 DEF PInv, Probed
<1> QED BY <1>1, <1>2, <1>3, <1>4 DEF Driver

LEMMA NextProbed == PInv /\ [Next]_vars => PInv'
<1> SUFFICES ASSUME PInv, [Next]_vars PROVE PInv'
  OBVIOUS
<1>1. WInv' BY NextWorker DEF PInv
<1>2. Labelled' /\ facts' \in [Ranks -> Facts] /\ forwards' \in Nat /\ \A r \in Ranks : Probed(r)'
  <2>1. CASE Driver BY <2>1, DriverProbed
  <2>2. CASE driver = "waiting" /\ Collective
    <3>1. /\ UNCHANGED <<drivers, report>> /\ forwards' \in Nat
      BY <2>2 DEF Collective, SplitByTokens, ForwardPass, Backward, ClipGradNorm, PInv
    <3>2. Labelled' BY <3>1, Unlabelled DEF drivers, PInv
    <3> QED BY <2>2, <3>1, <3>2, CollectiveProbed DEF report, PInv
  <2>3. CASE driver = "waiting" /\ \E r \in Ranks : Rank(r)
    <3>1. PICK r \in Ranks : Rank(r) BY <2>3
    <3>2. UNCHANGED <<drivers, forwards>>
      BY <3>1 DEF Rank, Enter, SplitBySize, CountByTokens, UseResult, ReturnBeforeBackward, Raise,
                  OptimizerStep, SkipStep, AfterAttempt, ReturnOutput
    <3>3. Labelled' BY <3>2, Unlabelled DEF drivers, PInv
    <3> QED BY <2>3, <3>1, <3>2, <3>3, RankProbed DEF PInv
  <2>4. CASE UNCHANGED vars
    <3>1. UNCHANGED <<driver, optimizer, rows, probes, pc, count, facts, output, forwards>>
      BY <2>4 DEF vars, drivers, local, report
    <3>2. Labelled' BY <3>1, Unlabelled DEF PInv
    <3> QED BY <3>1, <3>2, StaysProbed DEF PInv
  <2> QED BY <2>1, <2>2, <2>3, <2>4 DEF Next
<1> QED BY <1>1, <1>2 DEF PInv

\* ProbesAreOfTheOldModel.  However many mini-batches an update has, whatever is
\* skipped and whoever raises, a checkpoint probe shows, on every rank, the model
\* that the row of the previous step describes (dp_actor.py:886, ray_trainer.py:1609).
THEOREM ProbesShowTheOldModel == Spec => []ProbesAreOfTheOldModel
<1>1. PInv => ProbesAreOfTheOldModel BY DEF PInv, Labelled
<1> QED BY InitProbed, NextProbed, <1>1, PTL DEF Spec
-------------------------------------------------------------------------------
(* Statistics: what a rank has counted tells how many forward passes it has
   been through, from the call to the packet. *)

Entered == {"enter", "plan", "split", "forward", "backward", "clip", "step", "finish"}

Counted(r) ==
  config.observer =>
    /\ pc[r] = "idle" => facts[r].stats = 0
    /\ pc[r] \in Entered => facts[r].stats = forwards
    /\ pc[r] = "result" => facts[r].stats + 1 = forwards
    /\ pc[r] = "returned" => facts[r].stats = 0 /\ output[r].facts.stats = forwards

CInv == PInv /\ (\A r \in Ranks : Counted(r)) /\ RowsCountEveryShard

LEMMA InitCounted == Init => CInv
<1> SUFFICES ASSUME Init PROVE CInv
  OBVIOUS
<1>1. \A r \in Ranks : Counted(r) BY DEF Init, Counted, NoFacts, Entered
<1>2. RowsCountEveryShard BY DEF Init, RowsCountEveryShard
<1> QED BY <1>1, <1>2, InitProbed DEF CInv

LEMMA CollectiveCounted ==
  ASSUME CInv, Collective, NEW r \in Ranks
  PROVE  Counted(r)'
<1>1. Counted(r) /\ forwards \in Nat /\ facts[r].stats \in Nat BY DEF CInv, PInv, Facts
<1>2. UNCHANGED <<config, facts, output>>
  BY DEF Collective, SplitByTokens, ForwardPass, Backward, ClipGradNorm, drivers, report
<1>3. CASE ForwardPass
  <2>1. pc[r] = "forward" /\ pc'[r] = "result" /\ forwards' = forwards + 1
    BY <1>3 DEF ForwardPass, AllAt, AllGoto
  <2> QED BY <1>1, <1>2, <2>1 DEF Counted, Entered
<1>4. CASE SplitByTokens \/ Backward \/ ClipGradNorm
  <2>1. /\ pc[r] \in {"split", "backward", "clip"} /\ pc'[r] \in {"forward", "clip", "step"}
        /\ forwards' = forwards
    BY <1>4 DEF SplitByTokens, Backward, ClipGradNorm, AllAt, AllGoto
  <2> QED BY <1>1, <1>2, <2>1 DEF Counted, Entered
<1> QED BY <1>3, <1>4 DEF Collective

LEMMA ObservedCounts ==
  ASSUME CInv, config.observer, NEW r \in Ranks, pc[r] = "result"
  PROVE  Observed(r).stats = forwards
<1>1. facts[r].stats + 1 = forwards /\ facts[r] \in Facts BY DEF CInv, PInv, Counted
<1>2. PICK a \in Seq(BOOLEAN), b \in Nat, c \in SUBSET Nat : facts[r] = [flags |-> a, stats |-> b, probe |-> c]
  BY <1>1 DEF Facts
<1> QED BY <1>1, <1>2 DEF Observed

LEMMA RankCounted ==
  ASSUME CInv, NEW r \in Ranks, Rank(r), NEW q \in Ranks
  PROVE  Counted(q)'
<1>1. UNCHANGED <<config, forwards>>
  BY DEF Rank, Enter, SplitBySize, CountByTokens, UseResult, ReturnBeforeBackward, Raise,
         OptimizerStep, SkipStep, AfterAttempt, ReturnOutput, drivers
<1>2. Counted(q) /\ facts[q] \in Facts BY DEF CInv, PInv
<1>3. /\ PInv /\ pc \in [Ranks -> Places] /\ facts \in [Ranks -> Facts]
      /\ output = [p \in Ranks |-> output[p]]
  BY DEF CInv, PInv, WInv, IInv, Typed, Reported
<1>4. ASSUME q # r PROVE pc'[q] = pc[q] /\ facts'[q] = facts[q] /\ output'[q] = output[q]
  <2>1. CASE Enter(r) \/ SplitBySize(r) \/ CountByTokens(r) \/ Raise(r)
    BY <1>3, <1>4, <2>1 DEF Enter, SplitBySize, CountByTokens, Raise, Goto, report
  <2>2. CASE UseResult(r) BY <1>3, <1>4, <2>2 DEF UseResult, Goto
  <2>3. CASE ReturnBeforeBackward(r) BY <1>3, <1>4, <2>3 DEF ReturnBeforeBackward, Goto
  <2>4. CASE OptimizerStep(r) BY <1>3, <1>4, <2>4 DEF OptimizerStep, AfterAttempt, Goto
  <2>5. CASE SkipStep(r) BY <1>3, <1>4, <2>5 DEF SkipStep, AfterAttempt, Goto
  <2>6. CASE ReturnOutput(r) BY <1>3, <1>4, <2>6 DEF ReturnOutput, Goto
  <2> QED BY <2>1, <2>2, <2>3, <2>4, <2>5, <2>6 DEF Rank
<1>5. ASSUME q = r PROVE Counted(q)'
  <2>1. CASE Enter(r) \/ SplitBySize(r) \/ CountByTokens(r) \/ Raise(r)
    <3>1. /\ UNCHANGED <<facts, output>> /\ pc[r] \in {"enter", "plan", "result"}
          /\ pc'[r] \in {"raised", "plan", "forward", "split"} /\ (pc[r] = "result" => pc'[r] = "raised")
      BY <1>3, <2>1 DEF Enter, SplitBySize, CountByTokens, Raise, Goto, report
    <3> QED BY <1>1, <1>2, <1>5, <3>1 DEF Counted, Entered
  <2>2. CASE UseResult(r)
    <3>1. pc[r] = "result" /\ pc'[r] = "backward" /\ facts'[r] = Observed(r)
      BY <1>3, <2>2 DEF UseResult, Goto
    <3> QED BY <1>1, <1>5, <3>1, ObservedCounts DEF Counted, Entered
  <2>3. CASE ReturnBeforeBackward(r)
    <3>1. /\ pc[r] = "result" /\ pc'[r] = "returned" /\ facts'[r] = NoFacts
          /\ output'[r].facts = Observed(r)
      BY <1>3, <2>3 DEF ReturnBeforeBackward, Goto
    <3> QED BY <1>1, <1>5, <3>1, ObservedCounts DEF Counted, Entered, NoFacts
  <2>4. CASE OptimizerStep(r) \/ SkipStep(r)
    <3>1. /\ pc[r] = "step" /\ pc'[r] \in {"plan", "finish"}
          /\ facts' = [facts EXCEPT ![r].flags = IF config.observer THEN Append(@, finite[r]) ELSE @]
      BY <1>3, <2>4 DEF OptimizerStep, SkipStep, AfterAttempt, Goto
    <3>2. facts'[r].stats = facts[r].stats
      <4> DEFINE f == IF config.observer THEN Append(facts[r].flags, finite[r]) ELSE facts[r].flags
      <4>1. facts' = [facts EXCEPT ![r] = [facts[r] EXCEPT !.flags = f]] BY <3>1
      <4> HIDE DEF f
      <4> QED BY <1>2, <1>3, <1>5, <4>1 DEF Facts
    <3> QED BY <1>1, <1>2, <1>5, <3>1, <3>2 DEF Counted, Entered
  <2>5. CASE ReturnOutput(r)
    <3>1. /\ pc[r] = "finish" /\ pc'[r] = "returned" /\ facts'[r] = NoFacts
          /\ output'[r].facts = facts[r]
      BY <1>3, <2>5 DEF ReturnOutput, AfterConsume, Goto
    <3> QED BY <1>1, <1>2, <1>5, <3>1 DEF Counted, Entered, NoFacts
  <2> QED BY <2>1, <2>2, <2>3, <2>4, <2>5 DEF Rank
<1>6. CASE q = r BY <1>5, <1>6
<1>7. CASE q # r BY <1>1, <1>2, <1>4, <1>7 DEF Counted
<1> QED BY <1>6, <1>7

\* The sum over the ranks of what each has counted.
LEMMA RowCounts ==
  ASSUME CInv, EmitRow
  PROVE  RowsCountEveryShard'
<1> DEFINE counted == [q \in Ranks |-> output[q].facts.stats]
           new == [step |-> Step, opt |-> optimizer', lr |-> output[0].lr, stats |-> Total(counted, Ranks)]
<1>1. /\ rows' = Append(rows, new) /\ forwards' = forwards /\ config.observer
      /\ \A q \in Ranks : pc[q] = "returned"
  BY DEF EmitRow, Collected, AllAt
<1>2. \A q \in Ranks : counted[q] = forwards BY <1>1 DEF CInv, Counted
<1>3. IsFiniteSet(Ranks) /\ Cardinality(Ranks) = N
  <2>1. N \in Nat \ {0} BY UpdateAssumption
  <2>2. 0 \in Int /\ N - 1 \in Int /\ ~(0 > N - 1) /\ (N - 1) - 0 + 1 = N BY <2>1
  <2> QED BY <2>2, FS_Interval DEF Ranks
<1>4. forwards \in Nat BY DEF CInv, PInv
<1>5. new.stats = N * forwards
  <2> HIDE DEF counted
  <2>1. Total(counted, Ranks) = N * forwards BY <1>2, <1>3, <1>4, TotalAlike
  <2> QED BY <2>1
<1> HIDE DEF new, counted
<1>6. Len(rows') = Len(rows) + 1 /\ rows'[Len(rows) + 1] = new
  BY <1>1, RowAppended DEF CInv, PInv, WInv, Reported
<1> QED BY <1>1, <1>5, <1>6 DEF RowsCountEveryShard, Last

LEMMA DriverCounted ==
  ASSUME CInv, Driver, NEW r \in Ranks
  PROVE  Counted(r)' /\ RowsCountEveryShard'
<1>1. Counted(r) /\ RowsCountEveryShard BY DEF CInv
<1>2. UNCHANGED <<config, facts, output>>
  BY DEF Driver, UpdateActor, EmitRow, RefuseOutput, EmitProbe, DriverSeesFailure, report
<1>3. CASE UpdateActor
  <2>1. pc[r] = "idle" /\ pc'[r] = "enter" /\ forwards' = 0 /\ driver' = "waiting"
    BY <1>3 DEF UpdateActor, AllGoto, CInv, PInv, WInv, IInv, Phases, AllAt
  <2> QED BY <1>1, <1>2, <2>1 DEF Counted, Entered, RowsCountEveryShard
<1>4. CASE EmitRow
  <2>1. pc[r] = "returned" /\ pc'[r] = "idle" BY <1>4 DEF EmitRow, Collected, AllAt, AllGoto
  <2> QED BY <1>1, <1>2, <1>4, <2>1, RowCounts DEF Counted, Entered
<1>5. CASE RefuseOutput \/ EmitProbe \/ DriverSeesFailure
  <2>1. /\ UNCHANGED <<pc, rows, forwards>>
        /\ driver' \in {"failed", "ready"} /\ (driver' = "ready" => driver = "emitted")
    BY <1>5 DEF RefuseOutput, EmitProbe, DriverSeesFailure
  <2> QED BY <1>1, <1>2, <2>1 DEF Counted, RowsCountEveryShard
<1> QED BY <1>3, <1>4, <1>5 DEF Driver

LEMMA NextCounted == CInv /\ [Next]_vars => CInv'
<1> SUFFICES ASSUME CInv, [Next]_vars PROVE CInv'
  OBVIOUS
<1>1. PInv' BY NextProbed DEF CInv
<1>2. (\A r \in Ranks : Counted(r)') /\ RowsCountEveryShard'
  <2>1. CASE Driver
    <3>1. 0 \in Ranks BY UpdateAssumption DEF Ranks
    <3> QED BY <2>1, <3>1, DriverCounted
  <2>2. CASE driver = "waiting" /\ Collective
    <3>1. driver' = "waiting" 
      BY <2>2 DEF Collective, SplitByTokens, ForwardPass, Backward, ClipGradNorm, drivers
    <3> QED BY <2>2, <3>1, CollectiveCounted DEF RowsCountEveryShard
  <2>3. CASE driver = "waiting" /\ \E r \in Ranks : Rank(r)
    <3>1. PICK r \in Ranks : Rank(r) BY <2>3
    <3>2. driver' = "waiting"
      BY <2>3, <3>1 DEF Rank, Enter, SplitBySize, CountByTokens, UseResult, ReturnBeforeBackward, Raise,
                  OptimizerStep, SkipStep, AfterAttempt, ReturnOutput, drivers
    <3> QED BY <3>1, <3>2, RankCounted DEF RowsCountEveryShard
  <2>4. CASE UNCHANGED vars
    BY <2>4 DEF vars, drivers, report, CInv, Counted, RowsCountEveryShard
  <2> QED BY <2>1, <2>2, <2>3, <2>4 DEF Next
<1> QED BY <1>1, <1>2 DEF CInv

\* RowsCountEveryShard.  For any number of ranks, mini-batches and micro-batches,
\* skipped ones included, the statistics of a row are those of every micro-batch
\* of every rank in its update, none counted twice (dp_actor.py:192-215).
THEOREM StatisticsOfEveryShard == Spec => []RowsCountEveryShard
<1>1. CInv => RowsCountEveryShard BY DEF CInv
<1> QED BY InitCounted, NextCounted, <1>1, PTL DEF Spec
===============================================================================
