------------------------------ MODULE PolicyStep ------------------------------
(***************************************************************************)
(* What the trainer expects of "the actor" when it calls update_actor: one *)
(* worker with one copy of the weights.  In each training step it may      *)
(* apply mini-batches, in order and each at most once (one with a          *)
(* non-finite gradient is skipped); then its scheduler advances, once if   *)
(* anything was applied; then one row is emitted, which carries the number *)
(* of mini-batches ever applied and the learning rate they were applied    *)
(* with.  It may also stop for good, at any point.                         *)
(***************************************************************************)
EXTENDS Naturals, Sequences, FiniteSets

CONSTANT Attempts      \* mini-batches of one update (ppo_epochs included)

VARIABLES
  weights,   \* the <<step, mini-batch>> applied, in order
  ticks,     \* how far the learning-rate scheduler has advanced
  rows       \* the rows emitted, one per step

vars == <<weights, ticks, rows>>

Step == Len(rows) + 1

AppliedIn(step) == {i \in DOMAIN weights : weights[i][1] = step}

\* The earlier steps that changed the weights: the learning rate of this one.
Before == Cardinality({s \in DOMAIN rows : AppliedIn(s) # {}})

Init ==
  /\ weights = <<>>
  /\ ticks = 0
  /\ rows = <<>>

\* One mini-batch of the current step becomes part of the weights.
Apply(m) ==
  /\ ticks = Before
  /\ \A i \in AppliedIn(Step) : weights[i][2] < m
  /\ weights' = Append(weights, <<Step, m>>)
  /\ UNCHANGED <<ticks, rows>>

\* The scheduler follows, once for a step that changed the weights.
Tick ==
  /\ AppliedIn(Step) # {}
  /\ ticks = Before
  /\ ticks' = ticks + 1
  /\ UNCHANGED <<weights, rows>>

\* The row of a step tells the truth about the weights and the learning rate.
Emit ==
  /\ AppliedIn(Step) # {} => ticks = Before + 1
  /\ rows' = Append(rows, [step |-> Step, opt |-> Len(weights), lr |-> Before])
  /\ UNCHANGED <<weights, ticks>>

Next == Tick \/ Emit \/ \E m \in 1 .. Attempts : Apply(m)

Spec == Init /\ [][Next]_vars
===============================================================================
