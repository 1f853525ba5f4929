------------------------------- MODULE PartLog -------------------------------
(***************************************************************************)
(* What one metrics table promises to the trainer and to whoever reads it: *)
(* a set of batches of rows, committed whole, no row key committed twice.  *)
(* A batch leaves the log only if a resume cuts it off, if it can no longer *)
(* be read, or if power failed before the append that wrote it returned.   *)
(* PartWriter is the code that has to keep this promise.                   *)
(***************************************************************************)
EXTENDS Integers

CONSTANTS Key,         \* primary keys of rows
          StepOf,      \* the checkpoint_step / global_step of the row with a key
          Batch,       \* the batches callers append, as sets of keys
          Cut,         \* checkpoint steps a resume may name
          ReadsFail,   \* may a committed batch become unreadable?
          PowerFails   \* may the machine lose power?

VARIABLES log,     \* the committed batches
          acked    \* those whose append has returned to its caller

logVars == <<log, acked>>

LogInit == log = {} /\ acked = {}

Commit == \E b \in Batch :
            /\ b # {}
            /\ \A c \in log : b \cap c = {}
            /\ log' = log \cup {b}
            /\ UNCHANGED acked

Return == \E b \in log : acked' = acked \cup {b} /\ UNCHANGED log

CutOff == \E s \in Cut, b \in log :
            /\ \E k \in b : StepOf[k] > s
            /\ log' = log \ {b}
            /\ acked' = acked \ {b}

Discard == /\ ReadsFail
           /\ \E b \in log : log' = log \ {b} /\ acked' = acked \ {b}

Forget == /\ PowerFails
          /\ \E lost \in SUBSET (log \ acked) : log' = log \ lost
          /\ UNCHANGED acked

LogNext == Commit \/ Return \/ CutOff \/ Discard \/ Forget

LogSpec == LogInit /\ [][LogNext]_logVars
=============================================================================
