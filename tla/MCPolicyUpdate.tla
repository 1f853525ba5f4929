---------------------------- MODULE MCPolicyUpdate ----------------------------
(* PolicyUpdate with the configurations the runs look at. *)
EXTENDS PolicyUpdate

\* All that fit accepts: it refuses the monitor without the observer, and dynamic
\* micro-batches with it (ray_trainer.py:408-418).
AllConfigs == {c \in [observer : BOOLEAN, dynamic : BOOLEAN, monitor : BOOLEAN] :
                 (c.monitor => c.observer) /\ (c.dynamic => ~c.observer)}
ObserverOff == {[observer |-> FALSE, dynamic |-> FALSE, monitor |-> FALSE]}
===============================================================================
