------------------------------ MODULE MCOutcome ------------------------------
(* Model-checking instances of the outcome worker: the outcome_* runs. One   *)
(* action is a process, a second one a managed ticket.                       *)
EXTENDS OutcomeWorker, TLC

MCModes  == (1 :> {"process"}) @@ (2 :> {"managed"})
Symmetry == Permutations(Cmds)

\* With two commands, a behaviour has a death or a fault, not both.
MCNext == Next /\ deaths' + faults' <= 1
MCSpec == Init /\ [][MCNext]_vars
===============================================================================
