---------------------------- MODULE MCConfirmation ----------------------------
(* Model-checking instances of the confirmations: the confirmation_* runs.   *)
EXTENDS OutcomeConfirmation

MCModes  == [e \in Ids |-> {"github-actions"}]
Symmetry == Permutations(Cmds)
===============================================================================
