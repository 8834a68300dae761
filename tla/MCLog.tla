-------------------------------- MODULE MCLog --------------------------------
(* LogTransaction on a small instance.  Every bound holds alone; into one   *)
(* behaviour come all the deaths with a change of the user's or a Git       *)
(* command, or the change and the command without a death.                  *)
EXTENDS LogTransaction

MCNext == Next /\ (crashes' > 0 => faults' + gits' <= 1)
MCSpec == Init /\ [][MCNext]_vars /\ Fairness
=============================================================================
