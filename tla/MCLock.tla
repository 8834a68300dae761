-------------------------------- MODULE MCLock --------------------------------
(* SessionMutationLock on a small instance: deaths alone, or one death with  *)
(* calls that fail and pids that are used again.                             *)
EXTENDS SessionMutationLock

MCNext == FaultyNext /\ (faults' > 0 => crashes' <= 1)
MCSpec == Init /\ [][MCNext]_vars /\ Fairness
=============================================================================
