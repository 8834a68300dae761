----------------------------- MODULE OneExecution -----------------------------
(***************************************************************************)
(* What a governed outcome promises of its actions, whoever executes them  *)
(* (a ticket, the local worker, a provider's workflow) and whatever dies,  *)
(* is lost or comes late: one action at a time holds a reservation, it is  *)
(* begun at most once, and its reservation is released once, together with *)
(* a final verdict.  An execution that is uncertain stays reserved.        *)
(***************************************************************************)
EXTENDS Naturals

CONSTANT Ids       \* the identities of the actions

VARIABLES stage,   \* "idle", "reserved" or "released" for each action
          begun,   \* how often its work was started
          verdict, \* the terminal status, "none" before
          stopped  \* the outcome has been stopped

vars == <<stage, begun, verdict, stopped>>

Verdicts == {"completed", "failed", "cancelled"}

Init == /\ stage = [e \in Ids |-> "idle"] /\ begun = [e \in Ids |-> 0]
        /\ verdict = [e \in Ids |-> "none"] /\ stopped = FALSE

Reserve(e) == /\ ~stopped /\ stage[e] = "idle" /\ \A x \in Ids : stage[x] # "reserved"
              /\ stage' = [stage EXCEPT ![e] = "reserved"]
              /\ UNCHANGED <<begun, verdict, stopped>>

Begin(e) == /\ stage[e] = "reserved" /\ begun[e] = 0
            /\ begun' = [begun EXCEPT ![e] = 1]
            /\ UNCHANGED <<stage, verdict, stopped>>

Release(e, v) == /\ stage[e] = "reserved"
                 /\ stage' = [stage EXCEPT ![e] = "released"]
                 /\ verdict' = [verdict EXCEPT ![e] = v]
                 /\ UNCHANGED <<begun, stopped>>

Stop  == /\ \A e \in Ids : stage[e] # "reserved"
         /\ stopped' = TRUE /\ UNCHANGED <<stage, begun, verdict>>

Amend == /\ \A e \in Ids : stage[e] # "reserved"
         /\ stopped' = FALSE /\ UNCHANGED <<stage, begun, verdict>>

Next == \/ \E e \in Ids : Reserve(e) \/ Begin(e) \/ \E v \in Verdicts : Release(e, v)
        \/ Stop \/ Amend

Spec == Init /\ [][Next]_vars
===============================================================================
