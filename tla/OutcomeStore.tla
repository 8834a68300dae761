----------------------------- MODULE OutcomeStore -----------------------------
(***************************************************************************)
(* The store of a governed outcome (lib/outcome-store.ts): its executions, *)
(* each with the reservation of its cost, and the operations on them that  *)
(* need no worker (lib/investigation-workflow.ts).                         *)
(*                                                                         *)
(* Every operation here is one withOutcomeMutation: the outcome lock, then *)
(* the locks of the worktrees, the checks of their legacy state, the       *)
(* operation, one atomic write of the next revision.  The lock is the one  *)
(* of SessionMutationLock, so a mutation is one step; one that is refused  *)
(* or fails changes nothing and ends its command.                          *)
(***************************************************************************)
EXTENDS Naturals, FiniteSets

CONSTANTS Ids,      \* the identities of the actions that may be nominated
          Modes     \* for each the modes it may be nominated with:
                    \* "process", "managed", "github-actions"

VARIABLES receipt,   \* the execution of each action, with its reservation
          lifecycle  \* "active" or "stopped-unmet"

store == <<receipt, lifecycle>>

Terminal == {"completed", "failed", "cancelled"}
Settled  == {"measured", "estimated"}

terminalExecution(r) == r.status \in Terminal

\* worker: the launch record; pid is 0 until a worker claims it, child names
\* the governed process it recorded last, cancel is cancelRequestedAt.
NoWorker == [launched |-> FALSE, observer |-> 0, pid |-> 0, child |-> "none", cancel |-> FALSE]
Absent   == [mode |-> "none", status |-> "absent", settlement |-> "none", worker |-> NoWorker]

StoreInit == receipt = [e \in Ids |-> Absent] /\ lifecycle = "active"

Present(e) == receipt[e].status # "absent"

\* outcomeUsage: the reservations that still count in full, and the unknown ones.
Exposed(e) == Present(e) /\ receipt[e].settlement \notin Settled
UnknownExecutions == {e \in Ids : receipt[e].settlement = "unknown"}

\* settleInOutcome: a settlement that was measured or estimated is final.
settleInOutcome(r, kind) == IF r.settlement \in Settled THEN r ELSE [r EXCEPT !.settlement = kind]

Closed(r, status, kind) == [settleInOutcome(r, kind) EXCEPT !.status = status]

\* nominateOutcomeAction and reserveInOutcome
MayNominate == /\ lifecycle = "active" /\ UnknownExecutions = {}
               /\ \A x \in Ids : Present(x) => terminalExecution(receipt[x])

Nominated(e, m) ==
  /\ ~Present(e) /\ MayNominate
  /\ receipt' = [receipt EXCEPT ![e] = [Absent EXCEPT !.mode = m, !.status = "preparing",
                                                      !.settlement = "reserved"]]
  /\ UNCHANGED lifecycle

\* prepareOutcomeAction: the inputs and the candidate's base are captured.
Prepared(r) == IF r.status # "preparing" THEN r
               ELSE [r EXCEPT !.status = IF r.mode = "managed" THEN "ticket" ELSE "launching"]

\* ... or its checks throw: the reservation expired, a repeated failure, inputs.
Unprepared(r) == IF r.status # "preparing" THEN r ELSE Closed(r, "failed", "measured")

\* logOutcomeObservation of a ticket that is reported completed.
LogTicket(e) ==
  /\ receipt[e].status = "ticket"
  /\ receipt' = [receipt EXCEPT ![e] = Closed(@, "completed", "measured")]
  /\ UNCHANGED lifecycle

NothingOutstanding == \A e \in Ids : ~Exposed(e)

\* stopOutcome and amendOutcome
Stop  == NothingOutstanding /\ lifecycle' = "stopped-unmet" /\ UNCHANGED receipt
Amend == NothingOutstanding /\ lifecycle' = "active" /\ UNCHANGED receipt
===============================================================================
