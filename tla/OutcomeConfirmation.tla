-------------------------- MODULE OutcomeConfirmation --------------------------
(***************************************************************************)
(* A confirmation of a governed outcome (lib/github-confirmation.ts): an   *)
(* action whose work is one run of the accepted GitHub workflow.  The      *)
(* attempt is saved before the run is dispatched, the dispatch is never    *)
(* repeated, and whoever resumes the action looks for the run, retrieves   *)
(* its proof and settles the verdict.  Several commands may do so at once, *)
(* each over a state it read earlier, and each may die; requests are       *)
(* delayed and their answers lost.                                         *)
(*                                                                         *)
(* All attempts here use one accepted dataset.  A command whose request or *)
(* mutation throws outside the dispatch's catch ends as by its death.      *)
(***************************************************************************)
EXTENDS OutcomeStore, Sequences, SequencesExt

CONSTANTS Cmds,       \* the commands that may run at once
          MaxFaults   \* bound on the commands that die or throw, and on the requests
                      \* and mutations that fail within one

VARIABLES attempt,    \* the confirmation of each action
          exposures,  \* confirmationExposures: whose result was disclosed, in order
          run,        \* the provider's run of each action
          posts,      \* how often its dispatch was sent
          cmd, faults

vars == <<receipt, lifecycle, attempt, exposures, run, posts, cmd, faults>>
records  == <<attempt, exposures>>
provider == <<run, posts>>

Verdicts == {"verified", "rejected"}
NoAttempt == [status |-> "none", runId |-> FALSE, fresh |-> FALSE]
Idle == [pc |-> "idle", cancel |-> FALSE, e |-> 0, verdict |-> "none", nested |-> FALSE]

Init == /\ StoreInit /\ attempt = [e \in Ids |-> NoAttempt] /\ exposures = <<>>
        /\ run = [e \in Ids |-> "none"] /\ posts = [e \in Ids |-> 0]
        /\ cmd = [c \in Cmds |-> Idle] /\ faults = 0

Set(e, r)   == receipt' = [receipt EXCEPT ![e] = r] /\ UNCHANGED lifecycle
Save(e, a)  == attempt' = [attempt EXCEPT ![e] = a]
Goto(c, pc) == cmd' = [cmd EXCEPT ![c].pc = pc]
Return(c)   == cmd' = [cmd EXCEPT ![c] = Idle]
At(c, pc)   == cmd[c].pc = pc
Rc(c)       == receipt[cmd[c].e]
Att(c)      == attempt[cmd[c].e]
Fault       == faults < MaxFaults /\ faults' = faults + 1

-----------------------------------------------------------------------------
(* next --action-file, next --resume and next --resume --cancel            *)

NextNew(c, e) == /\ At(c, "idle") /\ Nominated(e, "github-actions")
                 /\ cmd' = [cmd EXCEPT ![c] = [Idle EXCEPT !.pc = "prepare", !.e = e]]
                 /\ UNCHANGED <<records, provider, faults>>

\* The action file again, or its identity: a dispatch of an attempt that began
\* reconciles it, and a reconciliation of one that did not dispatches it.
Reconnect(c, e, cancel) ==
  /\ At(c, "idle") /\ Present(e)
  /\ cmd' = [cmd EXCEPT ![c] = [Idle EXCEPT !.cancel = cancel, !.e = e,
                                !.pc = IF receipt[e].status = "preparing" THEN "prepare" ELSE "read"]]
  /\ UNCHANGED <<store, records, provider, faults>>

Prepare(c) == /\ At(c, "prepare")
              /\ \/ Set(cmd[c].e, Prepared(Rc(c))) /\ Goto(c, "read")
                 \/ Set(cmd[c].e, Unprepared(Rc(c))) /\ Return(c)
              /\ UNCHANGED <<records, provider, faults>>

-----------------------------------------------------------------------------
(* dispatchOutcomeConfirmation                                             *)

\* The attempt is nominated once; it is fresh while nothing was disclosed.
Nominate(c) ==
  /\ At(c, "nominate")
  /\ IF terminalExecution(Rc(c)) THEN Return(c) /\ UNCHANGED attempt
     ELSE IF Att(c).status = "none"
     THEN Goto(c, "check") /\ Save(cmd[c].e, [NoAttempt EXCEPT !.status = "preparing", !.fresh = exposures = <<>>])
     ELSE Goto(c, IF Att(c).status = "preparing" THEN "check" ELSE "read") /\ UNCHANGED attempt
  /\ UNCHANGED <<store, exposures, provider, faults>>

\* Candidate, workflow, revision and inputs are as they were accepted, or not.
Check(c) == /\ At(c, "check") /\ \E pc \in {"admit", "caught"} : Goto(c, pc)
            /\ UNCHANGED <<store, records, provider, faults>>

MayDispatch(a) == a.status = "preparing"

\* canDispatch, unless the reservation has expired.  An attempt that another
\* command dispatched is reconciled within the dispatch's own try.
Admit(c) ==
  /\ At(c, "admit")
  /\ IF MayDispatch(Att(c))
     THEN \/ Save(cmd[c].e, [Att(c) EXCEPT !.status = "dispatching"]) /\ Goto(c, "post")
          \/ Goto(c, "caught") /\ UNCHANGED attempt
     ELSE /\ cmd' = [cmd EXCEPT ![c].pc = "read", ![c].nested = TRUE]
          /\ UNCHANGED attempt
  /\ UNCHANGED <<store, exposures, provider, faults>>

Post(c) == /\ At(c, "post") /\ Goto(c, "await")
           /\ run' = [run EXCEPT ![cmd[c].e] = "sent"] /\ posts' = [posts EXCEPT ![cmd[c].e] = @ + 1]
           /\ UNCHANGED <<store, records, faults>>

\* The answer names the run, is an error, or is lost.
Answer(c) == /\ At(c, "await")
             /\ \/ run[cmd[c].e] \notin {"sent", "refused"} /\ Goto(c, "answered") /\ UNCHANGED faults
                \/ run[cmd[c].e] = "refused" /\ Goto(c, "caught") /\ UNCHANGED faults
                \/ Fault /\ Goto(c, "caught")
             /\ UNCHANGED <<store, records, provider>>

\* The run's identity is saved whatever has become of the attempt meanwhile.
SaveRun(c) == Save(cmd[c].e, [Att(c) EXCEPT !.runId = TRUE, !.status = "running"])

Answered(c) == /\ At(c, "answered")
               /\ \/ SaveRun(c) /\ Return(c) /\ UNCHANGED faults
                  \/ Fault /\ Goto(c, "caught") /\ UNCHANGED attempt
               /\ UNCHANGED <<store, exposures, provider>>

\* Mutant of Unstarted: an attempt whose answer is missing was not started.
UnstartedWithoutRun(a) == ~a.runId

Unstarted(a) == a.status = "preparing"

\* The catch: an attempt that was not started has failed, another is unknown.
Caught(c) ==
  /\ At(c, "caught") /\ Return(c)
  /\ IF terminalExecution(Rc(c)) THEN UNCHANGED <<store, attempt>>
     ELSE IF Unstarted(Att(c))
     THEN Save(cmd[c].e, [Att(c) EXCEPT !.status = "rejected"]) /\ Set(cmd[c].e, Closed(Rc(c), "failed", "measured"))
     ELSE Save(cmd[c].e, [Att(c) EXCEPT !.status = "unknown"]) /\ Set(cmd[c].e, Closed(Rc(c), "unknown", "unknown"))
  /\ UNCHANGED <<exposures, provider, faults>>

-----------------------------------------------------------------------------
(* reconcileOutcomeConfirmation                                            *)

Read(c) ==
  /\ At(c, "read")
  /\ IF terminalExecution(Rc(c)) THEN Return(c)
     ELSE Goto(c, IF Att(c).status \in {"none", "preparing"}
                  THEN IF cmd[c].cancel THEN "withdraw" ELSE "nominate"
                  ELSE IF Att(c).runId THEN "observe" ELSE "find")
  /\ UNCHANGED <<store, records, provider, faults>>

\* Mutant of MayWithdraw: what has no run yet can still be withdrawn.
MayWithdrawUnanswered(a) == ~a.runId

MayWithdraw(a) == a.status \in {"none", "preparing"}

\* Cancelled before dispatch; a dispatch that began meanwhile is an error.
Withdraw(c) ==
  /\ At(c, "withdraw") /\ Return(c)
  /\ IF terminalExecution(Rc(c)) \/ ~MayWithdraw(Att(c)) THEN UNCHANGED <<store, attempt>>
     ELSE /\ Set(cmd[c].e, Closed(Rc(c), "cancelled", "measured"))
          /\ IF Att(c).status = "none" THEN UNCHANGED attempt
             ELSE Save(cmd[c].e, [Att(c) EXCEPT !.status = "rejected"])
  /\ UNCHANGED <<exposures, provider, faults>>

\* The list of runs is searched for the attempt's title.
Find(c) == /\ At(c, "find")
           /\ IF run[cmd[c].e] \in {"none", "sent", "refused"} THEN Return(c) ELSE Goto(c, "found")
           /\ UNCHANGED <<store, records, provider, faults>>

Found(c) == /\ At(c, "found") /\ SaveRun(c) /\ Goto(c, "observe")
            /\ UNCHANGED <<store, exposures, provider, faults>>

\* --cancel asks the provider first, which may come too late.  A run that has
\* ended is verified, rejected, or its proof cannot be retrieved.
Observe(c) ==
  /\ At(c, "observe")
  /\ \E now \in {run[cmd[c].e]} \cup (IF cmd[c].cancel /\ run[cmd[c].e] = "posted" THEN {"other"} ELSE {}) :
       /\ run' = [run EXCEPT ![cmd[c].e] = now]
       /\ CASE now = "posted"  -> Return(c) /\ UNCHANGED faults
            [] now = "other"   -> cmd' = [cmd EXCEPT ![c].pc = "settle", ![c].verdict = "rejected"] /\ UNCHANGED faults
            [] now = "success" -> \/ \E v \in Verdicts : cmd' = [cmd EXCEPT ![c].pc = "settle", ![c].verdict = v]
                                     /\ UNCHANGED faults
                                  \/ Fault /\ Goto(c, "proofless")
  /\ UNCHANGED <<store, records, posts>>

\* A settlement that was made meanwhile makes the mutation throw.
MayForget(r) == r.settlement \notin Settled

Proofless(c) == /\ At(c, "proofless") /\ Return(c)
                /\ IF MayForget(Rc(c))
                   THEN /\ Save(cmd[c].e, [Att(c) EXCEPT !.status = "unknown"])
                        /\ Set(cmd[c].e, Closed(Rc(c), "unknown", "unknown"))
                   ELSE UNCHANGED <<store, attempt>>
                /\ UNCHANGED <<exposures, provider, faults>>

Disclosed(c) == IF Contains(exposures, cmd[c].e) THEN exposures ELSE Append(exposures, cmd[c].e)

\* The verdict, with the provider's duration or an estimate.
Settle(c) ==
  /\ At(c, "settle") /\ Return(c)
  /\ IF terminalExecution(Rc(c)) THEN UNCHANGED <<store, records>>
     ELSE /\ Save(cmd[c].e, [Att(c) EXCEPT !.status = cmd[c].verdict])
          /\ exposures' = Disclosed(c)
          /\ IF cmd[c].verdict = "verified" THEN Set(cmd[c].e, Closed(Rc(c), "completed", "measured"))
             ELSE \E kind \in Settled : Set(cmd[c].e, Closed(Rc(c), "failed", kind))
  /\ UNCHANGED <<provider, faults>>

\* A reconciliation within the dispatch throws into the dispatch's catch.
Throws(c) == /\ cmd[c].pc \in {"read", "find", "found", "observe", "proofless", "settle"}
             /\ cmd[c].nested /\ Fault /\ Goto(c, "caught")
             /\ UNCHANGED <<store, records, provider>>

CmdDies(c) == ~At(c, "idle") /\ Fault /\ Return(c) /\ UNCHANGED <<store, records, provider>>

-----------------------------------------------------------------------------
\* The provider takes a dispatch up or refuses it; its runs end.
Provides(e) == /\ \/ run[e] = "sent" /\ \E r \in {"posted", "refused"} : run' = [run EXCEPT ![e] = r]
                  \/ run[e] = "posted" /\ \E r \in {"success", "other"} : run' = [run EXCEPT ![e] = r]
               /\ UNCHANGED <<store, records, posts, cmd, faults>>

Authority == (Stop \/ Amend) /\ UNCHANGED <<records, provider, cmd, faults>>

Proceed(c) == \/ Prepare(c) \/ Nominate(c) \/ Check(c) \/ Admit(c) \/ Post(c) \/ Answer(c)
              \/ Answered(c) \/ Caught(c) \/ Read(c) \/ Withdraw(c) \/ Find(c) \/ Found(c)
              \/ Observe(c) \/ Proofless(c) \/ Settle(c) \/ Throws(c)

Next == \/ \E c \in Cmds : \/ \E e \in Ids : NextNew(c, e)
                           \/ \E e \in Ids, cancel \in BOOLEAN : Reconnect(c, e, cancel)
                           \/ Proceed(c) \/ CmdDies(c)
        \/ \E e \in Ids : Provides(e)
        \/ Authority

Spec == Init /\ [][Next]_vars

-----------------------------------------------------------------------------
(* Properties                                                              *)

TypeOK ==
  /\ attempt \in [Ids -> [status : Verdicts \cup {"none", "preparing", "dispatching", "running", "unknown"},
                          runId : BOOLEAN, fresh : BOOLEAN]]
  /\ exposures \in Seq(Ids) /\ \A e \in Ids : posts[e] \in Nat
  /\ run \in [Ids -> {"none", "sent", "refused", "posted", "success", "other"}]
  /\ faults \in 0..MaxFaults

\* OutcomeConfirmation implements OneExecution: however many commands resume,
\* cancel or repeat it over what they read earlier, a confirmation is
\* dispatched at most once and only while its reservation stands, and is
\* released once with one verdict (dispatchOutcomeConfirmation,
\* reconcileOutcomeConfirmation).
Abstract == INSTANCE OneExecution WITH
  stage   <- [e \in Ids |-> IF ~Present(e) THEN "idle" ELSE IF Exposed(e) THEN "reserved" ELSE "released"],
  begun   <- posts,
  verdict <- [e \in Ids |-> IF terminalExecution(receipt[e]) THEN receipt[e].status ELSE "none"],
  stopped <- lifecycle = "stopped-unmet"

KeepsPromise == Abstract!Spec

\* verifiedOutcomeConfirmations: evidence counts as independent.
Independent(e) == /\ attempt[e].status = "verified" /\ attempt[e].fresh
                  /\ exposures # <<>> /\ Head(exposures) = e

\* Evidence that counts as independent comes from data no earlier run has
\* seen: a run that was dispatched for another action is still open or was
\* disclosed later, also when that action failed or its answer was lost.
IndependentIsUnseen ==
  \A e \in Ids : Independent(e) =>
    \A x \in Ids \ {e} : posts[x] > 0 => Exposed(x) \/ Contains(Tail(exposures), x)
===============================================================================
