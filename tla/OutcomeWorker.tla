----------------------------- MODULE OutcomeWorker -----------------------------
(***************************************************************************)
(* A process action of a governed outcome: the command that launches it,   *)
(* the detached worker that runs its evaluator and then its checks, and    *)
(* the commands that resume or cancel it (lib/outcome-worker.ts), over the *)
(* store of OutcomeStore.  Commands and workers meet in the receipt and in *)
(* the worker's immutable completion.json, and may die between any two of  *)
(* their steps; the evaluator's processes do not die with the worker.      *)
(*                                                                         *)
(* A process tree is the process the worker started ("root") and what may  *)
(* outlive it in its group ("helper").  A mutation that throws (a lock     *)
(* held for 30 s, legacy state that changed, a failed write) ends a        *)
(* command as its death does; in a worker it has the effects given below.  *)
(***************************************************************************)
EXTENDS OutcomeStore

CONSTANTS Cmds,       \* the commands that may run at once
          Slots,      \* the worker processes there may be for one action
          MaxDeaths,  \* bound on the commands and workers that die
          MaxFaults   \* bound on inspections, terminations and writes that fail

\* A slot stands for its worker's pid; 0 is no pid.
ASSUME WorkerBounds == Slots \subseteq Nat \ {0} /\ MaxDeaths \in Nat /\ MaxFaults \in Nat

VARIABLES cmd,        \* the commands
          work,       \* the worker processes of each action
          tree,       \* the process trees they started
          completion, \* completion.json of each action
          lost,       \* the trees their worker no longer accounts for
          deaths, faults

vars  == <<receipt, lifecycle, cmd, work, tree, completion, lost, deaths, faults>>
procs == <<work, tree, lost>>
limits == <<deaths, faults>>

Phases == {"eval", "check"}
Live   == {"root", "helper"}

Idle    == [pc |-> "idle", op |-> "none", e |-> 0, seen |-> NoWorker, observes |-> 0]
Unborn  == [pc |-> "unborn", abort |-> FALSE, failure |-> FALSE, queued |-> FALSE,
            phase |-> "eval", unproven |-> FALSE, result |-> "none"]
Dead    == [Unborn EXCEPT !.pc = "dead"]
NoCompletion == [status |-> "none", cancel |-> FALSE]

Init == /\ StoreInit /\ cmd = [c \in Cmds |-> Idle]
        /\ work = [e \in Ids |-> [n \in Slots |-> Unborn]]
        /\ tree = [e \in Ids |-> [n \in Slots |-> [p \in Phases |-> "none"]]]
        /\ completion = [e \in Ids |-> NoCompletion]
        /\ lost = {} /\ deaths = 0 /\ faults = 0

Set(e, r)  == receipt' = [receipt EXCEPT ![e] = r] /\ UNCHANGED lifecycle
Goto(c, pc) == cmd' = [cmd EXCEPT ![c].pc = pc]
Leave(c, pc) == cmd' = [cmd EXCEPT ![c].pc = pc, ![c].op = "none", ![c].seen = NoWorker]
Return(c)  == cmd' = [cmd EXCEPT ![c] = Idle]
Fault      == faults < MaxFaults /\ faults' = faults + 1 /\ UNCHANGED deaths
At(c, pc)  == cmd[c].pc = pc
Rc(c)      == receipt[cmd[c].e]

-----------------------------------------------------------------------------
(* next --action-file, next --resume and next --resume --cancel            *)

After(op) == CASE op = "next" -> "launch" [] op = "cancel" -> "request" [] op = "resume" -> "read"

NextNew(c, e, m) == /\ At(c, "idle") /\ Nominated(e, m)
                    /\ cmd' = [cmd EXCEPT ![c] = [Idle EXCEPT !.pc = "prepare", !.op = "next", !.e = e]]
                    /\ UNCHANGED <<procs, completion, limits>>

\* The same action file again, or its identity with --resume; --cancel needs
\* a process.
Reconnect(c, e, op) ==
  /\ At(c, "idle") /\ Present(e)
  /\ receipt[e].status = "preparing" \/ receipt[e].mode = "process"
  /\ op = "cancel" => receipt[e].mode = "process"
  /\ cmd' = [cmd EXCEPT ![c] =
       IF receipt[e].status = "preparing" THEN [Idle EXCEPT !.pc = "prepare", !.op = op, !.e = e]
       ELSE [Idle EXCEPT !.pc = After(op), !.e = e]]
  /\ UNCHANGED <<store, procs, completion, limits>>

Prepare(c) ==
  /\ At(c, "prepare")
  /\ \/ /\ Set(cmd[c].e, Prepared(Rc(c)))
        /\ IF Rc(c).mode = "process" THEN Leave(c, After(cmd[c].op)) ELSE Return(c)
     \/ Set(cmd[c].e, Unprepared(Rc(c))) /\ Return(c)
  /\ UNCHANGED <<procs, completion, limits>>

\* requestOutcomeCancellation
Cancelled(r) == IF terminalExecution(r) THEN r
                ELSE IF r.worker.launched THEN [r EXCEPT !.worker.cancel = TRUE]
                ELSE Closed(r, "cancelled", "measured")

RequestCancellation(c) == /\ At(c, "request") /\ Set(cmd[c].e, Cancelled(Rc(c))) /\ Goto(c, "read")
                          /\ UNCHANGED <<procs, completion, limits>>

MayLaunch(r) == ~r.worker.launched /\ r.status = "launching"

\* launchOutcomeWorker: the attempt is durable before the spawn.
Launch(c) ==
  /\ At(c, "launch")
  /\ IF MayLaunch(Rc(c))
     THEN /\ Set(cmd[c].e, [Rc(c) EXCEPT !.worker = [NoWorker EXCEPT !.launched = TRUE, !.observer = c]])
          /\ cmd' = [cmd EXCEPT ![c].pc = "spawn", ![c].observes = cmd[c].e]
     ELSE Goto(c, "read") /\ UNCHANGED store
  /\ UNCHANGED <<procs, completion, limits>>

Spawn(c) ==
  /\ At(c, "spawn")
  /\ LET e == cmd[c].e IN
     \/ /\ \E n \in Slots :
             /\ work[e][n] = Unborn /\ \A k \in Slots : k < n => work[e][k] # Unborn
             /\ work' = [work EXCEPT ![e][n].pc = "claim"]
        /\ Return(c)
     \/ Goto(c, "spawnFailed") /\ UNCHANGED work
  /\ UNCHANGED <<store, tree, lost, completion, limits>>

SpawnFailed(c) ==
  /\ At(c, "spawnFailed") /\ Return(c)
  /\ Set(cmd[c].e, IF Rc(c).worker.pid # 0 \/ terminalExecution(Rc(c)) THEN Rc(c)
                   ELSE Closed(Rc(c), "failed", "measured"))
  /\ UNCHANGED <<procs, completion, limits>>

-----------------------------------------------------------------------------
(* reconcileOutcomeWorker: the receipt as it was read decides the way, the *)
(* mutation at its end looks at the receipt again.                         *)

Read(c) ==
  /\ At(c, "read")
  /\ LET seen == Rc(c).worker IN
     IF terminalExecution(Rc(c)) THEN Return(c)
     ELSE IF completion[cmd[c].e].status # "none" THEN Goto(c, "apply")
     ELSE IF ~seen.launched THEN Goto(c, "launch")
     ELSE cmd' = [cmd EXCEPT ![c].seen = seen, ![c].pc = IF seen.pid # 0 THEN "inspect" ELSE "observer"]
  /\ UNCHANGED <<store, procs, completion, limits>>

WorkerLives(e, n) == work[e][n].pc \notin {"unborn", "dead"}

\* The claimed worker lives: wait.  It is dead: an orphaned child is
\* terminated if cancellation was requested.  Anything else is unknown.
Inspect(c) ==
  /\ At(c, "inspect")
  /\ LET seen == cmd[c].seen IN
     \/ /\ IF WorkerLives(cmd[c].e, seen.pid) THEN Return(c)
           ELSE IF seen.child # "none" /\ seen.cancel THEN Goto(c, "tree") ELSE Leave(c, "unknown")
        /\ UNCHANGED limits
     \/ Fault /\ Leave(c, "unknown")
  /\ UNCHANGED <<store, procs, completion>>

Child(c) == tree[cmd[c].e][cmd[c].seen.pid][cmd[c].seen.child]

\* Mutant of Stopped: only the recorded process itself is looked at.
StoppedRoot(c) ==
  /\ IF Child(c) = "root" THEN tree' = [tree EXCEPT ![cmd[c].e][cmd[c].seen.pid][cmd[c].seen.child] = "gone"]
                          ELSE UNCHANGED tree
  /\ Leave(c, "settle")

\* inspectProcessTree of the recorded child; what lives is terminated.
Stopped(c) ==
  /\ IF Child(c) \in Live THEN tree' = [tree EXCEPT ![cmd[c].e][cmd[c].seen.pid][cmd[c].seen.child] = "gone"]
                          ELSE UNCHANGED tree
  /\ Leave(c, "settle")

StopOrphan(c) ==
  /\ At(c, "tree")
  /\ \/ Stopped(c) /\ UNCHANGED limits
     \/ Fault /\ Leave(c, "unknown") /\ UNCHANGED tree   \* unproven, or another process has the pid
  /\ UNCHANGED <<store, work, lost, completion>>

SettleOrphan(c) ==
  /\ At(c, "settle") /\ Return(c)
  /\ Set(cmd[c].e, IF terminalExecution(Rc(c)) THEN Rc(c) ELSE Closed(Rc(c), "cancelled", "estimated"))
  /\ UNCHANGED <<procs, completion, limits>>

\* Mutant of Unknown: the reservation is released with the observation.
UnknownReleased(r) == IF terminalExecution(r) THEN r ELSE Closed(r, "unknown", "estimated")

Unknown(r) == IF terminalExecution(r) THEN r ELSE Closed(r, "unknown", "unknown")

MarkUnknown(c) == /\ At(c, "unknown") /\ Return(c) /\ Set(cmd[c].e, Unknown(Rc(c)))
                  /\ UNCHANGED <<procs, completion, limits>>

\* Mutant of Observe: a launch that nobody claimed is waited for.
ObserveOnly(c) == /\ At(c, "observer") /\ Return(c) /\ UNCHANGED <<store, procs, completion, limits>>

\* No claim yet: wait while the launching command lives.
Observe(c) == /\ At(c, "observer")
              /\ IF cmd[cmd[c].seen.observer].observes = cmd[c].e THEN Return(c) ELSE Leave(c, "unknown")
              /\ UNCHANGED <<store, procs, completion, limits>>

\* applyWorkerCompletion: the completion's worker record replaces the current.
Applied(r, done) ==
  IF terminalExecution(r) THEN r
  ELSE IF done.status = "unknown" THEN [Unknown(r) EXCEPT !.worker.cancel = done.cancel]
  ELSE Closed(r, done.status, "measured")

ApplyFound(c) == /\ At(c, "apply") /\ Return(c)
                 /\ Set(cmd[c].e, Applied(Rc(c), completion[cmd[c].e]))
                 /\ UNCHANGED <<procs, completion, limits>>

\* A command is killed, or its mutation throws.
CmdDies(c) == /\ ~At(c, "idle") /\ deaths < MaxDeaths /\ deaths' = deaths + 1
              /\ Return(c) /\ UNCHANGED <<store, procs, completion, faults>>

-----------------------------------------------------------------------------
(* runOutcomeWorker, in slot n for action e.                               *)

W(e, n)      == work[e][n]
In(e, n, pc) == work[e][n].pc = pc
Become(e, n, w) == work' = [work EXCEPT ![e][n] = w]
Mine(e, n)   == tree[e][n][W(e, n).phase]
Tree(e, n, s) == tree' = [tree EXCEPT ![e][n][W(e, n).phase] = s]

Claim(e, n) ==
  /\ In(e, n, "claim")
  /\ IF receipt[e].worker.pid # 0 \/ terminalExecution(receipt[e])
     THEN Become(e, n, Dead) /\ UNCHANGED store
     ELSE /\ Set(e, [receipt[e] EXCEPT !.worker.pid = n, !.status = "running"])
          /\ Become(e, n, [W(e, n) EXCEPT !.pc = "admit", !.abort = receipt[e].worker.cancel])
  /\ UNCHANGED <<cmd, tree, lost, completion, limits>>

\* What the catch makes of an error: cancelled if it was aborted, unknown if
\* the evaluator's termination is unproven, failed otherwise.
Caught(w) == [w EXCEPT !.pc = "finish", !.abort = FALSE, !.failure = FALSE, !.unproven = FALSE,
                       !.result = IF w.unproven THEN "unknown" ELSE IF w.abort THEN "cancelled" ELSE "failed"]

\* Inputs changed, or the reserved time is over, before a process is admitted.
Refused(e, n) == /\ In(e, n, "admit") /\ Become(e, n, Caught(W(e, n)))
                 /\ UNCHANGED <<store, cmd, tree, lost, completion, limits>>

Aborting(e, n) == W(e, n).abort \/ receipt[e].worker.cancel

\* execute: the process is started inside the mutation that admits it; its
\* identity is saved by a later one.  If that write fails the process runs on.
Admit(e, n) ==
  /\ In(e, n, "admit")
  /\ IF Aborting(e, n)
     THEN Become(e, n, Caught([W(e, n) EXCEPT !.abort = TRUE])) /\ UNCHANGED <<tree, lost, limits>>
     ELSE \/ /\ Tree(e, n, "root") /\ UNCHANGED <<lost, limits>>
             /\ Become(e, n, [W(e, n) EXCEPT !.pc = "running", !.queued = TRUE])
          \/ /\ Fault /\ Tree(e, n, "root") /\ lost' = lost \cup {<<e, n, W(e, n).phase>>}
             /\ Become(e, n, Caught([W(e, n) EXCEPT !.queued = TRUE]))
  /\ UNCHANGED <<store, cmd, completion>>

\* onSpawn: the queued update that names the child, unless it fails.
RecordChild(e, n) ==
  /\ W(e, n).queued /\ WorkerLives(e, n)
  /\ \/ /\ Set(e, IF terminalExecution(receipt[e]) THEN receipt[e]
                  ELSE [receipt[e] EXCEPT !.worker.child = W(e, n).phase])
        /\ Become(e, n, [W(e, n) EXCEPT !.queued = FALSE]) /\ UNCHANGED limits
     \/ /\ Fault /\ UNCHANGED store
        /\ Become(e, n, [W(e, n) EXCEPT !.queued = FALSE, !.failure = TRUE, !.abort = TRUE])
  /\ UNCHANGED <<cmd, tree, lost, completion>>

\* The heartbeat sees the request, or fails; SIGTERM and SIGINT abort too.
Beat(e, n) ==
  /\ W(e, n).pc \in {"admit", "running", "close"} /\ ~W(e, n).abort
  /\ \/ receipt[e].worker.cancel /\ Become(e, n, [W(e, n) EXCEPT !.abort = TRUE]) /\ UNCHANGED limits
     \/ Fault /\ \E f \in BOOLEAN : Become(e, n, [W(e, n) EXCEPT !.abort = TRUE, !.failure = f])
  /\ UNCHANGED <<store, cmd, tree, lost, completion>>

\* The evaluator's verdict: unproven, aborted or late, an exit code, success.
Judged(w, out) ==
  LET verdict == IF out = "unproven" \/ w.failure THEN "unknown"
                 ELSE IF w.abort \/ out = "timedOut" THEN "cancelled"
                 ELSE IF out = "bad" THEN "failed" ELSE "completed"
  IN [w EXCEPT !.result = verdict, !.unproven = (out = "unproven")]

\* A checks run only changes the verdict if its termination is unproven.
Checked(w, out) == [w EXCEPT !.pc = "close", !.result = IF out = "unproven" THEN "unknown" ELSE @]

\* After a completed evaluation the accepted checks run, if there are any.
Ended(e, n, out) ==
  IF W(e, n).phase = "check" THEN Become(e, n, Checked(W(e, n), out))
  ELSE LET w == Judged(W(e, n), out) IN
       \/ Become(e, n, [w EXCEPT !.pc = "close"])
       \/ w.result = "completed" /\ Become(e, n, [w EXCEPT !.pc = "admit", !.phase = "check"])

\* Descendants outlive the root: they are terminated, or remain unproven.
Leftovers(e, n) == \/ Tree(e, n, "gone") /\ Ended(e, n, "bad") /\ UNCHANGED limits
                   \/ Fault /\ Ended(e, n, "unproven") /\ UNCHANGED tree

\* The process closed by itself, or is terminated on abort or at its timeout;
\* the queue is awaited before the output is judged.
Output(e, n) ==
  /\ In(e, n, "running") /\ ~W(e, n).queued
  /\ \/ /\ Mine(e, n) = "root" /\ Tree(e, n, "gone") /\ Ended(e, n, "timedOut") /\ UNCHANGED limits
     \/ Mine(e, n) = "root" /\ Fault /\ Ended(e, n, "unproven") /\ UNCHANGED tree
     \/ Mine(e, n) = "helper" /\ Leftovers(e, n)
     \/ Mine(e, n) = "gone" /\ UNCHANGED <<tree, limits>>
        /\ \E out \in {"ok", "bad"} : Ended(e, n, out)
  /\ UNCHANGED <<store, cmd, lost, completion>>

\* The inputs are captured again; the capture, or a path outside the accepted
\* scope, throws.  The catch knows of the evaluator's termination only.
Close(e, n) ==
  /\ In(e, n, "close")
  /\ \/ Become(e, n, [Unborn EXCEPT !.pc = "finish", !.result = W(e, n).result]) /\ UNCHANGED lost
     \/ /\ Become(e, n, Caught(W(e, n)))
        /\ lost' = lost \cup (IF W(e, n).result = "unknown" /\ W(e, n).phase = "check"
                              THEN {<<e, n, "check">>} ELSE {})
  /\ UNCHANGED <<store, cmd, tree, completion, limits>>

\* completion.json is written with the worker record last read.
Finish(e, n) ==
  /\ In(e, n, "finish") /\ ~W(e, n).queued
  /\ IF completion[e] = NoCompletion
     THEN /\ completion' = [completion EXCEPT ![e] =
                              [status |-> W(e, n).result, cancel |-> receipt[e].worker.cancel]]
          /\ Become(e, n, [Unborn EXCEPT !.pc = "apply"])
     ELSE Become(e, n, Dead) /\ UNCHANGED completion
  /\ UNCHANGED <<store, cmd, tree, lost, limits>>

ApplyOwn(e, n) == /\ In(e, n, "apply") /\ Set(e, Applied(receipt[e], completion[e]))
                  /\ Become(e, n, Dead)
                  /\ UNCHANGED <<cmd, tree, lost, completion, limits>>

WorkerDies(e, n) == /\ WorkerLives(e, n) /\ deaths < MaxDeaths /\ deaths' = deaths + 1
                    /\ Become(e, n, Dead)
                    /\ UNCHANGED <<store, cmd, tree, lost, completion, faults>>

\* Processes end by themselves; a root may leave helpers.
TreeEnds(e, n, p) ==
  /\ \/ tree[e][n][p] = "root" /\ \E s \in {"helper", "gone"} : tree' = [tree EXCEPT ![e][n][p] = s]
     \/ tree[e][n][p] = "helper" /\ tree' = [tree EXCEPT ![e][n][p] = "gone"]
  /\ UNCHANGED <<store, cmd, work, lost, completion, limits>>

-----------------------------------------------------------------------------
Authority == /\ (Stop \/ Amend \/ \E e \in Ids : LogTicket(e))
             /\ UNCHANGED <<cmd, procs, completion, limits>>

Proceed(c) == \/ Prepare(c) \/ RequestCancellation(c) \/ Launch(c) \/ Spawn(c) \/ SpawnFailed(c)
              \/ Read(c) \/ Inspect(c) \/ StopOrphan(c) \/ SettleOrphan(c)
              \/ MarkUnknown(c) \/ Observe(c) \/ ApplyFound(c)

WorkerStep(e, n) == \/ Claim(e, n) \/ Refused(e, n) \/ Admit(e, n) \/ RecordChild(e, n)
                    \/ Beat(e, n) \/ Output(e, n) \/ Close(e, n) \/ Finish(e, n) \/ ApplyOwn(e, n)

Next == \/ \E c \in Cmds : \/ \E e \in Ids : \E m \in Modes[e] : NextNew(c, e, m)
                           \/ \E e \in Ids, op \in {"next", "resume", "cancel"} : Reconnect(c, e, op)
                           \/ Proceed(c) \/ CmdDies(c)
        \/ \E e \in Ids, n \in Slots : \/ WorkerStep(e, n) \/ WorkerDies(e, n)
                                       \/ \E p \in Phases : TreeEnds(e, n, p)
        \/ Authority

Spec == Init /\ [][Next]_vars

\* A command and a worker that live go on; what remains open is resumed
\* again and again.
FairSpec == /\ Spec
            /\ \A c \in Cmds : WF_vars(Proceed(c))
            /\ \A e \in Ids, n \in Slots : WF_vars(WorkerStep(e, n))
            /\ \A e \in Ids : SF_vars(\E c \in Cmds : Reconnect(c, e, "resume"))

-----------------------------------------------------------------------------
(* Properties                                                              *)

Workers == [launched : BOOLEAN, observer : Cmds \cup {0}, pid : Slots \cup {0},
            child : Phases \cup {"none"}, cancel : BOOLEAN]
Receipts == [mode : {"none"} \cup UNION {Modes[e] : e \in Ids},
             status : Terminal \cup {"absent", "preparing", "ticket", "launching", "running", "unknown"},
             settlement : Settled \cup {"none", "reserved", "unknown"}, worker : Workers]
Commands == [pc : {"idle", "prepare", "request", "launch", "spawn", "spawnFailed", "read", "apply",
                   "inspect", "observer", "tree", "settle", "unknown"},
             op : {"none", "next", "resume", "cancel"}, e : Ids \cup {0}, seen : Workers,
             observes : Ids \cup {0}]
Works == [pc : {"unborn", "claim", "admit", "running", "close", "finish", "apply", "dead"},
          abort : BOOLEAN, failure : BOOLEAN, queued : BOOLEAN, unproven : BOOLEAN,
          phase : Phases, result : Terminal \cup {"none", "unknown"}]

TypeOK ==
  /\ receipt \in [Ids -> Receipts] /\ lifecycle \in {"active", "stopped-unmet"}
  /\ cmd \in [Cmds -> Commands]
  /\ work \in [Ids -> [Slots -> Works]]
  /\ tree \in [Ids -> [Slots -> [Phases -> Live \cup {"none", "gone"}]]]
  /\ completion \in [Ids -> [status : Terminal \cup {"none", "unknown"}, cancel : BOOLEAN]]
  /\ lost \subseteq Ids \X Slots \X Phases
  /\ deaths \in 0..MaxDeaths /\ faults \in 0..MaxFaults

\* OutcomeWorker implements OneExecution: whatever dies, repeats itself or
\* comes late, an action's evaluator is started at most once, its reservation
\* is released once with one final verdict, and nothing else is reserved,
\* stopped or amended meanwhile (launchOutcomeWorker, applyWorkerCompletion,
\* requestOutcomeCancellation, markUnknown, stopOutcome).
Abstract == INSTANCE OneExecution WITH
  stage   <- [e \in Ids |-> IF ~Present(e) THEN "idle" ELSE IF Exposed(e) THEN "reserved" ELSE "released"],
  begun   <- [e \in Ids |-> Cardinality({n \in Slots : tree[e][n]["eval"] # "none"})],
  verdict <- [e \in Ids |-> IF terminalExecution(receipt[e]) THEN receipt[e].status ELSE "none"],
  stopped <- lifecycle = "stopped-unmet"

KeepsPromise == Abstract!Spec

\* A reservation is released only when every process started for it has
\* stopped (reconcileOutcomeWorker, execute), but for the processes the code
\* loses sight of: one whose admission could not be saved, one whose unproven
\* termination an error hides, and a checks process that was started after the
\* child a cancellation looked at.
Forgotten(e, n, p) == \/ <<e, n, p>> \in lost
                      \/ p = "check" /\ receipt[e].settlement = "estimated"

ReleasedMeansStopped ==
  \A e \in Ids, n \in Slots, p \in Phases :
    receipt[e].settlement \in Settled /\ tree[e][n][p] \in Live => Forgotten(e, n, p)

\* A process action does not hang: resumed often enough it is closed, or it is
\* marked unknown (reconcileOutcomeWorker), whoever died on the way.
LaunchAnswered ==
  \A e \in Ids : receipt[e].mode = "process" ~> receipt[e].status \in Terminal \cup {"unknown"}
===============================================================================
