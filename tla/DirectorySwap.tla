---------------------------- MODULE DirectorySwap ----------------------------
(***************************************************************************)
(* The replacement of several directories by scripts/directory-swap.mjs,   *)
(* as scripts/bootstrap-runtime.mjs uses it for the runtime's directories: *)
(* every replacement is staged, every target is renamed to a rollback, then *)
(* every stage is renamed to its target.  An error takes it all back; a    *)
(* process that dies leaves it to the next one, which first recovers.  The *)
(* installer's lock makes the processes take turns (it is the protocol of  *)
(* SessionMutationLock).                                                   *)
(***************************************************************************)
EXTENDS Naturals

CONSTANTS
  N,          \* the number of directories, replaced in this order
  MaxDeaths,  \* bound: deaths of a process
  MaxFaults   \* bound: file-system calls that fail

ASSUME SwapBounds == N \in Nat \ {0} /\ MaxDeaths \in Nat /\ MaxFaults \in Nat

Targets == 1 .. N

VARIABLES
  active,     \* the directory at the target: absent, the original (complete or
              \* with files missing), the release
  activeMark, \* the ownership marker left in it: absent, cut short, complete
  rollback,   \* the renamed original, or what a removal has left of it
  rollbackMark,
  stage,      \* the staging directory: absent, or the state of its marker
  origin,     \* what the target held before the first process
  before,     \* what it held when the process, having recovered, began to stage
  pc, at,     \* the step of the process and the directory it is at
  backedUp, installed,  \* the targets it has renamed and installed
  complaint,  \* restoring or cleaning up has failed
  answer,     \* how the last process to answer ended
  deaths, faults

disk == <<active, activeMark, rollback, rollbackMark, stage>>
mine == <<pc, at, before, backedUp, installed, complaint>>
swapVars == <<disk, origin, mine, answer, deaths, faults>>

Originals == {"none", "broken", "old"}
Marks == {"none", "cut", "owned"}
Steps == {"idle", "rename", "unmark", "unstage", "ready", "stage", "mark", "copy",
          "backup", "label", "install", "verify", "undo", "return", "unlabel",
          "clear", "retire", "unstageNew", "finish", "throw"}

SwapTypeOK ==
  /\ active \in [Targets -> Originals \cup {"new"}] /\ activeMark \in [Targets -> Marks]
  /\ rollback \in [Targets -> Originals \cup {"new", "part"}] /\ rollbackMark \in [Targets -> Marks]
  /\ stage \in [Targets -> {"absent"} \cup Marks]
  /\ origin \in [Targets -> Originals] /\ before \in [Targets -> Originals \cup {"new"}]
  /\ pc \in Steps /\ at \in 0 .. N + 1
  /\ backedUp \subseteq Targets /\ installed \subseteq Targets /\ complaint \in BOOLEAN
  /\ answer \in {"none", "done", "uncleaned", "restored", "unrestored", "refused"}
  /\ deaths \in 0 .. MaxDeaths /\ faults \in 0 .. MaxFaults

\* A hydration starts because a directory is missing or incomplete.
SwapInit ==
  /\ origin \in [Targets -> Originals] /\ active = origin /\ before = origin
  /\ \E t \in Targets : origin[t] # "old"
  /\ activeMark = [t \in Targets |-> "none"]
  /\ rollback = [t \in Targets |-> "none"] /\ rollbackMark = [t \in Targets |-> "none"]
  /\ stage = [t \in Targets |-> "absent"]
  /\ pc = "idle" /\ at = 0 /\ backedUp = {} /\ installed = {} /\ complaint = FALSE
  /\ answer = "none" /\ deaths = 0 /\ faults = 0

-----------------------------------------------------------------------------
Ready == \A t \in Targets : active[t] \in {"old", "new"}

\* Mutant of Artifacts: only staging directories are looked for.
ArtifactsStaged == \E t \in Targets : stage[t] # "absent"

\* hasDirectorySwapArtifacts
Artifacts == \E t \in Targets :
  activeMark[t] # "none" \/ rollback[t] # "none" \/ stage[t] # "absent"

Proceed(step, t) == pc' = step /\ at' = t
Volatile == UNCHANGED <<before, backedUp, installed, complaint>>
Fine == UNCHANGED <<origin, answer, deaths, faults>>
Fault == faults < MaxFaults /\ faults' = faults + 1 /\ UNCHANGED <<origin, answer, deaths>>

End(says) ==
  /\ pc' = "idle" /\ at' = 0 /\ backedUp' = {} /\ installed' = {} /\ complaint' = FALSE
  /\ answer' = says /\ before' = origin

\* The error before anything was staged: the process says what it found.
Refuse == End("refused") /\ UNCHANGED <<disk, origin, deaths, faults>>

\* ensureRuntime under the lock: recover first, then install what is not ready.
Begin ==
  /\ pc = "idle" /\ (~Ready \/ Artifacts)
  /\ Proceed("rename", 1) /\ Volatile
  /\ UNCHANGED <<disk, origin, answer, deaths, faults>>

-----------------------------------------------------------------------------
(* recoverStaleArtifacts, one target after the other.                      *)
Unowned(t) ==
  \/ rollback[t] # "none" /\ rollbackMark[t] # "owned"
  \/ stage[t] \notin {"absent", "owned"}
Ambiguous(t) == rollback[t] # "none" /\ active[t] # "none"

RecoverRollback ==
  /\ pc = "rename"
  /\ \/ (Unowned(at) \/ Ambiguous(at)) /\ Refuse
     \/ /\ ~Unowned(at) /\ ~Ambiguous(at) /\ rollback[at] = "none"
        /\ Proceed("unmark", at) /\ Volatile /\ Fine /\ UNCHANGED disk
     \/ /\ ~Unowned(at) /\ ~Ambiguous(at) /\ rollback[at] # "none"
        /\ active' = [active EXCEPT ![at] = rollback[at]]
        /\ activeMark' = [activeMark EXCEPT ![at] = "owned"]
        /\ rollback' = [rollback EXCEPT ![at] = "none"]
        /\ rollbackMark' = [rollbackMark EXCEPT ![at] = "none"]
        /\ Proceed("unmark", at) /\ Volatile /\ Fine /\ UNCHANGED stage

\* removeActiveRollbackMarker, also for one an earlier process left.
RecoverMark ==
  /\ pc = "unmark"
  /\ \/ activeMark[at] = "cut" /\ Refuse
     \/ /\ activeMark[at] # "cut"
        /\ activeMark' = [activeMark EXCEPT ![at] = "none"]
        /\ Proceed("unstage", at) /\ Volatile /\ Fine
        /\ UNCHANGED <<active, rollback, rollbackMark, stage>>

AfterRecovery == IF at < N THEN Proceed("rename", at + 1) ELSE Proceed("ready", 0)
RecoverStage ==
  /\ pc = "unstage"
  /\ \/ stage[at] # "absent" /\ active[at] = "none" /\ Refuse
     \/ /\ stage[at] # "absent" => active[at] # "none"
        /\ stage' = [stage EXCEPT ![at] = "absent"]
        /\ AfterRecovery /\ Volatile /\ Fine
        /\ UNCHANGED <<active, activeMark, rollback, rollbackMark>>

\* A call of the recovery fails: a removal may have removed the marker already.
RecoveryFails ==
  /\ pc \in {"rename", "unmark", "unstage"}
  /\ faults < MaxFaults /\ faults' = faults + 1
  /\ End("refused")
  /\ stage' \in {stage} \cup
       (IF pc = "unstage" /\ stage[at] = "owned" /\ active[at] # "none"
          THEN {[stage EXCEPT ![at] = "none"]} ELSE {})
  /\ UNCHANGED <<active, activeMark, rollback, rollbackMark, origin, deaths>>

Recovered ==
  /\ pc = "ready"
  /\ IF Ready THEN End("done")
       ELSE /\ Proceed("stage", 1) /\ before' = active
            /\ UNCHANGED <<backedUp, installed, complaint, answer>>
  /\ UNCHANGED <<disk, origin, deaths, faults>>

-----------------------------------------------------------------------------
(* replaceDirectoriesRollbackSafe                                          *)
\* Mutant of Undo: the error ends in the cleanup of a success.
UndoRetires == Proceed("retire", 1)

\* An error takes everything back, the last target first.
Undo == Proceed("undo", N)
Fails == Fault /\ Undo /\ Volatile

Stage ==
  /\ pc = "stage"
  /\ \/ stage' = [stage EXCEPT ![at] = "none"] /\ Proceed("mark", at) /\ Volatile /\ Fine
     \/ Fails /\ UNCHANGED stage
  /\ UNCHANGED <<active, activeMark, rollback, rollbackMark>>

MarkStage ==
  /\ pc = "mark"
  /\ \/ stage' = [stage EXCEPT ![at] = "owned"] /\ Proceed("copy", at) /\ Volatile /\ Fine
     \/ stage' \in {stage, [stage EXCEPT ![at] = "cut"]} /\ Fails
  /\ UNCHANGED <<active, activeMark, rollback, rollbackMark>>

\* The copy and its verification.
Copy ==
  /\ pc = "copy"
  /\ \/ /\ IF at < N THEN Proceed("stage", at + 1) ELSE Proceed("backup", 1)
        /\ Volatile /\ Fine
     \/ Fails
  /\ UNCHANGED disk

NextBackup == IF at < N THEN Proceed("backup", at + 1) ELSE Proceed("install", 1)

Backup ==
  /\ pc = "backup"
  /\ \/ active[at] = "none" /\ NextBackup /\ Volatile /\ Fine /\ UNCHANGED disk
     \/ /\ active[at] # "none"
        /\ rollback' = [rollback EXCEPT ![at] = active[at]]
        /\ active' = [active EXCEPT ![at] = "none"]
        /\ backedUp' = backedUp \cup {at}
        /\ Proceed("label", at) /\ Fine
        /\ UNCHANGED <<activeMark, rollbackMark, stage, before, installed, complaint>>
     \/ Fails /\ UNCHANGED disk

\* The marker of the rollback; without it the rename is taken back at once
\* (restoreAfterMarkerFailure), with what was written of the marker.
Label ==
  /\ pc = "label"
  /\ \/ /\ rollbackMark' = [rollbackMark EXCEPT ![at] = "owned"]
        /\ NextBackup /\ Volatile /\ Fine
        /\ UNCHANGED <<active, activeMark, rollback, stage>>
     \/ /\ \E mark \in {"none", "cut"} : activeMark' = [activeMark EXCEPT ![at] = mark]
        /\ active' = [active EXCEPT ![at] = rollback[at]]
        /\ rollback' = [rollback EXCEPT ![at] = "none"]
        /\ backedUp' = backedUp \ {at}
        /\ Fault /\ Undo /\ UNCHANGED <<rollbackMark, stage, before, installed, complaint>>
     \/ /\ faults + 1 < MaxFaults /\ faults' = faults + 2
        /\ \E mark \in {"none", "cut"} : rollbackMark' = [rollbackMark EXCEPT ![at] = mark]
        /\ Undo /\ Volatile
        /\ UNCHANGED <<active, activeMark, rollback, stage, origin, answer, deaths>>

Install ==
  /\ pc = "install"
  /\ \/ /\ active' = [active EXCEPT ![at] = "new"]
        /\ installed' = installed \cup {at}
        /\ Proceed("verify", at) /\ Fine
        /\ UNCHANGED <<activeMark, rollback, rollbackMark, stage, before, backedUp, complaint>>
     \/ Fails /\ UNCHANGED disk

Verify ==
  /\ pc = "verify"
  /\ \/ /\ IF at < N THEN Proceed("install", at + 1) ELSE Proceed("retire", 1)
        /\ Volatile /\ Fine
     \/ Fails
  /\ UNCHANGED disk

-----------------------------------------------------------------------------
(* restoreTransaction: what fails for one target is an error for the user, *)
(* and the next target is restored all the same.                           *)
\* Mutant of NextUndo: the first target is passed over.
NextUndoButFirst == IF at > 2 THEN Proceed("undo", at - 1) ELSE Proceed("clear", 1)

NextUndo == IF at > 1 THEN Proceed("undo", at - 1) ELSE Proceed("clear", 1)
Complain == complaint' = TRUE /\ UNCHANGED <<before, backedUp, installed>>

UndoInstall ==
  /\ pc = "undo"
  /\ \/ at \notin installed /\ Proceed("return", at) /\ Volatile /\ Fine /\ UNCHANGED disk
     \/ /\ at \in installed
        /\ active' = [active EXCEPT ![at] = "none"]
        /\ installed' = installed \ {at}
        /\ Proceed("return", at) /\ Fine
        /\ UNCHANGED <<activeMark, rollback, rollbackMark, stage, before, backedUp, complaint>>
     \/ at \in installed /\ Fault /\ Complain /\ NextUndo /\ UNCHANGED disk

UndoBackup ==
  /\ pc = "return"
  /\ \/ at \notin backedUp /\ NextUndo /\ Volatile /\ Fine /\ UNCHANGED disk
     \/ /\ at \in backedUp /\ rollbackMark[at] # "owned"
        /\ Complain /\ NextUndo /\ Fine /\ UNCHANGED disk
     \/ /\ at \in backedUp /\ rollbackMark[at] = "owned"
        /\ active' = [active EXCEPT ![at] = rollback[at]]
        /\ activeMark' = [activeMark EXCEPT ![at] = "owned"]
        /\ rollback' = [rollback EXCEPT ![at] = "none"]
        /\ rollbackMark' = [rollbackMark EXCEPT ![at] = "none"]
        /\ backedUp' = backedUp \ {at}
        /\ Proceed("unlabel", at) /\ Fine /\ UNCHANGED <<stage, before, installed, complaint>>
     \/ at \in backedUp /\ Fault /\ Complain /\ NextUndo /\ UNCHANGED disk

UndoLabel ==
  /\ pc = "unlabel"
  /\ \/ /\ activeMark' = [activeMark EXCEPT ![at] = "none"]
        /\ NextUndo /\ Volatile /\ Fine
        /\ UNCHANGED <<active, rollback, rollbackMark, stage>>
     \/ Fault /\ Complain /\ NextUndo /\ UNCHANGED disk

\* removeOwnedArtifact of a staging directory: not one without its marker, and
\* a removal that fails may have removed the marker.
RemoveStage(next) ==
  \/ /\ stage[at] \in {"absent", "owned"}
     /\ stage' = [stage EXCEPT ![at] = "absent"]
     /\ next /\ Volatile /\ Fine
  \/ stage[at] \in {"none", "cut"} /\ Complain /\ next /\ Fine /\ UNCHANGED stage
  \/ /\ stage[at] = "owned" /\ stage' \in {stage, [stage EXCEPT ![at] = "none"]}
     /\ Fault /\ Complain /\ next

\* cleanupStages
ClearStage ==
  /\ pc = "clear"
  /\ RemoveStage(IF at < N THEN Proceed("clear", at + 1) ELSE Proceed("throw", 0))
  /\ UNCHANGED <<active, activeMark, rollback, rollbackMark>>

\* After all installs: the rollback of each target, then its stage.
Retire ==
  /\ pc = "retire"
  /\ \/ /\ rollback' = [rollback EXCEPT ![at] = "none"]
        /\ rollbackMark' = [rollbackMark EXCEPT ![at] = "none"]
        /\ backedUp' = backedUp \ {at}
        /\ Fine /\ UNCHANGED complaint
     \/ /\ at \in backedUp
        /\ rollback' = [rollback EXCEPT ![at] = "part"]
        /\ rollbackMark' \in {rollbackMark, [rollbackMark EXCEPT ![at] = "none"]}
        /\ complaint' = TRUE /\ backedUp' = backedUp
        /\ Fault
  /\ Proceed("unstageNew", at)
  /\ UNCHANGED <<active, activeMark, stage, before, installed>>

RetireStage ==
  /\ pc = "unstageNew"
  /\ RemoveStage(IF at < N THEN Proceed("retire", at + 1) ELSE Proceed("finish", 0))
  /\ UNCHANGED <<active, activeMark, rollback, rollbackMark>>

Finish ==
  /\ \/ pc = "finish" /\ End(IF complaint THEN "uncleaned" ELSE "done")
     \/ pc = "throw" /\ End(IF complaint THEN "unrestored" ELSE "restored")
  /\ UNCHANGED <<disk, origin, deaths, faults>>

\* The process dies, also in the middle of a removal or of writing a marker.
Die ==
  /\ pc # "idle" /\ deaths < MaxDeaths
  /\ deaths' = deaths + 1 /\ End(answer)
  /\ stage' \in {stage} \cup
       (CASE pc = "mark" -> {[stage EXCEPT ![at] = "cut"]}
          [] pc \in {"unstage", "clear", "unstageNew"} /\ stage[at] = "owned" ->
               {[stage EXCEPT ![at] = "none"]}
          [] OTHER -> {})
  /\ \/ UNCHANGED <<rollback, rollbackMark>>
     \/ pc = "label" /\ UNCHANGED rollback /\ rollbackMark' = [rollbackMark EXCEPT ![at] = "cut"]
     \/ /\ pc = "retire" /\ at \in backedUp
        /\ rollback' = [rollback EXCEPT ![at] = "part"]
        /\ rollbackMark' \in {rollbackMark, [rollbackMark EXCEPT ![at] = "none"]}
  /\ UNCHANGED <<active, activeMark, origin, faults>>

SwapNext ==
  \/ Begin
  \/ RecoverRollback \/ RecoverMark \/ RecoverStage \/ RecoveryFails \/ Recovered
  \/ Stage \/ MarkStage \/ Copy \/ Backup \/ Label \/ Install \/ Verify
  \/ UndoInstall \/ UndoBackup \/ UndoLabel \/ ClearStage
  \/ Retire \/ RetireStage \/ Finish
  \/ Die

SwapSpec == SwapInit /\ [][SwapNext]_swapVars

-----------------------------------------------------------------------------
(* Until the release stands at every target, each original is complete, at *)
(* its target or in its rollback: no death, failed call or recovery in any *)
(* order loses one.                                                        *)
OriginalKept ==
  (\E t \in Targets : active[t] # "new") =>
    \A t \in Targets : origin[t] \in {active[t], rollback[t]} \/ origin[t] = "none"

(* A swap that answers with an error and says that the originals were      *)
(* restored has restored them all and left no copy beside them; one that   *)
(* succeeds has replaced them all.                                         *)
AnswersAreTrue ==
  [][Finish => CASE answer' = "restored" -> active = before /\ \A t \in Targets : rollback[t] = "none"
                 [] answer' = "done" -> ~Artifacts /\ \A t \in Targets : active[t] = "new"
                 [] OTHER -> TRUE]_swapVars

(* What runs without a recovery is one release: a runtime that is ready    *)
(* and without artifacts is the new one, if its directories all existed.   *)
ReadyIsWhole ==
  (pc = "idle" /\ Ready /\ ~Artifacts /\ \A t \in Targets : origin[t] # "none")
    => \A t \in Targets : active[t] = "new"
=============================================================================
