---------------------------- MODULE LogTransaction ----------------------------
(***************************************************************************)
(* The log command of lib/commands/log.ts for a run's packet: a receipt on *)
(* disk, and the stages it carries the packet through - Git commit, ledger *)
(* event, cleanup of a rejected candidate, removal of the packet - each    *)
(* checked against the receipt before and after it, so that the command    *)
(* can be stopped anywhere and run again.                                  *)
(*                                                                         *)
(* One log command runs at a time (SessionMutationLock).  Other programs   *)
(* do not take that lock: the user's editor and Git act between any two    *)
(* steps.  One tracked path stands for the candidate's files, an untracked *)
(* one for a new file that a discard cleans and no keep commits.           *)
(* The content of a path is a number: 0 is the content the session         *)
(* started from (or no file), e the candidate of run e, Drift anything     *)
(* else.  The history is one branch, HEAD its last commit, an oid the      *)
(* number of a commit; tree, message and parent identify a commit.         *)
(***************************************************************************)
EXTENDS Naturals, SequencesExt

CONSTANTS
  MaxRuns,     \* bound: runs of next
  Chunks,      \* pieces an append of a ledger event can be torn into
  MaxFaults,   \* bound: edits and commits of the user, rows of other commands
  MaxGits,     \* bound: Git commands of the user that hold a lock file
  MaxCrashes   \* bound: deaths of the log command

ASSUME BoundsAssumption ==
  /\ MaxRuns \in Nat \ {0} /\ Chunks \in Nat \ {0}
  /\ MaxFaults \in Nat /\ MaxGits \in Nat /\ MaxCrashes \in Nat

VARIABLES
  history,     \* the commits, oldest first
  index,       \* the tracked path in the Git index
  work,        \* the tracked path in the worktree
  extra,       \* the untracked path
  headLock,    \* HEAD.lock, with the ref's lock: "free", or who left it
  indexLock,   \* index.lock
  ledger,      \* autoresearch.jsonl, in chunks
  packet,      \* the last-run packet
  receipt,     \* the receipt file
  pc,          \* the next step of the log command
  mem,         \* its copy of the receipt
  failed,      \* a cleanup stage of this command has failed
  written,     \* chunks of the event this command has appended
  late,        \* an edit fell between a cleanup's last check and its restore
  runs, faults, gits, crashes

git == <<history, index, work, extra, headLock, indexLock>>
files == <<git, ledger, packet>>
command == <<pc, mem, failed, written>>
env == <<late, runs, faults, gits, crashes>>
vars == <<files, receipt, command, env>>

-----------------------------------------------------------------------------
Foreign == 0
Drift == MaxRuns + 1
Run == 1 .. MaxRuns
Content == 0 .. MaxRuns + 1
Kinds == {"keep", "import", "discard", "measure"}
Stages == {"commit", "ledger", "tracked", "untracked", "packet", "done"}

NoPacket == [run |-> 0, head |-> 0, index |-> 0, work |-> 0, extra |-> 0]
NoReceipt ==
  [run |-> 0, kind |-> "measure", status |-> "pending", done |-> {}, head |-> 0, tree |-> 0,
   index |-> 0, work |-> 0, extra |-> 0, tracked |-> FALSE, untracked |-> FALSE,
   oid |-> 0, commit |-> 0, prefix |-> 0]

HeadOid == Len(history)
HeadTree == history[HeadOid].tree
Keeps(r) == r.kind \in {"keep", "import"}

\* commitMatchesInterruptedCreation: parent, tree and message of the commit.
Matches(oid, r) == oid = r.head + 1 /\ history[oid] = [by |-> r.run, tree |-> r.tree]

\* verifyRecordedCommitIdentity, and with the index verifyRecordedCommit.
IdentityOK(r) == r.oid # 0 /\ HeadOid = r.oid /\ (r.kind = "keep" => Matches(r.oid, r))
RecordedOK(r) == IdentityOK(r) /\ (r.kind = "keep" => index = r.tree)

\* verifyAcceptedKeepAuthorityAtMutationBoundary: the contract expects the head
\* it was accepted on, and the candidate must be the one that was evaluated.
HeadExplained(r) ==
  \/ HeadOid = r.head
  \/ r.kind = "keep" /\ (IF r.oid # 0 THEN IdentityOK(r) ELSE Matches(HeadOid, r))
Authority(r) == Keeps(r) => HeadExplained(r) /\ work = r.run

\* The event the receipt describes, and what the ledger holds of it behind the
\* prefix (inspectPendingLogLedgerRelation).
Event(r) == [k \in 1 .. Chunks |-> [run |-> r.run, part |-> k, commit |-> r.commit]]
Suffix(r) == SubSeq(ledger, r.prefix + 1, Len(ledger))

\* Mutant: whatever follows the prefix is taken for a torn event.
RelationOfAnything(r) ==
  CASE Suffix(r) = Event(r) -> "complete"
    [] Suffix(r) = <<>> -> "absent"
    [] OTHER -> "torn"

Relation(r) ==
  CASE Suffix(r) = Event(r) -> "complete"
    [] Suffix(r) = <<>> -> "absent"
    [] Suffix(r) # <<>> /\ IsStrictPrefix(Suffix(r), Event(r)) -> "torn"
    [] OTHER -> "unrelated"

\* The postconditions of the cleanup stages.
TrackedClean(r) == HeadOid = r.head /\ index = HeadTree /\ work = HeadTree
TrackedOK(r) == r.tracked => TrackedClean(r)
UntrackedOK(r) == r.untracked => HeadOid = r.head /\ extra = 0

\* verifyCompletedLogTransactionStages
CompletedOK(r) ==
  /\ "commit" \in r.done => RecordedOK(r)
  /\ "ledger" \in r.done => Relation(r) = "complete"
  /\ "tracked" \in r.done => TrackedOK(r)
  /\ "untracked" \in r.done => UntrackedOK(r)
  /\ "packet" \in r.done => packet = NoPacket

\* Commits and complete events, with the place they were written at.
Commits == {<<i, history[i].by>> : i \in {j \in DOMAIN history : history[j].by # Foreign}}
Events ==
  {<<i, ledger[i].run>> :
     i \in {j \in DOMAIN ledger : ledger[j].run # Foreign /\ ledger[j].part = Chunks}}

-----------------------------------------------------------------------------
(* What lets a retry in: assertMutationCapability on the session as it is,  *)
(* with the diagnostics an interrupted log can leave (DecisionCompiler and  *)
(* CommandProtocol have all of them).                                       *)

HasEvent(run) == \E y \in Events : y[2] = run

\* lastRunPacketFreshnessFromFacts: head, status, contents and run number are
\* the ones the packet was made with.
Fresh ==
  /\ packet # NoPacket /\ ~HasEvent(packet.run)
  /\ packet.head = HeadOid
  /\ packet.index = index /\ packet.work = work /\ packet.extra = extra

\* ledger-integrity: an event is cut off in the middle.
Torn ==
  \E i \in DOMAIN ledger :
    /\ ledger[i].run # Foreign /\ ledger[i].part # Chunks
    /\ i + 1 \in DOMAIN ledger => ledger[i + 1].run # ledger[i].run

\* legacy-contract-conflict: the accepted contract expects the head the receipt
\* was prepared on, and then the commit the run's event names.
HeadConflict(r) == HeadOid # IF HasEvent(r.run) THEN r.commit ELSE r.head

\* dirty-source: changes that no fresh packet accounts for.
DirtySource == (index # HeadTree \/ work # HeadTree \/ extra # 0) /\ ~Fresh

\* Mutant: the log does not recover the torn event of its own receipt.
AdmittedWhole(r) ==
  /\ ~Torn
  /\ Keeps(r) =>
       /\ HeadConflict(r) => "commit" \in r.done /\ Relation(r) # "unrelated"
       /\ ~DirtySource

\* receiptOwnedLogRecoveryCovers: a torn event is the receipt's own, and a moved
\* head is explained once the receipt records the commit.
Admitted(r) ==
  /\ Torn => Relation(r) = "torn"
  /\ Keeps(r) =>
       /\ HeadConflict(r) => "commit" \in r.done /\ Relation(r) # "unrelated"
       /\ ~DirtySource

-----------------------------------------------------------------------------
Init ==
  /\ history = <<[by |-> Foreign, tree |-> 0]>>
  /\ index = 0 /\ work = 0 /\ extra = 0
  /\ headLock = "free" /\ indexLock = "free"
  /\ ledger = <<>>
  /\ packet = NoPacket
  /\ receipt = NoReceipt
  /\ pc = "idle" /\ mem = NoReceipt /\ failed = FALSE /\ written = 0
  /\ late = FALSE /\ runs = 0 /\ faults = 0 /\ gits = 0 /\ crashes = 0

Goto(label) == pc' = label /\ UNCHANGED <<failed, written>>
Continue(label) == Goto(label) /\ UNCHANGED <<mem, receipt>>
Save(r, label) == mem' = r /\ receipt' = r /\ Goto(label)
Return == pc' = "idle" /\ mem' = NoReceipt /\ failed' = FALSE /\ written' = 0

\* runLogTransactionStage: a stage that completes is checkpointed, one that
\* throws leaves the receipt as the command has it in memory.
Complete(r, stage) == [r EXCEPT !.done = @ \cup {stage}, !.status = "pending"]
Throw(r) == receipt' = [r EXCEPT !.status = "failed"] /\ Return

-----------------------------------------------------------------------------
(* next (external): an agent's edit is evaluated and its packet is stored.  *)
(* The candidate may be staged or committed already, and leave a new file.  *)

NextPacket ==
  /\ pc = "idle" /\ receipt = NoReceipt /\ runs < MaxRuns
  /\ runs' = runs + 1
  /\ work' = runs'
  /\ extra' \in {0, runs'}
  /\ \/ index' \in {HeadTree, runs'} /\ UNCHANGED history
     \/ index' = runs' /\ history' = Append(history, [by |-> Foreign, tree |-> runs'])
  /\ packet' = [run |-> runs', head |-> Len(history'), index |-> index', work |-> work',
                extra |-> extra']
  /\ UNCHANGED <<headLock, indexLock, ledger, receipt, command, late, faults, gits, crashes>>

-----------------------------------------------------------------------------
(* logExperiment: a pending receipt is resumed with the same request;       *)
(* otherwise the packet is checked and a receipt is prepared.               *)

\* Mutant: a receipt that failed is taken for one that is done.
EnterFailedAsDone(r) ==
  IF r.status # "pending" THEN "verifyAll" ELSE IF Keeps(r) THEN "commit" ELSE "ledger"

Enter(r) ==
  IF r.status = "done" THEN "verifyAll" ELSE IF Keeps(r) THEN "commit" ELSE "ledger"

Resume(kind) ==
  /\ pc = "idle" /\ receipt # NoReceipt
  /\ kind = receipt.kind /\ Admitted(receipt)
  /\ mem' = receipt
  /\ late' = FALSE
  /\ Goto(Enter(receipt))
  /\ UNCHANGED <<files, receipt, runs, faults, gits, crashes>>

\* assertFreshLastRunPacket and prepareLogMutation, which decides what a
\* discard will clean.
Log(kind) ==
  /\ pc = "idle" /\ receipt = NoReceipt /\ Fresh
  /\ kind = "keep" => indexLock = "free"
  /\ mem' = [NoReceipt EXCEPT
       !.run = packet.run, !.kind = kind,
       !.tracked = (kind = "discard" /\ {index, work} # {HeadTree}),
       !.untracked = (kind = "discard" /\ extra # 0)]
  /\ late' = FALSE
  /\ Goto("prepare")
  /\ UNCHANGED <<files, receipt, runs, faults, gits, crashes>>

\* buildLogTransactionReceipt: a kept candidate must be the evaluated one and
\* differ from HEAD (be HEAD, when it is imported).
Prepare ==
  /\ pc = "prepare"
  /\ IF /\ Keeps(mem) => work = mem.run
        /\ mem.kind = "keep" => HeadTree # work
        /\ mem.kind = "import" => HeadTree = work
       THEN /\ mem' = [mem EXCEPT
                 !.head = HeadOid, !.index = index, !.work = work, !.extra = extra,
                 !.tree = work, !.prefix = Len(ledger),
                 !.oid = IF mem.kind = "import" THEN HeadOid ELSE 0]
            /\ Goto("writeReceipt")
       ELSE Return
  /\ UNCHANGED <<files, receipt, env>>

\* Mutant: the work begins before the receipt is on disk.
WriteReceiptLater ==
  /\ pc = "writeReceipt"
  /\ Continue(Enter(mem))
  /\ UNCHANGED <<files, env>>

WriteReceipt ==
  /\ pc = "writeReceipt"
  /\ Save(mem, Enter(mem))
  /\ UNCHANGED <<files, env>>

-----------------------------------------------------------------------------
(* Stage commit-applied-or-verified: applyOrVerifyKeepCommit.               *)

CommitStage ==
  /\ pc = "commit"
  /\ IF "commit" \in mem.done
       THEN IF RecordedOK(mem) THEN Continue("ledger") ELSE Throw(mem)
       ELSE IF Authority(mem) THEN Continue("branch") ELSE Throw(mem)
  /\ UNCHANGED <<files, env>>

\* Its third case takes an unrecorded commit for the run's own by parent, tree
\* and message.  Admitted lets no retry come that far.
Branch ==
  /\ pc = "branch"
  /\ \/ /\ mem.oid # 0 /\ IdentityOK(mem)
        /\ Continue(IF mem.kind = "import" THEN "verifyCommit" ELSE "lockIndex")
     \/ /\ mem.oid = 0 /\ HeadOid = mem.head
        /\ Continue("candidate")
     \/ /\ mem.oid = 0 /\ HeadOid # mem.head /\ Matches(HeadOid, mem)
        /\ mem' = [mem EXCEPT !.oid = HeadOid]
        /\ Goto("lockIndex")
        /\ UNCHANGED receipt
     \/ /\ IF mem.oid # 0 THEN ~IdentityOK(mem)
                          ELSE HeadOid # mem.head /\ ~Matches(HeadOid, mem)
        /\ Throw(mem)
  /\ UNCHANGED <<files, env>>

\* Mutant: the tree to commit is built again, and no longer compared.
CandidateRebuilt ==
  /\ pc = "candidate"
  /\ mem' = [mem EXCEPT !.tree = work]
  /\ Goto("lockHead")
  /\ UNCHANGED <<files, receipt, env>>

Candidate ==
  /\ pc = "candidate"
  /\ IF work = mem.tree /\ index = mem.index THEN Continue("lockHead") ELSE Throw(mem)
  /\ UNCHANGED <<files, env>>

LockHead ==
  /\ pc = "lockHead"
  /\ \/ headLock = "free" /\ headLock' = "log" /\ Continue("advance")
     \/ headLock # "free" /\ Throw(mem) /\ UNCHANGED headLock
  /\ UNCHANGED <<history, index, work, extra, indexLock, ledger, packet, env>>

Advance ==
  /\ pc = "advance"
  /\ \/ /\ HeadOid = mem.head
        /\ history' = Append(history, [by |-> mem.run, tree |-> mem.tree])
        /\ Continue("unlockHead")
        /\ UNCHANGED headLock
     \/ /\ HeadOid # mem.head
        /\ headLock' = "free"
        /\ Throw(mem)
        /\ UNCHANGED history
  /\ UNCHANGED <<index, work, extra, indexLock, ledger, packet, env>>

UnlockHead ==
  /\ pc = "unlockHead"
  /\ headLock' = "free"
  /\ mem' = [mem EXCEPT !.oid = HeadOid]
  /\ Goto("lockIndex")
  /\ UNCHANGED <<history, index, work, extra, indexLock, ledger, packet, receipt, env>>

\* reconcileCommittedIndex
LockIndex ==
  /\ pc = "lockIndex"
  /\ \/ indexLock = "free" /\ indexLock' = "log" /\ Continue("install")
     \/ indexLock # "free" /\ Throw(mem) /\ UNCHANGED indexLock
  /\ UNCHANGED <<history, index, work, extra, headLock, ledger, packet, env>>

\* A commit the receipt already names is not recorded again.
Install ==
  /\ pc = "install"
  /\ indexLock' = "free"
  /\ \/ /\ index \in {mem.tree, mem.index}
        /\ index' = mem.tree
        /\ Continue(IF receipt.oid = mem.oid THEN "verifyCommit" ELSE "record")
     \/ index \notin {mem.tree, mem.index} /\ Throw(mem) /\ UNCHANGED index
  /\ UNCHANGED <<history, work, extra, headLock, ledger, packet, env>>

Record ==
  /\ pc = "record"
  /\ Save([mem EXCEPT !.commit = mem.oid], "verifyCommit")
  /\ UNCHANGED <<files, env>>

VerifyCommit ==
  /\ pc = "verifyCommit"
  /\ IF RecordedOK(mem)
       THEN Save(Complete([mem EXCEPT !.commit = mem.oid], "commit"), "ledger")
       ELSE Throw(mem)
  /\ UNCHANGED <<files, env>>

-----------------------------------------------------------------------------
(* Stage ledger-event-present: ensureLedgerEvent.                           *)

AfterLedger(r) == IF Keeps(r) THEN "packet" ELSE "tracked"

\* Mutant: the event is appended without a look at the ledger.
LedgerStageBlind ==
  /\ pc = "ledger"
  /\ IF "ledger" \in mem.done THEN Continue(AfterLedger(mem)) ELSE Save(mem, "append")
  /\ UNCHANGED <<files, env>>

\* Mutant: an event that was begun is not appended again, whole or torn.
LedgerStageBegun ==
  /\ pc = "ledger"
  /\ CASE Relation(mem) = "unrelated" -> Throw(mem)
       [] Relation(mem) = "absent" -> Save(mem, "append")
       [] OTHER -> Save(Complete(mem, "ledger"), AfterLedger(mem))
  /\ UNCHANGED <<files, env>>

LedgerStage ==
  /\ pc = "ledger"
  /\ IF "ledger" \in mem.done
       THEN IF Relation(mem) = "complete" THEN Continue(AfterLedger(mem)) ELSE Throw(mem)
       ELSE \/ Relation(mem) = "complete" /\ Save(mem, "verifyLedger")
            \/ Relation(mem) = "absent" /\ Authority(mem) /\ Save(mem, "append")
            \/ Relation(mem) = "torn" /\ Authority(mem) /\ Save(mem, "truncate")
            \/ Relation(mem) = "unrelated" /\ Throw(mem)
            \/ Relation(mem) \in {"absent", "torn"} /\ ~Authority(mem) /\ Throw(mem)
  /\ UNCHANGED <<files, env>>

Truncate ==
  /\ pc = "truncate"
  /\ ledger' = SubSeq(ledger, 1, mem.prefix)
  /\ Continue("append")
  /\ UNCHANGED <<git, packet, env>>

AppendChunk ==
  /\ pc = "append"
  /\ ledger' = Append(ledger, Event(mem)[written + 1])
  /\ \/ /\ written + 1 < Chunks
        /\ written' = written + 1
        /\ UNCHANGED pc
     \/ /\ written + 1 = Chunks
        /\ written' = 0
        /\ pc' = "verifyLedger"
  /\ UNCHANGED <<git, packet, receipt, mem, failed, env>>

VerifyLedger ==
  /\ pc = "verifyLedger"
  /\ IF Relation(mem) = "complete"
       THEN Save(Complete(mem, "ledger"), AfterLedger(mem))
       ELSE Throw(mem)
  /\ UNCHANGED <<files, env>>

-----------------------------------------------------------------------------
(* Stages tracked- and untracked-cleanup-complete.  The second is tried     *)
(* even when the first has failed.                                          *)

TrackedFails(r) ==
  /\ mem' = [r EXCEPT !.status = "failed"]
  /\ receipt' = mem'
  /\ failed' = TRUE
  /\ pc' = "untracked"
  /\ UNCHANGED written

\* Mutant: the prepared contents are not compared with the present ones.
TrackedStageBlind ==
  /\ pc = "tracked"
  /\ IF "tracked" \in mem.done \/ TrackedOK(mem)
       THEN Save(Complete(mem, "tracked"), "untracked")
       ELSE Continue(IF index # HeadTree THEN "restoreIndex" ELSE "restoreWork")
  /\ UNCHANGED <<files, env>>

TrackedStage ==
  /\ pc = "tracked"
  /\ \/ /\ "tracked" \in mem.done
        /\ IF TrackedOK(mem) THEN Continue("untracked") ELSE TrackedFails(mem)
     \/ /\ "tracked" \notin mem.done /\ TrackedOK(mem)
        /\ Save(Complete(mem, "tracked"), "untracked")
     \/ /\ "tracked" \notin mem.done /\ ~TrackedOK(mem)
        /\ IF HeadOid = mem.head /\ index \in {HeadTree, mem.index} /\ work \in {HeadTree, mem.work}
             THEN Continue(IF index # HeadTree THEN "restoreIndex" ELSE "restoreWork")
             ELSE TrackedFails(mem)
  /\ UNCHANGED <<files, env>>

\* git restore --staged; then the worktree is looked at once more.
RestoreIndex ==
  /\ pc = "restoreIndex"
  /\ IF HeadOid = mem.head /\ indexLock = "free"
       THEN index' = HeadTree /\ Continue("checkWork")
       ELSE UNCHANGED index /\ TrackedFails(mem)
  /\ UNCHANGED <<history, work, extra, headLock, indexLock, ledger, packet, env>>

CheckWork ==
  /\ pc = "checkWork"
  /\ IF index = HeadTree /\ work \in {HeadTree, mem.work}
       THEN Continue(IF work = HeadTree THEN "verifyTracked" ELSE "restoreWork")
       ELSE TrackedFails(mem)
  /\ UNCHANGED <<files, env>>

RestoreWork ==
  /\ pc = "restoreWork"
  /\ IF HeadOid = mem.head /\ indexLock = "free"
       THEN work' = HeadTree /\ Continue("verifyTracked")
       ELSE UNCHANGED work /\ TrackedFails(mem)
  /\ UNCHANGED <<history, index, extra, headLock, indexLock, ledger, packet, env>>

VerifyTracked ==
  /\ pc = "verifyTracked"
  /\ IF TrackedClean(mem) THEN Save(Complete(mem, "tracked"), "untracked") ELSE TrackedFails(mem)
  /\ UNCHANGED <<files, env>>

\* A failed tracked stage ends the command once the untracked stage is over.
UntrackedComplete ==
  IF failed THEN Throw(Complete(mem, "untracked"))
            ELSE Save(Complete(mem, "untracked"), "packet")

UntrackedStage ==
  /\ pc = "untracked"
  /\ \/ /\ "untracked" \in mem.done
        /\ IF UntrackedOK(mem) /\ ~failed THEN Continue("packet") ELSE Throw(mem)
     \/ /\ "untracked" \notin mem.done /\ UntrackedOK(mem)
        /\ UntrackedComplete
     \/ /\ "untracked" \notin mem.done /\ ~UntrackedOK(mem)
        /\ IF HeadOid = mem.head /\ extra = mem.extra THEN Continue("clean") ELSE Throw(mem)
  /\ UNCHANGED <<files, env>>

Clean ==
  /\ pc = "clean"
  /\ extra' = 0
  /\ Continue("verifyUntracked")
  /\ UNCHANGED <<history, index, work, headLock, indexLock, ledger, packet, env>>

VerifyUntracked ==
  /\ pc = "verifyUntracked"
  /\ IF UntrackedOK(mem) THEN UntrackedComplete ELSE Throw(mem)
  /\ UNCHANGED <<files, env>>

-----------------------------------------------------------------------------
(* Stages packet-cleanup-complete and done, and the end of the receipt.     *)

PacketStage ==
  /\ pc = "packet"
  /\ IF "packet" \in mem.done
       THEN /\ UNCHANGED packet
            /\ IF packet = NoPacket THEN Continue("finish") ELSE Throw(mem)
       ELSE packet' = NoPacket /\ Continue("checkpointPacket")
  /\ UNCHANGED <<git, ledger, env>>

CheckpointPacket ==
  /\ pc = "checkpointPacket"
  /\ Save(Complete(mem, "packet"), "finish")
  /\ UNCHANGED <<files, env>>

Finish ==
  /\ pc = "finish"
  /\ Save([mem EXCEPT !.done = @ \cup {"done"}, !.status = "done"], "verifyAll")
  /\ UNCHANGED <<files, env>>

\* This check is outside runLogTransactionStage: it throws without a write.
VerifyAll ==
  /\ pc = "verifyAll"
  /\ IF CompletedOK(mem) THEN Continue("clear") ELSE Return /\ UNCHANGED receipt
  /\ UNCHANGED <<files, env>>

Clear ==
  /\ pc = "clear"
  /\ receipt' = NoReceipt
  /\ Return
  /\ UNCHANGED <<files, env>>

-----------------------------------------------------------------------------
(* Death of the command, and other programs.                                *)

Abandon(lock) == IF lock = "log" THEN "dead" ELSE lock

Crash ==
  /\ pc # "idle" /\ crashes < MaxCrashes
  /\ crashes' = crashes + 1
  /\ Return
  /\ headLock' = Abandon(headLock)
  /\ indexLock' = Abandon(indexLock)
  /\ UNCHANGED <<history, index, work, extra, ledger, packet, receipt, late, runs, faults, gits>>

Fault(inWindow) ==
  /\ faults < MaxFaults
  /\ faults' = faults + 1
  /\ late' = (late \/ inWindow)
  /\ UNCHANGED <<ledger, packet, receipt, command, runs, gits, crashes>>

Edit ==
  /\ Fault(pc = "restoreWork")
  /\ \E c \in Content \ {work} : work' = c
  /\ UNCHANGED <<history, index, extra, headLock, indexLock>>

EditExtra ==
  /\ Fault(pc = "clean")
  /\ \E c \in Content \ {extra} : extra' = c
  /\ UNCHANGED <<history, index, work, headLock, indexLock>>

Stage ==
  /\ Fault(pc = "restoreIndex")
  /\ indexLock = "free"
  /\ \E c \in {work, HeadTree} \ {index} : index' = c
  /\ UNCHANGED <<history, work, extra, headLock, indexLock>>

GitCommit ==
  /\ Fault(FALSE)
  /\ headLock = "free" /\ indexLock = "free"
  /\ \E c \in {work, index} :
       history' = Append(history, [by |-> Foreign, tree |-> c]) /\ index' = c
  /\ UNCHANGED <<work, extra, headLock, indexLock>>

\* A Git command of the user is running.
GitLocks ==
  /\ gits < MaxGits
  /\ gits' = gits + 1
  /\ \/ headLock = "free" /\ headLock' = "git" /\ UNCHANGED indexLock
     \/ indexLock = "free" /\ indexLock' = "git" /\ UNCHANGED headLock
  /\ UNCHANGED <<history, index, work, extra, ledger, packet, receipt, command>>
  /\ UNCHANGED <<late, runs, faults, crashes>>

GitUnlocks ==
  /\ \/ headLock = "git" /\ headLock' = "free" /\ UNCHANGED indexLock
     \/ indexLock = "git" /\ indexLock' = "free" /\ UNCHANGED headLock
  /\ UNCHANGED <<history, index, work, extra, ledger, packet, receipt, command, env>>

\* Another command of the session, under its own turn of the mutation lock.
AppendOther ==
  /\ pc = "idle" /\ faults < MaxFaults
  /\ faults' = faults + 1
  /\ ledger' = Append(ledger, [run |-> Foreign, part |-> 1, commit |-> 0])
  /\ UNCHANGED <<git, packet, receipt, command, late, runs, gits, crashes>>

-----------------------------------------------------------------------------
Stepping ==
  \/ WriteReceipt \/ Prepare
  \/ CommitStage \/ Branch \/ Candidate \/ LockHead \/ Advance \/ UnlockHead
  \/ LockIndex \/ Install \/ Record \/ VerifyCommit
  \/ LedgerStage \/ Truncate \/ AppendChunk \/ VerifyLedger
  \/ TrackedStage \/ RestoreIndex \/ CheckWork \/ RestoreWork \/ VerifyTracked
  \/ UntrackedStage \/ Clean \/ VerifyUntracked
  \/ PacketStage \/ CheckpointPacket \/ Finish \/ VerifyAll \/ Clear

Step == Stepping \/ \E kind \in Kinds : Resume(kind)

Others == Edit \/ EditExtra \/ Stage \/ GitCommit \/ GitLocks \/ GitUnlocks \/ AppendOther

Next == Step \/ (\E kind \in Kinds : Log(kind)) \/ NextPacket \/ Crash \/ Others

Spec == Init /\ [][Next]_vars

\* A command that runs goes on, a refused one is retried as its message asks
\* ("retry the exact log command"), and Git commands of the user end.
Fairness == WF_vars(Step) /\ WF_vars(GitUnlocks)

-----------------------------------------------------------------------------
Labels ==
  {"idle", "prepare", "writeReceipt", "commit", "branch", "candidate", "lockHead", "advance",
   "unlockHead", "lockIndex", "install", "record", "verifyCommit", "ledger", "truncate",
   "append", "verifyLedger", "tracked", "restoreIndex", "checkWork", "restoreWork",
   "verifyTracked", "untracked", "clean", "verifyUntracked", "packet", "checkpointPacket",
   "finish", "verifyAll", "clear"}

Commit == [by : 0 .. MaxRuns, tree : Content]
Chunk == [run : 0 .. MaxRuns, part : 1 .. Chunks, commit : Nat]
Packet ==
  [run : 0 .. MaxRuns, head : Nat, index : Content, work : Content, extra : Content]
Receipt ==
  [run : 0 .. MaxRuns, kind : Kinds, status : {"pending", "failed", "done"},
   done : SUBSET Stages, head : Nat, tree : Content, index : Content, work : Content,
   extra : Content, tracked : BOOLEAN, untracked : BOOLEAN, oid : Nat, commit : Nat,
   prefix : Nat]

\* The shape of the state; a Git lock file is the log command's exactly while it
\* is between taking and releasing it.
TypeOK ==
  /\ history \in Seq(Commit) /\ history # <<>>
  /\ index \in Content /\ work \in Content /\ extra \in Content
  /\ headLock \in {"free", "log", "git", "dead"}
  /\ indexLock \in {"free", "log", "git", "dead"}
  /\ ledger \in Seq(Chunk)
  /\ packet \in Packet
  /\ receipt \in Receipt
  /\ pc \in Labels
  /\ mem \in Receipt
  /\ written \in 0 .. Chunks - 1
  /\ failed \in BOOLEAN /\ late \in BOOLEAN
  /\ runs \in 0 .. MaxRuns /\ faults \in 0 .. MaxFaults
  /\ gits \in 0 .. MaxGits /\ crashes \in 0 .. MaxCrashes
  /\ headLock = "log" <=> pc \in {"advance", "unlockHead"}
  /\ indexLock = "log" <=> pc = "install"

\* What a keep commits is the candidate that was evaluated, whatever is edited
\* or staged while the command runs or lies interrupted.
CommittedIsEvaluated == \A i \in DOMAIN history : history[i].by \in {Foreign, history[i].tree}

\* Every commit made for a run has its event in the ledger, which names that
\* commit, or a receipt from which the command will go on: no death leaves a
\* commit nothing knows of.
CommitAccounted ==
  \A x \in Commits :
    /\ receipt.run = x[2] \/ \E y \in Events : y[2] = x[2]
    /\ \A i \in DOMAIN ledger : ledger[i].run = x[2] => ledger[i].commit = x[1]

\* A stage the receipt on disk calls complete has been carried out: a retry may
\* skip it.
CheckpointHonest ==
  /\ "commit" \in receipt.done =>
       receipt.oid \in DOMAIN history /\ receipt.commit = receipt.oid
         /\ history[receipt.oid].tree = receipt.run
  /\ "ledger" \in receipt.done =>
       /\ Len(ledger) >= receipt.prefix + Chunks
       /\ SubSeq(ledger, receipt.prefix + 1, receipt.prefix + Chunks) = Event(receipt)
  /\ "packet" \in receipt.done => packet = NoPacket
  /\ "done" \in receipt.done =>
       receipt.done \cup {"commit", "tracked", "untracked"} = Stages
         /\ (IF Keeps(receipt) THEN "commit" \in receipt.done
                               ELSE {"tracked", "untracked"} \subseteq receipt.done)

\* A receipt is only removed when everything it stood for is there: its event,
\* for a keep its commit, and no packet that could be logged again.
ClearedWhole ==
  [][receipt # NoReceipt /\ receipt' = NoReceipt =>
       /\ \E y \in Events : y[2] = receipt.run
       /\ receipt.kind = "keep" => \E x \in Commits : x[2] = receipt.run
       /\ packet = NoPacket]_vars

\* The ledger only grows, except that the torn end of the pending run's own
\* event may be cut off: no row of another command is ever lost.
LedgerKept ==
  [][\A i \in DOMAIN ledger :
       \/ i \in DOMAIN ledger' /\ ledger'[i] = ledger[i]
       \/ ledger[i].run = receipt.run /\ receipt.run # Foreign
            /\ ~\E y \in Events : y[2] = receipt.run]_vars

\* Cleanup destroys nothing but the content the receipt was prepared with.  The
\* one exception is an edit between the last look at a path and its restore.
DiscardsOnlyPrepared ==
  [][pc' # pc /\ ~late =>
       /\ pc = "restoreIndex" => index' = index \/ index = mem.index
       /\ pc = "restoreWork" => work' = work \/ work = mem.work
       /\ pc = "clean" => extra' = extra \/ extra = mem.extra]_vars

\* The user's edits and rows may stop a retry for good (it refuses them and does
\* not overwrite them), and so may a Git lock file that a death left.
Undisturbed == faults = 0 /\ headLock # "dead" /\ indexLock # "dead"

\* What the command itself can leave that no retry is admitted to: its commit,
\* when it stopped before the receipt recorded the stage (log.ts:1949; a death,
\* or an index.lock that was not free); and, next to a keep that moved HEAD or
\* wrote its event, a file outside the committed paths that was dirty already
\* when the contract was accepted (experiment-contract.ts:2242).
Unrecorded ==
  /\ pc = "idle" /\ receipt.kind = "keep"
  /\ HeadOid # receipt.head /\ "commit" \notin receipt.done
Littered ==
  /\ pc = "idle" /\ Keeps(receipt)
  /\ extra # 0 /\ (HeadOid # receipt.head \/ HasEvent(receipt.run))

\* A pending log is eventually finished by its retries: they wait for the
\* user's Git commands, complete a torn event, redo what failed and survive
\* deaths.  Unrecorded and Littered are the only states where the admission of
\* the retries (Admitted) leaves it pending for good though nobody disturbed it.
PendingSettles ==
  (receipt # NoReceipt) ~>
    (receipt = NoReceipt \/ ~Undisturbed \/ Unrecorded \/ Littered)

Promise == INSTANCE ExactlyOnceLog WITH
  Run <- Run, NoRun <- Foreign,
  pending <- receipt.run,
  keeps <- receipt.kind = "keep",
  commits <- Commits,
  events <- Events

\* The command keeps the promise of ExactlyOnceLog.
KeepsPromise == Promise!Spec
=============================================================================
