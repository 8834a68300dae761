---------------------------- MODULE PacketProcess ----------------------------
(***************************************************************************)
(* The processes a session starts and the marker that stands for them: the *)
(* packet of `next` (scripts/autoresearch.ts, lib/commands/run.ts), the    *)
(* probe of `benchmark-inspect`, `process-recover`, the coalescing writer  *)
(* (lib/active-progress-writer.ts) and the store of progress.json          *)
(* (lib/active-progress-store.ts).                                         *)
(*                                                                         *)
(* Every command here holds the session mutation lock from its decision to *)
(* its end (SessionMutationLock), so at most one runs; its processes do    *)
(* not end with it.  A process tree is a root and one helper it may fork;  *)
(* a tree's output closes when both have ended.  The writer's timer only   *)
(* delays a write: a pending snapshot may start being written at any time. *)
(***************************************************************************)
EXTENDS Naturals, FiniteSets

CONSTANTS MaxTrees,        \* bound on the process trees started
          MaxCrashes,      \* bound on the commands killed half-way
          MaxProbes,       \* bound on the probes started
          MaxErrors,       \* bound on the failed writes
          MaxGeneration    \* bound on the generations onProgress queues

ASSUME BoundsAssumption ==
  {MaxTrees, MaxCrashes, MaxProbes, MaxErrors, MaxGeneration} \subseteq Nat

VARIABLES marker,   \* progress.json
          packet,   \* the last-run packet: none, fresh or stale
          unproven, \* the trees its process_lifecycle rows call termination-failed
          closed,   \* the trees the ledger calls terminated, operator_verified_absent
          born, alive,         \* the processes started, and those still running
          killed,              \* the trees that were sent SIGKILL
          probed,              \* the trees started by benchmark-inspect
          unlisted,            \* the trees whose evidence names their root alone
          cmd,      \* the command that holds the session lock
          writer,   \* its progress writer
          crashes, errors

files == <<marker, packet, unproven, closed>>
procs == <<born, alive, killed, probed, unlisted>>
vars  == <<marker, packet, unproven, closed, born, alive, killed, probed,
           unlisted, cmd, writer, crashes, errors>>

Trees == 1..MaxTrees
Root(t)   == <<t, "root">>
Helper(t) == <<t, "helper">>
Tree(t)   == {Root(t), Helper(t)}
Started   == {t \in Trees : Root(t) \in born}

\* A progress snapshot: its generation, its exitState ("preflight" is running
\* with the command class of the preflight, "ended" is completed, failed,
\* timed_out or crashed) and the process ids of its termination evidence.
NoMarker == [gen |-> 0, state |-> "none", tracked |-> {}]
Snapshot(s, ps) == [gen |-> 0, state |-> s, tracked |-> ps]

Idle == [name |-> "none", pc |-> "idle", tree |-> 0, tracked |-> {}, ok |-> FALSE]
NoWriter == [gen |-> 0, pending |-> NoMarker, active |-> NoMarker, failure |-> FALSE]

Init == /\ marker = NoMarker /\ packet = "none" /\ unproven = {} /\ closed = {}
        /\ born = {} /\ alive = {} /\ killed = {} /\ probed = {} /\ unlisted = {}
        /\ cmd = Idle /\ writer = NoWriter
        /\ crashes = 0 /\ errors = 0

-----------------------------------------------------------------------------
(* createActiveProgressWriter and createCoalescingProgressWriter.          *)

Opened == [NoWriter EXCEPT !.gen = marker.gen]

\* queue: the newest snapshot replaces one that waits.
Queued(w, s) == [w EXCEPT !.gen = @ + 1, !.pending = [s EXCEPT !.gen = w.gen + 1]]

\* Mutants of Flushed and FlushThrows: flush does not wait for the write under
\* way; it waits for a snapshot that the failed writer will never write.
FlushedEarly == writer.pending = NoMarker /\ ~writer.failure
FlushThrowsEmpty == writer.active = NoMarker /\ writer.failure /\ writer.pending = NoMarker

\* flush, called or awaited, comes back: nothing waits and nothing is written.
Flushed == writer.active = NoMarker /\ writer.pending = NoMarker /\ ~writer.failure

\* The command lets go of its writer; what it is still writing it writes.
Dropped == [NoWriter EXCEPT !.active = writer.active]

\* flush throws: the first failed write ends the writer, what waits is dropped.
FlushThrows == writer.active = NoMarker /\ writer.failure

StartWrite == /\ writer.pending # NoMarker /\ writer.active = NoMarker /\ ~writer.failure
              /\ writer' = [writer EXCEPT !.active = writer.pending, !.pending = NoMarker]
              /\ UNCHANGED <<files, procs, cmd, crashes, errors>>

\* writeActiveProgressSnapshot: an older generation is not written.
EndWrite == /\ writer.active # NoMarker
            /\ marker' = IF writer.active.gen > marker.gen THEN writer.active ELSE marker
            /\ writer' = [writer EXCEPT !.active = NoMarker]
            /\ UNCHANGED <<packet, unproven, closed, procs, cmd, crashes, errors>>

WriteFails == /\ writer.active # NoMarker /\ errors < MaxErrors
              /\ errors' = errors + 1
              /\ writer' = [writer EXCEPT !.active = NoMarker, !.failure = TRUE]
              /\ UNCHANGED <<files, procs, cmd, crashes>>

-----------------------------------------------------------------------------
(* What the decision makes of the marker and the packet: process-integrity *)
(* leaves process-recover alone, active-process and pending-packet block   *)
(* run-packet and nothing else.                                            *)

Running(m) == m.state \in {"preflight", "running"}
Failed(m)  == m.state = "termination_failed"

MayMutate == cmd = Idle /\ ~Failed(marker)

\* Mutant of MayRun: only an unproven termination stops a packet.
MayRunBesideActive == MayMutate /\ packet # "fresh"

MayRun == MayMutate /\ ~Running(marker) /\ packet # "fresh"

\* classifyProcessResidue of the retained marker; a preflight is no process.
Residue(m) == m.state \in {"running", "termination_failed"}

Goto(pc) == cmd' = [cmd EXCEPT !.pc = pc]
Quiet    == UNCHANGED <<crashes, errors>>

-----------------------------------------------------------------------------
(* next                                                                    *)

At(name, pc) == cmd.name = name /\ cmd.pc = pc

\* The decision lets the packet run; markProgressOwned, the preflight marker.
NextBegins == /\ MayRun /\ Cardinality(Started) < MaxTrees
              /\ cmd' = [Idle EXCEPT !.name = "next", !.pc = "preflight"]
              /\ writer' = Queued(Opened, Snapshot("preflight", {}))
              /\ UNCHANGED <<files, procs>> /\ Quiet

\* runExperiment opens a writer of its own.
PreflightMarked == /\ At("next", "preflight") /\ Flushed
                   /\ Goto("starting") /\ writer' = Opened
                   /\ UNCHANGED <<files, procs>> /\ Quiet

\* What runExperiment throws before its first snapshot: the stop policy, the
\* protected benchmark, the resource preflight.
StartRefused == /\ At("next", "starting")
                /\ Goto("closing")
                /\ UNCHANGED <<files, procs, writer>> /\ Quiet

PacketAnnounced == /\ At("next", "starting") /\ ~Residue(marker)
                   /\ writer' = Queued(writer, Snapshot("running", {}))
                   /\ Goto("marking")
                   /\ UNCHANGED <<files, procs>> /\ Quiet

PacketMarked == /\ At("next", "marking") /\ Flushed
                /\ Goto("ready")
                /\ UNCHANGED <<files, procs, writer>> /\ Quiet

Spawned(t) == /\ t = Cardinality(Started) + 1 /\ t \in Trees
              /\ born' = born \cup {Root(t)} /\ alive' = alive \cup {Root(t)}
              /\ UNCHANGED <<killed, unlisted>>

StageSpawned == /\ At("next", "ready")
                /\ \E t \in Trees : /\ Spawned(t)
                                    /\ cmd' = [cmd EXCEPT !.pc = "running", !.tree = t]
                /\ UNCHANGED <<files, probed, writer>> /\ Quiet

\* The environment of the stage cannot be materialised; nothing was started.
StageRejected == /\ At("next", "ready")
                 /\ writer' = Queued(writer, Snapshot("ended", {}))
                 /\ Goto("rejected")
                 /\ UNCHANGED <<files, procs>> /\ Quiet

\* The command does not spawn: a result like any other, without a process.
SpawnFailed == /\ At("next", "ready")
               /\ writer' = Queued(writer, Snapshot("ended", {}))
               /\ Goto("finishing")
               /\ UNCHANGED <<files, procs>> /\ Quiet

OnProgress == /\ At("next", "running") /\ writer.gen < MaxGeneration
              /\ writer' = Queued(writer, Snapshot("running", {}))
              /\ UNCHANGED <<files, procs, cmd>> /\ Quiet

\* The output closed.  A benchmark that passed is followed by its checks.
StageEnded == /\ At("next", "running") /\ alive \cap Tree(cmd.tree) = {}
              /\ \/ /\ Goto("ready") /\ Cardinality(Started) < MaxTrees
                    /\ UNCHANGED writer
                 \/ /\ Goto("finishing")
                    /\ writer' = Queued(writer, Snapshot("ended", {}))
              /\ UNCHANGED <<files, procs>> /\ Quiet

\* terminateAfterTimeout proved the tree absent.
Terminated(t) == /\ alive' = alive \ Tree(t)
                 /\ killed' = killed \cup {t}
                 /\ UNCHANGED <<born, probed, unlisted>>

\* It did not: ps are the process ids it recorded, the root among them even
\* when it has ended.  A handler that cannot enumerate the tree, throws or
\* times out records the root alone, whatever it has signalled by then.
TerminationUnproven(t, ps) ==
  /\ \E gone \in SUBSET Tree(t) : alive' = alive \ gone
  /\ \/ /\ ps = (alive \cap Tree(t)) \cup {Root(t)}
        /\ killed' = killed \cup {t} /\ UNCHANGED unlisted
     \/ /\ ps = {Root(t)}
        /\ unlisted' = unlisted \cup {t} /\ UNCHANGED killed
  /\ UNCHANGED <<born, probed>>

StageTimesOut == /\ At("next", "running") /\ alive \cap Tree(cmd.tree) # {}
                 /\ Terminated(cmd.tree)
                 /\ writer' = Queued(writer, Snapshot("ended", {}))
                 /\ Goto("finishing")
                 /\ UNCHANGED files /\ Quiet

StageUnproven == /\ At("next", "running") /\ alive \cap Tree(cmd.tree) # {}
                 /\ \E ps \in SUBSET Tree(cmd.tree) :
                      /\ TerminationUnproven(cmd.tree, ps)
                      /\ writer' = Queued(writer, Snapshot("termination_failed", ps))
                      /\ cmd' = [cmd EXCEPT !.pc = "finishing", !.tracked = ps]
                 /\ UNCHANGED files /\ Quiet

PacketReported == /\ At("next", "finishing") /\ Flushed
                  /\ cmd' = [cmd EXCEPT !.pc = "closing", !.ok = TRUE]
                  /\ UNCHANGED <<files, procs, writer>> /\ Quiet

RejectionReported == /\ At("next", "rejected") /\ Flushed
                     /\ Goto("closing")
                     /\ UNCHANGED <<files, procs, writer>> /\ Quiet

\* A flush of any of the stages above throws.
ProgressLost == /\ cmd.name = "next"
                /\ cmd.pc \in {"preflight", "marking", "rejected", "finishing"}
                /\ FlushThrows
                /\ Goto("closing")
                /\ UNCHANGED <<files, procs, writer>> /\ Quiet

\* runWithRequiredCleanup: close, then the packet unless something threw.
WriterClosed == /\ At("next", "closing") /\ (Flushed \/ FlushThrows)
                /\ writer' = Dropped
                /\ Goto(IF cmd.ok /\ Flushed THEN "reporting" ELSE "cleanup")
                /\ UNCHANGED <<files, procs>> /\ Quiet

PacketStored == /\ At("next", "reporting")
                /\ packet' = "fresh"
                /\ unproven' = IF cmd.tracked = {} THEN {} ELSE {cmd.tree}
                /\ Goto("cleanup")
                /\ UNCHANGED <<marker, closed, procs, writer>> /\ Quiet

PacketNotStored == /\ At("next", "reporting") /\ errors < MaxErrors
                   /\ errors' = errors + 1
                   /\ Goto("cleanup")
                   /\ UNCHANGED <<files, procs, writer, crashes>>

\* Mutant of NextEnds: deleteActiveProgressSnapshot, whatever the marker says.
NextEndsRegardless == /\ At("next", "cleanup")
                      /\ marker' = NoMarker /\ cmd' = Idle
                      /\ UNCHANGED <<packet, unproven, closed, procs, writer>> /\ Quiet

\* deleteActiveProgressSnapshotIfSafe.
NextEnds == /\ At("next", "cleanup")
            /\ marker' = IF Failed(marker) \/ Running(marker) THEN marker ELSE NoMarker
            /\ cmd' = Idle
            /\ UNCHANGED <<packet, unproven, closed, procs, writer>> /\ Quiet

-----------------------------------------------------------------------------
(* benchmark-inspect --command, and persistTerminationFailure              *)

ProbeBegins == /\ MayMutate /\ Cardinality(probed) < MaxProbes
               /\ \E t \in Trees :
                    /\ Spawned(t) /\ probed' = probed \cup {t}
                    /\ cmd' = [Idle EXCEPT !.name = "inspect", !.pc = "running", !.tree = t]
               /\ UNCHANGED <<files, writer>> /\ Quiet

ProbeEnds == /\ At("inspect", "running") /\ alive \cap Tree(cmd.tree) = {}
             /\ cmd' = Idle
             /\ UNCHANGED <<files, procs, writer>> /\ Quiet

ProbeTimesOut == /\ At("inspect", "running") /\ alive \cap Tree(cmd.tree) # {}
                 /\ Terminated(cmd.tree)
                 /\ cmd' = Idle
                 /\ UNCHANGED <<files, writer>> /\ Quiet

ProbeUnproven == /\ At("inspect", "running") /\ alive \cap Tree(cmd.tree) # {}
                 /\ \E ps \in SUBSET Tree(cmd.tree) :
                      /\ TerminationUnproven(cmd.tree, ps)
                      /\ writer' = Queued(Opened, Snapshot("termination_failed", ps))
                      /\ cmd' = [cmd EXCEPT !.pc = "persisting", !.tracked = ps]
                 /\ UNCHANGED files /\ Quiet

ProbePersisted == /\ At("inspect", "persisting") /\ (Flushed \/ FlushThrows)
                  /\ cmd' = Idle /\ writer' = Dropped
                  /\ UNCHANGED <<files, procs>> /\ Quiet

-----------------------------------------------------------------------------
(* process-recover, log                                                    *)

\* The marker is read; a marker that is not termination_failed is refused.
RecoverBegins == /\ cmd = Idle /\ Failed(marker)
                 /\ cmd' = [Idle EXCEPT !.name = "recover", !.pc = "proving",
                                        !.tracked = marker.tracked]
                 /\ UNCHANGED <<files, procs, writer>> /\ Quiet

\* processIdMayBeLive of every recorded id.
StillLive == /\ At("recover", "proving") /\ cmd.tracked \cap alive # {}
             /\ cmd' = Idle
             /\ UNCHANGED <<files, procs, writer>> /\ Quiet

\* Mutant of ProvenDead: the death of the roots is proof enough.
ProvenRootsDead == /\ At("recover", "proving")
                   /\ \A p \in cmd.tracked \cap alive : p[2] = "helper"
                   /\ Goto("removing")
                   /\ UNCHANGED <<files, procs, writer>> /\ Quiet

ProvenDead == /\ At("recover", "proving") /\ cmd.tracked \cap alive = {}
              /\ Goto("removing")
              /\ UNCHANGED <<files, procs, writer>> /\ Quiet

\* Mutant of MarkerRemoved: the other of the two candidate paths is removed.
MarkerMisplaced == /\ At("recover", "removing")
                   /\ cmd' = Idle
                   /\ UNCHANGED <<files, procs, writer>> /\ Quiet

\* Nothing else writes the marker under the lock: its bytes are as they were.
MarkerRemoved == /\ At("recover", "removing")
                 /\ marker' = NoMarker /\ cmd' = Idle
                 /\ UNCHANGED <<packet, unproven, closed, procs, writer>> /\ Quiet

\* Mutant of Log: an unproven termination does not stop it.
LogUnproven == /\ cmd = Idle /\ packet = "fresh"
               /\ closed' = closed \cup unproven
               /\ packet' = "none" /\ unproven' = {}
               /\ UNCHANGED <<marker, procs, cmd, writer>> /\ Quiet

\* log --from-last consumes the packet and reconciles its unproven process.
Log == /\ MayMutate /\ packet = "fresh"
       /\ closed' = closed \cup unproven
       /\ packet' = "none" /\ unproven' = {}
       /\ UNCHANGED <<marker, procs, cmd, writer>> /\ Quiet

-----------------------------------------------------------------------------
(* The environment: processes, a command that is killed, an editor.        *)

Fork(t) == /\ Root(t) \in alive /\ t \notin killed /\ Helper(t) \notin born
           /\ born' = born \cup {Helper(t)} /\ alive' = alive \cup {Helper(t)}
           /\ UNCHANGED <<files, killed, probed, unlisted, cmd, writer>> /\ Quiet

Exit(p) == /\ p \in alive
           /\ alive' = alive \ {p}
           /\ UNCHANGED <<files, born, killed, probed, unlisted, cmd, writer>> /\ Quiet

Crash == /\ cmd # Idle /\ crashes < MaxCrashes
         /\ cmd' = Idle /\ writer' = NoWriter
         /\ crashes' = crashes + 1
         /\ UNCHANGED <<files, procs, errors>>

\* A source the packet was measured on changes.
PacketGoesStale == /\ packet = "fresh"
                   /\ packet' = "stale"
                   /\ UNCHANGED <<marker, unproven, closed, procs, cmd, writer>> /\ Quiet

Writer == StartWrite \/ EndWrite \/ WriteFails
NextStep == \/ PreflightMarked \/ StartRefused \/ PacketAnnounced \/ PacketMarked
            \/ StageSpawned \/ StageRejected \/ SpawnFailed \/ OnProgress
            \/ StageEnded \/ StageTimesOut \/ StageUnproven
            \/ PacketReported \/ RejectionReported \/ ProgressLost
            \/ WriterClosed \/ PacketStored \/ PacketNotStored \/ NextEnds
ProbeStep == ProbeEnds \/ ProbeTimesOut \/ ProbeUnproven \/ ProbePersisted
RecoverStep == StillLive \/ ProvenDead \/ MarkerRemoved
Begins == NextBegins \/ ProbeBegins \/ RecoverBegins \/ Log
World == \/ \E t \in Trees : Fork(t)
         \/ \E p \in alive : Exit(p)
         \/ Crash \/ PacketGoesStale

Next == Writer \/ NextStep \/ ProbeStep \/ RecoverStep \/ Begins \/ World
Spec == Init /\ [][Next]_vars

\* The commands go on, a stage's timeout fires, a process of a tree that was
\* left behind ends some day, and the operator follows the decision's action.
Fairness == /\ WF_vars(StartWrite \/ EndWrite)
            /\ WF_vars(NextStep) /\ WF_vars(ProbeStep) /\ WF_vars(RecoverStep)
            /\ \A p \in Trees \X {"root", "helper"} : WF_vars(Exit(p))
            /\ SF_vars(RecoverBegins)

-----------------------------------------------------------------------------
Procs     == Trees \X {"root", "helper"}
States    == {"none", "preflight", "running", "ended", "termination_failed"}
Snapshots == [gen : Nat, state : States, tracked : SUBSET Procs]
Stages    == {"idle", "preflight", "starting", "marking", "ready", "running", "rejected",
              "finishing", "closing", "reporting", "cleanup", "persisting",
              "proving", "removing"}

\* The variables keep their types; what waits to be written is newer than the
\* marker, and no process lives that was never started.
TypeOK ==
  /\ marker \in Snapshots /\ packet \in {"none", "fresh", "stale"}
  /\ unproven \subseteq Trees /\ closed \subseteq Trees
  /\ born \subseteq Procs /\ alive \subseteq born
  /\ {killed, probed, unlisted} \subseteq SUBSET Trees
  /\ cmd \in [name : {"none", "next", "inspect", "recover"}, pc : Stages,
              tree : Trees \cup {0}, tracked : SUBSET Procs, ok : BOOLEAN]
  /\ writer \in [gen : Nat, pending : Snapshots, active : Snapshots, failure : BOOLEAN]
  /\ crashes \in 0..MaxCrashes /\ errors \in 0..MaxErrors
  /\ \A s \in {writer.pending, writer.active} : s # NoMarker => s.gen > marker.gen

Bars(m) == Running(m) \/ Failed(m)

\* The processes a tree's termination evidence can be asked about: all of
\* them, or the root alone when the handler could not enumerate the tree.
Listed(t) == IF t \in unlisted THEN {Root(t)} ELSE Tree(t)

\* A process that outlives its command is never forgotten: as long as one
\* lives, the marker on disk keeps further packets from starting, except
\* while the probe it belongs to is still being run or recorded.  (A helper
\* that no termination evidence listed is nobody's.)
LivingIsBarred ==
  \A p \in alive : \/ Bars(marker)
                   \/ cmd.name = "inspect" /\ cmd.tree = p[1]
                   \/ p \notin Listed(p[1])

\* No stage of a packet starts beside any process the session has left and
\* knows of.
StagesAlone ==
  [][\A t \in Trees : (Root(t) \in born' \ born /\ t \notin probed')
       => \A p \in alive : p \notin Listed(p[1])]_vars

\* What the ledger calls terminated, "operator verified absent", is dead.
ClosedIsDead == \A t \in closed : Listed(t) \cap alive = {}

\* A packet that was reported leaves no marker, or the termination_failed one
\* that names every process of its tree still alive; and what it left stands:
\* between commands no write that was queued brings a marker back.
PacketLeavesTruth ==
  [][/\ (At("next", "cleanup") /\ cmd.ok /\ cmd' = Idle /\ UNCHANGED crashes) =>
          IF cmd.tracked = {} THEN marker' = NoMarker
          ELSE /\ Failed(marker')
               /\ Listed(cmd.tree) \cap alive \subseteq marker'.tracked
     /\ (cmd = Idle /\ cmd' = Idle) => UNCHANGED marker]_vars

\* A termination_failed marker goes only once every process of the trees it
\* stands for is dead: the recorded ids are proof of all that was listed.
RecoveredIsDead ==
  [][(Failed(marker) /\ marker' = NoMarker) =>
       \A p \in marker.tracked : Listed(p[1]) \cap alive = {}]_vars

\* Every command ends, whatever fails to be written.
CommandsEnd == cmd # Idle ~> cmd = Idle

\* An unproven termination is cleared in the end, through process-recover.
UnprovenClears == Failed(marker) ~> ~Failed(marker)
=============================================================================
