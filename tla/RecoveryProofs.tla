--------------------------- MODULE RecoveryProofs ---------------------------
(***************************************************************************)
(* What a command that died, failed or timed out leaves on the machine,    *)
(* and what a later one makes of it: processes that outlive their command, *)
(* and directories that were half replaced.                                *)
(*                                                                         *)
(* The processes, for any number of trees, kills, probes, failed writes    *)
(* and generations.  A termination records ids, and all that lives of the  *)
(* trees it was asked about is among them (CoverInv); from then on only    *)
(* process ends change that.  The record reaches the disk through a writer *)
(* that works behind the command's back, so the invariant says at every    *)
(* step which snapshot is on disk, under way and waiting, and that they    *)
(* are in this order (GenInv, StageInv): what a command reported is then   *)
(* the last write, and what is proven dead are the ids on disk.  That the  *)
(* marker keeps the next packet out is another invariant (BarInv) and      *)
(* needs that kills and failed writes do not meet with probes (Apart).     *)
(*                                                                         *)
(* The directories (the second half), for any number of targets, deaths    *)
(* and failed calls.  What a death leaves is what stands on the disk, so   *)
(* Durable says of the disk alone that it is the new release or that every *)
(* original is at its target or in its rollback; the rest of SwapIInv says *)
(* at which step of the swap, of the undoing and of the clean-up each      *)
(* original is where.                                                      *)
(***************************************************************************)
EXTENDS PacketProcess, DirectorySwap, FiniteSetTheorems, TLAPS

-----------------------------------------------------------------------------
(* The processes: the parts of the invariant.                             *)

\* Trees are started in order, a helper after its root, and the ledger and
\* the packet name started trees only.
FamilyInv ==
  /\ \E k \in 0..MaxTrees : Started = 1..k
  /\ \A t \in Trees : Helper(t) \in born => Root(t) \in born
  /\ unproven \subseteq Started /\ closed \subseteq Started

\* What waits and what is being written is newer than the marker, in order.
Owning == {"preflight", "starting", "marking", "ready", "rejected", "finishing",
           "closing", "persisting"}
Opening == cmd.pc \in Owning \/ At("next", "running")

GenInv ==
  /\ writer.pending # NoMarker => writer.pending.gen = writer.gen /\ marker.gen < writer.gen
  /\ writer.active # NoMarker =>
       marker.gen < writer.active.gen /\ writer.active.gen <= writer.gen
  /\ writer.pending # NoMarker /\ writer.active # NoMarker => writer.active.gen < writer.gen
  /\ Opening => marker.gen <= writer.gen

Packets == {"preflight", "starting", "marking", "ready", "rejected", "finishing",
            "closing", "reporting", "cleanup"}
Ending  == {"finishing", "closing", "reporting", "cleanup"}

\* What a command is doing and what it remembers.
CmdInv ==
  /\ cmd.pc = "idle" => cmd = Idle
  /\ cmd.pc \in Packets => cmd.name = "next"
  /\ cmd.pc = "running" => cmd.name \in {"next", "inspect"} /\ cmd.tree \in Started
  /\ cmd.pc = "persisting" => cmd.name = "inspect"
  /\ cmd.pc \in {"proving", "removing"} => cmd.name = "recover"
  /\ cmd.name = "inspect" => cmd.tree \in probed
  /\ cmd.pc \notin Ending \cup {"persisting", "proving", "removing"} => cmd.tracked = {}
  /\ cmd.pc = "persisting" => cmd.tracked # {}
  /\ cmd.pc \in Ending \cup {"persisting"} /\ cmd.tracked # {} =>
       cmd.tree \in Trees /\ Root(cmd.tree) \in cmd.tracked /\ cmd.tracked \subseteq Tree(cmd.tree)
  /\ cmd.ok = TRUE => cmd.pc \in {"closing", "reporting", "cleanup"}
  /\ cmd.pc = "reporting" => cmd.ok = TRUE

\* The snapshot the disk holds when all is written.
Newest == IF writer.pending # NoMarker THEN writer.pending
          ELSE IF writer.active # NoMarker THEN writer.active ELSE marker

Settled == writer.pending = NoMarker /\ writer.active = NoMarker
Calm    == Settled /\ writer.failure = FALSE

\* The last snapshot of a packet: it ended, or these processes may live.
Final(m) == IF cmd.tracked = {} THEN m.state = "ended"
            ELSE Failed(m) /\ m.tracked = cmd.tracked

Written(m, s) == m # NoMarker => m.state = s

\* The marker and the writer at each step of a command.
StageInv ==
  /\ cmd.pc \in {"idle", "starting", "reporting", "cleanup", "proving", "removing"} => Calm
  /\ At("inspect", "running") => Calm /\ ~Failed(marker)
  /\ cmd.pc = "preflight" =>
       /\ ~Failed(marker) /\ (writer.failure = TRUE \/ Newest.state = "preflight")
       /\ Written(writer.pending, "preflight") /\ Written(writer.active, "preflight")
  /\ cmd.pc = "starting" => marker.state = "preflight"
  /\ cmd.pc = "marking" =>
       /\ ~Failed(marker) /\ (writer.failure = TRUE \/ Newest.state = "running")
       /\ Written(writer.pending, "running") /\ Written(writer.active, "running")
  /\ cmd.pc = "ready" \/ At("next", "running") =>
       /\ marker.state = "running"
       /\ Written(writer.pending, "running") /\ Written(writer.active, "running")
  /\ cmd.pc \in {"rejected", "finishing"} =>
       /\ writer.failure = TRUE => marker.state = "running"
       /\ writer.failure = FALSE => Final(Newest)
       /\ marker.state = "running" \/ Settled
       /\ writer.active # NoMarker => writer.active.state = "running" \/ writer.pending = NoMarker
  /\ cmd.pc = "closing" =>
       writer.active = NoMarker /\ (writer.failure = TRUE \/ writer.pending = NoMarker)
  /\ cmd.pc = "closing" /\ cmd.ok = TRUE => Calm
  /\ cmd.ok = TRUE => Final(marker)
  /\ cmd.pc \in {"closing", "cleanup"} /\ cmd.ok = FALSE /\ cmd.tracked # {} =>
       marker.state = "running" /\ errors > 0
  /\ cmd.pc = "closing" /\ cmd.ok = FALSE /\ cmd.tracked # {} => writer.failure = TRUE
  /\ cmd.pc = "persisting" => /\ writer.failure = FALSE => Final(Newest)
                              /\ writer.pending = NoMarker \/ writer.active = NoMarker
                              /\ Settled \/ ~Failed(marker)
  /\ cmd.pc \in {"proving", "removing"} => Failed(marker) /\ cmd.tracked = marker.tracked
  /\ cmd.pc = "removing" => cmd.tracked \cap alive = {}
  /\ Failed(marker) => Settled
  /\ writer.failure = TRUE => errors > 0 /\ writer.active = NoMarker

\* The ids a termination has recorded name all that lives of what can be asked.
Covers(ps) == \A p \in ps : /\ p \in born /\ p[1] \in killed \cup unlisted
                            /\ Listed(p[1]) \cap alive \subseteq ps

CoverInv == /\ \A m \in {marker, writer.pending, writer.active} : Covers(m.tracked)
            /\ Covers(cmd.tracked)

\* A tree whose termination is unproven is dead, or the marker stands for it.
UnprovenInv ==
  \A t \in unproven : \/ Listed(t) \cap alive = {}
                      \/ Failed(marker) /\ Listed(t) \cap alive \subseteq marker.tracked

PacketInv == /\ TypeOK /\ FamilyInv /\ GenInv /\ CmdInv /\ StageInv /\ CoverInv
             /\ UnprovenInv /\ ClosedIsDead

-----------------------------------------------------------------------------
(* Kills and failed writes on one hand, probes on the other.               *)
Apart == probed = {} \/ (crashes = 0 /\ errors = 0)

\* The processes that termination evidence can be asked about.
Living == {p \in alive : p \in Listed(p[1])}

BarInv ==
  /\ cmd.pc = "idle" => \/ Living = {}
                        \/ Failed(marker) /\ Living \subseteq marker.tracked
                        \/ Running(marker) /\ (crashes > 0 \/ errors > 0)
  /\ cmd.pc \in {"preflight", "starting", "marking", "ready", "rejected"} => Living = {}
  /\ cmd.pc = "running" => Living \subseteq Tree(cmd.tree)
  /\ cmd.pc \in Ending \cup {"persisting", "proving", "removing"} => Living \subseteq cmd.tracked
-----------------------------------------------------------------------------
(* Lemmas about the operators of the model.                                *)

Cmds    == [name : {"none", "next", "inspect", "recover"}, pc : Stages, tree : Trees \cup {0},
            tracked : SUBSET Procs, ok : BOOLEAN]
Writers == [gen : Nat, pending : Snapshots, active : Snapshots, failure : BOOLEAN]

LEMMA NoMarkerFacts == NoMarker \in Snapshots /\ NoMarker.gen = 0 /\ NoMarker.state = "none"
                       /\ NoMarker.tracked = {}
  BY SMT DEF NoMarker, Snapshots, States

LEMMA SnapshotFacts ==
  ASSUME NEW st \in States, NEW ps \in SUBSET Procs, NEW g \in Nat
  PROVE  LET s == [Snapshot(st, ps) EXCEPT !.gen = g]
         IN  s \in Snapshots /\ s.gen = g /\ s.state = st /\ s.tracked = ps
  BY SMT DEF Snapshot, Snapshots

\* What queue makes of a writer.
LEMMA QueuedFacts ==
  ASSUME NEW w \in Writers, NEW st \in States \ {"none"}, NEW ps \in SUBSET Procs
  PROVE  LET q == Queued(w, Snapshot(st, ps))
         IN  /\ q \in Writers /\ q.gen = w.gen + 1 /\ q.active = w.active /\ q.failure = w.failure
             /\ q.pending.gen = w.gen + 1 /\ q.pending.state = st /\ q.pending.tracked = ps
             /\ q.pending # NoMarker
<1> DEFINE s == [Snapshot(st, ps) EXCEPT !.gen = w.gen + 1]
<1>1. w.gen + 1 \in Nat /\ w.active \in Snapshots /\ w.failure \in BOOLEAN
  BY SMT DEF Writers
<1>2. s \in Snapshots /\ s.gen = w.gen + 1 /\ s.state = st /\ s.tracked = ps
  BY <1>1, SnapshotFacts
<1>3. Queued(w, Snapshot(st, ps)) = [w EXCEPT !.gen = w.gen + 1, !.pending = s]
  BY SMT DEF Queued
<1>4. s # NoMarker
  BY <1>2, NoMarkerFacts
<1> HIDE DEF s
<1>5. [w EXCEPT !.gen = w.gen + 1, !.pending = s] \in Writers
  BY <1>1, <1>2, Zenon DEF Writers
<1> QED  BY <1>1, <1>2, <1>3, <1>4, <1>5, SMT DEF Writers

LEMMA OpenedFacts ==
  ASSUME TypeOK
  PROVE  /\ Opened \in Writers /\ Opened.gen = marker.gen /\ Opened.pending = NoMarker
         /\ Opened.active = NoMarker /\ Opened.failure = FALSE
<1>1. marker.gen \in Nat
  BY SMT DEF TypeOK, Snapshots
<1>2. NoWriter \in Writers
  BY NoMarkerFacts, SMT DEF NoWriter, Writers
<1>3. Opened \in Writers
  BY <1>1, <1>2, Zenon DEF Opened, Writers
<1>4. /\ Opened.gen = marker.gen /\ Opened.pending = NoMarker
      /\ Opened.active = NoMarker /\ Opened.failure = FALSE
  BY SMT DEF Opened, NoWriter
<1> QED  BY <1>3, <1>4

\* A tree that is started was not started before.
LEMMA SpawnedFacts ==
  ASSUME TypeOK, FamilyInv, NEW t \in Trees, Spawned(t)
  PROVE  /\ t \notin Started /\ Root(t) \notin born /\ Helper(t) \notin born
         /\ Started' = Started \cup {t}
         /\ \E k \in 0..MaxTrees : Started' = 1..k
         /\ \A u \in Trees : Helper(u) \in born' => Root(u) \in born'
<1>1. PICK k \in 0..MaxTrees : Started = 1..k
  BY DEF FamilyInv
<1>2. MaxTrees \in Nat /\ k \in Nat
  BY BoundsAssumption, SMT
<1>3. Cardinality(Started) = k
  BY <1>1, <1>2, FS_Interval, SMT
<1>4. t = k + 1 /\ born' = born \cup {Root(t)}
  BY <1>3 DEF Spawned
<1>5. t \notin Started
  BY <1>1, <1>2, <1>4, SMT
<1>6. Root(t) \notin born /\ Helper(t) \notin born
  BY <1>5 DEF Started, FamilyInv
<1>7. Started' = Started \cup {t}
  BY <1>4, SMT DEF Started, Root
<1>8. k + 1 \in 0..MaxTrees /\ Started' = 1..(k + 1)
  BY <1>1, <1>2, <1>4, <1>7, SMT DEF Trees
<1>9. \A u \in Trees : Helper(u) \in born' => Root(u) \in born'
  BY <1>4, SMT DEF FamilyInv, Root, Helper
<1> QED  BY <1>5, <1>6, <1>7, <1>8, <1>9

\* A snapshot queued in a writer that is not behind the marker keeps the order.
LEMMA QueueGen ==
  ASSUME TypeOK, marker' = marker, NEW w \in Writers,
         NEW st \in States \ {"none"}, NEW ps \in SUBSET Procs,
         writer' = Queued(w, Snapshot(st, ps)), marker.gen <= w.gen,
         w.active # NoMarker => marker.gen < w.active.gen /\ w.active.gen <= w.gen
  PROVE  GenInv'
<1>1. /\ writer'.gen = w.gen + 1 /\ writer'.active = w.active
      /\ writer'.pending.gen = w.gen + 1 /\ writer'.pending # NoMarker
  BY QueuedFacts
<1>2. marker.gen \in Nat /\ w.gen \in Nat /\ w.active.gen \in Nat
  BY SMT DEF TypeOK, Writers, Snapshots
<1> QED  BY <1>1, <1>2, SMT DEF GenInv

\* What was covered stays covered when another tree is started.
LEMMA SpawnCovers ==
  ASSUME TypeOK, FamilyInv, NEW t \in Trees, Spawned(t), NEW ps, Covers(ps)
  PROVE  Covers(ps)'
<1>1. /\ t \notin Started /\ born' = born \cup {Root(t)} /\ alive' = alive \cup {Root(t)}
      /\ UNCHANGED <<killed, unlisted>>
  BY SpawnedFacts DEF Spawned
<1> SUFFICES ASSUME NEW p \in ps
             PROVE  /\ p \in born' /\ p[1] \in killed' \cup unlisted'
                    /\ Listed(p[1])' \cap alive' \subseteq ps
  BY DEF Covers
<1>2. p \in born /\ p[1] \in killed \cup unlisted /\ Listed(p[1]) \cap alive \subseteq ps
  BY DEF Covers
<1>3. p[1] \in Trees /\ p \in {Root(p[1]), Helper(p[1])}
  BY <1>2, SMT DEF TypeOK, Procs, Root, Helper
<1>4. p[1] # t
  BY <1>1, <1>2, <1>3 DEF FamilyInv, Started
<1>5. Root(t) \notin Listed(p[1])
  BY <1>4, SMT DEF Listed, Tree, Root, Helper
<1>6. Listed(p[1])' = Listed(p[1])
  BY <1>1 DEF Listed
<1> QED  BY <1>1, <1>2, <1>5, <1>6

-----------------------------------------------------------------------------
(* No step breaks the invariant: one lemma for each action.                *)

LEMMA StartWriteStep == PacketInv /\ StartWrite => PacketInv'
<1> SUFFICES ASSUME PacketInv, StartWrite PROVE PacketInv'
  OBVIOUS
<1> USE BoundsAssumption DEF PacketInv
<1>1. GenInv'
  BY SMT DEF StartWrite, files, TypeOK, GenInv, Opening, At
<1>2. CmdInv'
  BY DEF StartWrite, procs, CmdInv, Started
<1>3. StageInv'
  BY SMT DEF StartWrite, files, StageInv, Newest, Settled, Calm, Final, At
<1>4. CoverInv'
  BY SMT DEF StartWrite, files, procs, CoverInv, Covers, Listed
<1>5. FamilyInv'
  BY SMT DEF StartWrite, files, procs, FamilyInv, Started
<1>6. UnprovenInv'
  BY SMT DEF StartWrite, files, procs, UnprovenInv, Listed
<1>7. ClosedIsDead'
  BY SMT DEF StartWrite, files, procs, ClosedIsDead, Listed
<1>8. TypeOK'
  <2>1. marker' \in Snapshots /\ packet' \in {"none", "fresh", "stale"}
    BY NoMarkerFacts, SMT DEF StartWrite, files, TypeOK
  <2>2. unproven' \subseteq Trees /\ closed' \subseteq Trees
    BY SMT DEF StartWrite, files, TypeOK
  <2>3. born' \subseteq Procs /\ alive' \subseteq born'
    BY SMT DEF StartWrite, procs, TypeOK
  <2>4. {killed', probed', unlisted'} \subseteq SUBSET Trees
    BY SMT DEF StartWrite, procs, TypeOK
  <2>5. crashes' \in 0..MaxCrashes /\ errors' \in 0..MaxErrors
    BY SMT DEF StartWrite, TypeOK
  <2>6. cmd' \in Cmds
    BY Zenon DEF StartWrite, TypeOK, Cmds
  <2>7. writer' \in Writers
    BY NoMarkerFacts, Zenon DEF StartWrite, TypeOK, Writers
  <2> QED  BY <1>1, <2>1, <2>2, <2>3, <2>4, <2>5, <2>6, <2>7, SMT DEF TypeOK, GenInv, Writers,
      Cmds
<1> QED  BY <1>1, <1>2, <1>3, <1>4, <1>5, <1>6, <1>7, <1>8 DEF PacketInv

LEMMA EndWriteStep == PacketInv /\ EndWrite => PacketInv'
<1> SUFFICES ASSUME PacketInv, EndWrite PROVE PacketInv'
  OBVIOUS
<1> USE BoundsAssumption DEF PacketInv
<1>1. GenInv'
  BY SMT DEF EndWrite, GenInv
<1>2. CmdInv'
  BY DEF EndWrite, procs, CmdInv, Started
<1>3. StageInv'
  <2>1. /\ marker' = writer.active /\ writer'.active = NoMarker /\ writer'.pending = writer.pending
        /\ writer'.failure = writer.failure /\ writer.active # NoMarker
        /\ UNCHANGED <<cmd, alive, errors>>
    BY SMT DEF EndWrite, procs, TypeOK
  <2>2. Newest' = Newest
    BY <2>1 DEF Newest
  <2>3. CASE cmd.pc \in {"preflight", "marking", "ready"} \/ At("next", "running")
    BY <2>1, <2>2, <2>3, SMT DEF StageInv, CmdInv, Written, Failed, At
  <2>4. CASE cmd.pc \in {"rejected", "finishing"}
    BY <2>1, <2>2, <2>4, SMT DEF StageInv, Settled, Final, Failed, At
  <2>5. CASE cmd.pc = "persisting"
    BY <2>1, <2>2, <2>5, SMT DEF StageInv, CmdInv, Settled, Final, At
  <2>6. \/ cmd.pc \in {"preflight", "marking", "ready", "rejected", "finishing", "persisting"}
        \/ At("next", "running")
    BY <2>1, SMT DEF StageInv, Calm, Settled, CmdInv, At, TypeOK, Stages
  <2> QED  BY <2>3, <2>4, <2>5, <2>6
<1>4. CoverInv'
  BY SMT DEF EndWrite, procs, NoMarker, CoverInv, Covers, Listed
<1>5. FamilyInv'
  BY SMT DEF EndWrite, procs, FamilyInv, Started
<1>6. UnprovenInv'
  BY SMT DEF EndWrite, procs, UnprovenInv, Listed, StageInv, Settled
<1>7. ClosedIsDead'
  BY SMT DEF EndWrite, procs, ClosedIsDead, Listed
<1>8. TypeOK'
  <2>1. marker' \in Snapshots /\ packet' \in {"none", "fresh", "stale"}
    BY NoMarkerFacts, SMT DEF EndWrite, TypeOK
  <2>2. unproven' \subseteq Trees /\ closed' \subseteq Trees
    BY SMT DEF EndWrite, TypeOK
  <2>3. born' \subseteq Procs /\ alive' \subseteq born'
    BY SMT DEF EndWrite, procs, TypeOK
  <2>4. {killed', probed', unlisted'} \subseteq SUBSET Trees
    BY SMT DEF EndWrite, procs, TypeOK
  <2>5. crashes' \in 0..MaxCrashes /\ errors' \in 0..MaxErrors
    BY SMT DEF EndWrite, TypeOK
  <2>6. cmd' \in Cmds
    BY Zenon DEF EndWrite, TypeOK, Cmds
  <2>7. writer' \in Writers
    BY NoMarkerFacts, Zenon DEF EndWrite, TypeOK, Writers
  <2> QED  BY <1>1, <2>1, <2>2, <2>3, <2>4, <2>5, <2>6, <2>7, SMT DEF TypeOK, GenInv, Writers,
      Cmds
<1> QED  BY <1>1, <1>2, <1>3, <1>4, <1>5, <1>6, <1>7, <1>8 DEF PacketInv

LEMMA WriteFailsStep == PacketInv /\ WriteFails => PacketInv'
<1> SUFFICES ASSUME PacketInv, WriteFails PROVE PacketInv'
  OBVIOUS
<1> USE BoundsAssumption DEF PacketInv
<1>1. GenInv'
  BY SMT DEF WriteFails, files, GenInv, Opening, At
<1>2. CmdInv'
  BY DEF WriteFails, procs, CmdInv, Started
<1>3. StageInv'
  BY SMT DEF WriteFails, files, TypeOK, StageInv, CmdInv, Settled, Calm, Written, At
<1>4. CoverInv'
  BY SMT DEF WriteFails, files, procs, NoMarker, CoverInv, Covers, Listed
<1>5. FamilyInv'
  BY SMT DEF WriteFails, files, procs, FamilyInv, Started
<1>6. UnprovenInv'
  BY SMT DEF WriteFails, files, procs, UnprovenInv, Listed
<1>7. ClosedIsDead'
  BY SMT DEF WriteFails, files, procs, ClosedIsDead, Listed
<1>8. TypeOK'
  <2>1. marker' \in Snapshots /\ packet' \in {"none", "fresh", "stale"}
    BY NoMarkerFacts, SMT DEF WriteFails, files, TypeOK
  <2>2. unproven' \subseteq Trees /\ closed' \subseteq Trees
    BY SMT DEF WriteFails, files, TypeOK
  <2>3. born' \subseteq Procs /\ alive' \subseteq born'
    BY SMT DEF WriteFails, procs, TypeOK
  <2>4. {killed', probed', unlisted'} \subseteq SUBSET Trees
    BY SMT DEF WriteFails, procs, TypeOK
  <2>5. crashes' \in 0..MaxCrashes /\ errors' \in 0..MaxErrors
    BY SMT DEF WriteFails, TypeOK
  <2>6. cmd' \in Cmds
    BY Zenon DEF WriteFails, TypeOK, Cmds
  <2>7. writer' \in Writers
    BY NoMarkerFacts, Zenon DEF WriteFails, TypeOK, Writers
  <2> QED  BY <1>1, <2>1, <2>2, <2>3, <2>4, <2>5, <2>6, <2>7, SMT DEF TypeOK, GenInv, Writers,
      Cmds
<1> QED  BY <1>1, <1>2, <1>3, <1>4, <1>5, <1>6, <1>7, <1>8 DEF PacketInv

LEMMA PreflightMarkedStep == PacketInv /\ PreflightMarked => PacketInv'
<1> SUFFICES ASSUME PacketInv, PreflightMarked PROVE PacketInv'
  OBVIOUS
<1> USE BoundsAssumption DEF PacketInv
<1>1. GenInv'
  <2>1. /\ writer'.gen = marker.gen /\ writer'.pending = NoMarker /\ writer'.active = NoMarker
        /\ marker' = marker /\ marker.gen \in Nat
    BY OpenedFacts DEF PreflightMarked, files, TypeOK, Snapshots
  <2> QED  BY <2>1, SMT DEF GenInv
<1>2. CmdInv'
  BY SMT DEF PreflightMarked, Goto, At, CmdInv, Ending
<1>3. StageInv'
  BY SMT DEF PreflightMarked, files, Opened, Flushed, Goto, At, NoWriter, StageInv, CmdInv,
    Newest, Settled, Calm
<1>4. CoverInv'
  BY SMT DEF PreflightMarked, files, procs, Opened, Flushed, Goto, NoWriter, CoverInv, Covers,
    Listed
<1>5. FamilyInv'
  BY SMT DEF PreflightMarked, files, procs, FamilyInv, Started
<1>6. UnprovenInv'
  BY SMT DEF PreflightMarked, files, procs, UnprovenInv, Listed
<1>7. ClosedIsDead'
  BY SMT DEF PreflightMarked, files, procs, ClosedIsDead, Listed
<1>8. TypeOK'
  <2>1. marker' \in Snapshots /\ packet' \in {"none", "fresh", "stale"}
    BY NoMarkerFacts, SMT DEF PreflightMarked, files, TypeOK
  <2>2. unproven' \subseteq Trees /\ closed' \subseteq Trees
    BY SMT DEF PreflightMarked, files, TypeOK
  <2>3. born' \subseteq Procs /\ alive' \subseteq born'
    BY SMT DEF PreflightMarked, procs, TypeOK
  <2>4. {killed', probed', unlisted'} \subseteq SUBSET Trees
    BY SMT DEF PreflightMarked, procs, TypeOK
  <2>5. crashes' \in 0..MaxCrashes /\ errors' \in 0..MaxErrors
    BY SMT DEF PreflightMarked, Quiet, TypeOK
  <2>6. cmd' \in Cmds
    BY Zenon DEF PreflightMarked, Goto, TypeOK, Cmds, Stages
  <2>7. writer' \in Writers
    BY OpenedFacts DEF PreflightMarked
  <2> QED  BY <1>1, <2>1, <2>2, <2>3, <2>4, <2>5, <2>6, <2>7, SMT DEF TypeOK, GenInv, Writers,
      Cmds
<1> QED  BY <1>1, <1>2, <1>3, <1>4, <1>5, <1>6, <1>7, <1>8 DEF PacketInv

LEMMA StartRefusedStep == PacketInv /\ StartRefused => PacketInv'
<1> SUFFICES ASSUME PacketInv, StartRefused PROVE PacketInv'
  OBVIOUS
<1> USE BoundsAssumption DEF PacketInv
<1>1. GenInv'
  BY SMT DEF StartRefused, files, At, GenInv, Opening, Owning
<1>2. CmdInv'
  BY SMT DEF StartRefused, Goto, At, CmdInv, Ending
<1>3. StageInv'
  BY SMT DEF StartRefused, Goto, At, StageInv, CmdInv, Ending, Settled, Calm
<1>4. CoverInv'
  BY SMT DEF StartRefused, files, procs, Goto, CoverInv, Covers, Listed
<1>5. FamilyInv'
  BY SMT DEF StartRefused, files, procs, FamilyInv, Started
<1>6. UnprovenInv'
  BY SMT DEF StartRefused, files, procs, UnprovenInv, Listed
<1>7. ClosedIsDead'
  BY SMT DEF StartRefused, files, procs, ClosedIsDead, Listed
<1>8. TypeOK'
  <2>1. marker' \in Snapshots /\ packet' \in {"none", "fresh", "stale"}
    BY NoMarkerFacts, SMT DEF StartRefused, files, TypeOK
  <2>2. unproven' \subseteq Trees /\ closed' \subseteq Trees
    BY SMT DEF StartRefused, files, TypeOK
  <2>3. born' \subseteq Procs /\ alive' \subseteq born'
    BY SMT DEF StartRefused, procs, TypeOK
  <2>4. {killed', probed', unlisted'} \subseteq SUBSET Trees
    BY SMT DEF StartRefused, procs, TypeOK
  <2>5. crashes' \in 0..MaxCrashes /\ errors' \in 0..MaxErrors
    BY SMT DEF StartRefused, Quiet, TypeOK
  <2>6. cmd' \in Cmds
    BY Zenon DEF StartRefused, Goto, TypeOK, Cmds, Stages
  <2>7. writer' \in Writers
    BY NoMarkerFacts, Zenon DEF StartRefused, TypeOK, Writers
  <2> QED  BY <1>1, <2>1, <2>2, <2>3, <2>4, <2>5, <2>6, <2>7, SMT DEF TypeOK, GenInv, Writers,
      Cmds
<1> QED  BY <1>1, <1>2, <1>3, <1>4, <1>5, <1>6, <1>7, <1>8 DEF PacketInv

LEMMA PacketAnnouncedStep == PacketInv /\ PacketAnnounced => PacketInv'
<1> SUFFICES ASSUME PacketInv, PacketAnnounced PROVE PacketInv'
  OBVIOUS
<1> USE BoundsAssumption DEF PacketInv
<1>1. GenInv'
  <2>1. writer \in Writers
    BY DEF TypeOK, Writers
  <2>2. marker' = marker /\ writer' = Queued(writer, Snapshot("running", {}))
    BY DEF PacketAnnounced, files
  <2>3. /\ marker.gen <= writer.gen
        /\ writer.active # NoMarker =>
             marker.gen < writer.active.gen /\ writer.active.gen <= writer.gen
    BY DEF PacketAnnounced, At, GenInv, Opening, Owning
  <2> QED  BY <2>1, <2>2, <2>3, QueueGen, SMT DEF States
<1>2. CmdInv'
  BY SMT DEF PacketAnnounced, Goto, At, CmdInv, Ending
<1>3. StageInv'
  BY SMT DEF PacketAnnounced, files, Queued, Goto, At, Snapshot, StageInv, CmdInv, Newest,
    Settled, Calm, Written, Failed, NoMarker
<1>4. CoverInv'
  BY SMT DEF PacketAnnounced, files, procs, Queued, Goto, Snapshot, CoverInv, Covers, Listed
<1>5. FamilyInv'
  BY SMT DEF PacketAnnounced, files, procs, FamilyInv, Started
<1>6. UnprovenInv'
  BY SMT DEF PacketAnnounced, files, procs, UnprovenInv, Listed
<1>7. ClosedIsDead'
  BY SMT DEF PacketAnnounced, files, procs, ClosedIsDead, Listed
<1>8. TypeOK'
  <2>1. marker' \in Snapshots /\ packet' \in {"none", "fresh", "stale"}
    BY NoMarkerFacts, SMT DEF PacketAnnounced, files, TypeOK
  <2>2. unproven' \subseteq Trees /\ closed' \subseteq Trees
    BY SMT DEF PacketAnnounced, files, TypeOK
  <2>3. born' \subseteq Procs /\ alive' \subseteq born'
    BY SMT DEF PacketAnnounced, procs, TypeOK
  <2>4. {killed', probed', unlisted'} \subseteq SUBSET Trees
    BY SMT DEF PacketAnnounced, procs, TypeOK
  <2>5. crashes' \in 0..MaxCrashes /\ errors' \in 0..MaxErrors
    BY SMT DEF PacketAnnounced, Quiet, TypeOK
  <2>6. cmd' \in Cmds
    BY Zenon DEF PacketAnnounced, Goto, TypeOK, Cmds, Stages
  <2>7. writer' \in Writers
    <3>1. writer \in Writers /\ writer' = Queued(writer, Snapshot("running", {}))
      BY DEF PacketAnnounced, TypeOK, Writers
    <3> QED  BY <3>1, QueuedFacts, SMT DEF States
  <2> QED  BY <1>1, <2>1, <2>2, <2>3, <2>4, <2>5, <2>6, <2>7, SMT DEF TypeOK, GenInv, Writers,
      Cmds
<1> QED  BY <1>1, <1>2, <1>3, <1>4, <1>5, <1>6, <1>7, <1>8 DEF PacketInv

LEMMA PacketMarkedStep == PacketInv /\ PacketMarked => PacketInv'
<1> SUFFICES ASSUME PacketInv, PacketMarked PROVE PacketInv'
  OBVIOUS
<1> USE BoundsAssumption DEF PacketInv
<1>1. GenInv'
  BY SMT DEF PacketMarked, files, At, GenInv, Opening, Owning
<1>2. CmdInv'
  BY SMT DEF PacketMarked, Goto, At, CmdInv, Ending
<1>3. StageInv'
  BY SMT DEF PacketMarked, files, Flushed, Goto, At, StageInv, CmdInv, Ending, Newest, Settled
<1>4. CoverInv'
  BY SMT DEF PacketMarked, files, procs, Goto, CoverInv, Covers, Listed
<1>5. FamilyInv'
  BY SMT DEF PacketMarked, files, procs, FamilyInv, Started
<1>6. UnprovenInv'
  BY SMT DEF PacketMarked, files, procs, UnprovenInv, Listed
<1>7. ClosedIsDead'
  BY SMT DEF PacketMarked, files, procs, ClosedIsDead, Listed
<1>8. TypeOK'
  <2>1. marker' \in Snapshots /\ packet' \in {"none", "fresh", "stale"}
    BY NoMarkerFacts, SMT DEF PacketMarked, files, TypeOK
  <2>2. unproven' \subseteq Trees /\ closed' \subseteq Trees
    BY SMT DEF PacketMarked, files, TypeOK
  <2>3. born' \subseteq Procs /\ alive' \subseteq born'
    BY SMT DEF PacketMarked, procs, TypeOK
  <2>4. {killed', probed', unlisted'} \subseteq SUBSET Trees
    BY SMT DEF PacketMarked, procs, TypeOK
  <2>5. crashes' \in 0..MaxCrashes /\ errors' \in 0..MaxErrors
    BY SMT DEF PacketMarked, Quiet, TypeOK
  <2>6. cmd' \in Cmds
    BY Zenon DEF PacketMarked, Goto, TypeOK, Cmds, Stages
  <2>7. writer' \in Writers
    BY NoMarkerFacts, Zenon DEF PacketMarked, TypeOK, Writers
  <2> QED  BY <1>1, <2>1, <2>2, <2>3, <2>4, <2>5, <2>6, <2>7, SMT DEF TypeOK, GenInv, Writers,
      Cmds
<1> QED  BY <1>1, <1>2, <1>3, <1>4, <1>5, <1>6, <1>7, <1>8 DEF PacketInv

LEMMA StageSpawnedStep == PacketInv /\ StageSpawned => PacketInv'
<1> SUFFICES ASSUME PacketInv, StageSpawned PROVE PacketInv'
  OBVIOUS
<1> USE BoundsAssumption DEF PacketInv
<1>1. GenInv'
  BY SMT DEF StageSpawned, files, At, GenInv, Opening, Owning
<1>2. CmdInv'
  <2>1. PICK t \in Trees : /\ Spawned(t) /\ cmd'.tree = t /\ cmd'.pc = "running"
                           /\ cmd'.tracked = {} /\ cmd'.ok = FALSE
                           /\ cmd'.name = "next"
    BY SMT DEF StageSpawned, At, CmdInv, Ending
  <2>2. t \in Started'
    BY <2>1, SpawnedFacts
  <2> QED  BY <2>1, <2>2, SMT DEF CmdInv
<1>3. StageInv'
  BY SMT DEF StageSpawned, files, Quiet, At, StageInv, CmdInv, Settled
<1>4. CoverInv'
  <2>1. PICK t \in Trees : Spawned(t)
    BY DEF StageSpawned
  <2>2. Covers(marker.tracked)' /\ Covers(writer.pending.tracked)' /\ Covers(writer.active.tracked)'
    <3>1. UNCHANGED <<marker, writer>>
      BY DEF StageSpawned, files
    <3> QED  BY <2>1, <3>1, SpawnCovers DEF CoverInv
  <2>3. cmd'.tracked \in {cmd.tracked, {}}
    BY SMT DEF StageSpawned
  <2>4. Covers(cmd.tracked)'
    <3>1. CASE cmd'.tracked = cmd.tracked
      BY <2>1, <3>1, SpawnCovers DEF CoverInv
    <3>2. CASE cmd'.tracked = {}
      BY <3>2 DEF Covers
    <3> QED  BY <2>3, <3>1, <3>2
  <2> QED  BY <2>2, <2>4 DEF CoverInv
<1>5. FamilyInv'
  <2>1. PICK t \in Trees : Spawned(t) /\ UNCHANGED <<unproven, closed>>
    BY DEF StageSpawned, files
  <2> QED  BY <2>1, SpawnedFacts DEF FamilyInv
<1>6. UnprovenInv'
  <2>1. PICK t \in Trees : Spawned(t)
    BY DEF StageSpawned
  <2>2. /\ t \notin Started /\ Root(t) \notin born /\ Helper(t) \notin born
        /\ Started' = Started \cup {t}
    BY <2>1, SpawnedFacts
  <2>3. \A u \in Started : Listed(u)' \cap alive' = Listed(u) \cap alive
    BY <2>1, <2>2, SMT DEF Spawned, Listed, Tree, Root, Helper
  <2> QED  BY <2>3 DEF UnprovenInv, StageSpawned, files, FamilyInv
<1>7. ClosedIsDead'
  <2>1. PICK t \in Trees : Spawned(t)
    BY DEF StageSpawned
  <2>2. /\ t \notin Started /\ Root(t) \notin born /\ Helper(t) \notin born
        /\ Started' = Started \cup {t}
    BY <2>1, SpawnedFacts
  <2>3. \A u \in Started : Listed(u)' \cap alive' = Listed(u) \cap alive
    BY <2>1, <2>2, SMT DEF Spawned, Listed, Tree, Root, Helper
  <2> QED  BY <2>3 DEF ClosedIsDead, StageSpawned, files, FamilyInv
<1>8. TypeOK'
  <2>1. marker' \in Snapshots /\ packet' \in {"none", "fresh", "stale"}
    BY NoMarkerFacts, SMT DEF StageSpawned, files, TypeOK
  <2>2. unproven' \subseteq Trees /\ closed' \subseteq Trees
    BY SMT DEF StageSpawned, files, TypeOK
  <2>3. born' \subseteq Procs /\ alive' \subseteq born'
    BY SMT DEF StageSpawned, Spawned, TypeOK, Procs, Root
  <2>4. {killed', probed', unlisted'} \subseteq SUBSET Trees
    BY SMT DEF StageSpawned, Spawned, TypeOK
  <2>5. crashes' \in 0..MaxCrashes /\ errors' \in 0..MaxErrors
    BY SMT DEF StageSpawned, Quiet, TypeOK
  <2>6. cmd' \in Cmds
    BY Zenon DEF StageSpawned, TypeOK, Cmds, Stages
  <2>7. writer' \in Writers
    BY NoMarkerFacts, Zenon DEF StageSpawned, TypeOK, Writers
  <2> QED  BY <1>1, <2>1, <2>2, <2>3, <2>4, <2>5, <2>6, <2>7, SMT DEF TypeOK, GenInv, Writers,
      Cmds
<1> QED  BY <1>1, <1>2, <1>3, <1>4, <1>5, <1>6, <1>7, <1>8 DEF PacketInv

LEMMA StageRejectedStep == PacketInv /\ StageRejected => PacketInv'
<1> SUFFICES ASSUME PacketInv, StageRejected PROVE PacketInv'
  OBVIOUS
<1> USE BoundsAssumption DEF PacketInv
<1>1. GenInv'
  <2>1. writer \in Writers
    BY DEF TypeOK, Writers
  <2>2. marker' = marker /\ writer' = Queued(writer, Snapshot("ended", {}))
    BY DEF StageRejected, files
  <2>3. /\ marker.gen <= writer.gen
        /\ writer.active # NoMarker =>
             marker.gen < writer.active.gen /\ writer.active.gen <= writer.gen
    BY DEF StageRejected, At, GenInv, Opening, Owning
  <2> QED  BY <2>1, <2>2, <2>3, QueueGen, SMT DEF States
<1>2. CmdInv'
  BY SMT DEF StageRejected, Goto, At, CmdInv, Ending
<1>3. StageInv'
  BY SMT DEF StageRejected, files, Queued, Goto, Quiet, At, Snapshot, StageInv, CmdInv, Ending,
    Newest, Final, Written, Failed, NoMarker
<1>4. CoverInv'
  BY SMT DEF StageRejected, files, procs, Queued, Goto, Snapshot, CoverInv, Covers, Listed
<1>5. FamilyInv'
  BY SMT DEF StageRejected, files, procs, FamilyInv, Started
<1>6. UnprovenInv'
  BY SMT DEF StageRejected, files, procs, UnprovenInv, Listed
<1>7. ClosedIsDead'
  BY SMT DEF StageRejected, files, procs, ClosedIsDead, Listed
<1>8. TypeOK'
  <2>1. marker' \in Snapshots /\ packet' \in {"none", "fresh", "stale"}
    BY NoMarkerFacts, SMT DEF StageRejected, files, TypeOK
  <2>2. unproven' \subseteq Trees /\ closed' \subseteq Trees
    BY SMT DEF StageRejected, files, TypeOK
  <2>3. born' \subseteq Procs /\ alive' \subseteq born'
    BY SMT DEF StageRejected, procs, TypeOK
  <2>4. {killed', probed', unlisted'} \subseteq SUBSET Trees
    BY SMT DEF StageRejected, procs, TypeOK
  <2>5. crashes' \in 0..MaxCrashes /\ errors' \in 0..MaxErrors
    BY SMT DEF StageRejected, Quiet, TypeOK
  <2>6. cmd' \in Cmds
    BY Zenon DEF StageRejected, Goto, TypeOK, Cmds, Stages
  <2>7. writer' \in Writers
    <3>1. writer \in Writers /\ writer' = Queued(writer, Snapshot("ended", {}))
      BY DEF StageRejected, TypeOK, Writers
    <3> QED  BY <3>1, QueuedFacts, SMT DEF States
  <2> QED  BY <1>1, <2>1, <2>2, <2>3, <2>4, <2>5, <2>6, <2>7, SMT DEF TypeOK, GenInv, Writers,
      Cmds
<1> QED  BY <1>1, <1>2, <1>3, <1>4, <1>5, <1>6, <1>7, <1>8 DEF PacketInv

LEMMA SpawnFailedStep == PacketInv /\ SpawnFailed => PacketInv'
<1> SUFFICES ASSUME PacketInv, SpawnFailed PROVE PacketInv'
  OBVIOUS
<1> USE BoundsAssumption DEF PacketInv
<1>1. GenInv'
  <2>1. writer \in Writers
    BY DEF TypeOK, Writers
  <2>2. marker' = marker /\ writer' = Queued(writer, Snapshot("ended", {}))
    BY DEF SpawnFailed, files
  <2>3. /\ marker.gen <= writer.gen
        /\ writer.active # NoMarker =>
             marker.gen < writer.active.gen /\ writer.active.gen <= writer.gen
    BY DEF SpawnFailed, At, GenInv, Opening, Owning
  <2> QED  BY <2>1, <2>2, <2>3, QueueGen, SMT DEF States
<1>2. CmdInv'
  BY SMT DEF SpawnFailed, Goto, At, CmdInv, Ending
<1>3. StageInv'
  BY SMT DEF SpawnFailed, files, Queued, Goto, Quiet, At, Snapshot, StageInv, CmdInv, Ending,
    Newest, Final, Written, Failed, NoMarker
<1>4. CoverInv'
  BY SMT DEF SpawnFailed, files, procs, Queued, Goto, Snapshot, CoverInv, Covers, Listed
<1>5. FamilyInv'
  BY SMT DEF SpawnFailed, files, procs, FamilyInv, Started
<1>6. UnprovenInv'
  BY SMT DEF SpawnFailed, files, procs, UnprovenInv, Listed
<1>7. ClosedIsDead'
  BY SMT DEF SpawnFailed, files, procs, ClosedIsDead, Listed
<1>8. TypeOK'
  <2>1. marker' \in Snapshots /\ packet' \in {"none", "fresh", "stale"}
    BY NoMarkerFacts, SMT DEF SpawnFailed, files, TypeOK
  <2>2. unproven' \subseteq Trees /\ closed' \subseteq Trees
    BY SMT DEF SpawnFailed, files, TypeOK
  <2>3. born' \subseteq Procs /\ alive' \subseteq born'
    BY SMT DEF SpawnFailed, procs, TypeOK
  <2>4. {killed', probed', unlisted'} \subseteq SUBSET Trees
    BY SMT DEF SpawnFailed, procs, TypeOK
  <2>5. crashes' \in 0..MaxCrashes /\ errors' \in 0..MaxErrors
    BY SMT DEF SpawnFailed, Quiet, TypeOK
  <2>6. cmd' \in Cmds
    BY Zenon DEF SpawnFailed, Goto, TypeOK, Cmds, Stages
  <2>7. writer' \in Writers
    <3>1. writer \in Writers /\ writer' = Queued(writer, Snapshot("ended", {}))
      BY DEF SpawnFailed, TypeOK, Writers
    <3> QED  BY <3>1, QueuedFacts, SMT DEF States
  <2> QED  BY <1>1, <2>1, <2>2, <2>3, <2>4, <2>5, <2>6, <2>7, SMT DEF TypeOK, GenInv, Writers,
      Cmds
<1> QED  BY <1>1, <1>2, <1>3, <1>4, <1>5, <1>6, <1>7, <1>8 DEF PacketInv

LEMMA OnProgressStep == PacketInv /\ OnProgress => PacketInv'
<1> SUFFICES ASSUME PacketInv, OnProgress PROVE PacketInv'
  OBVIOUS
<1> USE BoundsAssumption DEF PacketInv
<1>1. GenInv'
  <2>1. writer \in Writers
    BY DEF TypeOK, Writers
  <2>2. marker' = marker /\ writer' = Queued(writer, Snapshot("running", {}))
    BY DEF OnProgress, files
  <2>3. /\ marker.gen <= writer.gen
        /\ writer.active # NoMarker =>
             marker.gen < writer.active.gen /\ writer.active.gen <= writer.gen
    BY DEF OnProgress, GenInv, Opening
  <2> QED  BY <2>1, <2>2, <2>3, QueueGen, SMT DEF States
<1>2. CmdInv'
  BY DEF OnProgress, procs, CmdInv, Started
<1>3. StageInv'
  BY SMT DEF OnProgress, files, Queued, Quiet, At, Snapshot, StageInv, CmdInv, Written, Failed
<1>4. CoverInv'
  BY SMT DEF OnProgress, files, procs, Queued, Snapshot, CoverInv, Covers, Listed
<1>5. FamilyInv'
  BY SMT DEF OnProgress, files, procs, FamilyInv, Started
<1>6. UnprovenInv'
  BY SMT DEF OnProgress, files, procs, UnprovenInv, Listed
<1>7. ClosedIsDead'
  BY SMT DEF OnProgress, files, procs, ClosedIsDead, Listed
<1>8. TypeOK'
  <2>1. marker' \in Snapshots /\ packet' \in {"none", "fresh", "stale"}
    BY NoMarkerFacts, SMT DEF OnProgress, files, TypeOK
  <2>2. unproven' \subseteq Trees /\ closed' \subseteq Trees
    BY SMT DEF OnProgress, files, TypeOK
  <2>3. born' \subseteq Procs /\ alive' \subseteq born'
    BY SMT DEF OnProgress, procs, TypeOK
  <2>4. {killed', probed', unlisted'} \subseteq SUBSET Trees
    BY SMT DEF OnProgress, procs, TypeOK
  <2>5. crashes' \in 0..MaxCrashes /\ errors' \in 0..MaxErrors
    BY SMT DEF OnProgress, Quiet, TypeOK
  <2>6. cmd' \in Cmds
    BY Zenon DEF OnProgress, TypeOK, Cmds
  <2>7. writer' \in Writers
    <3>1. writer \in Writers /\ writer' = Queued(writer, Snapshot("running", {}))
      BY DEF OnProgress, TypeOK, Writers
    <3> QED  BY <3>1, QueuedFacts, SMT DEF States
  <2> QED  BY <1>1, <2>1, <2>2, <2>3, <2>4, <2>5, <2>6, <2>7, SMT DEF TypeOK, GenInv, Writers,
      Cmds
<1> QED  BY <1>1, <1>2, <1>3, <1>4, <1>5, <1>6, <1>7, <1>8 DEF PacketInv

LEMMA StageEndedStep == PacketInv /\ StageEnded => PacketInv'
<1> SUFFICES ASSUME PacketInv, StageEnded PROVE PacketInv'
  OBVIOUS
<1> USE BoundsAssumption DEF PacketInv
<1>1. GenInv'
  <2>1. CASE writer' = Queued(writer, Snapshot("ended", {}))
    <3>1. writer \in Writers
      BY DEF TypeOK, Writers
    <3>2. marker' = marker /\ writer' = Queued(writer, Snapshot("ended", {}))
      BY <2>1 DEF StageEnded, files
    <3>3. /\ marker.gen <= writer.gen
          /\ writer.active # NoMarker =>
               marker.gen < writer.active.gen /\ writer.active.gen <= writer.gen
      BY DEF StageEnded, GenInv, Opening
    <3> QED  BY <3>1, <3>2, <3>3, QueueGen, SMT DEF States
  <2>2. CASE UNCHANGED writer
    BY <2>2 DEF StageEnded, files, GenInv, Opening
  <2> QED  BY <2>1, <2>2 DEF StageEnded
<1>2. CmdInv'
  BY SMT DEF StageEnded, Goto, At, TypeOK, CmdInv, Ending
<1>3. StageInv'
  <2>1. CASE cmd'.pc = "finishing"
    <3>1. writer \in Writers /\ writer' = Queued(writer, Snapshot("ended", {}))
      BY <2>1, SMT DEF StageEnded, Goto, TypeOK, Writers
    <3>2. /\ writer'.pending.state = "ended" /\ writer'.pending.tracked = {}
          /\ writer'.pending # NoMarker
          /\ writer'.active = writer.active /\ writer'.failure = writer.failure
      BY <3>1, QueuedFacts, SMT DEF States
    <3> QED  BY <2>1, <3>2, NoMarkerFacts, SMT DEF StageEnded, files, Quiet, Goto, At, TypeOK,
        StageInv, CmdInv, Ending, Newest, Final, Written, Failed
  <2>2. CASE UNCHANGED writer /\ cmd'.pc = "ready"
    BY <2>2, SMT DEF StageEnded, files, Quiet, Goto, At, TypeOK, StageInv, CmdInv, Settled
  <2> QED  BY <2>1, <2>2, SMT DEF StageEnded, Goto, TypeOK
<1>4. CoverInv'
  <2>1. \A ps : Covers(ps) => Covers(ps)'
    BY DEF StageEnded, procs, Covers, Listed
  <2>2. writer'.pending.tracked \in {writer.pending.tracked, {}} /\ writer'.active = writer.active
    <3>1. CASE writer' = Queued(writer, Snapshot("ended", {}))
      BY <3>1, QueuedFacts, SMT DEF States, TypeOK, Writers
    <3>2. CASE UNCHANGED writer
      BY <3>2
    <3> QED  BY <3>1, <3>2 DEF StageEnded
  <2>3. marker' = marker /\ cmd'.tracked = cmd.tracked
    BY SMT DEF StageEnded, files, Goto, TypeOK
  <2> QED  BY <2>1, <2>2, <2>3, SMT DEF CoverInv, Covers
<1>5. FamilyInv'
  BY SMT DEF StageEnded, files, procs, FamilyInv, Started
<1>6. UnprovenInv'
  BY SMT DEF StageEnded, files, procs, UnprovenInv, Listed
<1>7. ClosedIsDead'
  BY SMT DEF StageEnded, files, procs, ClosedIsDead, Listed
<1>8. TypeOK'
  <2>1. marker' \in Snapshots /\ packet' \in {"none", "fresh", "stale"}
    BY NoMarkerFacts, SMT DEF StageEnded, files, TypeOK
  <2>2. unproven' \subseteq Trees /\ closed' \subseteq Trees
    BY SMT DEF StageEnded, files, TypeOK
  <2>3. born' \subseteq Procs /\ alive' \subseteq born'
    BY SMT DEF StageEnded, procs, TypeOK
  <2>4. {killed', probed', unlisted'} \subseteq SUBSET Trees
    BY SMT DEF StageEnded, procs, TypeOK
  <2>5. crashes' \in 0..MaxCrashes /\ errors' \in 0..MaxErrors
    BY SMT DEF StageEnded, Quiet, TypeOK
  <2>6. cmd' \in Cmds
    BY Zenon DEF StageEnded, Goto, TypeOK, Cmds, Stages
  <2>7. writer' \in Writers
    <3>1. writer \in Writers
      BY DEF TypeOK, Writers
    <3> QED  BY <3>1, QueuedFacts, SMT DEF StageEnded, States
  <2> QED  BY <1>1, <2>1, <2>2, <2>3, <2>4, <2>5, <2>6, <2>7, SMT DEF TypeOK, GenInv, Writers,
      Cmds
<1> QED  BY <1>1, <1>2, <1>3, <1>4, <1>5, <1>6, <1>7, <1>8 DEF PacketInv

LEMMA StageTimesOutStep == PacketInv /\ StageTimesOut => PacketInv'
<1> SUFFICES ASSUME PacketInv, StageTimesOut PROVE PacketInv'
  OBVIOUS
<1> USE BoundsAssumption DEF PacketInv
<1>1. GenInv'
  <2>1. writer \in Writers
    BY DEF TypeOK, Writers
  <2>2. marker' = marker /\ writer' = Queued(writer, Snapshot("ended", {}))
    BY DEF StageTimesOut, files
  <2>3. /\ marker.gen <= writer.gen
        /\ writer.active # NoMarker =>
             marker.gen < writer.active.gen /\ writer.active.gen <= writer.gen
    BY DEF StageTimesOut, GenInv, Opening
  <2> QED  BY <2>1, <2>2, <2>3, QueueGen, SMT DEF States
<1>2. CmdInv'
  BY SMT DEF StageTimesOut, Goto, At, CmdInv, Ending
<1>3. StageInv'
  BY SMT DEF StageTimesOut, files, Queued, Goto, Quiet, At, Snapshot, StageInv, CmdInv, Ending,
    Newest, Final, Written, Failed, NoMarker
<1>4. CoverInv'
  BY SMT DEF StageTimesOut, files, Queued, Goto, Snapshot, Terminated, CoverInv, Covers, Listed
<1>5. FamilyInv'
  BY SMT DEF StageTimesOut, files, Terminated, FamilyInv, Started
<1>6. UnprovenInv'
  BY SMT DEF StageTimesOut, files, Terminated, UnprovenInv, Listed
<1>7. ClosedIsDead'
  BY SMT DEF StageTimesOut, files, Terminated, ClosedIsDead, Listed
<1>8. TypeOK'
  <2>1. marker' \in Snapshots /\ packet' \in {"none", "fresh", "stale"}
    BY NoMarkerFacts, SMT DEF StageTimesOut, files, TypeOK
  <2>2. unproven' \subseteq Trees /\ closed' \subseteq Trees
    BY SMT DEF StageTimesOut, files, TypeOK
  <2>3. born' \subseteq Procs /\ alive' \subseteq born'
    BY SMT DEF StageTimesOut, Terminated, TypeOK
  <2>4. {killed', probed', unlisted'} \subseteq SUBSET Trees
    BY SMT DEF StageTimesOut, At, Terminated, TypeOK, CmdInv, FamilyInv
  <2>5. crashes' \in 0..MaxCrashes /\ errors' \in 0..MaxErrors
    BY SMT DEF StageTimesOut, Quiet, TypeOK
  <2>6. cmd' \in Cmds
    BY Zenon DEF StageTimesOut, Goto, TypeOK, Cmds, Stages
  <2>7. writer' \in Writers
    <3>1. writer \in Writers /\ writer' = Queued(writer, Snapshot("ended", {}))
      BY DEF StageTimesOut, TypeOK, Writers
    <3> QED  BY <3>1, QueuedFacts, SMT DEF States
  <2> QED  BY <1>1, <2>1, <2>2, <2>3, <2>4, <2>5, <2>6, <2>7, SMT DEF TypeOK, GenInv, Writers,
      Cmds
<1> QED  BY <1>1, <1>2, <1>3, <1>4, <1>5, <1>6, <1>7, <1>8 DEF PacketInv

LEMMA StageUnprovenStep == PacketInv /\ StageUnproven => PacketInv'
<1> SUFFICES ASSUME PacketInv, StageUnproven PROVE PacketInv'
  OBVIOUS
<1> USE BoundsAssumption DEF PacketInv
<1>1. GenInv'
  <2>1. PICK ps \in SUBSET Tree(cmd.tree) :
          writer' = Queued(writer, Snapshot("termination_failed", ps)) /\ marker' = marker
    BY DEF StageUnproven, files
  <2>2. ps \in SUBSET Procs
    BY <2>1, SMT DEF StageUnproven, At, CmdInv, Started, Procs, Tree, Root, Helper
  <2>3. writer \in Writers
    BY DEF TypeOK, Writers
  <2>4. /\ marker.gen <= writer.gen
        /\ writer.active # NoMarker =>
             marker.gen < writer.active.gen /\ writer.active.gen <= writer.gen
    BY DEF StageUnproven, GenInv, Opening
  <2> QED  BY <2>1, <2>2, <2>3, <2>4, QueueGen, SMT DEF States
<1>2. CmdInv'
  BY SMT DEF StageUnproven, At, TerminationUnproven, TypeOK, CmdInv, Ending, FamilyInv
<1>3. StageInv'
  BY SMT DEF StageUnproven, files, Queued, Quiet, At, Snapshot, TerminationUnproven, StageInv,
    Newest, Final, Written, Failed, NoMarker
<1>4. CoverInv'
  BY SMT DEF StageUnproven, files, Queued, Quiet, At, Snapshot, TerminationUnproven, TypeOK,
    CoverInv, Covers, Listed, Tree, Root, Helper, FamilyInv, CmdInv
<1>5. FamilyInv'
  BY SMT DEF StageUnproven, files, TerminationUnproven, FamilyInv, Started
<1>6. UnprovenInv'
  BY SMT DEF StageUnproven, files, TerminationUnproven, UnprovenInv, Listed
<1>7. ClosedIsDead'
  BY SMT DEF StageUnproven, files, TerminationUnproven, ClosedIsDead, Listed
<1>8. TypeOK'
  <2>1. marker' \in Snapshots /\ packet' \in {"none", "fresh", "stale"}
    BY NoMarkerFacts, SMT DEF StageUnproven, files, TypeOK
  <2>2. unproven' \subseteq Trees /\ closed' \subseteq Trees
    BY SMT DEF StageUnproven, files, TypeOK
  <2>3. born' \subseteq Procs /\ alive' \subseteq born'
    BY SMT DEF StageUnproven, TerminationUnproven, TypeOK
  <2>4. {killed', probed', unlisted'} \subseteq SUBSET Trees
    BY SMT DEF StageUnproven, At, TerminationUnproven, TypeOK, CmdInv, FamilyInv
  <2>5. crashes' \in 0..MaxCrashes /\ errors' \in 0..MaxErrors
    BY SMT DEF StageUnproven, Quiet, TypeOK
  <2>6. cmd' \in Cmds
    <3>1. PICK ps \in SUBSET Tree(cmd.tree) :
            cmd' = [cmd EXCEPT !.pc = "finishing", !.tracked = ps]
      BY DEF StageUnproven
    <3>2. ps \in SUBSET Procs
      BY <3>1, SMT DEF StageUnproven, At, CmdInv, Started, Procs, Tree, Root, Helper
    <3> QED  BY <3>1, <3>2, Zenon DEF TypeOK, Cmds, Stages
  <2>7. writer' \in Writers
    <3>1. PICK ps \in SUBSET Tree(cmd.tree) :
            writer' = Queued(writer, Snapshot("termination_failed", ps)) /\ marker' = marker
      BY DEF StageUnproven, files
    <3>2. ps \in SUBSET Procs
      BY <3>1, SMT DEF StageUnproven, At, CmdInv, Started, Procs, Tree, Root, Helper
    <3>3. writer \in Writers
      BY DEF TypeOK, Writers
    <3> QED  BY <3>1, <3>2, <3>3, QueuedFacts, SMT DEF States
  <2> QED  BY <1>1, <2>1, <2>2, <2>3, <2>4, <2>5, <2>6, <2>7, SMT DEF TypeOK, GenInv, Writers,
      Cmds
<1> QED  BY <1>1, <1>2, <1>3, <1>4, <1>5, <1>6, <1>7, <1>8 DEF PacketInv

LEMMA PacketReportedStep == PacketInv /\ PacketReported => PacketInv'
<1> SUFFICES ASSUME PacketInv, PacketReported PROVE PacketInv'
  OBVIOUS
<1> USE BoundsAssumption DEF PacketInv
<1>1. GenInv'
  BY SMT DEF PacketReported, files, At, GenInv, Opening, Owning
<1>2. CmdInv'
  BY SMT DEF PacketReported, At, CmdInv, Ending
<1>3. StageInv'
  BY SMT DEF PacketReported, files, Flushed, At, StageInv, Newest, Settled, Calm, Final
<1>4. CoverInv'
  BY SMT DEF PacketReported, files, procs, CoverInv, Covers, Listed
<1>5. FamilyInv'
  BY SMT DEF PacketReported, files, procs, FamilyInv, Started
<1>6. UnprovenInv'
  BY SMT DEF PacketReported, files, procs, UnprovenInv, Listed
<1>7. ClosedIsDead'
  BY SMT DEF PacketReported, files, procs, ClosedIsDead, Listed
<1>8. TypeOK'
  <2>1. marker' \in Snapshots /\ packet' \in {"none", "fresh", "stale"}
    BY NoMarkerFacts, SMT DEF PacketReported, files, TypeOK
  <2>2. unproven' \subseteq Trees /\ closed' \subseteq Trees
    BY SMT DEF PacketReported, files, TypeOK
  <2>3. born' \subseteq Procs /\ alive' \subseteq born'
    BY SMT DEF PacketReported, procs, TypeOK
  <2>4. {killed', probed', unlisted'} \subseteq SUBSET Trees
    BY SMT DEF PacketReported, procs, TypeOK
  <2>5. crashes' \in 0..MaxCrashes /\ errors' \in 0..MaxErrors
    BY SMT DEF PacketReported, Quiet, TypeOK
  <2>6. cmd' \in Cmds
    BY Zenon DEF PacketReported, TypeOK, Cmds, Stages
  <2>7. writer' \in Writers
    BY NoMarkerFacts, Zenon DEF PacketReported, TypeOK, Writers
  <2> QED  BY <1>1, <2>1, <2>2, <2>3, <2>4, <2>5, <2>6, <2>7, SMT DEF TypeOK, GenInv, Writers,
      Cmds
<1> QED  BY <1>1, <1>2, <1>3, <1>4, <1>5, <1>6, <1>7, <1>8 DEF PacketInv

LEMMA RejectionReportedStep == PacketInv /\ RejectionReported => PacketInv'
<1> SUFFICES ASSUME PacketInv, RejectionReported PROVE PacketInv'
  OBVIOUS
<1> USE BoundsAssumption DEF PacketInv
<1>1. GenInv'
  BY SMT DEF RejectionReported, files, At, GenInv, Opening, Owning
<1>2. CmdInv'
  BY SMT DEF RejectionReported, Goto, At, CmdInv, Ending
<1>3. StageInv'
  BY SMT DEF RejectionReported, Flushed, Goto, At, StageInv, CmdInv, Ending, Settled
<1>4. CoverInv'
  BY SMT DEF RejectionReported, files, procs, Goto, CoverInv, Covers, Listed
<1>5. FamilyInv'
  BY SMT DEF RejectionReported, files, procs, FamilyInv, Started
<1>6. UnprovenInv'
  BY SMT DEF RejectionReported, files, procs, UnprovenInv, Listed
<1>7. ClosedIsDead'
  BY SMT DEF RejectionReported, files, procs, ClosedIsDead, Listed
<1>8. TypeOK'
  <2>1. marker' \in Snapshots /\ packet' \in {"none", "fresh", "stale"}
    BY NoMarkerFacts, SMT DEF RejectionReported, files, TypeOK
  <2>2. unproven' \subseteq Trees /\ closed' \subseteq Trees
    BY SMT DEF RejectionReported, files, TypeOK
  <2>3. born' \subseteq Procs /\ alive' \subseteq born'
    BY SMT DEF RejectionReported, procs, TypeOK
  <2>4. {killed', probed', unlisted'} \subseteq SUBSET Trees
    BY SMT DEF RejectionReported, procs, TypeOK
  <2>5. crashes' \in 0..MaxCrashes /\ errors' \in 0..MaxErrors
    BY SMT DEF RejectionReported, Quiet, TypeOK
  <2>6. cmd' \in Cmds
    BY Zenon DEF RejectionReported, Goto, TypeOK, Cmds, Stages
  <2>7. writer' \in Writers
    BY NoMarkerFacts, Zenon DEF RejectionReported, TypeOK, Writers
  <2> QED  BY <1>1, <2>1, <2>2, <2>3, <2>4, <2>5, <2>6, <2>7, SMT DEF TypeOK, GenInv, Writers,
      Cmds
<1> QED  BY <1>1, <1>2, <1>3, <1>4, <1>5, <1>6, <1>7, <1>8 DEF PacketInv

LEMMA ProgressLostStep == PacketInv /\ ProgressLost => PacketInv'
<1> SUFFICES ASSUME PacketInv, ProgressLost PROVE PacketInv'
  OBVIOUS
<1> USE BoundsAssumption DEF PacketInv
<1>1. GenInv'
  BY SMT DEF ProgressLost, files, GenInv, Opening, Owning
<1>2. CmdInv'
  BY SMT DEF ProgressLost, Goto, CmdInv, Ending
<1>3. StageInv'
  BY SMT DEF ProgressLost, files, FlushThrows, Goto, Quiet, StageInv, CmdInv, Ending, Settled, At
<1>4. CoverInv'
  BY SMT DEF ProgressLost, files, procs, Goto, CoverInv, Covers, Listed
<1>5. FamilyInv'
  BY SMT DEF ProgressLost, files, procs, FamilyInv, Started
<1>6. UnprovenInv'
  BY SMT DEF ProgressLost, files, procs, UnprovenInv, Listed
<1>7. ClosedIsDead'
  BY SMT DEF ProgressLost, files, procs, ClosedIsDead, Listed
<1>8. TypeOK'
  <2>1. marker' \in Snapshots /\ packet' \in {"none", "fresh", "stale"}
    BY NoMarkerFacts, SMT DEF ProgressLost, files, TypeOK
  <2>2. unproven' \subseteq Trees /\ closed' \subseteq Trees
    BY SMT DEF ProgressLost, files, TypeOK
  <2>3. born' \subseteq Procs /\ alive' \subseteq born'
    BY SMT DEF ProgressLost, procs, TypeOK
  <2>4. {killed', probed', unlisted'} \subseteq SUBSET Trees
    BY SMT DEF ProgressLost, procs, TypeOK
  <2>5. crashes' \in 0..MaxCrashes /\ errors' \in 0..MaxErrors
    BY SMT DEF ProgressLost, Quiet, TypeOK
  <2>6. cmd' \in Cmds
    BY Zenon DEF ProgressLost, Goto, TypeOK, Cmds, Stages
  <2>7. writer' \in Writers
    BY NoMarkerFacts, Zenon DEF ProgressLost, TypeOK, Writers
  <2> QED  BY <1>1, <2>1, <2>2, <2>3, <2>4, <2>5, <2>6, <2>7, SMT DEF TypeOK, GenInv, Writers,
      Cmds
<1> QED  BY <1>1, <1>2, <1>3, <1>4, <1>5, <1>6, <1>7, <1>8 DEF PacketInv

LEMMA WriterClosedStep == PacketInv /\ WriterClosed => PacketInv'
<1> SUFFICES ASSUME PacketInv, WriterClosed PROVE PacketInv'
  OBVIOUS
<1> USE BoundsAssumption DEF PacketInv
<1>1. GenInv'
  BY SMT DEF WriterClosed, Flushed, Dropped, FlushThrows, Goto, At, NoWriter, GenInv, Opening,
    Owning
<1>2. CmdInv'
  BY SMT DEF WriterClosed, Goto, At, CmdInv, Ending
<1>3. StageInv'
  BY SMT DEF WriterClosed, files, Dropped, Goto, Quiet, At, NoWriter, StageInv, Settled, Calm,
    Final
<1>4. CoverInv'
  BY SMT DEF WriterClosed, files, procs, Flushed, Dropped, FlushThrows, Goto, NoWriter, CoverInv,
    Covers, Listed
<1>5. FamilyInv'
  BY SMT DEF WriterClosed, files, procs, FamilyInv, Started
<1>6. UnprovenInv'
  BY SMT DEF WriterClosed, files, procs, UnprovenInv, Listed
<1>7. ClosedIsDead'
  BY SMT DEF WriterClosed, files, procs, ClosedIsDead, Listed
<1>8. TypeOK'
  <2>1. marker' \in Snapshots /\ packet' \in {"none", "fresh", "stale"}
    BY NoMarkerFacts, SMT DEF WriterClosed, files, TypeOK
  <2>2. unproven' \subseteq Trees /\ closed' \subseteq Trees
    BY SMT DEF WriterClosed, files, TypeOK
  <2>3. born' \subseteq Procs /\ alive' \subseteq born'
    BY SMT DEF WriterClosed, procs, TypeOK
  <2>4. {killed', probed', unlisted'} \subseteq SUBSET Trees
    BY SMT DEF WriterClosed, procs, TypeOK
  <2>5. crashes' \in 0..MaxCrashes /\ errors' \in 0..MaxErrors
    BY SMT DEF WriterClosed, Quiet, TypeOK
  <2>6. cmd' \in Cmds
    BY Zenon DEF WriterClosed, Goto, TypeOK, Cmds, Stages
  <2>7. writer' \in Writers
    BY Zenon DEF WriterClosed, Flushed, Dropped, FlushThrows, NoWriter, TypeOK, Writers
  <2> QED  BY <1>1, <2>1, <2>2, <2>3, <2>4, <2>5, <2>6, <2>7, SMT DEF TypeOK, GenInv, Writers,
      Cmds
<1> QED  BY <1>1, <1>2, <1>3, <1>4, <1>5, <1>6, <1>7, <1>8 DEF PacketInv

LEMMA PacketStoredStep == PacketInv /\ PacketStored => PacketInv'
<1> SUFFICES ASSUME PacketInv, PacketStored PROVE PacketInv'
  OBVIOUS
<1> USE BoundsAssumption DEF PacketInv
<1>1. GenInv'
  BY SMT DEF PacketStored, Goto, At, GenInv, Opening, Owning
<1>2. CmdInv'
  BY SMT DEF PacketStored, Goto, At, CmdInv, Ending
<1>3. StageInv'
  BY SMT DEF PacketStored, Goto, At, StageInv, CmdInv, Settled, Calm, Final
<1>4. CoverInv'
  BY SMT DEF PacketStored, procs, Goto, CoverInv, Covers, Listed
<1>5. FamilyInv'
  <2>1. cmd.tracked # {} => cmd.tree \in Started
    BY SMT DEF PacketStored, At, CmdInv, CoverInv, Covers, Started
  <2> QED  BY <2>1, SMT DEF PacketStored, procs, FamilyInv, Started
<1>6. UnprovenInv'
  BY SMT DEF PacketStored, procs, At, UnprovenInv, Listed, Root, CoverInv, Covers, StageInv,
    CmdInv, Final
<1>7. ClosedIsDead'
  BY SMT DEF PacketStored, procs, ClosedIsDead, Listed
<1>8. TypeOK'
  <2>1. marker' \in Snapshots /\ packet' \in {"none", "fresh", "stale"}
    BY NoMarkerFacts, SMT DEF PacketStored, TypeOK
  <2>2. unproven' \subseteq Trees /\ closed' \subseteq Trees
    BY SMT DEF PacketStored, At, TypeOK, CmdInv
  <2>3. born' \subseteq Procs /\ alive' \subseteq born'
    BY SMT DEF PacketStored, procs, TypeOK
  <2>4. {killed', probed', unlisted'} \subseteq SUBSET Trees
    BY SMT DEF PacketStored, procs, TypeOK
  <2>5. crashes' \in 0..MaxCrashes /\ errors' \in 0..MaxErrors
    BY SMT DEF PacketStored, Quiet, TypeOK
  <2>6. cmd' \in Cmds
    BY Zenon DEF PacketStored, Goto, TypeOK, Cmds, Stages
  <2>7. writer' \in Writers
    BY NoMarkerFacts, Zenon DEF PacketStored, TypeOK, Writers
  <2> QED  BY <1>1, <2>1, <2>2, <2>3, <2>4, <2>5, <2>6, <2>7, SMT DEF TypeOK, GenInv, Writers,
      Cmds
<1> QED  BY <1>1, <1>2, <1>3, <1>4, <1>5, <1>6, <1>7, <1>8 DEF PacketInv

LEMMA PacketNotStoredStep == PacketInv /\ PacketNotStored => PacketInv'
<1> SUFFICES ASSUME PacketInv, PacketNotStored PROVE PacketInv'
  OBVIOUS
<1> USE BoundsAssumption DEF PacketInv
<1>1. GenInv'
  BY SMT DEF PacketNotStored, files, Goto, At, GenInv, Opening, Owning
<1>2. CmdInv'
  BY SMT DEF PacketNotStored, Goto, At, CmdInv, Ending
<1>3. StageInv'
  BY SMT DEF PacketNotStored, files, Goto, At, StageInv, CmdInv, Settled, Calm, Final
<1>4. CoverInv'
  BY SMT DEF PacketNotStored, files, procs, Goto, CoverInv, Covers, Listed
<1>5. FamilyInv'
  BY SMT DEF PacketNotStored, files, procs, FamilyInv, Started
<1>6. UnprovenInv'
  BY SMT DEF PacketNotStored, files, procs, UnprovenInv, Listed
<1>7. ClosedIsDead'
  BY SMT DEF PacketNotStored, files, procs, ClosedIsDead, Listed
<1>8. TypeOK'
  <2>1. marker' \in Snapshots /\ packet' \in {"none", "fresh", "stale"}
    BY NoMarkerFacts, SMT DEF PacketNotStored, files, TypeOK
  <2>2. unproven' \subseteq Trees /\ closed' \subseteq Trees
    BY SMT DEF PacketNotStored, files, TypeOK
  <2>3. born' \subseteq Procs /\ alive' \subseteq born'
    BY SMT DEF PacketNotStored, procs, TypeOK
  <2>4. {killed', probed', unlisted'} \subseteq SUBSET Trees
    BY SMT DEF PacketNotStored, procs, TypeOK
  <2>5. crashes' \in 0..MaxCrashes /\ errors' \in 0..MaxErrors
    BY SMT DEF PacketNotStored, TypeOK
  <2>6. cmd' \in Cmds
    BY Zenon DEF PacketNotStored, Goto, TypeOK, Cmds, Stages
  <2>7. writer' \in Writers
    BY NoMarkerFacts, Zenon DEF PacketNotStored, TypeOK, Writers
  <2> QED  BY <1>1, <2>1, <2>2, <2>3, <2>4, <2>5, <2>6, <2>7, SMT DEF TypeOK, GenInv, Writers,
      Cmds
<1> QED  BY <1>1, <1>2, <1>3, <1>4, <1>5, <1>6, <1>7, <1>8 DEF PacketInv

LEMMA NextEndsStep == PacketInv /\ NextEnds => PacketInv'
<1> SUFFICES ASSUME PacketInv, NextEnds PROVE PacketInv'
  OBVIOUS
<1> USE BoundsAssumption DEF PacketInv
<1>1. GenInv'
  BY SMT DEF NextEnds, At, Idle, GenInv, Opening, Owning, StageInv, Calm, Settled
<1>2. CmdInv'
  BY SMT DEF NextEnds, Idle, CmdInv, Packets
<1>3. StageInv'
  BY SMT DEF NextEnds, At, Idle, StageInv, Settled, Calm
<1>4. CoverInv'
  BY SMT DEF NextEnds, procs, Idle, NoMarker, CoverInv, Covers, Listed
<1>5. FamilyInv'
  BY SMT DEF NextEnds, procs, FamilyInv, Started
<1>6. UnprovenInv'
  BY SMT DEF NextEnds, procs, UnprovenInv, Listed
<1>7. ClosedIsDead'
  BY SMT DEF NextEnds, procs, ClosedIsDead, Listed
<1>8. TypeOK'
  <2>1. marker' \in Snapshots /\ packet' \in {"none", "fresh", "stale"}
    BY NoMarkerFacts, SMT DEF NextEnds, TypeOK
  <2>2. unproven' \subseteq Trees /\ closed' \subseteq Trees
    BY SMT DEF NextEnds, TypeOK
  <2>3. born' \subseteq Procs /\ alive' \subseteq born'
    BY SMT DEF NextEnds, procs, TypeOK
  <2>4. {killed', probed', unlisted'} \subseteq SUBSET Trees
    BY SMT DEF NextEnds, procs, TypeOK
  <2>5. crashes' \in 0..MaxCrashes /\ errors' \in 0..MaxErrors
    BY SMT DEF NextEnds, Quiet, TypeOK
  <2>6. cmd' \in Cmds
    BY Zenon DEF NextEnds, Idle, Cmds, Stages
  <2>7. writer' \in Writers
    BY NoMarkerFacts, Zenon DEF NextEnds, TypeOK, Writers
  <2> QED  BY <1>1, <2>1, <2>2, <2>3, <2>4, <2>5, <2>6, <2>7, SMT DEF TypeOK, GenInv, Writers,
      Cmds
<1> QED  BY <1>1, <1>2, <1>3, <1>4, <1>5, <1>6, <1>7, <1>8 DEF PacketInv

LEMMA ProbeEndsStep == PacketInv /\ ProbeEnds => PacketInv'
<1> SUFFICES ASSUME PacketInv, ProbeEnds PROVE PacketInv'
  OBVIOUS
<1> USE BoundsAssumption DEF PacketInv
<1>1. GenInv'
  BY SMT DEF ProbeEnds, files, At, Idle, GenInv, Opening, Owning
<1>2. CmdInv'
  BY SMT DEF ProbeEnds, Idle, CmdInv, Packets
<1>3. StageInv'
  BY SMT DEF ProbeEnds, At, Idle, StageInv, Settled, Calm
<1>4. CoverInv'
  BY SMT DEF ProbeEnds, files, procs, Idle, CoverInv, Covers, Listed
<1>5. FamilyInv'
  BY SMT DEF ProbeEnds, files, procs, FamilyInv, Started
<1>6. UnprovenInv'
  BY SMT DEF ProbeEnds, files, procs, UnprovenInv, Listed
<1>7. ClosedIsDead'
  BY SMT DEF ProbeEnds, files, procs, ClosedIsDead, Listed
<1>8. TypeOK'
  <2>1. marker' \in Snapshots /\ packet' \in {"none", "fresh", "stale"}
    BY NoMarkerFacts, SMT DEF ProbeEnds, files, TypeOK
  <2>2. unproven' \subseteq Trees /\ closed' \subseteq Trees
    BY SMT DEF ProbeEnds, files, TypeOK
  <2>3. born' \subseteq Procs /\ alive' \subseteq born'
    BY SMT DEF ProbeEnds, procs, TypeOK
  <2>4. {killed', probed', unlisted'} \subseteq SUBSET Trees
    BY SMT DEF ProbeEnds, procs, TypeOK
  <2>5. crashes' \in 0..MaxCrashes /\ errors' \in 0..MaxErrors
    BY SMT DEF ProbeEnds, Quiet, TypeOK
  <2>6. cmd' \in Cmds
    BY Zenon DEF ProbeEnds, Idle, Cmds, Stages
  <2>7. writer' \in Writers
    BY NoMarkerFacts, Zenon DEF ProbeEnds, TypeOK, Writers
  <2> QED  BY <1>1, <2>1, <2>2, <2>3, <2>4, <2>5, <2>6, <2>7, SMT DEF TypeOK, GenInv, Writers,
      Cmds
<1> QED  BY <1>1, <1>2, <1>3, <1>4, <1>5, <1>6, <1>7, <1>8 DEF PacketInv

LEMMA ProbeTimesOutStep == PacketInv /\ ProbeTimesOut => PacketInv'
<1> SUFFICES ASSUME PacketInv, ProbeTimesOut PROVE PacketInv'
  OBVIOUS
<1> USE BoundsAssumption DEF PacketInv
<1>1. GenInv'
  BY SMT DEF ProbeTimesOut, files, At, Idle, GenInv, Opening, Owning
<1>2. CmdInv'
  BY SMT DEF ProbeTimesOut, Idle, CmdInv, Packets
<1>3. StageInv'
  BY SMT DEF ProbeTimesOut, At, Idle, StageInv, Settled, Calm
<1>4. CoverInv'
  BY SMT DEF ProbeTimesOut, files, Idle, Terminated, CoverInv, Covers, Listed
<1>5. FamilyInv'
  BY SMT DEF ProbeTimesOut, files, Terminated, FamilyInv, Started
<1>6. UnprovenInv'
  BY SMT DEF ProbeTimesOut, files, Terminated, UnprovenInv, Listed
<1>7. ClosedIsDead'
  BY SMT DEF ProbeTimesOut, files, Terminated, ClosedIsDead, Listed
<1>8. TypeOK'
  <2>1. marker' \in Snapshots /\ packet' \in {"none", "fresh", "stale"}
    BY NoMarkerFacts, SMT DEF ProbeTimesOut, files, TypeOK
  <2>2. unproven' \subseteq Trees /\ closed' \subseteq Trees
    BY SMT DEF ProbeTimesOut, files, TypeOK
  <2>3. born' \subseteq Procs /\ alive' \subseteq born'
    BY SMT DEF ProbeTimesOut, Terminated, TypeOK
  <2>4. {killed', probed', unlisted'} \subseteq SUBSET Trees
    BY SMT DEF ProbeTimesOut, At, Terminated, TypeOK, CmdInv
  <2>5. crashes' \in 0..MaxCrashes /\ errors' \in 0..MaxErrors
    BY SMT DEF ProbeTimesOut, Quiet, TypeOK
  <2>6. cmd' \in Cmds
    BY Zenon DEF ProbeTimesOut, Idle, Cmds, Stages
  <2>7. writer' \in Writers
    BY NoMarkerFacts, Zenon DEF ProbeTimesOut, TypeOK, Writers
  <2> QED  BY <1>1, <2>1, <2>2, <2>3, <2>4, <2>5, <2>6, <2>7, SMT DEF TypeOK, GenInv, Writers,
      Cmds
<1> QED  BY <1>1, <1>2, <1>3, <1>4, <1>5, <1>6, <1>7, <1>8 DEF PacketInv

LEMMA ProbeUnprovenStep == PacketInv /\ ProbeUnproven => PacketInv'
<1> SUFFICES ASSUME PacketInv, ProbeUnproven PROVE PacketInv'
  OBVIOUS
<1> USE BoundsAssumption DEF PacketInv
<1>1. GenInv'
  <2>1. PICK ps \in SUBSET Tree(cmd.tree) :
          writer' = Queued(Opened, Snapshot("termination_failed", ps)) /\ marker' = marker
    BY DEF ProbeUnproven, files
  <2>2. ps \in SUBSET Procs
    BY <2>1, SMT DEF ProbeUnproven, At, CmdInv, Started, Procs, Tree, Root, Helper
  <2>3. /\ Opened \in Writers /\ Opened.gen = marker.gen /\ Opened.active = NoMarker
        /\ marker.gen \in Nat
    BY OpenedFacts DEF TypeOK, Snapshots
  <2>4. /\ marker.gen <= Opened.gen
        /\ Opened.active # NoMarker =>
             marker.gen < Opened.active.gen /\ Opened.active.gen <= Opened.gen
    BY <2>3, SMT
  <2> QED  BY <2>1, <2>2, <2>3, <2>4, QueueGen, SMT DEF States
<1>2. CmdInv'
  BY SMT DEF ProbeUnproven, At, TerminationUnproven, TypeOK, CmdInv, Packets
<1>3. StageInv'
  BY SMT DEF ProbeUnproven, files, Opened, Queued, At, Snapshot, NoWriter, NoMarker,
    TerminationUnproven, StageInv, CmdInv, Newest, Final, Failed
<1>4. CoverInv'
  BY SMT DEF ProbeUnproven, files, Opened, Queued, At, Snapshot, NoWriter, NoMarker,
    TerminationUnproven, TypeOK, CoverInv, Covers, Listed, Tree, Root, Helper, FamilyInv, CmdInv
<1>5. FamilyInv'
  BY SMT DEF ProbeUnproven, files, TerminationUnproven, FamilyInv, Started
<1>6. UnprovenInv'
  BY SMT DEF ProbeUnproven, files, TerminationUnproven, UnprovenInv, Listed
<1>7. ClosedIsDead'
  BY SMT DEF ProbeUnproven, files, TerminationUnproven, ClosedIsDead, Listed
<1>8. TypeOK'
  <2>1. marker' \in Snapshots /\ packet' \in {"none", "fresh", "stale"}
    BY NoMarkerFacts, SMT DEF ProbeUnproven, files, TypeOK
  <2>2. unproven' \subseteq Trees /\ closed' \subseteq Trees
    BY SMT DEF ProbeUnproven, files, TypeOK
  <2>3. born' \subseteq Procs /\ alive' \subseteq born'
    BY SMT DEF ProbeUnproven, TerminationUnproven, TypeOK
  <2>4. {killed', probed', unlisted'} \subseteq SUBSET Trees
    BY SMT DEF ProbeUnproven, At, TerminationUnproven, TypeOK, CmdInv
  <2>5. crashes' \in 0..MaxCrashes /\ errors' \in 0..MaxErrors
    BY SMT DEF ProbeUnproven, Quiet, TypeOK
  <2>6. cmd' \in Cmds
    <3>1. PICK ps \in SUBSET Tree(cmd.tree) :
            cmd' = [cmd EXCEPT !.pc = "persisting", !.tracked = ps]
      BY DEF ProbeUnproven
    <3>2. ps \in SUBSET Procs
      BY <3>1, SMT DEF ProbeUnproven, At, CmdInv, Started, Procs, Tree, Root, Helper
    <3> QED  BY <3>1, <3>2, Zenon DEF TypeOK, Cmds, Stages
  <2>7. writer' \in Writers
    <3>1. PICK ps \in SUBSET Tree(cmd.tree) :
            writer' = Queued(Opened, Snapshot("termination_failed", ps)) /\ marker' = marker
      BY DEF ProbeUnproven, files
    <3>2. ps \in SUBSET Procs
      BY <3>1, SMT DEF ProbeUnproven, At, CmdInv, Started, Procs, Tree, Root, Helper
    <3>3. Opened \in Writers
      BY OpenedFacts
    <3> QED  BY <3>1, <3>2, <3>3, QueuedFacts, SMT DEF States
  <2> QED  BY <1>1, <2>1, <2>2, <2>3, <2>4, <2>5, <2>6, <2>7, SMT DEF TypeOK, GenInv, Writers,
      Cmds
<1> QED  BY <1>1, <1>2, <1>3, <1>4, <1>5, <1>6, <1>7, <1>8 DEF PacketInv

LEMMA ProbePersistedStep == PacketInv /\ ProbePersisted => PacketInv'
<1> SUFFICES ASSUME PacketInv, ProbePersisted PROVE PacketInv'
  OBVIOUS
<1> USE BoundsAssumption DEF PacketInv
<1>1. GenInv'
  BY SMT DEF ProbePersisted, Flushed, Dropped, FlushThrows, At, Idle, NoWriter, GenInv, Opening,
    Owning
<1>2. CmdInv'
  BY SMT DEF ProbePersisted, Idle, CmdInv, Packets
<1>3. StageInv'
  BY SMT DEF ProbePersisted, Flushed, Dropped, FlushThrows, At, Idle, NoWriter, StageInv, Settled,
    Calm
<1>4. CoverInv'
  BY SMT DEF ProbePersisted, files, procs, Flushed, Dropped, FlushThrows, Idle, NoWriter,
    CoverInv, Covers, Listed
<1>5. FamilyInv'
  BY SMT DEF ProbePersisted, files, procs, FamilyInv, Started
<1>6. UnprovenInv'
  BY SMT DEF ProbePersisted, files, procs, UnprovenInv, Listed
<1>7. ClosedIsDead'
  BY SMT DEF ProbePersisted, files, procs, ClosedIsDead, Listed
<1>8. TypeOK'
  <2>1. marker' \in Snapshots /\ packet' \in {"none", "fresh", "stale"}
    BY NoMarkerFacts, SMT DEF ProbePersisted, files, TypeOK
  <2>2. unproven' \subseteq Trees /\ closed' \subseteq Trees
    BY SMT DEF ProbePersisted, files, TypeOK
  <2>3. born' \subseteq Procs /\ alive' \subseteq born'
    BY SMT DEF ProbePersisted, procs, TypeOK
  <2>4. {killed', probed', unlisted'} \subseteq SUBSET Trees
    BY SMT DEF ProbePersisted, procs, TypeOK
  <2>5. crashes' \in 0..MaxCrashes /\ errors' \in 0..MaxErrors
    BY SMT DEF ProbePersisted, Quiet, TypeOK
  <2>6. cmd' \in Cmds
    BY Zenon DEF ProbePersisted, Idle, Cmds, Stages
  <2>7. writer' \in Writers
    BY Zenon DEF ProbePersisted, Flushed, Dropped, FlushThrows, NoWriter, TypeOK, Writers
  <2> QED  BY <1>1, <2>1, <2>2, <2>3, <2>4, <2>5, <2>6, <2>7, SMT DEF TypeOK, GenInv, Writers,
      Cmds
<1> QED  BY <1>1, <1>2, <1>3, <1>4, <1>5, <1>6, <1>7, <1>8 DEF PacketInv

LEMMA StillLiveStep == PacketInv /\ StillLive => PacketInv'
<1> SUFFICES ASSUME PacketInv, StillLive PROVE PacketInv'
  OBVIOUS
<1> USE BoundsAssumption DEF PacketInv
<1>1. GenInv'
  BY SMT DEF StillLive, files, At, Idle, GenInv, Opening, Owning
<1>2. CmdInv'
  BY SMT DEF StillLive, Idle, CmdInv, Packets
<1>3. StageInv'
  BY SMT DEF StillLive, At, Idle, StageInv, Settled, Calm
<1>4. CoverInv'
  BY SMT DEF StillLive, files, procs, Idle, CoverInv, Covers, Listed
<1>5. FamilyInv'
  BY SMT DEF StillLive, files, procs, FamilyInv, Started
<1>6. UnprovenInv'
  BY SMT DEF StillLive, files, procs, UnprovenInv, Listed
<1>7. ClosedIsDead'
  BY SMT DEF StillLive, files, procs, ClosedIsDead, Listed
<1>8. TypeOK'
  <2>1. marker' \in Snapshots /\ packet' \in {"none", "fresh", "stale"}
    BY NoMarkerFacts, SMT DEF StillLive, files, TypeOK
  <2>2. unproven' \subseteq Trees /\ closed' \subseteq Trees
    BY SMT DEF StillLive, files, TypeOK
  <2>3. born' \subseteq Procs /\ alive' \subseteq born'
    BY SMT DEF StillLive, procs, TypeOK
  <2>4. {killed', probed', unlisted'} \subseteq SUBSET Trees
    BY SMT DEF StillLive, procs, TypeOK
  <2>5. crashes' \in 0..MaxCrashes /\ errors' \in 0..MaxErrors
    BY SMT DEF StillLive, Quiet, TypeOK
  <2>6. cmd' \in Cmds
    BY Zenon DEF StillLive, Idle, Cmds, Stages
  <2>7. writer' \in Writers
    BY NoMarkerFacts, Zenon DEF StillLive, TypeOK, Writers
  <2> QED  BY <1>1, <2>1, <2>2, <2>3, <2>4, <2>5, <2>6, <2>7, SMT DEF TypeOK, GenInv, Writers,
      Cmds
<1> QED  BY <1>1, <1>2, <1>3, <1>4, <1>5, <1>6, <1>7, <1>8 DEF PacketInv

LEMMA ProvenDeadStep == PacketInv /\ ProvenDead => PacketInv'
<1> SUFFICES ASSUME PacketInv, ProvenDead PROVE PacketInv'
  OBVIOUS
<1> USE BoundsAssumption DEF PacketInv
<1>1. GenInv'
  BY SMT DEF ProvenDead, files, Goto, At, GenInv, Opening, Owning
<1>2. CmdInv'
  BY SMT DEF ProvenDead, Goto, At, CmdInv, Ending, Packets
<1>3. StageInv'
  BY SMT DEF ProvenDead, files, procs, Goto, At, StageInv, CmdInv, Settled, Calm
<1>4. CoverInv'
  BY SMT DEF ProvenDead, files, procs, Goto, CoverInv, Covers, Listed
<1>5. FamilyInv'
  BY SMT DEF ProvenDead, files, procs, FamilyInv, Started
<1>6. UnprovenInv'
  BY SMT DEF ProvenDead, files, procs, UnprovenInv, Listed
<1>7. ClosedIsDead'
  BY SMT DEF ProvenDead, files, procs, ClosedIsDead, Listed
<1>8. TypeOK'
  <2>1. marker' \in Snapshots /\ packet' \in {"none", "fresh", "stale"}
    BY NoMarkerFacts, SMT DEF ProvenDead, files, TypeOK
  <2>2. unproven' \subseteq Trees /\ closed' \subseteq Trees
    BY SMT DEF ProvenDead, files, TypeOK
  <2>3. born' \subseteq Procs /\ alive' \subseteq born'
    BY SMT DEF ProvenDead, procs, TypeOK
  <2>4. {killed', probed', unlisted'} \subseteq SUBSET Trees
    BY SMT DEF ProvenDead, procs, TypeOK
  <2>5. crashes' \in 0..MaxCrashes /\ errors' \in 0..MaxErrors
    BY SMT DEF ProvenDead, Quiet, TypeOK
  <2>6. cmd' \in Cmds
    BY Zenon DEF ProvenDead, Goto, TypeOK, Cmds, Stages
  <2>7. writer' \in Writers
    BY NoMarkerFacts, Zenon DEF ProvenDead, TypeOK, Writers
  <2> QED  BY <1>1, <2>1, <2>2, <2>3, <2>4, <2>5, <2>6, <2>7, SMT DEF TypeOK, GenInv, Writers,
      Cmds
<1> QED  BY <1>1, <1>2, <1>3, <1>4, <1>5, <1>6, <1>7, <1>8 DEF PacketInv

LEMMA MarkerRemovedStep == PacketInv /\ MarkerRemoved => PacketInv'
<1> SUFFICES ASSUME PacketInv, MarkerRemoved PROVE PacketInv'
  OBVIOUS
<1> USE BoundsAssumption DEF PacketInv
<1>1. GenInv'
  BY SMT DEF MarkerRemoved, At, NoMarker, TypeOK, GenInv, StageInv, Settled
<1>2. CmdInv'
  BY SMT DEF MarkerRemoved, Idle, CmdInv, Packets
<1>3. StageInv'
  BY SMT DEF MarkerRemoved, At, Idle, StageInv, Settled, Calm
<1>4. CoverInv'
  BY SMT DEF MarkerRemoved, procs, Idle, NoMarker, CoverInv, Covers, Listed
<1>5. FamilyInv'
  BY SMT DEF MarkerRemoved, procs, FamilyInv, Started
<1>6. UnprovenInv'
  BY SMT DEF MarkerRemoved, procs, At, UnprovenInv, Listed, StageInv
<1>7. ClosedIsDead'
  BY SMT DEF MarkerRemoved, procs, ClosedIsDead, Listed
<1>8. TypeOK'
  <2>1. marker' \in Snapshots /\ packet' \in {"none", "fresh", "stale"}
    BY NoMarkerFacts, SMT DEF MarkerRemoved, TypeOK
  <2>2. unproven' \subseteq Trees /\ closed' \subseteq Trees
    BY SMT DEF MarkerRemoved, TypeOK
  <2>3. born' \subseteq Procs /\ alive' \subseteq born'
    BY SMT DEF MarkerRemoved, procs, TypeOK
  <2>4. {killed', probed', unlisted'} \subseteq SUBSET Trees
    BY SMT DEF MarkerRemoved, procs, TypeOK
  <2>5. crashes' \in 0..MaxCrashes /\ errors' \in 0..MaxErrors
    BY SMT DEF MarkerRemoved, Quiet, TypeOK
  <2>6. cmd' \in Cmds
    BY Zenon DEF MarkerRemoved, Idle, Cmds, Stages
  <2>7. writer' \in Writers
    BY NoMarkerFacts, Zenon DEF MarkerRemoved, TypeOK, Writers
  <2> QED  BY <1>1, <2>1, <2>2, <2>3, <2>4, <2>5, <2>6, <2>7, SMT DEF TypeOK, GenInv, Writers,
      Cmds
<1> QED  BY <1>1, <1>2, <1>3, <1>4, <1>5, <1>6, <1>7, <1>8 DEF PacketInv

LEMMA NextBeginsStep == PacketInv /\ NextBegins => PacketInv'
<1> SUFFICES ASSUME PacketInv, NextBegins PROVE PacketInv'
  OBVIOUS
<1> USE BoundsAssumption DEF PacketInv
<1>1. GenInv'
  <2>1. /\ Opened \in Writers /\ Opened.gen = marker.gen /\ Opened.active = NoMarker
        /\ marker.gen \in Nat
    BY OpenedFacts DEF TypeOK, Snapshots
  <2>2. marker' = marker /\ writer' = Queued(Opened, Snapshot("preflight", {}))
    BY DEF NextBegins, files
  <2>3. /\ marker.gen <= Opened.gen
        /\ Opened.active # NoMarker =>
             marker.gen < Opened.active.gen /\ Opened.active.gen <= Opened.gen
    BY <2>1, SMT
  <2> QED  BY <2>1, <2>2, <2>3, QueueGen, SMT DEF States
<1>2. CmdInv'
  BY SMT DEF NextBegins, Idle, CmdInv
<1>3. StageInv'
  BY SMT DEF NextBegins, files, Opened, Queued, MayMutate, MayRun, Snapshot, Idle, NoWriter,
    NoMarker, StageInv, Newest, Written, At
<1>4. CoverInv'
  BY SMT DEF NextBegins, files, procs, Opened, Queued, MayMutate, MayRun, Snapshot, NoWriter,
    NoMarker, CoverInv, Covers, Listed
<1>5. FamilyInv'
  BY SMT DEF NextBegins, files, procs, FamilyInv, Started
<1>6. UnprovenInv'
  BY SMT DEF NextBegins, files, procs, UnprovenInv, Listed
<1>7. ClosedIsDead'
  BY SMT DEF NextBegins, files, procs, ClosedIsDead, Listed
<1>8. TypeOK'
  <2>1. marker' \in Snapshots /\ packet' \in {"none", "fresh", "stale"}
    BY NoMarkerFacts, SMT DEF NextBegins, files, TypeOK
  <2>2. unproven' \subseteq Trees /\ closed' \subseteq Trees
    BY SMT DEF NextBegins, files, TypeOK
  <2>3. born' \subseteq Procs /\ alive' \subseteq born'
    BY SMT DEF NextBegins, procs, TypeOK
  <2>4. {killed', probed', unlisted'} \subseteq SUBSET Trees
    BY SMT DEF NextBegins, procs, TypeOK
  <2>5. crashes' \in 0..MaxCrashes /\ errors' \in 0..MaxErrors
    BY SMT DEF NextBegins, Quiet, TypeOK
  <2>6. cmd' \in Cmds
    BY Zenon DEF NextBegins, Idle, Cmds, Stages
  <2>7. writer' \in Writers
    <3>1. Opened \in Writers /\ writer' = Queued(Opened, Snapshot("preflight", {}))
      BY OpenedFacts DEF NextBegins
    <3> QED  BY <3>1, QueuedFacts, SMT DEF States
  <2> QED  BY <1>1, <2>1, <2>2, <2>3, <2>4, <2>5, <2>6, <2>7, SMT DEF TypeOK, GenInv, Writers,
      Cmds
<1> QED  BY <1>1, <1>2, <1>3, <1>4, <1>5, <1>6, <1>7, <1>8 DEF PacketInv

LEMMA ProbeBeginsStep == PacketInv /\ ProbeBegins => PacketInv'
<1> SUFFICES ASSUME PacketInv, ProbeBegins PROVE PacketInv'
  OBVIOUS
<1> USE BoundsAssumption DEF PacketInv
<1>1. GenInv'
  BY SMT DEF ProbeBegins, files, GenInv, Opening, Owning, At
<1>2. CmdInv'
  <2>1. PICK t \in Trees : /\ Spawned(t) /\ cmd'.tree = t /\ cmd'.pc = "running"
                           /\ cmd'.tracked = {} /\ cmd'.ok = FALSE
                           /\ cmd'.name = "inspect" /\ t \in probed'
    BY SMT DEF ProbeBegins, Idle
  <2>2. t \in Started'
    BY <2>1, SpawnedFacts
  <2> QED  BY <2>1, <2>2, SMT DEF CmdInv, Packets
<1>3. StageInv'
  BY SMT DEF ProbeBegins, files, MayMutate, Idle, StageInv, Settled, Calm, At
<1>4. CoverInv'
  <2>1. PICK t \in Trees : Spawned(t)
    BY DEF ProbeBegins
  <2>2. Covers(marker.tracked)' /\ Covers(writer.pending.tracked)' /\ Covers(writer.active.tracked)'
    <3>1. UNCHANGED <<marker, writer>>
      BY DEF ProbeBegins, files
    <3> QED  BY <2>1, <3>1, SpawnCovers DEF CoverInv
  <2>3. cmd'.tracked \in {cmd.tracked, {}}
    BY SMT DEF ProbeBegins, Idle
  <2>4. Covers(cmd.tracked)'
    <3>1. CASE cmd'.tracked = cmd.tracked
      BY <2>1, <3>1, SpawnCovers DEF CoverInv
    <3>2. CASE cmd'.tracked = {}
      BY <3>2 DEF Covers
    <3> QED  BY <2>3, <3>1, <3>2
  <2> QED  BY <2>2, <2>4 DEF CoverInv
<1>5. FamilyInv'
  <2>1. PICK t \in Trees : Spawned(t) /\ UNCHANGED <<unproven, closed>>
    BY DEF ProbeBegins, files
  <2> QED  BY <2>1, SpawnedFacts DEF FamilyInv
<1>6. UnprovenInv'
  <2>1. PICK t \in Trees : Spawned(t)
    BY DEF ProbeBegins
  <2>2. /\ t \notin Started /\ Root(t) \notin born /\ Helper(t) \notin born
        /\ Started' = Started \cup {t}
    BY <2>1, SpawnedFacts
  <2>3. \A u \in Started : Listed(u)' \cap alive' = Listed(u) \cap alive
    BY <2>1, <2>2, SMT DEF Spawned, Listed, Tree, Root, Helper
  <2> QED  BY <2>3 DEF UnprovenInv, ProbeBegins, files, FamilyInv
<1>7. ClosedIsDead'
  <2>1. PICK t \in Trees : Spawned(t)
    BY DEF ProbeBegins
  <2>2. /\ t \notin Started /\ Root(t) \notin born /\ Helper(t) \notin born
        /\ Started' = Started \cup {t}
    BY <2>1, SpawnedFacts
  <2>3. \A u \in Started : Listed(u)' \cap alive' = Listed(u) \cap alive
    BY <2>1, <2>2, SMT DEF Spawned, Listed, Tree, Root, Helper
  <2> QED  BY <2>3 DEF ClosedIsDead, ProbeBegins, files, FamilyInv
<1>8. TypeOK'
  <2>1. marker' \in Snapshots /\ packet' \in {"none", "fresh", "stale"}
    BY NoMarkerFacts, SMT DEF ProbeBegins, files, TypeOK
  <2>2. unproven' \subseteq Trees /\ closed' \subseteq Trees
    BY SMT DEF ProbeBegins, files, TypeOK
  <2>3. born' \subseteq Procs /\ alive' \subseteq born'
    BY SMT DEF ProbeBegins, Spawned, TypeOK, Procs, Root
  <2>4. {killed', probed', unlisted'} \subseteq SUBSET Trees
    BY SMT DEF ProbeBegins, Spawned, TypeOK
  <2>5. crashes' \in 0..MaxCrashes /\ errors' \in 0..MaxErrors
    BY SMT DEF ProbeBegins, Quiet, TypeOK
  <2>6. cmd' \in Cmds
    BY Zenon DEF ProbeBegins, Idle, Cmds, Stages
  <2>7. writer' \in Writers
    BY NoMarkerFacts, Zenon DEF ProbeBegins, TypeOK, Writers
  <2> QED  BY <1>1, <2>1, <2>2, <2>3, <2>4, <2>5, <2>6, <2>7, SMT DEF TypeOK, GenInv, Writers,
      Cmds
<1> QED  BY <1>1, <1>2, <1>3, <1>4, <1>5, <1>6, <1>7, <1>8 DEF PacketInv

LEMMA RecoverBeginsStep == PacketInv /\ RecoverBegins => PacketInv'
<1> SUFFICES ASSUME PacketInv, RecoverBegins PROVE PacketInv'
  OBVIOUS
<1> USE BoundsAssumption DEF PacketInv
<1>1. GenInv'
  BY SMT DEF RecoverBegins, files, GenInv, Opening, Owning, At
<1>2. CmdInv'
  BY SMT DEF RecoverBegins, Idle, CmdInv, Ending, Packets
<1>3. StageInv'
  BY SMT DEF RecoverBegins, files, Idle, StageInv, Settled, Calm, At
<1>4. CoverInv'
  BY SMT DEF RecoverBegins, files, procs, CoverInv, Covers, Listed
<1>5. FamilyInv'
  BY SMT DEF RecoverBegins, files, procs, FamilyInv, Started
<1>6. UnprovenInv'
  BY SMT DEF RecoverBegins, files, procs, UnprovenInv, Listed
<1>7. ClosedIsDead'
  BY SMT DEF RecoverBegins, files, procs, ClosedIsDead, Listed
<1>8. TypeOK'
  <2>1. marker' \in Snapshots /\ packet' \in {"none", "fresh", "stale"}
    BY NoMarkerFacts, SMT DEF RecoverBegins, files, TypeOK
  <2>2. unproven' \subseteq Trees /\ closed' \subseteq Trees
    BY SMT DEF RecoverBegins, files, TypeOK
  <2>3. born' \subseteq Procs /\ alive' \subseteq born'
    BY SMT DEF RecoverBegins, procs, TypeOK
  <2>4. {killed', probed', unlisted'} \subseteq SUBSET Trees
    BY SMT DEF RecoverBegins, procs, TypeOK
  <2>5. crashes' \in 0..MaxCrashes /\ errors' \in 0..MaxErrors
    BY SMT DEF RecoverBegins, Quiet, TypeOK
  <2>6. cmd' \in Cmds
    <3>1. marker.tracked \in SUBSET Procs
      BY SMT DEF TypeOK, Snapshots
    <3> QED  BY <3>1, Zenon DEF RecoverBegins, Idle, Cmds, Stages
  <2>7. writer' \in Writers
    BY NoMarkerFacts, Zenon DEF RecoverBegins, TypeOK, Writers
  <2> QED  BY <1>1, <2>1, <2>2, <2>3, <2>4, <2>5, <2>6, <2>7, SMT DEF TypeOK, GenInv, Writers,
      Cmds
<1> QED  BY <1>1, <1>2, <1>3, <1>4, <1>5, <1>6, <1>7, <1>8 DEF PacketInv

LEMMA LogStep == PacketInv /\ Log => PacketInv'
<1> SUFFICES ASSUME PacketInv, Log PROVE PacketInv'
  OBVIOUS
<1> USE BoundsAssumption DEF PacketInv
<1>1. GenInv'
  BY SMT DEF Log, GenInv, Opening, At
<1>2. CmdInv'
  BY SMT DEF Log, MayMutate, Idle, CmdInv
<1>3. StageInv'
  BY SMT DEF Log, MayMutate, Idle, StageInv, Settled, Calm, At
<1>4. CoverInv'
  BY SMT DEF Log, procs, CoverInv, Covers, Listed
<1>5. FamilyInv'
  BY SMT DEF Log, procs, FamilyInv, Started
<1>6. UnprovenInv'
  BY SMT DEF Log, UnprovenInv
<1>7. ClosedIsDead'
  BY SMT DEF Log, procs, MayMutate, ClosedIsDead, UnprovenInv, Listed
<1>8. TypeOK'
  <2>1. marker' \in Snapshots /\ packet' \in {"none", "fresh", "stale"}
    BY NoMarkerFacts, SMT DEF Log, TypeOK
  <2>2. unproven' \subseteq Trees /\ closed' \subseteq Trees
    BY SMT DEF Log, TypeOK
  <2>3. born' \subseteq Procs /\ alive' \subseteq born'
    BY SMT DEF Log, procs, TypeOK
  <2>4. {killed', probed', unlisted'} \subseteq SUBSET Trees
    BY SMT DEF Log, procs, TypeOK
  <2>5. crashes' \in 0..MaxCrashes /\ errors' \in 0..MaxErrors
    BY SMT DEF Log, Quiet, TypeOK
  <2>6. cmd' \in Cmds
    BY Zenon DEF Log, TypeOK, Cmds
  <2>7. writer' \in Writers
    BY NoMarkerFacts, Zenon DEF Log, TypeOK, Writers
  <2> QED  BY <1>1, <2>1, <2>2, <2>3, <2>4, <2>5, <2>6, <2>7, SMT DEF TypeOK, GenInv, Writers,
      Cmds
<1> QED  BY <1>1, <1>2, <1>3, <1>4, <1>5, <1>6, <1>7, <1>8 DEF PacketInv

LEMMA ForkStep == PacketInv /\ (\E t \in Trees : Fork(t)) => PacketInv'
<1> SUFFICES ASSUME PacketInv, \E t \in Trees : Fork(t) PROVE PacketInv'
  OBVIOUS
<1> USE BoundsAssumption DEF PacketInv
<1>1. GenInv'
  BY SMT DEF files, Fork, GenInv, Opening, At
<1>2. CmdInv'
  <2>1. UNCHANGED <<cmd, probed>> /\ Started \subseteq Started'
    BY DEF Fork, Started
  <2> QED  BY <2>1 DEF CmdInv
<1>3. StageInv'
  <2>1. PICK t \in Trees : Fork(t)
    OBVIOUS
  <2>2. cmd.pc = "removing" => cmd.tracked \cap alive' = {}
    BY <2>1, SMT DEF Fork, StageInv, CoverInv, Covers
  <2>3. UNCHANGED <<cmd, marker, writer, errors>>
    BY <2>1 DEF Fork, files, Quiet
  <2> QED  BY <2>2, <2>3 DEF StageInv, Newest, Settled, Calm, Final, At
<1>4. CoverInv'
  BY SMT DEF files, Fork, CoverInv, Covers, Listed, Tree, Root, Helper
<1>5. FamilyInv'
  BY SMT DEF files, Fork, TypeOK, FamilyInv, Started, Root, Helper
<1>6. UnprovenInv'
  BY SMT DEF files, Fork, UnprovenInv, Listed, Tree, Root, Helper, CoverInv, Covers
<1>7. ClosedIsDead'
  BY SMT DEF files, Fork, ClosedIsDead, Listed, Tree, Root, Helper
<1>8. TypeOK'
  <2>1. marker' \in Snapshots /\ packet' \in {"none", "fresh", "stale"}
    BY NoMarkerFacts, SMT DEF files, Fork, TypeOK
  <2>2. unproven' \subseteq Trees /\ closed' \subseteq Trees
    BY SMT DEF files, Fork, TypeOK
  <2>3. born' \subseteq Procs /\ alive' \subseteq born'
    BY SMT DEF files, Fork, TypeOK, Procs, Helper
  <2>4. {killed', probed', unlisted'} \subseteq SUBSET Trees
    BY SMT DEF files, Fork, TypeOK
  <2>5. crashes' \in 0..MaxCrashes /\ errors' \in 0..MaxErrors
    BY SMT DEF files, Quiet, Fork, TypeOK
  <2>6. cmd' \in Cmds
    BY Zenon DEF files, Fork, TypeOK, Cmds
  <2>7. writer' \in Writers
    BY NoMarkerFacts, Zenon DEF files, Fork, TypeOK, Writers
  <2> QED  BY <1>1, <2>1, <2>2, <2>3, <2>4, <2>5, <2>6, <2>7, SMT DEF TypeOK, GenInv, Writers,
      Cmds
<1> QED  BY <1>1, <1>2, <1>3, <1>4, <1>5, <1>6, <1>7, <1>8 DEF PacketInv

LEMMA ExitStep == PacketInv /\ (\E p \in alive : Exit(p)) => PacketInv'
<1> SUFFICES ASSUME PacketInv, \E p \in alive : Exit(p) PROVE PacketInv'
  OBVIOUS
<1> USE BoundsAssumption DEF PacketInv
<1>1. GenInv'
  BY SMT DEF files, Exit, GenInv, Opening, At
<1>2. CmdInv'
  BY DEF files, Exit, CmdInv, Started
<1>3. StageInv'
  BY SMT DEF files, Quiet, Exit, StageInv, Newest, Settled, Calm, Final, At
<1>4. CoverInv'
  BY SMT DEF files, Exit, CoverInv, Covers, Listed
<1>5. FamilyInv'
  BY SMT DEF files, Exit, FamilyInv, Started
<1>6. UnprovenInv'
  BY SMT DEF files, Exit, UnprovenInv, Listed
<1>7. ClosedIsDead'
  BY SMT DEF files, Exit, ClosedIsDead, Listed
<1>8. TypeOK'
  <2>1. marker' \in Snapshots /\ packet' \in {"none", "fresh", "stale"}
    BY NoMarkerFacts, SMT DEF files, Exit, TypeOK
  <2>2. unproven' \subseteq Trees /\ closed' \subseteq Trees
    BY SMT DEF files, Exit, TypeOK
  <2>3. born' \subseteq Procs /\ alive' \subseteq born'
    BY SMT DEF files, Exit, TypeOK
  <2>4. {killed', probed', unlisted'} \subseteq SUBSET Trees
    BY SMT DEF files, Exit, TypeOK
  <2>5. crashes' \in 0..MaxCrashes /\ errors' \in 0..MaxErrors
    BY SMT DEF files, Quiet, Exit, TypeOK
  <2>6. cmd' \in Cmds
    BY Zenon DEF files, Exit, TypeOK, Cmds
  <2>7. writer' \in Writers
    BY NoMarkerFacts, Zenon DEF files, Exit, TypeOK, Writers
  <2> QED  BY <1>1, <2>1, <2>2, <2>3, <2>4, <2>5, <2>6, <2>7, SMT DEF TypeOK, GenInv, Writers,
      Cmds
<1> QED  BY <1>1, <1>2, <1>3, <1>4, <1>5, <1>6, <1>7, <1>8 DEF PacketInv

LEMMA CrashStep == PacketInv /\ Crash => PacketInv'
<1> SUFFICES ASSUME PacketInv, Crash PROVE PacketInv'
  OBVIOUS
<1> USE BoundsAssumption DEF PacketInv
<1>1. GenInv'
  BY SMT DEF Crash, Idle, NoWriter, GenInv, Opening, Owning, At
<1>2. CmdInv'
  BY SMT DEF Crash, Idle, CmdInv, Packets
<1>3. StageInv'
  BY SMT DEF Crash, Idle, NoWriter, StageInv, Settled, Calm, At
<1>4. CoverInv'
  BY SMT DEF Crash, files, procs, Idle, NoWriter, NoMarker, CoverInv, Covers, Listed
<1>5. FamilyInv'
  BY SMT DEF Crash, files, procs, FamilyInv, Started
<1>6. UnprovenInv'
  BY SMT DEF Crash, files, procs, UnprovenInv, Listed
<1>7. ClosedIsDead'
  BY SMT DEF Crash, files, procs, ClosedIsDead, Listed
<1>8. TypeOK'
  <2>1. marker' \in Snapshots /\ packet' \in {"none", "fresh", "stale"}
    BY NoMarkerFacts, SMT DEF Crash, files, TypeOK
  <2>2. unproven' \subseteq Trees /\ closed' \subseteq Trees
    BY SMT DEF Crash, files, TypeOK
  <2>3. born' \subseteq Procs /\ alive' \subseteq born'
    BY SMT DEF Crash, procs, TypeOK
  <2>4. {killed', probed', unlisted'} \subseteq SUBSET Trees
    BY SMT DEF Crash, procs, TypeOK
  <2>5. crashes' \in 0..MaxCrashes /\ errors' \in 0..MaxErrors
    BY SMT DEF Crash, TypeOK
  <2>6. cmd' \in Cmds
    BY Zenon DEF Crash, Idle, Cmds, Stages
  <2>7. writer' \in Writers
    BY NoMarkerFacts, Zenon DEF Crash, NoWriter, Writers
  <2> QED  BY <1>1, <2>1, <2>2, <2>3, <2>4, <2>5, <2>6, <2>7, SMT DEF TypeOK, GenInv, Writers,
      Cmds
<1> QED  BY <1>1, <1>2, <1>3, <1>4, <1>5, <1>6, <1>7, <1>8 DEF PacketInv

LEMMA PacketGoesStaleStep == PacketInv /\ PacketGoesStale => PacketInv'
<1> SUFFICES ASSUME PacketInv, PacketGoesStale PROVE PacketInv'
  OBVIOUS
<1> USE BoundsAssumption DEF PacketInv
<1>1. GenInv'
  BY SMT DEF PacketGoesStale, GenInv, Opening, At
<1>2. CmdInv'
  BY DEF PacketGoesStale, procs, CmdInv, Started
<1>3. StageInv'
  BY SMT DEF PacketGoesStale, procs, Quiet, StageInv, Newest, Settled, Calm, Final, At
<1>4. CoverInv'
  BY SMT DEF PacketGoesStale, procs, CoverInv, Covers, Listed
<1>5. FamilyInv'
  BY SMT DEF PacketGoesStale, procs, FamilyInv, Started
<1>6. UnprovenInv'
  BY SMT DEF PacketGoesStale, procs, UnprovenInv, Listed
<1>7. ClosedIsDead'
  BY SMT DEF PacketGoesStale, procs, ClosedIsDead, Listed
<1>8. TypeOK'
  <2>1. marker' \in Snapshots /\ packet' \in {"none", "fresh", "stale"}
    BY NoMarkerFacts, SMT DEF PacketGoesStale, TypeOK
  <2>2. unproven' \subseteq Trees /\ closed' \subseteq Trees
    BY SMT DEF PacketGoesStale, TypeOK
  <2>3. born' \subseteq Procs /\ alive' \subseteq born'
    BY SMT DEF PacketGoesStale, procs, TypeOK
  <2>4. {killed', probed', unlisted'} \subseteq SUBSET Trees
    BY SMT DEF PacketGoesStale, procs, TypeOK
  <2>5. crashes' \in 0..MaxCrashes /\ errors' \in 0..MaxErrors
    BY SMT DEF PacketGoesStale, Quiet, TypeOK
  <2>6. cmd' \in Cmds
    BY Zenon DEF PacketGoesStale, TypeOK, Cmds
  <2>7. writer' \in Writers
    BY NoMarkerFacts, Zenon DEF PacketGoesStale, TypeOK, Writers
  <2> QED  BY <1>1, <2>1, <2>2, <2>3, <2>4, <2>5, <2>6, <2>7, SMT DEF TypeOK, GenInv, Writers,
      Cmds
<1> QED  BY <1>1, <1>2, <1>3, <1>4, <1>5, <1>6, <1>7, <1>8 DEF PacketInv

-----------------------------------------------------------------------------
(* Nor the invariant of the marker, as long as kills and failed writes do  *)
(* not meet with probes: one lemma for each action.                        *)

LEMMA StartWriteBars == PacketInv /\ BarInv /\ Apart' /\ StartWrite => BarInv'
  BY SMT DEF StartWrite, files, procs, BarInv, Living, Listed

LEMMA EndWriteBars == PacketInv /\ BarInv /\ Apart' /\ EndWrite => BarInv'
  BY SMT DEF EndWrite, procs, PacketInv, BarInv, Living, StageInv, Calm, Settled, Listed

LEMMA WriteFailsBars == PacketInv /\ BarInv /\ Apart' /\ WriteFails => BarInv'
  BY SMT DEF WriteFails, files, procs, PacketInv, TypeOK, BarInv, Living, Listed

LEMMA PreflightMarkedBars == PacketInv /\ BarInv /\ Apart' /\ PreflightMarked => BarInv'
  BY SMT DEF PreflightMarked, procs, At, BarInv, Living, Listed

LEMMA StartRefusedBars == PacketInv /\ BarInv /\ Apart' /\ StartRefused => BarInv'
  BY SMT DEF StartRefused, procs, At, BarInv, Living, Listed

LEMMA PacketAnnouncedBars == PacketInv /\ BarInv /\ Apart' /\ PacketAnnounced => BarInv'
  BY SMT DEF PacketAnnounced, procs, At, BarInv, Living, Listed

LEMMA PacketMarkedBars == PacketInv /\ BarInv /\ Apart' /\ PacketMarked => BarInv'
  BY SMT DEF PacketMarked, procs, At, BarInv, Living, Listed

LEMMA StageSpawnedBars == PacketInv /\ BarInv /\ Apart' /\ StageSpawned => BarInv'
  BY SMT DEF StageSpawned, At, Spawned, BarInv, Living, Ending, Listed, Tree

LEMMA StageRejectedBars == PacketInv /\ BarInv /\ Apart' /\ StageRejected => BarInv'
  BY SMT DEF StageRejected, procs, At, BarInv, Living, Listed

LEMMA SpawnFailedBars == PacketInv /\ BarInv /\ Apart' /\ SpawnFailed => BarInv'
  BY SMT DEF SpawnFailed, procs, At, BarInv, Living, Listed

LEMMA OnProgressBars == PacketInv /\ BarInv /\ Apart' /\ OnProgress => BarInv'
  BY SMT DEF OnProgress, files, procs, Quiet, BarInv, Living, Listed

LEMMA StageEndedBars == PacketInv /\ BarInv /\ Apart' /\ StageEnded => BarInv'
  BY SMT DEF StageEnded, procs, At, BarInv, Living, Listed

LEMMA StageTimesOutBars == PacketInv /\ BarInv /\ Apart' /\ StageTimesOut => BarInv'
  BY SMT DEF StageTimesOut, At, Terminated, BarInv, Living, Listed

LEMMA StageUnprovenBars == PacketInv /\ BarInv /\ Apart' /\ StageUnproven => BarInv'
  BY SMT DEF StageUnproven, At, TerminationUnproven, BarInv, Living, Listed, Tree, Helper

LEMMA PacketReportedBars == PacketInv /\ BarInv /\ Apart' /\ PacketReported => BarInv'
  BY SMT DEF PacketReported, procs, At, BarInv, Living, Ending, Listed

LEMMA RejectionReportedBars == PacketInv /\ BarInv /\ Apart' /\ RejectionReported => BarInv'
  BY SMT DEF RejectionReported, procs, At, BarInv, Living, Listed

LEMMA ProgressLostBars == PacketInv /\ BarInv /\ Apart' /\ ProgressLost => BarInv'
  BY SMT DEF ProgressLost, procs, Goto, BarInv, Living, Ending, Listed

LEMMA WriterClosedBars == PacketInv /\ BarInv /\ Apart' /\ WriterClosed => BarInv'
  BY SMT DEF WriterClosed, procs, Goto, At, BarInv, Living, Ending, Listed

LEMMA PacketStoredBars == PacketInv /\ BarInv /\ Apart' /\ PacketStored => BarInv'
  BY SMT DEF PacketStored, procs, Goto, At, BarInv, Living, Ending, Listed

LEMMA PacketNotStoredBars == PacketInv /\ BarInv /\ Apart' /\ PacketNotStored => BarInv'
  BY SMT DEF PacketNotStored, procs, Goto, At, BarInv, Living, Ending, Listed

LEMMA NextEndsBars == PacketInv /\ BarInv /\ Apart' /\ NextEnds => BarInv'
  BY SMT DEF NextEnds, procs, Running, Quiet, At, Idle, PacketInv, BarInv, Living, Ending,
    StageInv, Final, Listed

LEMMA ProbeEndsBars == PacketInv /\ BarInv /\ Apart' /\ ProbeEnds => BarInv'
  BY SMT DEF ProbeEnds, procs, At, BarInv, Living, Listed

LEMMA ProbeTimesOutBars == PacketInv /\ BarInv /\ Apart' /\ ProbeTimesOut => BarInv'
  BY SMT DEF ProbeTimesOut, At, Terminated, BarInv, Living, Listed

LEMMA ProbeUnprovenBars == PacketInv /\ BarInv /\ Apart' /\ ProbeUnproven => BarInv'
  BY SMT DEF ProbeUnproven, At, TerminationUnproven, BarInv, Living, Listed, Tree, Helper

LEMMA ProbePersistedBars == PacketInv /\ BarInv /\ Apart' /\ ProbePersisted => BarInv'
  BY SMT DEF ProbePersisted, files, procs, Flushed, FlushThrows, Quiet, At, Idle, PacketInv,
    BarInv, Apart, Living, Ending, CmdInv, StageInv, Newest, Final, Listed

LEMMA StillLiveBars == PacketInv /\ BarInv /\ Apart' /\ StillLive => BarInv'
  BY SMT DEF StillLive, files, procs, At, Idle, PacketInv, BarInv, Living, Ending, StageInv,
    Listed

LEMMA ProvenDeadBars == PacketInv /\ BarInv /\ Apart' /\ ProvenDead => BarInv'
  BY SMT DEF ProvenDead, procs, At, BarInv, Living, Listed

LEMMA MarkerRemovedBars == PacketInv /\ BarInv /\ Apart' /\ MarkerRemoved => BarInv'
  BY SMT DEF MarkerRemoved, procs, At, PacketInv, BarInv, Living, StageInv, Listed

LEMMA NextBeginsBars == PacketInv /\ BarInv /\ Apart' /\ NextBegins => BarInv'
  BY SMT DEF NextBegins, procs, MayMutate, MayRun, Idle, BarInv, Living, Listed

LEMMA ProbeBeginsBars == PacketInv /\ BarInv /\ Apart' /\ ProbeBegins => BarInv'
  BY SMT DEF ProbeBegins, MayMutate, Quiet, Idle, Spawned, BarInv, Apart, Living, Ending, Listed,
    Tree

LEMMA RecoverBeginsBars == PacketInv /\ BarInv /\ Apart' /\ RecoverBegins => BarInv'
  BY SMT DEF RecoverBegins, procs, Failed, Idle, BarInv, Living, Running, Listed

LEMMA LogBars == PacketInv /\ BarInv /\ Apart' /\ Log => BarInv'
  BY SMT DEF Log, procs, Quiet, BarInv, Living, Listed

LEMMA ForkBars == PacketInv /\ BarInv /\ Apart' /\ (\E t \in Trees : Fork(t)) => BarInv'
<1> SUFFICES ASSUME PacketInv, BarInv, NEW t \in Trees, Fork(t) PROVE BarInv'
  OBVIOUS
<1>1. /\ Root(t) \in alive /\ t \notin killed /\ alive' = alive \cup {Helper(t)}
      /\ UNCHANGED <<marker, cmd, unlisted, crashes, errors>>
  BY DEF Fork, files, Quiet
<1>2. CASE t \in unlisted
  <2>1. Living' = Living
    BY <1>1, <1>2, SMT DEF Living, Listed, Helper
  <2> QED  BY <1>1, <2>1 DEF BarInv
<1>3. CASE t \notin unlisted
  <2>1. Root(t) \in Living /\ Living' \subseteq Living \cup {Helper(t)}
    BY <1>1, <1>3, SMT DEF Living, Listed, Tree, Root
  <2>2. \A ps : Covers(ps) => Root(t) \notin ps
    BY <1>1, <1>3, SMT DEF Covers, Root
  <2>3. ~(Living \subseteq marker.tracked) /\ ~(Living \subseteq cmd.tracked)
    BY <2>1, <2>2 DEF PacketInv, CoverInv
  <2>4. cmd.pc = "running" => Helper(t) \in Tree(cmd.tree)
    BY <2>1, SMT DEF BarInv, Tree, Root, Helper
  <2> QED  BY <1>1, <2>1, <2>3, <2>4 DEF BarInv
<1> QED  BY <1>2, <1>3

LEMMA ExitBars == PacketInv /\ BarInv /\ Apart' /\ (\E p \in alive : Exit(p)) => BarInv'
  BY SMT DEF files, Quiet, Exit, BarInv, Living, Listed

LEMMA CrashBars == PacketInv /\ BarInv /\ Apart' /\ Crash => BarInv'
<1> SUFFICES ASSUME PacketInv, BarInv, Apart', Crash PROVE BarInv'
  OBVIOUS
<1>1. cmd'.pc = "idle" /\ crashes' > 0 /\ UNCHANGED <<marker, alive, unlisted, probed, errors>>
  BY SMT DEF Crash, Idle, files, procs, PacketInv, TypeOK
<1>2. probed = {} /\ Living' = Living
  BY <1>1, SMT DEF Apart, Living, Listed
<1>3. cmd.name # "inspect"
  BY <1>2 DEF PacketInv, CmdInv
<1> SUFFICES Living = {} \/ (Failed(marker) /\ Living \subseteq marker.tracked) \/ Running(marker)
  BY <1>1, <1>2, SMT DEF BarInv, Ending
<1>4. CASE cmd.pc \in {"idle", "preflight", "starting", "marking", "ready", "rejected", "proving",
                       "removing"}
  BY <1>4, SMT DEF BarInv, PacketInv, StageInv
<1>5. CASE cmd.pc = "running"
  BY <1>3, <1>5, SMT DEF PacketInv, CmdInv, StageInv, At, Running
<1>6. CASE cmd.pc \in Ending \cup {"persisting"}
  <2>1. CASE cmd.tracked = {}
    BY <1>6, <2>1, SMT DEF BarInv
  <2>2. CASE cmd.tracked # {}
    BY <1>3, <1>6, <2>2, SMT DEF BarInv, PacketInv, CmdInv, StageInv, Ending, Settled, Newest,
      Final, Running
  <2> QED  BY <2>1, <2>2
<1> QED  BY <1>4, <1>5, <1>6, SMT DEF PacketInv, TypeOK, Stages, Ending

LEMMA PacketGoesStaleBars == PacketInv /\ BarInv /\ Apart' /\ PacketGoesStale => BarInv'
  BY SMT DEF PacketGoesStale, procs, Quiet, BarInv, Living, Listed

-----------------------------------------------------------------------------
(* The theorems about the processes.                                       *)

LEMMA PacketInitial == Init => PacketInv /\ BarInv
<1> SUFFICES ASSUME Init PROVE PacketInv /\ BarInv
  OBVIOUS
<1>1. TypeOK
  <2>1. marker \in Snapshots /\ {crashes, errors} \subseteq {0}
    BY NoMarkerFacts DEF Init
  <2>2. cmd \in Cmds
    BY Zenon DEF Init, Idle, Cmds, Stages
  <2>3. writer \in Writers
    BY NoMarkerFacts, Zenon DEF Init, NoWriter, Writers
  <2>4. \A s \in {writer.pending, writer.active} : s = NoMarker
    BY SMT DEF Init, NoWriter
  <2> QED  BY <2>1, <2>2, <2>3, <2>4, BoundsAssumption, SMT DEF Init, TypeOK, Cmds, Writers
<1>2. FamilyInv
  <2>1. Started = 1..0
    BY SMT DEF Init, Started
  <2> QED  BY <2>1, BoundsAssumption, SMT DEF Init, FamilyInv
<1>3. /\ cmd.name = "none" /\ cmd.pc = "idle" /\ cmd.tree = 0 /\ cmd.tracked = {} /\ cmd.ok = FALSE
      /\ writer.pending = NoMarker /\ writer.active = NoMarker /\ writer.failure = FALSE
      /\ marker = NoMarker /\ cmd = Idle
  BY SMT DEF Init, Idle, NoWriter
<1>4. GenInv /\ CmdInv
  BY <1>3, SMT DEF GenInv, Opening, Owning, CmdInv, Packets, Ending, At
<1>5. StageInv
  BY <1>3, NoMarkerFacts, SMT DEF StageInv, Calm, Settled, Newest, Final, Written, Failed, At
<1>6. CoverInv
  BY <1>3, NoMarkerFacts, SMT DEF CoverInv, Covers
<1>7. UnprovenInv /\ ClosedIsDead
  BY DEF Init, UnprovenInv, ClosedIsDead
<1>8. BarInv
  BY <1>3, SMT DEF Init, BarInv, Living, Ending
<1> QED  BY <1>1, <1>2, <1>4, <1>5, <1>6, <1>7, <1>8 DEF PacketInv

\* What writes or removes the marker.
LEMMA MarkerMoves == Next => UNCHANGED marker \/ EndWrite \/ NextEnds \/ MarkerRemoved
<1> SUFFICES ASSUME Next PROVE UNCHANGED marker \/ EndWrite \/ NextEnds \/ MarkerRemoved
  OBVIOUS
<1>1. CASE Writer
  BY <1>1 DEF Writer, StartWrite, WriteFails, files
<1>2. CASE NextStep
  BY <1>2 DEF NextStep, PreflightMarked, StartRefused, PacketAnnounced, PacketMarked,
    StageSpawned, StageRejected, SpawnFailed, OnProgress, StageEnded, StageTimesOut,
    StageUnproven, PacketReported, RejectionReported, ProgressLost, WriterClosed, PacketStored,
    PacketNotStored, files
<1>3. CASE ProbeStep \/ RecoverStep
  BY <1>3 DEF ProbeStep, ProbeEnds, ProbeTimesOut, ProbeUnproven, ProbePersisted, RecoverStep,
    StillLive, ProvenDead, files
<1>4. CASE Begins
  BY <1>4 DEF Begins, NextBegins, ProbeBegins, RecoverBegins, Log, files
<1>5. CASE World
  BY <1>5 DEF World, Fork, Exit, Crash, PacketGoesStale, files
<1> QED  BY <1>1, <1>2, <1>3, <1>4, <1>5 DEF Next

\* How a command of `next` lets go of the lock, short of being killed.
LEMMA CleanupEnds ==
  ASSUME Next, At("next", "cleanup"), cmd' = Idle, UNCHANGED crashes, crashes \in Nat
  PROVE  NextEnds
<1>1. cmd.name = "next" /\ cmd.pc = "cleanup" /\ cmd # Idle
  BY SMT DEF At, Idle
<1>2. ~Writer
  BY <1>1 DEF Writer, StartWrite, EndWrite, WriteFails
<1>3. ~Begins
  BY <1>1 DEF Begins, NextBegins, ProbeBegins, RecoverBegins, Log, MayMutate, MayRun
<1>4. ~ProbeStep /\ ~RecoverStep
  BY <1>1, SMT DEF ProbeStep, ProbeEnds, ProbeTimesOut, ProbeUnproven, ProbePersisted,
    RecoverStep, StillLive, ProvenDead, MarkerRemoved, At
<1>5. ~World
  BY <1>1, SMT DEF World, Fork, Exit, Crash, PacketGoesStale
<1>6. CASE NextStep
  BY <1>1, <1>6, SMT DEF NextStep, PreflightMarked, StartRefused, PacketAnnounced, PacketMarked,
    StageSpawned, StageRejected, SpawnFailed, OnProgress, StageEnded, StageTimesOut,
    StageUnproven, PacketReported, RejectionReported, ProgressLost, WriterClosed, PacketStored,
    PacketNotStored, At
<1> QED  BY <1>2, <1>3, <1>4, <1>5, <1>6 DEF Next

\* The inductive invariant, whatever dies, fails or times out.
LEMMA PacketInvHolds == Spec => []PacketInv
<1>1. Init => PacketInv
  BY PacketInitial
<1>2. PacketInv /\ [Next]_vars => PacketInv'
  <2> SUFFICES ASSUME PacketInv, [Next]_vars PROVE PacketInv'
    OBVIOUS
  <2>1. CASE Next
    BY <2>1, StartWriteStep, EndWriteStep, WriteFailsStep, PreflightMarkedStep, StartRefusedStep,
      PacketAnnouncedStep, PacketMarkedStep, StageSpawnedStep, StageRejectedStep, SpawnFailedStep,
      OnProgressStep, StageEndedStep, StageTimesOutStep, StageUnprovenStep, PacketReportedStep,
      RejectionReportedStep, ProgressLostStep, WriterClosedStep, PacketStoredStep,
      PacketNotStoredStep, NextEndsStep, ProbeEndsStep, ProbeTimesOutStep, ProbeUnprovenStep,
      ProbePersistedStep, StillLiveStep, ProvenDeadStep, MarkerRemovedStep, NextBeginsStep,
      ProbeBeginsStep, RecoverBeginsStep, LogStep, ForkStep, ExitStep, CrashStep,
      PacketGoesStaleStep DEF Next, Writer, NextStep, ProbeStep, RecoverStep, Begins, World
  <2>2. CASE UNCHANGED vars
    BY <2>2 DEF vars, PacketInv, TypeOK, FamilyInv, Started, GenInv, Opening, CmdInv, StageInv,
      Settled, Calm, Newest, Final, Written, At, CoverInv, Covers, Listed, UnprovenInv,
      ClosedIsDead
  <2> QED  BY <2>1, <2>2
<1> QED  BY <1>1, <1>2, PTL DEF Spec

\* The invariant of the marker, for a session that has kills and failed writes or
\* probes.
LEMMA BarInvHolds == Spec /\ []Apart => []BarInv
<1>1. Init => BarInv
  BY PacketInitial
<1>2. PacketInv /\ BarInv /\ Apart' /\ [Next]_vars => BarInv'
  <2> SUFFICES ASSUME PacketInv, BarInv, Apart', [Next]_vars PROVE BarInv'
    OBVIOUS
  <2>1. CASE Next
    BY <2>1, StartWriteBars, EndWriteBars, WriteFailsBars, PreflightMarkedBars, StartRefusedBars,
      PacketAnnouncedBars, PacketMarkedBars, StageSpawnedBars, StageRejectedBars, SpawnFailedBars,
      OnProgressBars, StageEndedBars, StageTimesOutBars, StageUnprovenBars, PacketReportedBars,
      RejectionReportedBars, ProgressLostBars, WriterClosedBars, PacketStoredBars,
      PacketNotStoredBars, NextEndsBars, ProbeEndsBars, ProbeTimesOutBars, ProbeUnprovenBars,
      ProbePersistedBars, StillLiveBars, ProvenDeadBars, MarkerRemovedBars, NextBeginsBars,
      ProbeBeginsBars, RecoverBeginsBars, LogBars, ForkBars, ExitBars, CrashBars,
      PacketGoesStaleBars DEF Next, Writer, NextStep, ProbeStep, RecoverStep, Begins, World
  <2>2. CASE UNCHANGED vars
    BY <2>2 DEF vars, BarInv, Living, Listed
  <2> QED  BY <2>1, <2>2
<1> QED  BY <1>1, <1>2, PacketInvHolds, PTL DEF Spec

\* Marker, ledger rows, processes, command and writer keep their types, kills and
\* failed writes their bounds, and what the writer (createCoalescingProgressWriter)
\* holds is newer than the marker.
THEOREM PacketTypeCorrect == Spec => []TypeOK
<1>1. PacketInv => TypeOK
  BY DEF PacketInv
<1> QED  BY <1>1, PacketInvHolds, PTL

\* What the rows of log call terminated, "operator verified absent", has no living
\* process that a termination could name, whatever was killed before and whichever
\* writes have failed (logExperiment, recoverTerminationFailedProgress).
THEOREM PacketClosedIsDead == Spec => []ClosedIsDead
<1>1. PacketInv => ClosedIsDead
  BY DEF PacketInv
<1> QED  BY <1>1, PacketInvHolds, PTL

\* A process that outlives its command is on record: the marker on disk keeps the
\* next packet out, or the probe it belongs to is still at work (runPacketStage,
\* persistTerminationFailure).  Kills and failed writes may be as many as they like,
\* or probes may, but not both: a probe takes the marker of a killed packet.
THEOREM PacketLivingIsBarred == Spec /\ []Apart => []LivingIsBarred
<1>1. PacketInv /\ BarInv => LivingIsBarred
  <2> SUFFICES ASSUME PacketInv, BarInv, NEW p \in alive, p \in Listed(p[1]), ~Bars(marker)
               PROVE  cmd.name = "inspect" /\ cmd.tree = p[1]
    BY DEF LivingIsBarred
  <2>1. p \in Living
    BY DEF Living
  <2>2. ~Running(marker) /\ ~Failed(marker)
    BY DEF Bars
  <2>3. \/ cmd.pc = "running"
        \/ cmd.pc \in Ending \cup {"persisting", "proving", "removing"} /\ cmd.tracked # {}
    BY <2>1, <2>2, SMT DEF BarInv, PacketInv, TypeOK, Stages, Ending
  <2>4. CASE cmd.pc = "running"
    <3>1. cmd.name = "inspect"
      BY <2>2, <2>4, SMT DEF PacketInv, CmdInv, StageInv, At, Running
    <3>2. p \in Tree(cmd.tree)
      BY <2>1, <2>4 DEF BarInv
    <3> QED  BY <3>1, <3>2, SMT DEF Tree, Root, Helper
  <2>5. CASE cmd.pc \in Ending \cup {"persisting", "proving", "removing"} /\ cmd.tracked # {}
    <3>1. cmd.pc = "persisting"
      BY <2>2, <2>5, SMT DEF PacketInv, TypeOK, StageInv, CmdInv, Ending, Settled, Newest, Final,
        Running
    <3>2. cmd.name = "inspect" /\ p \in Tree(cmd.tree)
      BY <2>1, <2>5, <3>1, SMT DEF PacketInv, CmdInv, BarInv
    <3> QED  BY <3>2, SMT DEF Tree, Root, Helper
  <2> QED  BY <2>3, <2>4, <2>5
<1> QED  BY <1>1, PacketInvHolds, BarInvHolds, PTL

\* Under the same condition no stage of a packet is started beside a process that
\* the session has left and could name (runShell, by the guards of run-packet).
THEOREM PacketStagesAlone == Spec /\ []Apart => StagesAlone
<1> DEFINE Alone == \A t \in Trees : (Root(t) \in born' \ born /\ t \notin probed')
                       => \A p \in alive : p \notin Listed(p[1])
<1>1. BarInv /\ [Next]_vars => [Alone]_vars
  <2> SUFFICES ASSUME BarInv, Next, NEW t \in Trees, Root(t) \in born' \ born, t \notin probed',
                      NEW p \in alive
               PROVE  p \notin Listed(p[1])
    OBVIOUS
  <2>1. StageSpawned
    <3>1. CASE ProbeBegins
      BY <3>1, SMT DEF ProbeBegins, Spawned, Root
    <3>2. CASE \E u \in Trees : Fork(u)
      BY <3>2, SMT DEF Fork, Root, Helper
    <3>3. CASE Writer \/ RecoverStep \/ NextBegins \/ RecoverBegins \/ Log
      BY <3>3 DEF Writer, StartWrite, EndWrite, WriteFails, RecoverStep, StillLive, ProvenDead,
        MarkerRemoved, NextBegins, RecoverBegins, Log, procs
    <3>4. CASE ProbeStep
      BY <3>4 DEF ProbeStep, ProbeEnds, ProbeTimesOut, ProbeUnproven, ProbePersisted, Terminated,
        TerminationUnproven, procs
    <3>5. CASE (\E q \in alive : Exit(q)) \/ Crash \/ PacketGoesStale
      BY <3>5 DEF Exit, Crash, PacketGoesStale, procs
    <3>6. CASE NextStep /\ ~StageSpawned
      BY <3>6 DEF NextStep, PreflightMarked, StartRefused, PacketAnnounced, PacketMarked,
        StageRejected, SpawnFailed, OnProgress, StageEnded, StageTimesOut, StageUnproven,
        PacketReported, RejectionReported, ProgressLost, WriterClosed, PacketStored,
        PacketNotStored, NextEnds, Terminated, TerminationUnproven, procs
    <3> QED  BY <3>1, <3>2, <3>3, <3>4, <3>5, <3>6 DEF Next, Begins, World
  <2>2. Living = {}
    BY <2>1, SMT DEF StageSpawned, At, BarInv
  <2> QED  BY <2>2 DEF Living
<1> QED  BY <1>1, BarInvHolds, PTL DEF Spec, StagesAlone

\* A packet that was reported leaves no marker, or the termination_failed one that
\* names what it left alive; and between two commands no snapshot still queued brings
\* a marker back (deleteActiveProgressSnapshotIfSafe, the writer's close).
THEOREM PacketLeaves == Spec => PacketLeavesTruth
<1> DEFINE Leaves ==
      /\ (At("next", "cleanup") /\ cmd.ok /\ cmd' = Idle /\ UNCHANGED crashes) =>
           IF cmd.tracked = {} THEN marker' = NoMarker
           ELSE /\ Failed(marker')
                /\ Listed(cmd.tree) \cap alive \subseteq marker'.tracked
      /\ (cmd = Idle /\ cmd' = Idle) => UNCHANGED marker
<1>1. PacketInv /\ Next => Leaves
  <2> SUFFICES ASSUME PacketInv, Next PROVE Leaves
    OBVIOUS
  <2>1. ASSUME At("next", "cleanup"), cmd.ok, cmd' = Idle, UNCHANGED crashes
        PROVE  IF cmd.tracked = {} THEN marker' = NoMarker
               ELSE Failed(marker') /\ Listed(cmd.tree) \cap alive \subseteq marker'.tracked
    <3>1. NextEnds
      <4>1. crashes \in Nat
        BY BoundsAssumption, SMT DEF PacketInv, TypeOK
      <4> QED  BY <2>1, <4>1, CleanupEnds
    <3>2. Final(marker)
      BY <2>1 DEF PacketInv, StageInv
    <3>3. CASE cmd.tracked = {}
      BY <3>1, <3>2, <3>3, SMT DEF NextEnds, Final, Failed, Running
    <3>4. CASE cmd.tracked # {}
      <4>1. Failed(marker) /\ marker.tracked = cmd.tracked /\ marker' = marker
        BY <3>1, <3>2, <3>4, SMT DEF NextEnds, Final
      <4>2. Root(cmd.tree) \in cmd.tracked
        BY <2>1, <3>4, SMT DEF At, PacketInv, CmdInv, Ending
      <4>3. Listed(cmd.tree) \cap alive \subseteq cmd.tracked
        BY <4>2, SMT DEF PacketInv, CoverInv, Covers, Root
      <4> QED  BY <3>4, <4>1, <4>3
    <3> QED  BY <3>3, <3>4
  <2>2. ASSUME cmd = Idle, cmd' = Idle PROVE marker' = marker
    <3>1. cmd.pc = "idle" /\ writer.active = NoMarker
      BY <2>2, SMT DEF Idle, PacketInv, StageInv, Calm, Settled
    <3> QED  BY <2>2, <3>1, MarkerMoves, SMT DEF EndWrite, NextEnds, MarkerRemoved, At
  <2> QED  BY <2>1, <2>2
<1> QED  BY <1>1, PacketInvHolds, PTL DEF Spec, PacketLeavesTruth

\* A termination_failed marker is removed only when all that the terminations of its
\* trees had listed is dead (recoverTerminationFailedProgress asks for the recorded
\* ids only; the theorem says they are all there is).
THEOREM PacketRecoveredIsDead == Spec => RecoveredIsDead
<1> DEFINE Dead == (Failed(marker) /\ marker' = NoMarker)
                     => \A p \in marker.tracked : Listed(p[1]) \cap alive = {}
<1>1. PacketInv /\ Next => Dead
  <2> SUFFICES ASSUME PacketInv, Next, Failed(marker), marker' = NoMarker, NEW p \in marker.tracked
               PROVE  Listed(p[1]) \cap alive = {}
    OBVIOUS
  <2>1. marker' # marker /\ writer.active = NoMarker
    BY NoMarkerFacts DEF Failed, PacketInv, StageInv, Settled
  <2>2. MarkerRemoved
    BY <2>1, MarkerMoves DEF EndWrite, NextEnds
  <2>3. marker.tracked \cap alive = {}
    BY <2>2, SMT DEF MarkerRemoved, At, PacketInv, StageInv
  <2>4. Listed(p[1]) \cap alive \subseteq marker.tracked
    BY DEF PacketInv, CoverInv, Covers
  <2> QED  BY <2>3, <2>4
<1> QED  BY <1>1, PacketInvHolds, PTL DEF Spec, RecoveredIsDead

-----------------------------------------------------------------------------
(* The directories: the parts of the invariant.                            *)

AllNew == \A t \in Targets : active[t] = "new"

\* The original of t is where OriginalKept looks for it.
Kept(t) == origin[t] \in {"none", active[t], rollback[t]}

\* What stands on the disk whatever the process does next.
Durable ==
  /\ \E t \in Targets : origin[t] # "old"
  /\ AllNew \/ \A t \in Targets : Kept(t)
  /\ (\E t \in Targets : rollback[t] = "part") => AllNew

Recovering == {"rename", "unmark", "unstage"}
Staging    == {"stage", "mark", "copy"}
Forward    == Staging \cup {"backup", "label", "install", "verify"}
Undoing    == {"undo", "return", "unlabel", "clear", "throw"}
Retiring   == {"retire", "unstageNew", "finish"}

Located == pc \notin {"idle", "ready", "finish", "throw"} => at \in Targets

\* The targets recovered so far have no rollback and no marker left.
RecoverInv ==
  /\ pc \in Recovering \cup {"idle", "ready"} => backedUp = {} /\ installed = {}
  /\ pc \in Recovering =>
       \A t \in Targets : t < at => rollback[t] = "none" /\ activeMark[t] = "none"
  /\ pc \in {"unmark", "unstage"} => rollback[at] = "none"
  /\ pc = "unstage" => activeMark[at] = "none"
  /\ pc = "ready" => \A t \in Targets : rollback[t] = "none" /\ activeMark[t] = "none"

\* Where the original of t is while the process replaces or restores it.
Placed(t) ==
  /\ origin[t] # "none" => before[t] = origin[t]
  /\ active[t] = IF t \in installed THEN "new" ELSE IF t \in backedUp THEN "none" ELSE before[t]
  /\ rollback[t] = IF t \in backedUp THEN before[t] ELSE "none"
  /\ t \in installed /\ t \notin backedUp => before[t] = "none"

TransactionInv == pc \in Forward \cup Undoing => \A t \in Targets : Placed(t)

\* A target that is empty or has been renamed.
Away(t) == t \in backedUp \/ before[t] = "none"

ForwardInv ==
  /\ pc \in Forward \cup Retiring => \A t \in Targets : activeMark[t] = "none"
  /\ pc \in Staging => backedUp = {}
  /\ pc \in Staging \cup {"backup", "label"} => installed = {}
  /\ pc = "backup" => \A t \in Targets : IF t < at THEN Away(t) ELSE t \notin backedUp
  /\ pc = "label"  => \A t \in Targets : IF t <= at THEN Away(t) ELSE t \notin backedUp
  /\ pc \in {"install", "verify"} => \A t \in Targets : Away(t)
  /\ pc = "install" => \A t \in Targets : t < at => t \in installed
  /\ pc = "verify"  => \A t \in Targets : t <= at => t \in installed

\* Unless something was complained about, what was taken back is as before.
Untouched(t) == ~complaint => t \notin installed /\ t \notin backedUp

UndoInv ==
  /\ pc \in {"undo", "return"} => \A t \in Targets : t > at => Untouched(t)
  /\ pc = "return" => at \notin installed
  /\ pc = "unlabel" => \A t \in Targets : t >= at => Untouched(t)
  /\ pc \in {"clear", "throw"} => \A t \in Targets : Untouched(t)

Retired(t) == ~complaint => rollback[t] = "none"
Unstaged(t) == ~complaint => stage[t] = "absent"

RetireInv ==
  /\ pc \in Retiring => AllNew
  /\ pc \in {"retire", "unstageNew"} => \A t \in Targets : t < at => Retired(t) /\ Unstaged(t)
  /\ pc = "unstageNew" => Retired(at)
  /\ pc = "finish" => \A t \in Targets : Retired(t) /\ Unstaged(t)

SwapIInv ==
  /\ SwapTypeOK /\ Durable /\ Located /\ RecoverInv /\ TransactionInv
  /\ ForwardInv /\ UndoInv /\ RetireInv

-----------------------------------------------------------------------------
(* The swap begins in the invariant, and no step breaks it: one lemma for  *)
(* each action.                                                            *)

LEMMA SwapInitial == SwapInit => SwapIInv
<1> SUFFICES ASSUME SwapInit PROVE SwapIInv
  OBVIOUS
<1>1. at \in 0 .. N + 1 /\ deaths \in 0 .. MaxDeaths /\ faults \in 0 .. MaxFaults
  BY SwapBounds, SMT DEF SwapInit
<1>2. /\ active \in [Targets -> Originals \cup {"new"}]
      /\ before \in [Targets -> Originals \cup {"new"}]
  BY SMT DEF SwapInit
<1>3. /\ activeMark \in [Targets -> Marks] /\ rollbackMark \in [Targets -> Marks]
      /\ rollback \in [Targets -> Originals \cup {"new", "part"}]
      /\ stage \in [Targets -> {"absent"} \cup Marks]
  BY SMT DEF SwapInit, Originals, Marks
<1>4. pc \in Steps /\ backedUp \subseteq Targets /\ installed \subseteq Targets
  BY SMT DEF SwapInit, Steps
<1>5. SwapTypeOK
  BY <1>1, <1>2, <1>3, <1>4, Zenon DEF SwapInit, SwapTypeOK
<1>6. Durable /\ Located /\ RecoverInv
  BY SMT DEF SwapInit, Durable, Kept, Located, RecoverInv
<1>7. TransactionInv /\ ForwardInv /\ UndoInv /\ RetireInv
  BY SMT DEF SwapInit, TransactionInv, ForwardInv, UndoInv, RetireInv, Forward, Staging, Undoing,
    Retiring
<1> QED  BY <1>5, <1>6, <1>7 DEF SwapIInv

LEMMA BeginStep == SwapIInv /\ Begin => SwapIInv'
<1> SUFFICES ASSUME SwapIInv, Begin PROVE SwapIInv'
  OBVIOUS
<1> USE SwapBounds DEF Originals, Marks, Steps
<1>1. SwapTypeOK'
  <2>1. /\ active' \in [Targets -> Originals \cup {"new"}]
        /\ activeMark' \in [Targets -> Marks]
    BY SMT DEF Begin, disk, SwapIInv, SwapTypeOK
  <2>2. /\ rollback' \in [Targets -> Originals \cup {"new", "part"}]
        /\ rollbackMark' \in [Targets -> Marks]
    BY SMT DEF Begin, disk, SwapIInv, SwapTypeOK
  <2>3. /\ stage' \in [Targets -> {"absent"} \cup Marks] /\ origin' \in [Targets -> Originals]
        /\ before' \in [Targets -> Originals \cup {"new"}]
    BY SMT DEF Begin, Volatile, disk, SwapIInv, SwapTypeOK
  <2>4. /\ backedUp' \subseteq Targets /\ installed' \subseteq Targets
        /\ answer' \in {"none", "done", "uncleaned", "restored", "unrestored", "refused"}
    BY SMT DEF Begin, Volatile, SwapIInv, SwapTypeOK
  <2>5. /\ pc' \in Steps /\ at' \in 0 .. N + 1
        /\ deaths' \in 0 .. MaxDeaths /\ faults' \in 0 .. MaxFaults
    BY SMT DEF Begin, Proceed, SwapIInv, SwapTypeOK
  <2>6. complaint' \in BOOLEAN
    BY Zenon DEF Begin, Volatile, SwapIInv, SwapTypeOK
  <2> QED  BY <2>1, <2>2, <2>3, <2>4, <2>5, <2>6 DEF SwapTypeOK
<1>2. TransactionInv'
  BY SMT DEF Begin, Proceed, TransactionInv, Forward, Staging, Undoing
<1>3. Durable'
  BY SMT DEF Begin, disk, SwapIInv, Durable, AllNew, Kept
<1>4. Located'
  BY SMT DEF Begin, Proceed, Located, Targets
<1>5. RecoverInv'
  BY SMT DEF Begin, Proceed, Volatile, SwapIInv, Targets, RecoverInv
<1>6. ForwardInv'
  BY SMT DEF Begin, Proceed, ForwardInv, Forward, Staging, Retiring
<1>7. UndoInv'
  BY SMT DEF Begin, Proceed, UndoInv
<1>8. RetireInv'
  BY SMT DEF Begin, Proceed, RetireInv, Retiring
<1> QED  BY <1>1, <1>2, <1>3, <1>4, <1>5, <1>6, <1>7, <1>8 DEF SwapIInv

LEMMA RecoverRollbackStep == SwapIInv /\ RecoverRollback => SwapIInv'
<1> SUFFICES ASSUME SwapIInv, RecoverRollback PROVE SwapIInv'
  OBVIOUS
<1> USE SwapBounds DEF Originals, Marks, Steps
<1>1. SwapTypeOK'
  <2>1. /\ active' \in [Targets -> Originals \cup {"new"}]
        /\ activeMark' \in [Targets -> Marks]
    <3>1. active[at] = "none" => rollback[at] # "part"
      BY SMT DEF RecoverRollback, SwapIInv, Located, Durable, AllNew
    <3> QED  BY <3>1, SMT DEF RecoverRollback, Refuse, disk, Ambiguous, SwapIInv, SwapTypeOK
  <2>2. /\ rollback' \in [Targets -> Originals \cup {"new", "part"}]
        /\ rollbackMark' \in [Targets -> Marks]
    BY SMT DEF RecoverRollback, Refuse, disk, SwapIInv, SwapTypeOK
  <2>3. /\ stage' \in [Targets -> {"absent"} \cup Marks] /\ origin' \in [Targets -> Originals]
        /\ before' \in [Targets -> Originals \cup {"new"}]
    BY SMT DEF RecoverRollback, Volatile, Fine, End, Refuse, disk, SwapIInv, SwapTypeOK
  <2>4. /\ backedUp' \subseteq Targets /\ installed' \subseteq Targets
        /\ answer' \in {"none", "done", "uncleaned", "restored", "unrestored", "refused"}
    BY SMT DEF RecoverRollback, Volatile, Fine, End, Refuse, SwapIInv, SwapTypeOK
  <2>5. /\ pc' \in Steps /\ at' \in 0 .. N + 1
        /\ deaths' \in 0 .. MaxDeaths /\ faults' \in 0 .. MaxFaults
    BY SMT DEF RecoverRollback, Proceed, Fine, End, Refuse, SwapIInv, SwapTypeOK
  <2>6. complaint' \in BOOLEAN
    BY Zenon DEF RecoverRollback, Volatile, End, Refuse, SwapIInv, SwapTypeOK
  <2> QED  BY <2>1, <2>2, <2>3, <2>4, <2>5, <2>6 DEF SwapTypeOK
<1>2. TransactionInv'
  BY SMT DEF RecoverRollback, Proceed, End, Refuse, TransactionInv, Forward, Staging, Undoing
<1>3. Durable'
  BY SMT DEF RecoverRollback, Fine, Refuse, disk, SwapIInv, SwapTypeOK, Durable, AllNew, Kept,
    Ambiguous
<1>4. Located'
  BY SMT DEF RecoverRollback, Proceed, End, Refuse, SwapIInv, Located
<1>5. RecoverInv'
  <2>1. pc' \in Recovering \cup {"idle", "ready"} => backedUp' = {} /\ installed' = {}
    BY SMT DEF RecoverRollback, Volatile, End, Refuse, SwapIInv, RecoverInv, Recovering
  <2>2. pc' \in Recovering =>
          \A t \in Targets : t < at' => rollback'[t] = "none" /\ activeMark'[t] = "none"
    BY SMT DEF RecoverRollback, Proceed, End, Refuse, disk, SwapIInv, SwapTypeOK, RecoverInv,
      Recovering
  <2>3. /\ pc' \in {"unmark", "unstage"} => rollback'[at'] = "none"
        /\ pc' = "unstage" => activeMark'[at'] = "none"
    BY SMT DEF RecoverRollback, Proceed, End, Refuse, disk, SwapIInv, SwapTypeOK, Located
  <2>4. pc' = "ready" => \A t \in Targets : rollback'[t] = "none" /\ activeMark'[t] = "none"
    BY SMT DEF RecoverRollback, Proceed, End, Refuse
  <2> QED  BY <2>1, <2>2, <2>3, <2>4, SMT DEF RecoverInv
<1>6. ForwardInv'
  BY SMT DEF RecoverRollback, Proceed, End, Refuse, ForwardInv, Forward, Staging, Retiring
<1>7. UndoInv'
  BY SMT DEF RecoverRollback, Proceed, End, Refuse, UndoInv
<1>8. RetireInv'
  BY SMT DEF RecoverRollback, Proceed, End, Refuse, RetireInv, Retiring
<1> QED  BY <1>1, <1>2, <1>3, <1>4, <1>5, <1>6, <1>7, <1>8 DEF SwapIInv

LEMMA RecoverMarkStep == SwapIInv /\ RecoverMark => SwapIInv'
<1> SUFFICES ASSUME SwapIInv, RecoverMark PROVE SwapIInv'
  OBVIOUS
<1> USE SwapBounds DEF Originals, Marks, Steps
<1>1. SwapTypeOK'
  <2>1. /\ active' \in [Targets -> Originals \cup {"new"}]
        /\ activeMark' \in [Targets -> Marks]
    BY SMT DEF RecoverMark, Refuse, disk, SwapIInv, SwapTypeOK
  <2>2. /\ rollback' \in [Targets -> Originals \cup {"new", "part"}]
        /\ rollbackMark' \in [Targets -> Marks]
    BY SMT DEF RecoverMark, Refuse, disk, SwapIInv, SwapTypeOK
  <2>3. /\ stage' \in [Targets -> {"absent"} \cup Marks] /\ origin' \in [Targets -> Originals]
        /\ before' \in [Targets -> Originals \cup {"new"}]
    BY SMT DEF RecoverMark, Volatile, Fine, End, Refuse, disk, SwapIInv, SwapTypeOK
  <2>4. /\ backedUp' \subseteq Targets /\ installed' \subseteq Targets
        /\ answer' \in {"none", "done", "uncleaned", "restored", "unrestored", "refused"}
    BY SMT DEF RecoverMark, Volatile, Fine, End, Refuse, SwapIInv, SwapTypeOK
  <2>5. /\ pc' \in Steps /\ at' \in 0 .. N + 1
        /\ deaths' \in 0 .. MaxDeaths /\ faults' \in 0 .. MaxFaults
    BY SMT DEF RecoverMark, Proceed, Fine, End, Refuse, SwapIInv, SwapTypeOK
  <2>6. complaint' \in BOOLEAN
    BY Zenon DEF RecoverMark, Volatile, End, Refuse, SwapIInv, SwapTypeOK
  <2> QED  BY <2>1, <2>2, <2>3, <2>4, <2>5, <2>6 DEF SwapTypeOK
<1>2. TransactionInv'
  BY SMT DEF RecoverMark, Proceed, End, Refuse, TransactionInv, Forward, Staging, Undoing
<1>3. Durable'
  BY SMT DEF RecoverMark, Fine, Refuse, disk, SwapIInv, Durable, AllNew, Kept
<1>4. Located'
  BY SMT DEF RecoverMark, Proceed, End, Refuse, SwapIInv, Located
<1>5. RecoverInv'
  <2>1. pc' \in Recovering \cup {"idle", "ready"} => backedUp' = {} /\ installed' = {}
    BY SMT DEF RecoverMark, Volatile, End, Refuse, SwapIInv, RecoverInv, Recovering
  <2>2. pc' \in Recovering =>
          \A t \in Targets : t < at' => rollback'[t] = "none" /\ activeMark'[t] = "none"
    BY SMT DEF RecoverMark, Proceed, End, Refuse, SwapIInv, SwapTypeOK, RecoverInv, Recovering
  <2>3. /\ pc' \in {"unmark", "unstage"} => rollback'[at'] = "none"
        /\ pc' = "unstage" => activeMark'[at'] = "none"
    BY SMT DEF RecoverMark, Proceed, End, Refuse, SwapIInv, SwapTypeOK, Located, RecoverInv
  <2>4. pc' = "ready" => \A t \in Targets : rollback'[t] = "none" /\ activeMark'[t] = "none"
    BY SMT DEF RecoverMark, Proceed, End, Refuse
  <2> QED  BY <2>1, <2>2, <2>3, <2>4, SMT DEF RecoverInv
<1>6. ForwardInv'
  BY SMT DEF RecoverMark, Proceed, End, Refuse, ForwardInv, Forward, Staging, Retiring
<1>7. UndoInv'
  BY SMT DEF RecoverMark, Proceed, End, Refuse, UndoInv
<1>8. RetireInv'
  BY SMT DEF RecoverMark, Proceed, End, Refuse, RetireInv, Retiring
<1> QED  BY <1>1, <1>2, <1>3, <1>4, <1>5, <1>6, <1>7, <1>8 DEF SwapIInv

LEMMA RecoverStageStep == SwapIInv /\ RecoverStage => SwapIInv'
<1> SUFFICES ASSUME SwapIInv, RecoverStage PROVE SwapIInv'
  OBVIOUS
<1> USE SwapBounds DEF Originals, Marks, Steps
<1>1. SwapTypeOK'
  <2>1. /\ active' \in [Targets -> Originals \cup {"new"}]
        /\ activeMark' \in [Targets -> Marks]
    BY SMT DEF RecoverStage, Refuse, disk, SwapIInv, SwapTypeOK
  <2>2. /\ rollback' \in [Targets -> Originals \cup {"new", "part"}]
        /\ rollbackMark' \in [Targets -> Marks]
    BY SMT DEF RecoverStage, Refuse, disk, SwapIInv, SwapTypeOK
  <2>3. /\ stage' \in [Targets -> {"absent"} \cup Marks] /\ origin' \in [Targets -> Originals]
        /\ before' \in [Targets -> Originals \cup {"new"}]
    BY SMT DEF RecoverStage, Volatile, Fine, End, Refuse, disk, SwapIInv, SwapTypeOK
  <2>4. /\ backedUp' \subseteq Targets /\ installed' \subseteq Targets
        /\ answer' \in {"none", "done", "uncleaned", "restored", "unrestored", "refused"}
    BY SMT DEF RecoverStage, Volatile, Fine, End, Refuse, SwapIInv, SwapTypeOK
  <2>5. /\ pc' \in Steps /\ at' \in 0 .. N + 1
        /\ deaths' \in 0 .. MaxDeaths /\ faults' \in 0 .. MaxFaults
    BY SMT DEF RecoverStage, Proceed, Fine, End, Refuse, AfterRecovery, SwapIInv, SwapTypeOK
  <2>6. complaint' \in BOOLEAN
    BY Zenon DEF RecoverStage, Volatile, End, Refuse, SwapIInv, SwapTypeOK
  <2> QED  BY <2>1, <2>2, <2>3, <2>4, <2>5, <2>6 DEF SwapTypeOK
<1>2. TransactionInv'
  BY SMT DEF RecoverStage, Proceed, End, Refuse, AfterRecovery, TransactionInv, Forward, Staging,
    Undoing
<1>3. Durable'
  BY SMT DEF RecoverStage, Fine, Refuse, disk, SwapIInv, Durable, AllNew, Kept
<1>4. Located'
  BY SMT DEF RecoverStage, Proceed, End, Refuse, AfterRecovery, SwapIInv, Located, Targets
<1>5. RecoverInv'
  <2>1. pc' \in Recovering \cup {"idle", "ready"} => backedUp' = {} /\ installed' = {}
    BY SMT DEF RecoverStage, Volatile, End, Refuse, SwapIInv, RecoverInv, Recovering
  <2>2. pc' \in Recovering =>
          \A t \in Targets : t < at' => rollback'[t] = "none" /\ activeMark'[t] = "none"
    BY SMT DEF RecoverStage, Proceed, End, Refuse, AfterRecovery, SwapIInv, SwapTypeOK, Targets,
      RecoverInv, Recovering
  <2>3. /\ pc' \in {"unmark", "unstage"} => rollback'[at'] = "none"
        /\ pc' = "unstage" => activeMark'[at'] = "none"
    BY SMT DEF RecoverStage, Proceed, End, Refuse, AfterRecovery
  <2>4. pc' = "ready" => \A t \in Targets : rollback'[t] = "none" /\ activeMark'[t] = "none"
    BY SMT DEF RecoverStage, Proceed, End, Refuse, AfterRecovery, SwapIInv, SwapTypeOK, Targets,
      RecoverInv, Recovering
  <2> QED  BY <2>1, <2>2, <2>3, <2>4, SMT DEF RecoverInv
<1>6. ForwardInv'
  BY SMT DEF RecoverStage, Proceed, End, Refuse, AfterRecovery, ForwardInv, Forward, Staging,
    Retiring
<1>7. UndoInv'
  BY SMT DEF RecoverStage, Proceed, End, Refuse, AfterRecovery, UndoInv
<1>8. RetireInv'
  BY SMT DEF RecoverStage, Proceed, End, Refuse, AfterRecovery, RetireInv, Retiring
<1> QED  BY <1>1, <1>2, <1>3, <1>4, <1>5, <1>6, <1>7, <1>8 DEF SwapIInv

LEMMA RecoveryFailsStep == SwapIInv /\ RecoveryFails => SwapIInv'
<1> SUFFICES ASSUME SwapIInv, RecoveryFails PROVE SwapIInv'
  OBVIOUS
<1> USE SwapBounds DEF Originals, Marks, Steps
<1>1. SwapTypeOK'
  <2>1. /\ active' \in [Targets -> Originals \cup {"new"}]
        /\ activeMark' \in [Targets -> Marks]
    BY SMT DEF RecoveryFails, SwapIInv, SwapTypeOK
  <2>2. /\ rollback' \in [Targets -> Originals \cup {"new", "part"}]
        /\ rollbackMark' \in [Targets -> Marks]
    BY SMT DEF RecoveryFails, SwapIInv, SwapTypeOK
  <2>3. /\ stage' \in [Targets -> {"absent"} \cup Marks] /\ origin' \in [Targets -> Originals]
        /\ before' \in [Targets -> Originals \cup {"new"}]
    BY SMT DEF RecoveryFails, End, SwapIInv, SwapTypeOK
  <2>4. /\ backedUp' \subseteq Targets /\ installed' \subseteq Targets
        /\ answer' \in {"none", "done", "uncleaned", "restored", "unrestored", "refused"}
    BY SMT DEF RecoveryFails, End
  <2>5. /\ pc' \in Steps /\ at' \in 0 .. N + 1
        /\ deaths' \in 0 .. MaxDeaths /\ faults' \in 0 .. MaxFaults
    BY SMT DEF RecoveryFails, End, SwapIInv, SwapTypeOK
  <2>6. complaint' \in BOOLEAN
    BY Zenon DEF RecoveryFails, End
  <2> QED  BY <2>1, <2>2, <2>3, <2>4, <2>5, <2>6 DEF SwapTypeOK
<1>2. TransactionInv'
  BY SMT DEF RecoveryFails, End, TransactionInv, Forward, Staging, Undoing
<1>3. Durable'
  BY SMT DEF RecoveryFails, SwapIInv, Durable, AllNew, Kept
<1>4. Located'
  BY SMT DEF RecoveryFails, End, Located
<1>5. RecoverInv'
  BY SMT DEF RecoveryFails, End, Targets, RecoverInv
<1>6. ForwardInv'
  BY SMT DEF RecoveryFails, End, ForwardInv, Forward, Staging, Retiring
<1>7. UndoInv'
  BY SMT DEF RecoveryFails, End, UndoInv
<1>8. RetireInv'
  BY SMT DEF RecoveryFails, End, RetireInv, Retiring
<1> QED  BY <1>1, <1>2, <1>3, <1>4, <1>5, <1>6, <1>7, <1>8 DEF SwapIInv

LEMMA RecoveredStep == SwapIInv /\ Recovered => SwapIInv'
<1> SUFFICES ASSUME SwapIInv, Recovered PROVE SwapIInv'
  OBVIOUS
<1> USE SwapBounds DEF Originals, Marks, Steps
<1>1. SwapTypeOK'
  <2>1. /\ active' \in [Targets -> Originals \cup {"new"}]
        /\ activeMark' \in [Targets -> Marks]
    BY SMT DEF Recovered, disk, SwapIInv, SwapTypeOK
  <2>2. /\ rollback' \in [Targets -> Originals \cup {"new", "part"}]
        /\ rollbackMark' \in [Targets -> Marks]
    BY SMT DEF Recovered, disk, SwapIInv, SwapTypeOK
  <2>3. /\ stage' \in [Targets -> {"absent"} \cup Marks] /\ origin' \in [Targets -> Originals]
        /\ before' \in [Targets -> Originals \cup {"new"}]
    BY SMT DEF Recovered, End, disk, SwapIInv, SwapTypeOK
  <2>4. /\ backedUp' \subseteq Targets /\ installed' \subseteq Targets
        /\ answer' \in {"none", "done", "uncleaned", "restored", "unrestored", "refused"}
    BY SMT DEF Recovered, End, SwapIInv, SwapTypeOK
  <2>5. /\ pc' \in Steps /\ at' \in 0 .. N + 1
        /\ deaths' \in 0 .. MaxDeaths /\ faults' \in 0 .. MaxFaults
    BY SMT DEF Recovered, Proceed, End, SwapIInv, SwapTypeOK
  <2>6. complaint' \in BOOLEAN
    BY Zenon DEF Recovered, End, SwapIInv, SwapTypeOK
  <2> QED  BY <2>1, <2>2, <2>3, <2>4, <2>5, <2>6 DEF SwapTypeOK
<1>2. TransactionInv'
  BY SMT DEF Recovered, End, disk, SwapIInv, TransactionInv, Placed, Forward, Staging, Undoing,
    Ready, Durable, AllNew, Kept, RecoverInv
<1>3. Durable'
  BY SMT DEF Recovered, disk, SwapIInv, Durable, AllNew, Kept
<1>4. Located'
  BY SMT DEF Recovered, Proceed, End, Located, Targets
<1>5. RecoverInv'
  BY SMT DEF Recovered, Proceed, End, RecoverInv, Recovering
<1>6. ForwardInv'
  <2>1. pc' \in Forward \cup Retiring => \A t \in Targets : activeMark'[t] = "none"
    BY SMT DEF Recovered, disk, SwapIInv, RecoverInv
  <2>2. /\ pc' \in Staging => backedUp' = {}
        /\ pc' \in Staging \cup {"backup", "label"} => installed' = {}
    BY SMT DEF Recovered, End, SwapIInv, RecoverInv
  <2>3. pc' = "backup" => \A t \in Targets : IF t < at' THEN Away(t)' ELSE t \notin backedUp'
    BY SMT DEF Recovered, Proceed, End
  <2>4. pc' = "label" => \A t \in Targets : IF t <= at' THEN Away(t)' ELSE t \notin backedUp'
    BY SMT DEF Recovered, Proceed, End
  <2>5. pc' \in {"install", "verify"} => \A t \in Targets : Away(t)'
    BY SMT DEF Recovered, Proceed, End
  <2>6. /\ pc' = "install" => \A t \in Targets : t < at' => t \in installed'
        /\ pc' = "verify" => \A t \in Targets : t <= at' => t \in installed'
    BY SMT DEF Recovered, Proceed, End
  <2> QED  BY <2>1, <2>2, <2>3, <2>4, <2>5, <2>6, SMT DEF ForwardInv
<1>7. UndoInv'
  BY SMT DEF Recovered, Proceed, End, UndoInv
<1>8. RetireInv'
  BY SMT DEF Recovered, Proceed, End, RetireInv, Retiring
<1> QED  BY <1>1, <1>2, <1>3, <1>4, <1>5, <1>6, <1>7, <1>8 DEF SwapIInv

LEMMA StageStep == SwapIInv /\ Stage => SwapIInv'
<1> SUFFICES ASSUME SwapIInv, Stage PROVE SwapIInv'
  OBVIOUS
<1> USE SwapBounds DEF Originals, Marks, Steps
<1>1. SwapTypeOK'
  <2>1. /\ active' \in [Targets -> Originals \cup {"new"}]
        /\ activeMark' \in [Targets -> Marks]
    BY SMT DEF Stage, SwapIInv, SwapTypeOK
  <2>2. /\ rollback' \in [Targets -> Originals \cup {"new", "part"}]
        /\ rollbackMark' \in [Targets -> Marks]
    BY SMT DEF Stage, SwapIInv, SwapTypeOK
  <2>3. /\ stage' \in [Targets -> {"absent"} \cup Marks] /\ origin' \in [Targets -> Originals]
        /\ before' \in [Targets -> Originals \cup {"new"}]
    BY SMT DEF Stage, Volatile, Fine, Fault, Fails, SwapIInv, SwapTypeOK
  <2>4. /\ backedUp' \subseteq Targets /\ installed' \subseteq Targets
        /\ answer' \in {"none", "done", "uncleaned", "restored", "unrestored", "refused"}
    BY SMT DEF Stage, Volatile, Fine, Fault, Fails, SwapIInv, SwapTypeOK
  <2>5. /\ pc' \in Steps /\ at' \in 0 .. N + 1
        /\ deaths' \in 0 .. MaxDeaths /\ faults' \in 0 .. MaxFaults
    BY SMT DEF Stage, Proceed, Fine, Fault, Fails, Undo, SwapIInv, SwapTypeOK
  <2>6. complaint' \in BOOLEAN
    BY Zenon DEF Stage, Volatile, Fails, SwapIInv, SwapTypeOK
  <2> QED  BY <2>1, <2>2, <2>3, <2>4, <2>5, <2>6 DEF SwapTypeOK
<1>2. TransactionInv'
  BY SMT DEF Stage, Volatile, Fine, Fault, Fails, SwapIInv, TransactionInv, Placed, Forward,
    Staging
<1>3. Durable'
  BY SMT DEF Stage, Fine, Fault, Fails, SwapIInv, Durable, AllNew, Kept
<1>4. Located'
  BY SMT DEF Stage, Proceed, Fails, Undo, SwapIInv, Located, Targets
<1>5. RecoverInv'
  BY SMT DEF Stage, Proceed, Fails, Undo, RecoverInv, Recovering
<1>6. ForwardInv'
  <2>1. pc' \in Forward \cup Retiring => \A t \in Targets : activeMark'[t] = "none"
    BY SMT DEF Stage, SwapIInv, ForwardInv, Forward, Staging
  <2>2. /\ pc' \in Staging => backedUp' = {}
        /\ pc' \in Staging \cup {"backup", "label"} => installed' = {}
    BY SMT DEF Stage, Volatile, Fails, SwapIInv, ForwardInv, Staging
  <2>3. pc' = "backup" => \A t \in Targets : IF t < at' THEN Away(t)' ELSE t \notin backedUp'
    BY SMT DEF Stage, Proceed, Fails, Undo
  <2>4. pc' = "label" => \A t \in Targets : IF t <= at' THEN Away(t)' ELSE t \notin backedUp'
    BY SMT DEF Stage, Proceed, Fails, Undo
  <2>5. pc' \in {"install", "verify"} => \A t \in Targets : Away(t)'
    BY SMT DEF Stage, Proceed, Fails, Undo
  <2>6. /\ pc' = "install" => \A t \in Targets : t < at' => t \in installed'
        /\ pc' = "verify" => \A t \in Targets : t <= at' => t \in installed'
    BY SMT DEF Stage, Proceed, Fails, Undo
  <2> QED  BY <2>1, <2>2, <2>3, <2>4, <2>5, <2>6, SMT DEF ForwardInv
<1>7. UndoInv'
  BY SMT DEF Stage, Proceed, Fails, Undo, Targets, UndoInv
<1>8. RetireInv'
  BY SMT DEF Stage, Proceed, Fails, Undo, RetireInv, Retiring
<1> QED  BY <1>1, <1>2, <1>3, <1>4, <1>5, <1>6, <1>7, <1>8 DEF SwapIInv

LEMMA MarkStageStep == SwapIInv /\ MarkStage => SwapIInv'
<1> SUFFICES ASSUME SwapIInv, MarkStage PROVE SwapIInv'
  OBVIOUS
<1> USE SwapBounds DEF Originals, Marks, Steps
<1>1. SwapTypeOK'
  <2>1. /\ active' \in [Targets -> Originals \cup {"new"}]
        /\ activeMark' \in [Targets -> Marks]
    BY SMT DEF MarkStage, SwapIInv, SwapTypeOK
  <2>2. /\ rollback' \in [Targets -> Originals \cup {"new", "part"}]
        /\ rollbackMark' \in [Targets -> Marks]
    BY SMT DEF MarkStage, SwapIInv, SwapTypeOK
  <2>3. /\ stage' \in [Targets -> {"absent"} \cup Marks] /\ origin' \in [Targets -> Originals]
        /\ before' \in [Targets -> Originals \cup {"new"}]
    BY SMT DEF MarkStage, Volatile, Fine, Fault, Fails, SwapIInv, SwapTypeOK
  <2>4. /\ backedUp' \subseteq Targets /\ installed' \subseteq Targets
        /\ answer' \in {"none", "done", "uncleaned", "restored", "unrestored", "refused"}
    BY SMT DEF MarkStage, Volatile, Fine, Fault, Fails, SwapIInv, SwapTypeOK
  <2>5. /\ pc' \in Steps /\ at' \in 0 .. N + 1
        /\ deaths' \in 0 .. MaxDeaths /\ faults' \in 0 .. MaxFaults
    BY SMT DEF MarkStage, Proceed, Fine, Fault, Fails, Undo, SwapIInv, SwapTypeOK
  <2>6. complaint' \in BOOLEAN
    BY Zenon DEF MarkStage, Volatile, Fails, SwapIInv, SwapTypeOK
  <2> QED  BY <2>1, <2>2, <2>3, <2>4, <2>5, <2>6 DEF SwapTypeOK
<1>2. TransactionInv'
  BY SMT DEF MarkStage, Volatile, Fine, Fault, Fails, SwapIInv, TransactionInv, Placed, Forward,
    Staging
<1>3. Durable'
  BY SMT DEF MarkStage, Fine, Fault, Fails, SwapIInv, Durable, AllNew, Kept
<1>4. Located'
  BY SMT DEF MarkStage, Proceed, Fails, Undo, SwapIInv, Located, Targets
<1>5. RecoverInv'
  BY SMT DEF MarkStage, Proceed, Fails, Undo, RecoverInv, Recovering
<1>6. ForwardInv'
  <2>1. pc' \in Forward \cup Retiring => \A t \in Targets : activeMark'[t] = "none"
    BY SMT DEF MarkStage, SwapIInv, ForwardInv, Forward, Staging
  <2>2. /\ pc' \in Staging => backedUp' = {}
        /\ pc' \in Staging \cup {"backup", "label"} => installed' = {}
    BY SMT DEF MarkStage, Volatile, Fails, SwapIInv, ForwardInv, Staging
  <2>3. pc' = "backup" => \A t \in Targets : IF t < at' THEN Away(t)' ELSE t \notin backedUp'
    BY SMT DEF MarkStage, Proceed, Fails, Undo
  <2>4. pc' = "label" => \A t \in Targets : IF t <= at' THEN Away(t)' ELSE t \notin backedUp'
    BY SMT DEF MarkStage, Proceed, Fails, Undo
  <2>5. pc' \in {"install", "verify"} => \A t \in Targets : Away(t)'
    BY SMT DEF MarkStage, Proceed, Fails, Undo
  <2>6. /\ pc' = "install" => \A t \in Targets : t < at' => t \in installed'
        /\ pc' = "verify" => \A t \in Targets : t <= at' => t \in installed'
    BY SMT DEF MarkStage, Proceed, Fails, Undo
  <2> QED  BY <2>1, <2>2, <2>3, <2>4, <2>5, <2>6, SMT DEF ForwardInv
<1>7. UndoInv'
  BY SMT DEF MarkStage, Proceed, Fails, Undo, Targets, UndoInv
<1>8. RetireInv'
  BY SMT DEF MarkStage, Proceed, Fails, Undo, RetireInv, Retiring
<1> QED  BY <1>1, <1>2, <1>3, <1>4, <1>5, <1>6, <1>7, <1>8 DEF SwapIInv

LEMMA CopyStep == SwapIInv /\ Copy => SwapIInv'
<1> SUFFICES ASSUME SwapIInv, Copy PROVE SwapIInv'
  OBVIOUS
<1> USE SwapBounds DEF Originals, Marks, Steps
<1>1. SwapTypeOK'
  <2>1. /\ active' \in [Targets -> Originals \cup {"new"}]
        /\ activeMark' \in [Targets -> Marks]
    BY SMT DEF Copy, disk, SwapIInv, SwapTypeOK
  <2>2. /\ rollback' \in [Targets -> Originals \cup {"new", "part"}]
        /\ rollbackMark' \in [Targets -> Marks]
    BY SMT DEF Copy, disk, SwapIInv, SwapTypeOK
  <2>3. /\ stage' \in [Targets -> {"absent"} \cup Marks] /\ origin' \in [Targets -> Originals]
        /\ before' \in [Targets -> Originals \cup {"new"}]
    BY SMT DEF Copy, Volatile, Fine, Fault, disk, Fails, SwapIInv, SwapTypeOK
  <2>4. /\ backedUp' \subseteq Targets /\ installed' \subseteq Targets
        /\ answer' \in {"none", "done", "uncleaned", "restored", "unrestored", "refused"}
    BY SMT DEF Copy, Volatile, Fine, Fault, Fails, SwapIInv, SwapTypeOK
  <2>5. /\ pc' \in Steps /\ at' \in 0 .. N + 1
        /\ deaths' \in 0 .. MaxDeaths /\ faults' \in 0 .. MaxFaults
    BY SMT DEF Copy, Proceed, Fine, Fault, Fails, Undo, SwapIInv, SwapTypeOK
  <2>6. complaint' \in BOOLEAN
    BY Zenon DEF Copy, Volatile, Fails, SwapIInv, SwapTypeOK
  <2> QED  BY <2>1, <2>2, <2>3, <2>4, <2>5, <2>6 DEF SwapTypeOK
<1>2. TransactionInv'
  BY SMT DEF Copy, Volatile, Fine, Fault, disk, Fails, SwapIInv, TransactionInv, Placed, Forward,
    Staging
<1>3. Durable'
  BY SMT DEF Copy, Fine, Fault, disk, Fails, SwapIInv, Durable, AllNew, Kept
<1>4. Located'
  BY SMT DEF Copy, Proceed, Fails, Undo, SwapIInv, Located, Targets
<1>5. RecoverInv'
  BY SMT DEF Copy, Proceed, Fails, Undo, RecoverInv, Recovering
<1>6. ForwardInv'
  <2>1. pc' \in Forward \cup Retiring => \A t \in Targets : activeMark'[t] = "none"
    BY SMT DEF Copy, disk, SwapIInv, ForwardInv, Forward, Staging
  <2>2. /\ pc' \in Staging => backedUp' = {}
        /\ pc' \in Staging \cup {"backup", "label"} => installed' = {}
    BY SMT DEF Copy, Volatile, Fails, SwapIInv, ForwardInv, Staging
  <2>3. pc' = "backup" => \A t \in Targets : IF t < at' THEN Away(t)' ELSE t \notin backedUp'
    BY SMT DEF Copy, Proceed, Volatile, Fails, Undo, SwapIInv, Targets, ForwardInv, Staging
  <2>4. pc' = "label" => \A t \in Targets : IF t <= at' THEN Away(t)' ELSE t \notin backedUp'
    BY SMT DEF Copy, Proceed, Fails, Undo
  <2>5. pc' \in {"install", "verify"} => \A t \in Targets : Away(t)'
    BY SMT DEF Copy, Proceed, Fails, Undo
  <2>6. /\ pc' = "install" => \A t \in Targets : t < at' => t \in installed'
        /\ pc' = "verify" => \A t \in Targets : t <= at' => t \in installed'
    BY SMT DEF Copy, Proceed, Fails, Undo
  <2> QED  BY <2>1, <2>2, <2>3, <2>4, <2>5, <2>6, SMT DEF ForwardInv
<1>7. UndoInv'
  BY SMT DEF Copy, Proceed, Fails, Undo, Targets, UndoInv
<1>8. RetireInv'
  BY SMT DEF Copy, Proceed, Fails, Undo, RetireInv, Retiring
<1> QED  BY <1>1, <1>2, <1>3, <1>4, <1>5, <1>6, <1>7, <1>8 DEF SwapIInv

LEMMA BackupStep == SwapIInv /\ Backup => SwapIInv'
<1> SUFFICES ASSUME SwapIInv, Backup PROVE SwapIInv'
  OBVIOUS
<1> USE SwapBounds DEF Originals, Marks, Steps
<1>1. SwapTypeOK'
  <2>1. /\ active' \in [Targets -> Originals \cup {"new"}]
        /\ activeMark' \in [Targets -> Marks]
    BY SMT DEF Backup, disk, SwapIInv, SwapTypeOK
  <2>2. /\ rollback' \in [Targets -> Originals \cup {"new", "part"}]
        /\ rollbackMark' \in [Targets -> Marks]
    BY SMT DEF Backup, disk, SwapIInv, SwapTypeOK
  <2>3. /\ stage' \in [Targets -> {"absent"} \cup Marks] /\ origin' \in [Targets -> Originals]
        /\ before' \in [Targets -> Originals \cup {"new"}]
    BY SMT DEF Backup, Volatile, Fine, Fault, disk, Fails, SwapIInv, SwapTypeOK
  <2>4. /\ backedUp' \subseteq Targets /\ installed' \subseteq Targets
        /\ answer' \in {"none", "done", "uncleaned", "restored", "unrestored", "refused"}
    BY SMT DEF Backup, Volatile, Fine, Fault, Fails, SwapIInv, SwapTypeOK, Located
  <2>5. /\ pc' \in Steps /\ at' \in 0 .. N + 1
        /\ deaths' \in 0 .. MaxDeaths /\ faults' \in 0 .. MaxFaults
    BY SMT DEF Backup, Proceed, Fine, Fault, Fails, Undo, NextBackup, SwapIInv, SwapTypeOK
  <2>6. complaint' \in BOOLEAN
    BY Zenon DEF Backup, Volatile, Fails, SwapIInv, SwapTypeOK
  <2> QED  BY <2>1, <2>2, <2>3, <2>4, <2>5, <2>6 DEF SwapTypeOK
<1>2. TransactionInv'
  BY SMT DEF Backup, Volatile, Fine, Fault, disk, Fails, SwapIInv, SwapTypeOK, TransactionInv,
    Placed, Forward, ForwardInv
<1>3. Durable'
  <2>1. pc' \in Forward \cup Undoing /\ origin' = origin
    BY SMT DEF Backup, Proceed, Fine, Fault, Fails, Undo, NextBackup, Forward, Undoing
  <2>2. \A t \in Targets : Placed(t)'
    BY <2>1, <1>2 DEF TransactionInv
  <2> QED  BY <1>1, <2>1, <2>2, SMT DEF SwapIInv, SwapTypeOK, Durable, Kept, Placed
<1>4. Located'
  BY SMT DEF Backup, Proceed, Fails, Undo, NextBackup, SwapIInv, Located, Targets
<1>5. RecoverInv'
  BY SMT DEF Backup, Proceed, Fails, Undo, NextBackup, RecoverInv, Recovering
<1>6. ForwardInv'
  <2>1. pc' \in Forward \cup Retiring => \A t \in Targets : activeMark'[t] = "none"
    BY SMT DEF Backup, disk, SwapIInv, ForwardInv, Forward
  <2>2. /\ pc' \in Staging => backedUp' = {}
        /\ pc' \in Staging \cup {"backup", "label"} => installed' = {}
    BY SMT DEF Backup, Proceed, Volatile, Fails, Undo, NextBackup, SwapIInv, ForwardInv, Staging
  <2>3. pc' = "backup" => \A t \in Targets : IF t < at' THEN Away(t)' ELSE t \notin backedUp'
    BY SMT DEF Backup, Proceed, Volatile, Fails, Undo, NextBackup, SwapIInv, SwapTypeOK, Targets,
      ForwardInv, Forward, Away, TransactionInv, Placed
  <2>4. pc' = "label" => \A t \in Targets : IF t <= at' THEN Away(t)' ELSE t \notin backedUp'
    BY SMT DEF Backup, Proceed, Fails, Undo, NextBackup, SwapIInv, SwapTypeOK, Targets,
      ForwardInv, Away
  <2>5. pc' \in {"install", "verify"} => \A t \in Targets : Away(t)'
    BY SMT DEF Backup, Proceed, Volatile, Fails, Undo, NextBackup, SwapIInv, SwapTypeOK, Targets,
      ForwardInv, Forward, Away, TransactionInv, Placed
  <2>6. /\ pc' = "install" => \A t \in Targets : t < at' => t \in installed'
        /\ pc' = "verify" => \A t \in Targets : t <= at' => t \in installed'
    BY SMT DEF Backup, Proceed, Fails, Undo, NextBackup, Targets
  <2> QED  BY <2>1, <2>2, <2>3, <2>4, <2>5, <2>6, SMT DEF ForwardInv
<1>7. UndoInv'
  BY SMT DEF Backup, Proceed, Fails, Undo, NextBackup, Targets, UndoInv
<1>8. RetireInv'
  BY SMT DEF Backup, Proceed, Fails, Undo, NextBackup, RetireInv, Retiring
<1> QED  BY <1>1, <1>2, <1>3, <1>4, <1>5, <1>6, <1>7, <1>8 DEF SwapIInv

LEMMA LabelStep == SwapIInv /\ Label => SwapIInv'
<1> SUFFICES ASSUME SwapIInv, Label PROVE SwapIInv'
  OBVIOUS
<1> USE SwapBounds DEF Originals, Marks, Steps
<1>1. SwapTypeOK'
  <2>1. /\ active' \in [Targets -> Originals \cup {"new"}]
        /\ activeMark' \in [Targets -> Marks]
    <3>1. at \in Targets /\ rollback[at] \in Originals \cup {"new"}
      BY SMT DEF Label, SwapIInv, SwapTypeOK, Located, TransactionInv, Placed, Forward
    <3> QED  BY <3>1, SMT DEF Label, SwapIInv, SwapTypeOK
  <2>2. /\ rollback' \in [Targets -> Originals \cup {"new", "part"}]
        /\ rollbackMark' \in [Targets -> Marks]
    BY SMT DEF Label, SwapIInv, SwapTypeOK
  <2>3. /\ stage' \in [Targets -> {"absent"} \cup Marks] /\ origin' \in [Targets -> Originals]
        /\ before' \in [Targets -> Originals \cup {"new"}]
    BY SMT DEF Label, Volatile, Fine, Fault, SwapIInv, SwapTypeOK
  <2>4. /\ backedUp' \subseteq Targets /\ installed' \subseteq Targets
        /\ answer' \in {"none", "done", "uncleaned", "restored", "unrestored", "refused"}
    BY SMT DEF Label, Volatile, Fine, Fault, SwapIInv, SwapTypeOK
  <2>5. /\ pc' \in Steps /\ at' \in 0 .. N + 1
        /\ deaths' \in 0 .. MaxDeaths /\ faults' \in 0 .. MaxFaults
    BY SMT DEF Label, Proceed, Fine, Fault, Undo, NextBackup, SwapIInv, SwapTypeOK
  <2>6. complaint' \in BOOLEAN
    BY Zenon DEF Label, Volatile, SwapIInv, SwapTypeOK
  <2> QED  BY <2>1, <2>2, <2>3, <2>4, <2>5, <2>6 DEF SwapTypeOK
<1>2. TransactionInv'
  <2> SUFFICES ASSUME NEW t \in Targets PROVE Placed(t)'
    BY DEF TransactionInv
  <2>1. Placed(t) /\ at \in Targets
    BY SMT DEF Label, SwapIInv, TransactionInv, Located, Forward
  <2>2. CASE t = at
    BY <2>1, <2>2, SMT DEF Label, Volatile, Fine, Fault, SwapIInv, SwapTypeOK, Placed, ForwardInv,
      Away
  <2>3. CASE t # at
    BY <2>1, <2>3, SMT DEF Label, Volatile, Fine, Fault, SwapIInv, SwapTypeOK, Placed
  <2> QED  BY <2>2, <2>3
<1>3. Durable'
  <2>1. pc' \in Forward \cup Undoing /\ origin' = origin
    BY SMT DEF Label, Proceed, Fine, Fault, Undo, NextBackup, Forward, Undoing
  <2>2. \A t \in Targets : Placed(t)'
    BY <2>1, <1>2 DEF TransactionInv
  <2> QED  BY <1>1, <2>1, <2>2, SMT DEF SwapIInv, SwapTypeOK, Durable, Kept, Placed
<1>4. Located'
  BY SMT DEF Label, Proceed, Undo, NextBackup, SwapIInv, Located, Targets
<1>5. RecoverInv'
  BY SMT DEF Label, Proceed, Undo, NextBackup, RecoverInv, Recovering
<1>6. ForwardInv'
  <2>1. pc' \in Forward \cup Retiring => \A t \in Targets : activeMark'[t] = "none"
    BY SMT DEF Label, Proceed, Undo, SwapIInv, ForwardInv, Forward, Staging, Retiring
  <2>2. /\ pc' \in Staging => backedUp' = {}
        /\ pc' \in Staging \cup {"backup", "label"} => installed' = {}
    BY SMT DEF Label, Proceed, Volatile, Undo, NextBackup, SwapIInv, ForwardInv, Staging
  <2>3. pc' = "backup" => \A t \in Targets : IF t < at' THEN Away(t)' ELSE t \notin backedUp'
    BY SMT DEF Label, Proceed, Volatile, Undo, NextBackup, SwapIInv, SwapTypeOK, Targets,
      ForwardInv, Away
  <2>4. pc' = "label" => \A t \in Targets : IF t <= at' THEN Away(t)' ELSE t \notin backedUp'
    BY SMT DEF Label, Proceed, Undo, NextBackup
  <2>5. pc' \in {"install", "verify"} => \A t \in Targets : Away(t)'
    BY SMT DEF Label, Proceed, Volatile, Undo, NextBackup, SwapIInv, SwapTypeOK, Targets,
      ForwardInv, Away
  <2>6. /\ pc' = "install" => \A t \in Targets : t < at' => t \in installed'
        /\ pc' = "verify" => \A t \in Targets : t <= at' => t \in installed'
    BY SMT DEF Label, Proceed, Undo, NextBackup, Targets
  <2> QED  BY <2>1, <2>2, <2>3, <2>4, <2>5, <2>6, SMT DEF ForwardInv
<1>7. UndoInv'
  BY SMT DEF Label, Proceed, Undo, NextBackup, Targets, UndoInv
<1>8. RetireInv'
  BY SMT DEF Label, Proceed, Undo, NextBackup, RetireInv, Retiring
<1> QED  BY <1>1, <1>2, <1>3, <1>4, <1>5, <1>6, <1>7, <1>8 DEF SwapIInv

LEMMA InstallStep == SwapIInv /\ Install => SwapIInv'
<1> SUFFICES ASSUME SwapIInv, Install PROVE SwapIInv'
  OBVIOUS
<1> USE SwapBounds DEF Originals, Marks, Steps
<1>1. SwapTypeOK'
  <2>1. /\ active' \in [Targets -> Originals \cup {"new"}]
        /\ activeMark' \in [Targets -> Marks]
    BY SMT DEF Install, disk, SwapIInv, SwapTypeOK
  <2>2. /\ rollback' \in [Targets -> Originals \cup {"new", "part"}]
        /\ rollbackMark' \in [Targets -> Marks]
    BY SMT DEF Install, disk, SwapIInv, SwapTypeOK
  <2>3. /\ stage' \in [Targets -> {"absent"} \cup Marks] /\ origin' \in [Targets -> Originals]
        /\ before' \in [Targets -> Originals \cup {"new"}]
    BY SMT DEF Install, Volatile, Fine, Fault, disk, Fails, SwapIInv, SwapTypeOK
  <2>4. /\ backedUp' \subseteq Targets /\ installed' \subseteq Targets
        /\ answer' \in {"none", "done", "uncleaned", "restored", "unrestored", "refused"}
    BY SMT DEF Install, Volatile, Fine, Fault, Fails, SwapIInv, SwapTypeOK, Located
  <2>5. /\ pc' \in Steps /\ at' \in 0 .. N + 1
        /\ deaths' \in 0 .. MaxDeaths /\ faults' \in 0 .. MaxFaults
    BY SMT DEF Install, Proceed, Fine, Fault, Fails, Undo, SwapIInv, SwapTypeOK
  <2>6. complaint' \in BOOLEAN
    BY Zenon DEF Install, Volatile, Fails, SwapIInv, SwapTypeOK
  <2> QED  BY <2>1, <2>2, <2>3, <2>4, <2>5, <2>6 DEF SwapTypeOK
<1>2. TransactionInv'
  <2> SUFFICES ASSUME NEW t \in Targets PROVE Placed(t)'
    BY DEF TransactionInv
  <2>1. Placed(t) /\ at \in Targets
    BY SMT DEF Install, SwapIInv, TransactionInv, Located, Forward
  <2>2. CASE t = at
    BY <2>1, <2>2, SMT DEF Install, Volatile, Fine, Fault, disk, Fails, SwapIInv, SwapTypeOK,
      Placed, ForwardInv, Away
  <2>3. CASE t # at
    BY <2>1, <2>3, SMT DEF Install, Volatile, Fine, Fault, disk, Fails, SwapIInv, SwapTypeOK,
      Placed
  <2> QED  BY <2>2, <2>3
<1>3. Durable'
  <2>1. pc' \in Forward \cup Undoing /\ origin' = origin
    BY SMT DEF Install, Proceed, Fine, Fault, Fails, Undo, Forward, Undoing
  <2>2. \A t \in Targets : Placed(t)'
    BY <2>1, <1>2 DEF TransactionInv
  <2> QED  BY <1>1, <2>1, <2>2, SMT DEF SwapIInv, SwapTypeOK, Durable, Kept, Placed
<1>4. Located'
  BY SMT DEF Install, Proceed, Fails, Undo, SwapIInv, Located, Targets
<1>5. RecoverInv'
  BY SMT DEF Install, Proceed, Fails, Undo, RecoverInv, Recovering
<1>6. ForwardInv'
  BY SMT DEF Install, Proceed, disk, Fails, Undo, SwapIInv, SwapTypeOK, Targets, ForwardInv,
    Forward, Staging, Away
<1>7. UndoInv'
  BY SMT DEF Install, Proceed, Fails, Undo, Targets, UndoInv
<1>8. RetireInv'
  BY SMT DEF Install, Proceed, Fails, Undo, RetireInv, Retiring
<1> QED  BY <1>1, <1>2, <1>3, <1>4, <1>5, <1>6, <1>7, <1>8 DEF SwapIInv

LEMMA VerifyStep == SwapIInv /\ Verify => SwapIInv'
<1> SUFFICES ASSUME SwapIInv, Verify PROVE SwapIInv'
  OBVIOUS
<1> USE SwapBounds DEF Originals, Marks, Steps
<1>1. SwapTypeOK'
  <2>1. /\ active' \in [Targets -> Originals \cup {"new"}]
        /\ activeMark' \in [Targets -> Marks]
    BY SMT DEF Verify, disk, SwapIInv, SwapTypeOK
  <2>2. /\ rollback' \in [Targets -> Originals \cup {"new", "part"}]
        /\ rollbackMark' \in [Targets -> Marks]
    BY SMT DEF Verify, disk, SwapIInv, SwapTypeOK
  <2>3. /\ stage' \in [Targets -> {"absent"} \cup Marks] /\ origin' \in [Targets -> Originals]
        /\ before' \in [Targets -> Originals \cup {"new"}]
    BY SMT DEF Verify, Volatile, Fine, Fault, disk, Fails, SwapIInv, SwapTypeOK
  <2>4. /\ backedUp' \subseteq Targets /\ installed' \subseteq Targets
        /\ answer' \in {"none", "done", "uncleaned", "restored", "unrestored", "refused"}
    BY SMT DEF Verify, Volatile, Fine, Fault, Fails, SwapIInv, SwapTypeOK
  <2>5. /\ pc' \in Steps /\ at' \in 0 .. N + 1
        /\ deaths' \in 0 .. MaxDeaths /\ faults' \in 0 .. MaxFaults
    BY SMT DEF Verify, Proceed, Fine, Fault, Fails, Undo, SwapIInv, SwapTypeOK
  <2>6. complaint' \in BOOLEAN
    BY Zenon DEF Verify, Volatile, Fails, SwapIInv, SwapTypeOK
  <2> QED  BY <2>1, <2>2, <2>3, <2>4, <2>5, <2>6 DEF SwapTypeOK
<1>2. TransactionInv'
  BY SMT DEF Verify, Volatile, Fine, Fault, disk, Fails, SwapIInv, TransactionInv, Placed, Forward
<1>3. Durable'
  BY SMT DEF Verify, Fine, Fault, disk, Fails, SwapIInv, Durable, AllNew, Kept
<1>4. Located'
  BY SMT DEF Verify, Proceed, Fails, Undo, SwapIInv, Located, Targets
<1>5. RecoverInv'
  BY SMT DEF Verify, Proceed, Fails, Undo, RecoverInv, Recovering
<1>6. ForwardInv'
  BY SMT DEF Verify, Proceed, Volatile, disk, Fails, Undo, SwapIInv, SwapTypeOK, Targets,
    ForwardInv, Forward, Staging, Away
<1>7. UndoInv'
  BY SMT DEF Verify, Proceed, Fails, Undo, Targets, UndoInv
<1>8. RetireInv'
  BY SMT DEF Verify, Proceed, disk, Fails, Undo, SwapIInv, SwapTypeOK, Targets, RetireInv,
    Retiring, AllNew, TransactionInv, Placed, ForwardInv, Forward
<1> QED  BY <1>1, <1>2, <1>3, <1>4, <1>5, <1>6, <1>7, <1>8 DEF SwapIInv

LEMMA UndoInstallStep == SwapIInv /\ UndoInstall => SwapIInv'
<1> SUFFICES ASSUME SwapIInv, UndoInstall PROVE SwapIInv'
  OBVIOUS
<1> USE SwapBounds DEF Originals, Marks, Steps
<1>1. SwapTypeOK'
  <2>1. /\ active' \in [Targets -> Originals \cup {"new"}]
        /\ activeMark' \in [Targets -> Marks]
    BY SMT DEF UndoInstall, disk, SwapIInv, SwapTypeOK
  <2>2. /\ rollback' \in [Targets -> Originals \cup {"new", "part"}]
        /\ rollbackMark' \in [Targets -> Marks]
    BY SMT DEF UndoInstall, disk, SwapIInv, SwapTypeOK
  <2>3. /\ stage' \in [Targets -> {"absent"} \cup Marks] /\ origin' \in [Targets -> Originals]
        /\ before' \in [Targets -> Originals \cup {"new"}]
    BY SMT DEF UndoInstall, Volatile, Fine, Fault, disk, Complain, SwapIInv, SwapTypeOK
  <2>4. /\ backedUp' \subseteq Targets /\ installed' \subseteq Targets
        /\ answer' \in {"none", "done", "uncleaned", "restored", "unrestored", "refused"}
    BY SMT DEF UndoInstall, Volatile, Fine, Fault, Complain, SwapIInv, SwapTypeOK
  <2>5. /\ pc' \in Steps /\ at' \in 0 .. N + 1
        /\ deaths' \in 0 .. MaxDeaths /\ faults' \in 0 .. MaxFaults
    BY SMT DEF UndoInstall, Proceed, Fine, Fault, NextUndo, SwapIInv, SwapTypeOK
  <2>6. complaint' \in BOOLEAN
    BY Zenon DEF UndoInstall, Volatile, Complain, SwapIInv, SwapTypeOK
  <2> QED  BY <2>1, <2>2, <2>3, <2>4, <2>5, <2>6 DEF SwapTypeOK
<1>2. TransactionInv'
  BY SMT DEF UndoInstall, Volatile, Fine, Fault, disk, Complain, SwapIInv, SwapTypeOK,
    TransactionInv, Placed, Undoing
<1>3. Durable'
  <2>1. pc' \in Forward \cup Undoing /\ origin' = origin
    BY SMT DEF UndoInstall, Proceed, Fine, Fault, NextUndo, Undoing
  <2>2. \A t \in Targets : Placed(t)'
    BY <2>1, <1>2 DEF TransactionInv
  <2> QED  BY <1>1, <2>1, <2>2, SMT DEF SwapIInv, SwapTypeOK, Durable, Kept, Placed
<1>4. Located'
  BY SMT DEF UndoInstall, Proceed, NextUndo, SwapIInv, Located, Targets
<1>5. RecoverInv'
  BY SMT DEF UndoInstall, Proceed, NextUndo, RecoverInv, Recovering
<1>6. ForwardInv'
  BY SMT DEF UndoInstall, Proceed, NextUndo, ForwardInv, Forward, Staging, Retiring
<1>7. UndoInv'
  BY SMT DEF UndoInstall, Proceed, Volatile, Complain, NextUndo, SwapIInv, UndoInv, Untouched
<1>8. RetireInv'
  BY SMT DEF UndoInstall, Proceed, NextUndo, RetireInv, Retiring
<1> QED  BY <1>1, <1>2, <1>3, <1>4, <1>5, <1>6, <1>7, <1>8 DEF SwapIInv

LEMMA UndoBackupStep == SwapIInv /\ UndoBackup => SwapIInv'
<1> SUFFICES ASSUME SwapIInv, UndoBackup PROVE SwapIInv'
  OBVIOUS
<1> USE SwapBounds DEF Originals, Marks, Steps
<1>1. SwapTypeOK'
  <2>1. /\ active' \in [Targets -> Originals \cup {"new"}]
        /\ activeMark' \in [Targets -> Marks]
    <3>1. at \in Targets /\ rollback[at] \in Originals \cup {"new"}
      BY SMT DEF UndoBackup, SwapIInv, SwapTypeOK, Located, TransactionInv, Placed, Undoing
    <3> QED  BY <3>1, SMT DEF UndoBackup, disk, SwapIInv, SwapTypeOK
  <2>2. /\ rollback' \in [Targets -> Originals \cup {"new", "part"}]
        /\ rollbackMark' \in [Targets -> Marks]
    BY SMT DEF UndoBackup, disk, SwapIInv, SwapTypeOK
  <2>3. /\ stage' \in [Targets -> {"absent"} \cup Marks] /\ origin' \in [Targets -> Originals]
        /\ before' \in [Targets -> Originals \cup {"new"}]
    BY SMT DEF UndoBackup, Volatile, Fine, Fault, disk, Complain, SwapIInv, SwapTypeOK
  <2>4. /\ backedUp' \subseteq Targets /\ installed' \subseteq Targets
        /\ answer' \in {"none", "done", "uncleaned", "restored", "unrestored", "refused"}
    BY SMT DEF UndoBackup, Volatile, Fine, Fault, Complain, SwapIInv, SwapTypeOK
  <2>5. /\ pc' \in Steps /\ at' \in 0 .. N + 1
        /\ deaths' \in 0 .. MaxDeaths /\ faults' \in 0 .. MaxFaults
    BY SMT DEF UndoBackup, Proceed, Fine, Fault, NextUndo, SwapIInv, SwapTypeOK
  <2>6. complaint' \in BOOLEAN
    BY Zenon DEF UndoBackup, Volatile, Complain, SwapIInv, SwapTypeOK
  <2> QED  BY <2>1, <2>2, <2>3, <2>4, <2>5, <2>6 DEF SwapTypeOK
<1>2. TransactionInv'
  BY SMT DEF UndoBackup, Volatile, Fine, Fault, disk, Complain, SwapIInv, SwapTypeOK,
    TransactionInv, Placed, Undoing, UndoInv
<1>3. Durable'
  <2>1. pc' \in Forward \cup Undoing /\ origin' = origin
    BY SMT DEF UndoBackup, Proceed, Fine, Fault, NextUndo, Undoing
  <2>2. \A t \in Targets : Placed(t)'
    BY <2>1, <1>2 DEF TransactionInv
  <2> QED  BY <1>1, <2>1, <2>2, SMT DEF SwapIInv, SwapTypeOK, Durable, Kept, Placed
<1>4. Located'
  BY SMT DEF UndoBackup, Proceed, NextUndo, SwapIInv, Located, Targets
<1>5. RecoverInv'
  BY SMT DEF UndoBackup, Proceed, NextUndo, RecoverInv, Recovering
<1>6. ForwardInv'
  BY SMT DEF UndoBackup, Proceed, NextUndo, ForwardInv, Forward, Staging, Retiring
<1>7. UndoInv'
  BY SMT DEF UndoBackup, Proceed, Volatile, Complain, NextUndo, SwapIInv, SwapTypeOK, Targets,
    UndoInv, Untouched
<1>8. RetireInv'
  BY SMT DEF UndoBackup, Proceed, NextUndo, RetireInv, Retiring
<1> QED  BY <1>1, <1>2, <1>3, <1>4, <1>5, <1>6, <1>7, <1>8 DEF SwapIInv

LEMMA UndoLabelStep == SwapIInv /\ UndoLabel => SwapIInv'
<1> SUFFICES ASSUME SwapIInv, UndoLabel PROVE SwapIInv'
  OBVIOUS
<1> USE SwapBounds DEF Originals, Marks, Steps
<1>1. SwapTypeOK'
  <2>1. /\ active' \in [Targets -> Originals \cup {"new"}]
        /\ activeMark' \in [Targets -> Marks]
    BY SMT DEF UndoLabel, disk, SwapIInv, SwapTypeOK
  <2>2. /\ rollback' \in [Targets -> Originals \cup {"new", "part"}]
        /\ rollbackMark' \in [Targets -> Marks]
    BY SMT DEF UndoLabel, disk, SwapIInv, SwapTypeOK
  <2>3. /\ stage' \in [Targets -> {"absent"} \cup Marks] /\ origin' \in [Targets -> Originals]
        /\ before' \in [Targets -> Originals \cup {"new"}]
    BY SMT DEF UndoLabel, Volatile, Fine, Fault, disk, Complain, SwapIInv, SwapTypeOK
  <2>4. /\ backedUp' \subseteq Targets /\ installed' \subseteq Targets
        /\ answer' \in {"none", "done", "uncleaned", "restored", "unrestored", "refused"}
    BY SMT DEF UndoLabel, Volatile, Fine, Fault, Complain, SwapIInv, SwapTypeOK
  <2>5. /\ pc' \in Steps /\ at' \in 0 .. N + 1
        /\ deaths' \in 0 .. MaxDeaths /\ faults' \in 0 .. MaxFaults
    BY SMT DEF UndoLabel, Proceed, Fine, Fault, NextUndo, SwapIInv, SwapTypeOK
  <2>6. complaint' \in BOOLEAN
    BY Zenon DEF UndoLabel, Volatile, Complain, SwapIInv, SwapTypeOK
  <2> QED  BY <2>1, <2>2, <2>3, <2>4, <2>5, <2>6 DEF SwapTypeOK
<1>2. TransactionInv'
  BY SMT DEF UndoLabel, Volatile, Fine, Fault, disk, Complain, SwapIInv, TransactionInv, Placed,
    Undoing
<1>3. Durable'
  BY SMT DEF UndoLabel, Fine, Fault, disk, SwapIInv, Durable, AllNew, Kept
<1>4. Located'
  BY SMT DEF UndoLabel, Proceed, NextUndo, SwapIInv, Located, Targets
<1>5. RecoverInv'
  BY SMT DEF UndoLabel, Proceed, NextUndo, RecoverInv, Recovering
<1>6. ForwardInv'
  BY SMT DEF UndoLabel, Proceed, NextUndo, ForwardInv, Forward, Staging, Retiring
<1>7. UndoInv'
  BY SMT DEF UndoLabel, Proceed, Volatile, Complain, NextUndo, SwapIInv, SwapTypeOK, Targets,
    UndoInv, Untouched
<1>8. RetireInv'
  BY SMT DEF UndoLabel, Proceed, NextUndo, RetireInv, Retiring
<1> QED  BY <1>1, <1>2, <1>3, <1>4, <1>5, <1>6, <1>7, <1>8 DEF SwapIInv

LEMMA ClearStageStep == SwapIInv /\ ClearStage => SwapIInv'
<1> SUFFICES ASSUME SwapIInv, ClearStage PROVE SwapIInv'
  OBVIOUS
<1> USE SwapBounds DEF Originals, Marks, Steps
<1>1. SwapTypeOK'
  <2>1. /\ active' \in [Targets -> Originals \cup {"new"}]
        /\ activeMark' \in [Targets -> Marks]
    BY SMT DEF ClearStage, SwapIInv, SwapTypeOK
  <2>2. /\ rollback' \in [Targets -> Originals \cup {"new", "part"}]
        /\ rollbackMark' \in [Targets -> Marks]
    BY SMT DEF ClearStage, SwapIInv, SwapTypeOK
  <2>3. /\ stage' \in [Targets -> {"absent"} \cup Marks] /\ origin' \in [Targets -> Originals]
        /\ before' \in [Targets -> Originals \cup {"new"}]
    BY SMT DEF ClearStage, Volatile, Fine, Fault, Complain, RemoveStage, SwapIInv, SwapTypeOK
  <2>4. /\ backedUp' \subseteq Targets /\ installed' \subseteq Targets
        /\ answer' \in {"none", "done", "uncleaned", "restored", "unrestored", "refused"}
    BY SMT DEF ClearStage, Volatile, Fine, Fault, Complain, RemoveStage, SwapIInv, SwapTypeOK
  <2>5. /\ pc' \in Steps /\ at' \in 0 .. N + 1
        /\ deaths' \in 0 .. MaxDeaths /\ faults' \in 0 .. MaxFaults
    BY SMT DEF ClearStage, Proceed, Fine, Fault, RemoveStage, SwapIInv, SwapTypeOK
  <2>6. complaint' \in BOOLEAN
    BY Zenon DEF ClearStage, Volatile, Complain, RemoveStage, SwapIInv, SwapTypeOK
  <2> QED  BY <2>1, <2>2, <2>3, <2>4, <2>5, <2>6 DEF SwapTypeOK
<1>2. TransactionInv'
  BY SMT DEF ClearStage, Volatile, Fine, Fault, Complain, RemoveStage, SwapIInv, TransactionInv,
    Placed, Undoing
<1>3. Durable'
  BY SMT DEF ClearStage, Fine, Fault, RemoveStage, SwapIInv, Durable, AllNew, Kept
<1>4. Located'
  BY SMT DEF ClearStage, Proceed, RemoveStage, SwapIInv, Located, Targets
<1>5. RecoverInv'
  BY SMT DEF ClearStage, Proceed, RemoveStage, RecoverInv, Recovering
<1>6. ForwardInv'
  BY SMT DEF ClearStage, Proceed, RemoveStage, ForwardInv, Forward, Staging, Retiring
<1>7. UndoInv'
  BY SMT DEF ClearStage, Proceed, Volatile, Complain, RemoveStage, SwapIInv, UndoInv, Untouched
<1>8. RetireInv'
  BY SMT DEF ClearStage, Proceed, RemoveStage, RetireInv, Retiring
<1> QED  BY <1>1, <1>2, <1>3, <1>4, <1>5, <1>6, <1>7, <1>8 DEF SwapIInv

LEMMA RetireStep == SwapIInv /\ Retire => SwapIInv'
<1> SUFFICES ASSUME SwapIInv, Retire PROVE SwapIInv'
  OBVIOUS
<1> USE SwapBounds DEF Originals, Marks, Steps
<1>1. SwapTypeOK'
  <2>1. /\ active' \in [Targets -> Originals \cup {"new"}]
        /\ activeMark' \in [Targets -> Marks]
    BY SMT DEF Retire, SwapIInv, SwapTypeOK
  <2>2. /\ rollback' \in [Targets -> Originals \cup {"new", "part"}]
        /\ rollbackMark' \in [Targets -> Marks]
    BY SMT DEF Retire, SwapIInv, SwapTypeOK
  <2>3. /\ stage' \in [Targets -> {"absent"} \cup Marks] /\ origin' \in [Targets -> Originals]
        /\ before' \in [Targets -> Originals \cup {"new"}]
    BY SMT DEF Retire, Fine, Fault, SwapIInv, SwapTypeOK
  <2>4. /\ backedUp' \subseteq Targets /\ installed' \subseteq Targets
        /\ answer' \in {"none", "done", "uncleaned", "restored", "unrestored", "refused"}
    BY SMT DEF Retire, Fine, Fault, SwapIInv, SwapTypeOK
  <2>5. /\ pc' \in Steps /\ at' \in 0 .. N + 1
        /\ deaths' \in 0 .. MaxDeaths /\ faults' \in 0 .. MaxFaults
    BY SMT DEF Retire, Proceed, Fine, Fault, SwapIInv, SwapTypeOK
  <2>6. complaint' \in BOOLEAN
    BY Zenon DEF Retire, SwapIInv, SwapTypeOK
  <2> QED  BY <2>1, <2>2, <2>3, <2>4, <2>5, <2>6 DEF SwapTypeOK
<1>2. TransactionInv'
  BY SMT DEF Retire, Proceed, TransactionInv, Forward, Staging, Undoing
<1>3. Durable'
  BY SMT DEF Retire, Fine, Fault, SwapIInv, Durable, AllNew, Retiring, RetireInv
<1>4. Located'
  BY SMT DEF Retire, Proceed, SwapIInv, Located
<1>5. RecoverInv'
  BY SMT DEF Retire, Proceed, RecoverInv, Recovering
<1>6. ForwardInv'
  BY SMT DEF Retire, Proceed, SwapIInv, ForwardInv, Staging, Retiring
<1>7. UndoInv'
  BY SMT DEF Retire, Proceed, UndoInv
<1>8. RetireInv'
  BY SMT DEF Retire, Proceed, SwapIInv, SwapTypeOK, Located, RetireInv, Retiring, AllNew, Retired,
    Unstaged
<1> QED  BY <1>1, <1>2, <1>3, <1>4, <1>5, <1>6, <1>7, <1>8 DEF SwapIInv

LEMMA RetireStageStep == SwapIInv /\ RetireStage => SwapIInv'
<1> SUFFICES ASSUME SwapIInv, RetireStage PROVE SwapIInv'
  OBVIOUS
<1> USE SwapBounds DEF Originals, Marks, Steps
<1>1. SwapTypeOK'
  <2>1. /\ active' \in [Targets -> Originals \cup {"new"}]
        /\ activeMark' \in [Targets -> Marks]
    BY SMT DEF RetireStage, SwapIInv, SwapTypeOK
  <2>2. /\ rollback' \in [Targets -> Originals \cup {"new", "part"}]
        /\ rollbackMark' \in [Targets -> Marks]
    BY SMT DEF RetireStage, SwapIInv, SwapTypeOK
  <2>3. /\ stage' \in [Targets -> {"absent"} \cup Marks] /\ origin' \in [Targets -> Originals]
        /\ before' \in [Targets -> Originals \cup {"new"}]
    BY SMT DEF RetireStage, Volatile, Fine, Fault, Complain, RemoveStage, SwapIInv, SwapTypeOK
  <2>4. /\ backedUp' \subseteq Targets /\ installed' \subseteq Targets
        /\ answer' \in {"none", "done", "uncleaned", "restored", "unrestored", "refused"}
    BY SMT DEF RetireStage, Volatile, Fine, Fault, Complain, RemoveStage, SwapIInv, SwapTypeOK
  <2>5. /\ pc' \in Steps /\ at' \in 0 .. N + 1
        /\ deaths' \in 0 .. MaxDeaths /\ faults' \in 0 .. MaxFaults
    BY SMT DEF RetireStage, Proceed, Fine, Fault, RemoveStage, SwapIInv, SwapTypeOK
  <2>6. complaint' \in BOOLEAN
    BY Zenon DEF RetireStage, Volatile, Complain, RemoveStage, SwapIInv, SwapTypeOK
  <2> QED  BY <2>1, <2>2, <2>3, <2>4, <2>5, <2>6 DEF SwapTypeOK
<1>2. TransactionInv'
  BY SMT DEF RetireStage, Proceed, RemoveStage, TransactionInv, Forward, Staging, Undoing
<1>3. Durable'
  BY SMT DEF RetireStage, Fine, Fault, RemoveStage, SwapIInv, Durable, AllNew, Kept
<1>4. Located'
  BY SMT DEF RetireStage, Proceed, RemoveStage, SwapIInv, Located, Targets
<1>5. RecoverInv'
  BY SMT DEF RetireStage, Proceed, RemoveStage, RecoverInv, Recovering
<1>6. ForwardInv'
  BY SMT DEF RetireStage, Proceed, RemoveStage, SwapIInv, ForwardInv, Staging, Retiring
<1>7. UndoInv'
  BY SMT DEF RetireStage, Proceed, RemoveStage, UndoInv
<1>8. RetireInv'
  BY SMT DEF RetireStage, Proceed, Volatile, Complain, RemoveStage, SwapIInv, SwapTypeOK, Targets,
    RetireInv, Retiring, AllNew, Retired, Unstaged
<1> QED  BY <1>1, <1>2, <1>3, <1>4, <1>5, <1>6, <1>7, <1>8 DEF SwapIInv

LEMMA FinishStep == SwapIInv /\ Finish => SwapIInv'
<1> SUFFICES ASSUME SwapIInv, Finish PROVE SwapIInv'
  OBVIOUS
<1> USE SwapBounds DEF Originals, Marks, Steps
<1>1. SwapTypeOK'
  <2>1. /\ active' \in [Targets -> Originals \cup {"new"}]
        /\ activeMark' \in [Targets -> Marks]
    BY SMT DEF Finish, disk, SwapIInv, SwapTypeOK
  <2>2. /\ rollback' \in [Targets -> Originals \cup {"new", "part"}]
        /\ rollbackMark' \in [Targets -> Marks]
    BY SMT DEF Finish, disk, SwapIInv, SwapTypeOK
  <2>3. /\ stage' \in [Targets -> {"absent"} \cup Marks] /\ origin' \in [Targets -> Originals]
        /\ before' \in [Targets -> Originals \cup {"new"}]
    BY SMT DEF Finish, End, disk, SwapIInv, SwapTypeOK
  <2>4. /\ backedUp' \subseteq Targets /\ installed' \subseteq Targets
        /\ answer' \in {"none", "done", "uncleaned", "restored", "unrestored", "refused"}
    BY SMT DEF Finish, End
  <2>5. /\ pc' \in Steps /\ at' \in 0 .. N + 1
        /\ deaths' \in 0 .. MaxDeaths /\ faults' \in 0 .. MaxFaults
    BY SMT DEF Finish, End, SwapIInv, SwapTypeOK
  <2>6. complaint' \in BOOLEAN
    BY Zenon DEF Finish, End
  <2> QED  BY <2>1, <2>2, <2>3, <2>4, <2>5, <2>6 DEF SwapTypeOK
<1>2. TransactionInv'
  BY SMT DEF Finish, End, TransactionInv, Forward, Staging, Undoing
<1>3. Durable'
  BY SMT DEF Finish, disk, SwapIInv, Durable, AllNew, Kept
<1>4. Located'
  BY SMT DEF Finish, End, Located
<1>5. RecoverInv'
  BY SMT DEF Finish, End, Targets, RecoverInv
<1>6. ForwardInv'
  BY SMT DEF Finish, End, ForwardInv, Forward, Staging, Retiring
<1>7. UndoInv'
  BY SMT DEF Finish, End, UndoInv
<1>8. RetireInv'
  BY SMT DEF Finish, End, RetireInv, Retiring
<1> QED  BY <1>1, <1>2, <1>3, <1>4, <1>5, <1>6, <1>7, <1>8 DEF SwapIInv

LEMMA DieStep == SwapIInv /\ Die => SwapIInv'
<1> SUFFICES ASSUME SwapIInv, Die PROVE SwapIInv'
  OBVIOUS
<1> USE SwapBounds DEF Originals, Marks, Steps
<1>1. SwapTypeOK'
  <2>1. /\ active' \in [Targets -> Originals \cup {"new"}]
        /\ activeMark' \in [Targets -> Marks]
    BY SMT DEF Die, SwapIInv, SwapTypeOK
  <2>2. /\ rollback' \in [Targets -> Originals \cup {"new", "part"}]
        /\ rollbackMark' \in [Targets -> Marks]
    BY SMT DEF Die, SwapIInv, SwapTypeOK
  <2>3. /\ stage' \in [Targets -> {"absent"} \cup Marks] /\ origin' \in [Targets -> Originals]
        /\ before' \in [Targets -> Originals \cup {"new"}]
    BY SMT DEF Die, End, SwapIInv, SwapTypeOK
  <2>4. /\ backedUp' \subseteq Targets /\ installed' \subseteq Targets
        /\ answer' \in {"none", "done", "uncleaned", "restored", "unrestored", "refused"}
    BY SMT DEF Die, End, SwapIInv, SwapTypeOK
  <2>5. /\ pc' \in Steps /\ at' \in 0 .. N + 1
        /\ deaths' \in 0 .. MaxDeaths /\ faults' \in 0 .. MaxFaults
    BY SMT DEF Die, End, SwapIInv, SwapTypeOK
  <2>6. complaint' \in BOOLEAN
    BY Zenon DEF Die, End
  <2> QED  BY <2>1, <2>2, <2>3, <2>4, <2>5, <2>6 DEF SwapTypeOK
<1>2. TransactionInv'
  BY SMT DEF Die, End, TransactionInv, Forward, Staging, Undoing
<1>3. Durable'
  BY SMT DEF Die, SwapIInv, Durable, AllNew, Kept, Retiring, RetireInv
<1>4. Located'
  BY SMT DEF Die, End, Located
<1>5. RecoverInv'
  BY SMT DEF Die, End, Targets, RecoverInv
<1>6. ForwardInv'
  BY SMT DEF Die, End, ForwardInv, Forward, Staging, Retiring
<1>7. UndoInv'
  BY SMT DEF Die, End, UndoInv
<1>8. RetireInv'
  BY SMT DEF Die, End, RetireInv, Retiring
<1> QED  BY <1>1, <1>2, <1>3, <1>4, <1>5, <1>6, <1>7, <1>8 DEF SwapIInv

-----------------------------------------------------------------------------
(* The theorems about the directories.                                     *)

LEMMA SwapInductive == SwapIInv /\ SwapNext => SwapIInv'
  BY BeginStep, RecoverRollbackStep, RecoverMarkStep, RecoverStageStep, RecoveryFailsStep,
    RecoveredStep, StageStep, MarkStageStep, CopyStep, BackupStep, LabelStep, InstallStep,
    VerifyStep, UndoInstallStep, UndoBackupStep, UndoLabelStep, ClearStageStep, RetireStep,
    RetireStageStep, FinishStep, DieStep DEF SwapNext

LEMMA SwapInvHolds == SwapSpec => []SwapIInv
<1>1. SwapInit => SwapIInv
  BY SwapInitial
<1>2. SwapIInv /\ [SwapNext]_swapVars => SwapIInv'
  <2> SUFFICES ASSUME SwapIInv, [SwapNext]_swapVars PROVE SwapIInv'
    OBVIOUS
  <2>1. CASE SwapNext
    BY <2>1, SwapInductive
  <2>2. CASE UNCHANGED swapVars
    BY <2>2 DEF swapVars, disk, mine, SwapIInv, SwapTypeOK, Durable, AllNew, Kept, Located,
      RecoverInv, TransactionInv, Placed, ForwardInv, Away, UndoInv, Untouched, RetireInv,
      Retired, Unstaged
  <2> QED  BY <2>1, <2>2
<1> QED  BY <1>1, <1>2, PTL DEF SwapSpec

\* Directories, markers, stages and the process keep their types, deaths and faults
\* their bounds.
THEOREM SwapTypeCorrect == SwapSpec => []SwapTypeOK
<1>1. SwapIInv => SwapTypeOK
  BY DEF SwapIInv
<1> QED  BY <1>1, SwapInvHolds, PTL

\* Until the release stands at every target, each original is complete, at its target
\* or in its rollback, whatever dies or fails, the recovery included
\* (replaceDirectoriesRollbackSafe, recoverDirectorySwapArtifacts).
THEOREM SwapOriginalKept == SwapSpec => []OriginalKept
<1>1. SwapIInv => OriginalKept
  BY DEF SwapIInv, Durable, AllNew, Kept, OriginalKept
<1> QED  BY <1>1, SwapInvHolds, PTL

\* A runtime that ensureRuntime starts without a recovery, for it is ready and has no
\* artifacts (hasDirectorySwapArtifacts), is the new release, if all its directories
\* existed before.
THEOREM SwapReadyIsWhole == SwapSpec => []ReadyIsWhole
<1>1. SwapIInv => ReadyIsWhole
  <2> SUFFICES ASSUME SwapIInv, Ready, ~Artifacts, \A t \in Targets : origin[t] # "none", ~AllNew
               PROVE  FALSE
    BY DEF ReadyIsWhole, AllNew
  <2>1. PICK t \in Targets : origin[t] # "old"
    BY DEF SwapIInv, Durable
  <2>2. rollback[t] = "none" /\ Kept(t)
    BY DEF SwapIInv, Durable, Artifacts
  <2>3. active[t] = origin[t] /\ origin[t] = "broken"
    BY <2>1, <2>2 DEF Kept, SwapIInv, SwapTypeOK, Originals
  <2> QED  BY <2>3 DEF Ready
<1> QED  BY <1>1, SwapInvHolds, PTL

\* An error that says the originals were restored has restored them all and left no
\* rollback; a swap that succeeds has replaced them all and left no artifact
\* (restoreTransaction and the end of replaceDirectoriesRollbackSafe).
THEOREM SwapAnswersAreTrue == SwapSpec => AnswersAreTrue
<1> DEFINE Says ==
      CASE answer' = "restored" -> active = before /\ \A t \in Targets : rollback[t] = "none"
        [] answer' = "done" -> ~Artifacts /\ \A t \in Targets : active[t] = "new"
        [] OTHER -> TRUE
<1>1. SwapIInv /\ Finish => Says
  <2> SUFFICES ASSUME SwapIInv, Finish PROVE Says
    OBVIOUS
  <2>1. CASE answer' = "restored"
    <3>1. pc = "throw" /\ ~complaint
      BY <2>1 DEF Finish, End
    <3>2. \A t \in Targets : active[t] = before[t] /\ rollback[t] = "none"
      BY <3>1 DEF SwapIInv, UndoInv, Untouched, TransactionInv, Placed, Undoing
    <3>3. active = before
      BY <3>2 DEF SwapIInv, SwapTypeOK
    <3> QED  BY <2>1, <3>2, <3>3
  <2>2. CASE answer' = "done"
    <3>1. pc = "finish" /\ ~complaint
      BY <2>2 DEF Finish, End
    <3>2. AllNew /\ ~Artifacts
      BY <3>1 DEF SwapIInv, RetireInv, Retired, Unstaged, ForwardInv, Retiring, Artifacts
    <3> QED  BY <2>2, <3>2 DEF AllNew
  <2> QED  BY <2>1, <2>2
<1>2. SwapIInv => [Finish => Says]_swapVars
  BY <1>1
<1> QED  BY <1>2, SwapInvHolds, PTL DEF AnswersAreTrue
=============================================================================
