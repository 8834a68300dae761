------------------------- MODULE SessionMutationLock -------------------------
(***************************************************************************)
(* The session mutation lock of lib/session-mutation-lock.ts: a lock FILE  *)
(* created with O_EXCL ("wx"), and a chain of recovery claim files through *)
(* which the survivors of a crash agree on who may remove a dead owner's   *)
(* lock.  Every file-system call is a step of its own; between two of them *)
(* any process may run, and any process may die.                           *)
(*                                                                         *)
(* A token stands for both UUIDs an attempt draws (the lock record's and   *)
(* the recovery record's): lock files are only ever compared with the      *)
(* former, claim files with the latter.                                    *)
(***************************************************************************)
EXTENDS Naturals, FiniteSets, SequencesExt

CONSTANTS
  Proc,        \* processes; a process is its pid
  Token,       \* the UUIDs, recycled once nothing on disk or in memory holds them
  NoToken,     \* the empty parent token of the first recovery claim
  MaxDepth,    \* MAX_RECOVERY_DEPTH
  MaxCrashes,  \* bound: processes that die
  MaxFaults    \* bound: I/O errors and reused pids

ASSUME NoTokenAssumption == NoToken \notin Token
ASSUME BoundsAssumption == MaxDepth \in Nat /\ MaxCrashes \in Nat /\ MaxFaults \in Nat

VARIABLES
  lock,        \* the lock file
  claim,       \* the recovery claim files, by (dead owner's token, parent token)
  pc,          \* the next file-system call of a process
  tok,         \* the token of its attempt
  owner,       \* the token of the dead owner it is recovering from
  claims,      \* the claims it has walked or created (RecoveryClaim[])
  won,         \* it has created the lock file during a recovery
  alive,       \* the pids that kill(pid, 0) finds
  crashes, faults

vars == <<lock, claim, pc, tok, owner, claims, won, alive, crashes, faults>>
locals == <<tok, owner, claims, won>>
env == <<alive, crashes, faults>>

-----------------------------------------------------------------------------
(* Files.  A file opened with "wx" is empty until its record is written:    *)
(* readLock finds no record in it.                                          *)

NoFile == [token |-> NoToken, written |-> FALSE]
File == [token : Token, pid : Proc, written : BOOLEAN] \cup {NoFile}

Unwritten(p) == [token |-> tok[p], pid |-> p, written |-> FALSE]
Record(p) == [Unwritten(p) EXCEPT !.written = TRUE]

\* The write goes to the inode the handle is open on: a file that replaced it
\* in the meantime is not touched.
Write(file, p) == IF file = Unwritten(p) THEN Record(p) ELSE file

\* Mutant: every error of kill(pid, 0), EPERM too, is read as death.
IsDeadOnAnyError(pid) == TRUE

IsDead(pid) == pid \notin alive
ReadableDead(file) == file.written /\ IsDead(file.pid)

Claim == [parent : Token \cup {NoToken}, token : Token]

\* The claims are walked from the lock downwards: each path hashes the dead
\* owner's token and the token found in the claim above.
Parent(cs) == IF cs = <<>> THEN NoToken ELSE Last(cs).token
ClaimPath(p) == <<owner[p], Parent(claims[p])>>
LastClaim(p) == Last(claims[p])
LastPath(p) == <<owner[p], LastClaim(p).parent>>

\* Tokens some file or some process still holds.
TokensOf(cs) == {cs[i].token : i \in 1 .. Len(cs)} \cup {cs[i].parent : i \in 1 .. Len(cs)}
HeldBy(p) == {tok[p], owner[p]} \cup TokensOf(claims[p])
NamedBy(path) == {path[1], path[2], claim[path].token}
OnDisk ==
  {lock.token} \cup UNION {NamedBy(path) : path \in {q \in DOMAIN claim : claim[q] # NoFile}}
InMemory == UNION {HeldBy(p) : p \in Proc}

-----------------------------------------------------------------------------
Init ==
  /\ lock = NoFile
  /\ claim = [path \in Token \X (Token \cup {NoToken}) |-> NoFile]
  /\ pc = [p \in Proc |-> "idle"]
  /\ tok = [p \in Proc |-> NoToken]
  /\ owner = [p \in Proc |-> NoToken]
  /\ claims = [p \in Proc |-> <<>>]
  /\ won = [p \in Proc |-> FALSE]
  /\ alive = Proc
  /\ crashes = 0
  /\ faults = 0

Goto(p, label) == pc' = [pc EXCEPT ![p] = label]

\* An attempt ends, by return or by throw, and forgets its variables.
Leave(p) ==
  /\ Goto(p, "idle")
  /\ tok' = [tok EXCEPT ![p] = NoToken]
  /\ owner' = [owner EXCEPT ![p] = NoToken]
  /\ claims' = [claims EXCEPT ![p] = <<>>]
  /\ won' = [won EXCEPT ![p] = FALSE]

-----------------------------------------------------------------------------
(* withSessionMutationLock and the fast path of acquire.                    *)

Start(p) ==
  /\ pc[p] = "idle"
  /\ \E t \in Token \ (OnDisk \cup InMemory) : tok' = [tok EXCEPT ![p] = t]
  /\ Goto(p, "open")
  /\ UNCHANGED <<lock, claim, owner, claims, won, env>>

Open(p) ==
  /\ pc[p] = "open"
  /\ \/ /\ lock = NoFile
        /\ lock' = Unwritten(p)
        /\ Goto(p, "write")
     \/ /\ lock # NoFile
        /\ Goto(p, "read")
        /\ UNCHANGED lock
  /\ UNCHANGED <<claim, locals, env>>

WriteRecord(p) ==
  /\ pc[p] = "write"
  /\ lock' = Write(lock, p)
  /\ Goto(p, "critical")
  /\ UNCHANGED <<claim, locals, env>>

\* No record, or a live owner: the command is refused.
ReadOwner(p) ==
  /\ pc[p] = "read"
  /\ \/ /\ ReadableDead(lock)
        /\ owner' = [owner EXCEPT ![p] = lock.token]
        /\ Goto(p, "claim")
        /\ UNCHANGED <<tok, claims, won>>
     \/ /\ ~ReadableDead(lock)
        /\ Leave(p)
  /\ UNCHANGED <<lock, claim, env>>

-----------------------------------------------------------------------------
(* acquireRecoveryAuthority: walk past the claims of dead recoverers to the *)
(* first free claim.  A refusal here leaves no claim of this process.       *)

CreateClaim(p) ==
  /\ pc[p] = "claim"
  /\ \/ /\ Len(claims[p]) = MaxDepth
        /\ Leave(p)
        /\ UNCHANGED claim
     \/ /\ Len(claims[p]) < MaxDepth
        /\ claim[ClaimPath(p)] = NoFile
        /\ claim' = [claim EXCEPT ![ClaimPath(p)] = Unwritten(p)]
        /\ Goto(p, "writeClaim")
        /\ UNCHANGED locals
     \/ /\ Len(claims[p]) < MaxDepth
        /\ claim[ClaimPath(p)] # NoFile
        /\ Goto(p, "readClaim")
        /\ UNCHANGED <<claim, locals>>
  /\ UNCHANGED <<lock, env>>

Push(p, t) ==
  claims' = [claims EXCEPT ![p] = Append(@, [parent |-> Parent(@), token |-> t])]

WriteClaim(p) ==
  /\ pc[p] = "writeClaim"
  /\ claim' = [claim EXCEPT ![ClaimPath(p)] = Write(@, p)]
  /\ Push(p, tok[p])
  /\ Goto(p, "confirm")
  /\ UNCHANGED <<lock, tok, owner, won, env>>

\* Mutant: a claim is walked past without asking whether its owner is dead.
ReadClaimBlind(p) ==
  /\ pc[p] = "readClaim"
  /\ IF claim[ClaimPath(p)].written
       THEN Push(p, claim[ClaimPath(p)].token) /\ Goto(p, "claim") /\ UNCHANGED <<tok, owner, won>>
       ELSE Leave(p)
  /\ UNCHANGED <<lock, claim, env>>

\* Mutant: any claim on disk refuses the recovery, a dead recoverer's too.
ReadClaimRefusesAll(p) ==
  /\ pc[p] = "readClaim"
  /\ Leave(p)
  /\ UNCHANGED <<lock, claim, env>>

ReadClaim(p) ==
  /\ pc[p] = "readClaim"
  /\ \/ /\ ReadableDead(claim[ClaimPath(p)])
        /\ Push(p, claim[ClaimPath(p)].token)
        /\ Goto(p, "claim")
        /\ UNCHANGED <<tok, owner, won>>
     \/ /\ ~ReadableDead(claim[ClaimPath(p)])
        /\ Leave(p)
  /\ UNCHANGED <<lock, claim, env>>

-----------------------------------------------------------------------------
(* The recovery itself: confirm the dead owner, replace its file, and in    *)
(* every case drop the claims, the newest first.                            *)

\* Mutant: the lock file is not read again under the claim.
ConfirmBlind(p) ==
  /\ pc[p] = "confirm"
  /\ Goto(p, "unlink")
  /\ UNCHANGED <<lock, claim, locals, env>>

Confirm(p) ==
  /\ pc[p] = "confirm"
  /\ IF ReadableDead(lock) /\ lock.token = owner[p]
       THEN Goto(p, "unlink")
       ELSE Goto(p, "drop")
  /\ UNCHANGED <<lock, claim, locals, env>>

Unlink(p) ==
  /\ pc[p] = "unlink"
  /\ lock' = NoFile
  /\ Goto(p, IF lock = NoFile THEN "drop" ELSE "recreate")
  /\ UNCHANGED <<claim, locals, env>>

Recreate(p) ==
  /\ pc[p] = "recreate"
  /\ \/ /\ lock = NoFile
        /\ lock' = Unwritten(p)
        /\ Goto(p, "rewrite")
     \/ /\ lock # NoFile
        /\ Goto(p, "drop")
        /\ UNCHANGED lock
  /\ UNCHANGED <<claim, locals, env>>

\* Mutant: the recovered lock is used at once, the claims are never dropped.
RewriteKeepsClaims(p) ==
  /\ pc[p] = "rewrite"
  /\ lock' = Write(lock, p)
  /\ won' = [won EXCEPT ![p] = TRUE]
  /\ Goto(p, "critical")
  /\ UNCHANGED <<claim, tok, owner, claims, env>>

Rewrite(p) ==
  /\ pc[p] = "rewrite"
  /\ lock' = Write(lock, p)
  /\ won' = [won EXCEPT ![p] = TRUE]
  /\ Goto(p, "drop")
  /\ UNCHANGED <<claim, tok, owner, claims, env>>

\* releaseRecoveryClaims: release reads each claim and, if it is still the
\* one walked, unlinks it (next step).
DropClaim(p) ==
  /\ pc[p] = "drop"
  /\ claims[p] # <<>>
  /\ LET file == claim[LastPath(p)] IN
     \/ /\ file.written /\ file.token = LastClaim(p).token
        /\ Goto(p, "unlinkClaim")
        /\ UNCHANGED claims
     \/ /\ ~(file.written /\ file.token = LastClaim(p).token)
        /\ claims' = [claims EXCEPT ![p] = Front(@)]
        /\ UNCHANGED pc
  /\ UNCHANGED <<lock, claim, tok, owner, won, env>>

UnlinkClaim(p) ==
  /\ pc[p] = "unlinkClaim"
  /\ claim' = [claim EXCEPT ![LastPath(p)] = NoFile]
  /\ claims' = [claims EXCEPT ![p] = Front(@)]
  /\ Goto(p, "drop")
  /\ UNCHANGED <<lock, tok, owner, won, env>>

Recovered(p) ==
  /\ pc[p] = "drop"
  /\ claims[p] = <<>>
  /\ \/ /\ won[p]
        /\ Goto(p, "critical")
        /\ UNCHANGED locals
     \/ /\ ~won[p]
        /\ Leave(p)
  /\ UNCHANGED <<lock, claim, env>>

-----------------------------------------------------------------------------
(* The end of the command: release reads the lock file, then unlinks it.    *)

Release(p) ==
  /\ pc[p] = "critical"
  /\ IF lock.written /\ lock.token = tok[p]
       THEN Goto(p, "release") /\ UNCHANGED locals
       ELSE Leave(p)
  /\ UNCHANGED <<lock, claim, env>>

ReleaseUnlink(p) ==
  /\ pc[p] = "release"
  /\ lock' = NoFile
  /\ Leave(p)
  /\ UNCHANGED <<claim, env>>

-----------------------------------------------------------------------------
(* The environment.                                                         *)

\* A process dies between any two of its calls.
Crash(p) ==
  /\ pc[p] # "dead"
  /\ crashes < MaxCrashes
  /\ crashes' = crashes + 1
  /\ alive' = alive \ {p}
  /\ pc' = [pc EXCEPT ![p] = "dead"]
  /\ tok' = [tok EXCEPT ![p] = NoToken]
  /\ owner' = [owner EXCEPT ![p] = NoToken]
  /\ claims' = [claims EXCEPT ![p] = <<>>]
  /\ won' = [won EXCEPT ![p] = FALSE]
  /\ UNCHANGED <<lock, claim, faults>>

Fault ==
  /\ faults < MaxFaults
  /\ faults' = faults + 1
  /\ UNCHANGED <<alive, crashes>>

\* A pid is given to an unrelated process.
PidReuse(p) ==
  /\ faults < MaxFaults
  /\ faults' = faults + 1
  /\ p \notin alive
  /\ alive' = alive \cup {p}
  /\ UNCHANGED <<lock, claim, pc, locals, crashes>>

\* readLock answers null for any error of the read.
ReadFault(p) ==
  /\ Fault
  /\ \/ /\ pc[p] \in {"read", "readClaim", "critical"}
        /\ Leave(p)
     \/ /\ pc[p] = "confirm"
        /\ Goto(p, "drop")
        /\ UNCHANGED locals
     \/ /\ pc[p] = "drop" /\ claims[p] # <<>>
        /\ claims' = [claims EXCEPT ![p] = Front(@)]
        /\ UNCHANGED <<pc, tok, owner, won>>
  /\ UNCHANGED <<lock, claim>>

\* createLock cannot write its record: it unlinks the path and throws.
WriteFault(p) ==
  /\ Fault
  /\ \/ /\ pc[p] = "write"
        /\ lock' = NoFile
        /\ Leave(p)
        /\ UNCHANGED claim
     \/ /\ pc[p] = "rewrite"
        /\ lock' = NoFile
        /\ Goto(p, "drop")
        /\ UNCHANGED <<claim, locals>>
     \/ /\ pc[p] = "writeClaim"
        /\ claim' = [claim EXCEPT ![ClaimPath(p)] = NoFile]
        /\ Leave(p)
        /\ UNCHANGED lock

\* unlink fails with something other than ENOENT and the error is thrown.
UnlinkFault(p) ==
  /\ Fault
  /\ \/ /\ pc[p] = "unlink"
        /\ Goto(p, "drop")
        /\ UNCHANGED locals
     \/ /\ pc[p] \in {"unlinkClaim", "release"}
        /\ Leave(p)
  /\ UNCHANGED <<lock, claim>>

-----------------------------------------------------------------------------
Step(p) ==
  \/ Start(p) \/ Open(p) \/ WriteRecord(p) \/ ReadOwner(p)
  \/ CreateClaim(p) \/ WriteClaim(p) \/ ReadClaim(p)
  \/ Confirm(p) \/ Unlink(p) \/ Recreate(p) \/ Rewrite(p)
  \/ DropClaim(p) \/ UnlinkClaim(p) \/ Recovered(p)
  \/ Release(p) \/ ReleaseUnlink(p)

Next == \E p \in Proc : Step(p) \/ Crash(p)

FaultyNext ==
  Next \/ \E p \in Proc : PidReuse(p) \/ ReadFault(p) \/ WriteFault(p) \/ UnlinkFault(p)

Spec == Init /\ [][Next]_vars

\* A process that runs takes its next step; refused commands are run again.
Fairness == \A p \in Proc : WF_vars(Step(p))

-----------------------------------------------------------------------------
Labels ==
  {"idle", "open", "write", "read", "claim", "writeClaim", "readClaim", "confirm",
   "unlink", "recreate", "rewrite", "drop", "unlinkClaim", "critical", "release", "dead"}

\* The shape of the lock's state: what each file and each process may hold.
TypeOK ==
  /\ lock \in File
  /\ claim \in [Token \X (Token \cup {NoToken}) -> File]
  /\ pc \in [Proc -> Labels]
  /\ tok \in [Proc -> Token \cup {NoToken}]
  /\ owner \in [Proc -> Token \cup {NoToken}]
  /\ claims \in [Proc -> Seq(Claim)]
  /\ \A p \in Proc : Len(claims[p]) <= MaxDepth
  /\ won \in [Proc -> BOOLEAN]
  /\ alive \in SUBSET Proc
  /\ crashes \in 0 .. MaxCrashes
  /\ faults \in 0 .. MaxFaults

\* No call has failed and no pid was used again: what deaths alone can do.
Quiet == faults = 0

\* A command runs under the lock.
Holds(p) == pc[p] \in {"critical", "release"}

\* Two commands never run under the lock of one session at once, whatever the
\* order in which survivors read, claim, unlink and recreate a dead owner's file.
MutualExclusion == \A p, q \in Proc : Holds(p) /\ Holds(q) => p = q

\* While a command runs, the lock file is its own record: no recovery removed or
\* replaced it (otherwise the next command would start beside it).
HolderOwnsFile == \A p \in Proc : Holds(p) => lock = Record(p)

\* A lock file that a recovery is about to unlink belongs to a dead process, and
\* no other process is about to unlink it too (the claims elect one recoverer).
OneRecoverer ==
  Quiet => \A p \in Proc : pc[p] = "unlink" =>
    /\ ReadableDead(lock) /\ lock.token = owner[p]
    /\ \A q \in Proc : pc[q] = "unlink" => q = p

\* A claim file of a live process has that process on its way to drop it: no
\* live process leaves behind a claim that would refuse every later recovery.
Recovering(p) ==
  pc[p] \in {"writeClaim", "confirm", "unlink", "recreate", "rewrite", "drop", "unlinkClaim"}
NoAbandonedClaim ==
  \A path \in DOMAIN claim :
    LET file == claim[path] IN
      Quiet /\ file # NoFile /\ file.pid \in alive =>
        Recovering(file.pid) /\ tok[file.pid] = file.token /\ owner[file.pid] = path[1]

\* The lock file of a live process leaves the disk only by that process's own
\* step: nothing but a finished command or a death ever frees the session.
LiveLockStays ==
  [][\A p \in Proc :
       Quiet' /\ lock # NoFile /\ lock.pid = p /\ p \in alive /\ lock'.token # lock.token
         => pc[p] = "release"]_vars

\* A lock left by a dead process is eventually gone, unless a process died
\* between creating a file and writing its record (such a file names no owner).
Orphan(file) == file # NoFile /\ ~file.written /\ file.pid \notin alive
NoOrphan == ~Orphan(lock) /\ \A path \in DOMAIN claim : ~Orphan(claim[path])
StaleLockReclaimed ==
  \A t \in Token : (lock.token = t /\ ReadableDead(lock)) ~> (lock.token # t \/ ~NoOrphan \/ ~Quiet)
=============================================================================
