-------------------------- MODULE LogTransactionProofs --------------------------
(***************************************************************************)
(* The log command keeps its promises for any number of runs, deaths and   *)
(* changes of the user: TypeOK and the safety properties of LogTransaction,*)
(* and that it implements ExactlyOnceLog.                                  *)
(***************************************************************************)
EXTENDS LogTransaction, SequenceTheorems, TLAPS

Working == Labels \ {"idle", "prepare", "writeReceipt"}
Committing == {"commit", "branch", "candidate", "lockHead", "advance", "unlockHead", "lockIndex",
               "install", "record", "verifyCommit"}
Recording  == {"ledger", "truncate", "append", "verifyLedger"}
Restoring  == {"tracked", "restoreIndex", "checkWork", "restoreWork", "verifyTracked"}
Cleaning   == {"untracked", "clean", "verifyUntracked"}
Closing    == {"packet", "checkpointPacket", "finish", "verifyAll", "clear"}

\* What history h and ledger l can hold of the run of receipt r, when n runs
\* have begun: for a keep one commit, on the receipt's head, and of one event,
\* behind the receipt's prefix, a beginning.
Made(h, l, n, r) ==
  /\ r.run \in 1 .. n
  /\ Keeps(r) => r.tree = r.run
  /\ r.head \in 1 .. Len(h)
  /\ r.kind = "import" => r.oid = r.head /\ h[r.oid].tree = r.run
  /\ r.kind = "keep" /\ r.oid # 0 => r.oid = r.head + 1 /\ r.oid \in 1 .. Len(h) /\ h[r.oid].by = r.run
  /\ \A i \in 1 .. Len(h) : h[i].by = r.run => r.kind = "keep" /\ i = r.head + 1
  /\ r.prefix <= Len(l)
  /\ \A i \in 1 .. Len(l) : l[i].run = r.run =>
       /\ i > r.prefix /\ i = r.prefix + l[i].part
       /\ l[i].commit = r.commit
       /\ Keeps(r) => "commit" \in r.done

\* Every stage receipt r calls complete has been carried out, in its order.
Honest(l, p, r) ==
  /\ "commit" \in r.done => Keeps(r) /\ r.oid # 0 /\ r.commit = r.oid
  /\ "ledger" \in r.done =>
       /\ Keeps(r) => "commit" \in r.done
       /\ \A k \in 1 .. Chunks :
            r.prefix + k <= Len(l) /\ l[r.prefix + k] = [run |-> r.run, part |-> k, commit |-> r.commit]
  /\ "packet" \in r.done =>
       "ledger" \in r.done /\ p = NoPacket /\ (~Keeps(r) => {"tracked", "untracked"} \subseteq r.done)
  /\ "done" \in r.done => "packet" \in r.done
  /\ r.status = "done" => "done" \in r.done

Good(r) == Made(history, ledger, runs, r) /\ Honest(ledger, packet, r)

Logged(l, x) == \E k \in 1 .. Len(l) : l[k].run = x /\ l[k].part = Chunks

\* Runs that are over: their commits are the evaluated candidates, each with its
\* event, which names it; and of the run of the packet there is nothing yet.
PastInv ==
  /\ \A i \in 1 .. Len(history) : history[i].by # Foreign =>
       /\ history[i].by <= runs /\ history[i].tree = history[i].by
       /\ history[i].by = receipt.run \/ Logged(ledger, history[i].by)
       /\ \A k \in 1 .. Len(ledger) : ledger[k].run = history[i].by => ledger[k].commit = i
  /\ \A k \in 1 .. Len(ledger) : ledger[k].run <= runs
  /\ packet # NoPacket => packet.run \in 1 .. runs
  /\ receipt = NoReceipt /\ packet # NoPacket =>
       /\ \A i \in 1 .. Len(history) : history[i].by # packet.run
       /\ \A k \in 1 .. Len(ledger) : ledger[k].run # packet.run

\* The command's copy is the receipt on disk, but for a commit it has just made.
Link ==
  /\ mem.run = receipt.run /\ mem.kind = receipt.kind /\ mem.head = receipt.head
  /\ mem.prefix = receipt.prefix /\ mem.commit = receipt.commit /\ mem.done = receipt.done

ReceiptInv ==
  /\ receipt # NoReceipt => Good(receipt)
  /\ pc = "idle" => mem = NoReceipt
  /\ pc \in {"prepare", "writeReceipt"} =>
       receipt = NoReceipt /\ packet # NoPacket /\ mem.run = packet.run /\ mem.done = {} /\ mem.status = "pending"
  /\ pc = "writeReceipt" => Good(mem)
  /\ pc \in Working => receipt # NoReceipt /\ Link /\ Good(mem)

\* What the command knows of its stage.
StageInv ==
  /\ pc \in Committing => Keeps(mem)
  /\ pc \in Committing \ {"commit"} => "commit" \notin mem.done
  /\ pc \in {"candidate", "lockHead", "advance", "unlockHead", "lockIndex", "install", "record"} => mem.kind = "keep"
  /\ pc = "unlockHead" => HeadOid = mem.head + 1 /\ history[HeadOid].by = mem.run
  /\ pc \in Working \ Committing => (Keeps(mem) => "commit" \in mem.done)
  /\ pc \in {"truncate", "append"} => "ledger" \notin mem.done
  /\ pc = "truncate" =>
       /\ Len(ledger) < mem.prefix + Chunks
       /\ \A i \in mem.prefix + 1 .. Len(ledger) : ledger[i].run = mem.run
  /\ pc = "append" => Len(ledger) = mem.prefix + written
  /\ pc # "append" => written = 0
  /\ pc \in Restoring \cup Cleaning \cup Closing => "ledger" \in mem.done
  /\ pc \in Restoring \cup Cleaning => ~Keeps(mem)
  /\ pc \in Cleaning => failed \/ "tracked" \in mem.done
  /\ pc \notin Cleaning => ~failed
  /\ pc \in Closing => (~Keeps(mem) => {"tracked", "untracked"} \subseteq mem.done)
  /\ pc = "checkpointPacket" => packet = NoPacket
  /\ pc \in {"finish", "verifyAll", "clear"} => "packet" \in mem.done
  /\ pc \in {"verifyAll", "clear"} => "done" \in mem.done

\* What a restore is about to replace is what the receipt was prepared with,
\* unless the user has come in between.
WindowInv ==
  /\ pc = "restoreIndex" => late \/ HeadOid # mem.head \/ index = mem.index
  /\ pc = "restoreWork" => late \/ HeadOid # mem.head \/ work \in {HeadTree, mem.work}
  /\ pc = "clean" => late \/ extra = mem.extra

IInv == TypeOK /\ PastInv /\ ReceiptInv /\ StageInv /\ WindowInv

-----------------------------------------------------------------------------
(* Receipts.                                                               *)

Failed(r) == [r EXCEPT !.status = "failed"]

\* What two receipts of a run share.
Alike(q, r) ==
  /\ q.run = r.run /\ q.kind = r.kind /\ q.head = r.head /\ q.tree = r.tree /\ q.index = r.index
  /\ q.work = r.work /\ q.extra = r.extra /\ q.prefix = r.prefix
  /\ q.tracked = r.tracked /\ q.untracked = r.untracked

LEMMA CompletePart ==
  ASSUME NEW r \in Receipt, NEW stage \in Stages
  PROVE  /\ Complete(r, stage) \in Receipt /\ Alike(Complete(r, stage), r)
         /\ Complete(r, stage).done = r.done \cup {stage} /\ Complete(r, stage).status = "pending"
         /\ Complete(r, stage).oid = r.oid /\ Complete(r, stage).commit = r.commit
<1>1. r.done \cup {stage} \in SUBSET Stages
  BY DEF Receipt
<1> QED
  BY <1>1 DEF Complete, Receipt, Alike

LEMMA FailedPart ==
  ASSUME NEW r \in Receipt
  PROVE  /\ Failed(r) \in Receipt /\ Alike(Failed(r), r) /\ Failed(r).done = r.done
         /\ Failed(r).status = "failed" /\ Failed(r).oid = r.oid /\ Failed(r).commit = r.commit
BY DEF Failed, Receipt, Alike

LEMMA OidPart ==
  ASSUME NEW r \in Receipt, NEW oid \in Nat
  PROVE  LET q == [r EXCEPT !.oid = oid] IN
         /\ q \in Receipt /\ Alike(q, r) /\ q.done = r.done /\ q.status = r.status
         /\ q.oid = oid /\ q.commit = r.commit
BY DEF Receipt, Alike

LEMMA CommitPart ==
  ASSUME NEW r \in Receipt, NEW oid \in Nat
  PROVE  LET q == [r EXCEPT !.commit = oid] IN
         /\ q \in Receipt /\ Alike(q, r) /\ q.done = r.done /\ q.status = r.status
         /\ q.oid = r.oid /\ q.commit = oid
BY DEF Receipt, Alike

LEMMA NoReceiptPart ==
  /\ NoReceipt \in Receipt /\ NoReceipt.run = 0 /\ NoReceipt.done = {} /\ NoReceipt.status = "pending"
  /\ NoReceipt.kind = "measure" /\ NoReceipt.oid = 0 /\ NoPacket \in Packet /\ NoPacket.run = 0
<1>1. {} \in SUBSET Stages /\ 0 \in 0 .. MaxRuns /\ 0 \in Content
  BY BoundsAssumption DEF Content
<1> QED
  BY <1>1 DEF NoReceipt, Receipt, NoPacket, Packet, Kinds

-----------------------------------------------------------------------------
(* Types.                                                                  *)

FilesType == /\ history \in Seq(Commit) /\ history # <<>>
             /\ index \in Content /\ work \in Content /\ extra \in Content
             /\ ledger \in Seq(Chunk) /\ packet \in Packet
LocksType == /\ headLock \in {"free", "log", "git", "dead"} /\ indexLock \in {"free", "log", "git", "dead"}
             /\ headLock = "log" <=> pc \in {"advance", "unlockHead"}
             /\ indexLock = "log" <=> pc = "install"
CommandType == /\ receipt \in Receipt /\ mem \in Receipt /\ pc \in Labels
               /\ written \in 0 .. Chunks - 1 /\ failed \in BOOLEAN
EnvType == /\ late \in BOOLEAN /\ runs \in 0 .. MaxRuns /\ faults \in 0 .. MaxFaults
           /\ gits \in 0 .. MaxGits /\ crashes \in 0 .. MaxCrashes

LEMMA Types == TypeOK <=> FilesType /\ LocksType /\ CommandType /\ EnvType
BY DEF TypeOK, FilesType, LocksType, CommandType, EnvType

LEMMA TypesPrimed == FilesType' /\ LocksType' /\ CommandType' /\ EnvType' => TypeOK'
BY DEF TypeOK, FilesType, LocksType, CommandType, EnvType

LEMMA HeadType ==
  ASSUME FilesType
  PROVE  /\ HeadOid \in Nat \ {0} /\ HeadTree \in Content /\ Len(ledger) \in Nat
         /\ \A i \in 1 .. Len(history) : history[i] \in Commit
         /\ \A i \in 1 .. Len(ledger) : ledger[i] \in Chunk
<1>1. HeadOid \in Nat \ {0} /\ Len(ledger) \in Nat
  BY DEF FilesType, HeadOid
<1>2. /\ \A i \in 1 .. Len(history) : history[i] \in Commit
      /\ \A i \in 1 .. Len(ledger) : ledger[i] \in Chunk
  BY DEF FilesType
<1>3. history[HeadOid] \in Commit
  BY <1>1, <1>2 DEF HeadOid
<1> QED
  BY <1>1, <1>2, <1>3 DEF HeadTree, Commit

LEMMA InitType == Init => TypeOK
<1> SUFFICES ASSUME Init PROVE TypeOK
  OBVIOUS
<1>1. 0 \in Content /\ 0 \in 0 .. MaxRuns /\ 0 \in 0 .. MaxFaults /\ 0 \in 0 .. MaxGits
      /\ 0 \in 0 .. MaxCrashes /\ 0 \in 0 .. Chunks - 1
  BY BoundsAssumption DEF Content
<1>2. [by |-> Foreign, tree |-> 0] \in Commit
  BY <1>1 DEF Commit, Foreign
<1>3. FilesType
  BY <1>1, <1>2, NoReceiptPart DEF Init, FilesType
<1>4. LocksType /\ CommandType /\ EnvType
  BY <1>1, NoReceiptPart DEF Init, LocksType, CommandType, EnvType, Labels
<1> QED
  BY <1>3, <1>4, Types

\* The ways a step of the command moves on.
LEMMA ContinueType ==
  ASSUME CommandType, NEW label \in Labels, Continue(label)
  PROVE  CommandType' /\ pc' = label
BY DEF Continue, Goto, CommandType

LEMMA SaveType ==
  ASSUME CommandType, NEW label \in Labels, NEW r \in Receipt, Save(r, label)
  PROVE  CommandType' /\ pc' = label
BY DEF Save, Goto, CommandType

LEMMA ReturnType ==
  ASSUME CommandType, Return, receipt' \in Receipt
  PROVE  CommandType' /\ pc' = "idle"
<1>1. 0 \in 0 .. Chunks - 1 /\ "idle" \in Labels
  BY BoundsAssumption DEF Labels
<1> QED
  BY <1>1, NoReceiptPart DEF Return, CommandType

LEMMA ThrowType ==
  ASSUME CommandType, NEW r \in Receipt, Throw(r)
  PROVE  CommandType' /\ pc' = "idle" /\ receipt' = Failed(r)
<1>1. receipt' = Failed(r) /\ Return
  BY DEF Throw, Failed
<1> QED
  BY <1>1, FailedPart, ReturnType

LEMMA TrackedFailsType ==
  ASSUME CommandType, TrackedFails(mem)
  PROVE  CommandType' /\ pc' = "untracked" /\ mem' = Failed(mem) /\ receipt' = Failed(mem)
<1>1. "untracked" \in Labels /\ mem' = Failed(mem) /\ receipt' = Failed(mem)
  BY DEF Labels, TrackedFails, Failed
<1>2. mem \in Receipt
  BY DEF CommandType
<1> QED
  BY <1>1, <1>2, FailedPart DEF TrackedFails, CommandType

\* A step that leaves the files and the environment alone, between places where
\* the command holds no Git lock.
Unlocked == Labels \ {"advance", "unlockHead", "install"}

LEMMA QuietType ==
  ASSUME TypeOK, UNCHANGED <<files, env>>, CommandType', pc \in Unlocked, pc' \in Unlocked
  PROVE  TypeOK' /\ FilesType' /\ LocksType' /\ EnvType'
<1>1. FilesType' /\ EnvType'
  BY Types DEF files, git, env, FilesType, EnvType
<1>2. LocksType'
  BY Types DEF files, git, LocksType, Unlocked
<1> QED
  BY <1>1, <1>2, TypesPrimed

-----------------------------------------------------------------------------
(* What a run has made, under changes of its receipt and of the files.     *)

LEMMA AlikeMade ==
  ASSUME NEW h, NEW l, NEW n, NEW q, NEW r, Made(h, l, n, r), Alike(q, r),
         q.oid = r.oid, q.commit = r.commit, r.done \subseteq q.done
  PROVE  Made(h, l, n, q)
BY DEF Made, Alike, Keeps

LEMMA FailedGood ==
  ASSUME NEW h, NEW l, NEW n, NEW p, NEW r \in Receipt, Made(h, l, n, r), Honest(l, p, r)
  PROVE  Made(h, l, n, Failed(r)) /\ Honest(l, p, Failed(r))
<1>1. Made(h, l, n, Failed(r))
  BY FailedPart, AlikeMade
<1>2. Honest(l, p, Failed(r))
  BY FailedPart DEF Honest, Alike, Keeps
<1> QED
  BY <1>1, <1>2

LEMMA CompleteMade ==
  ASSUME NEW h, NEW l, NEW n, NEW r \in Receipt, NEW stage \in Stages, Made(h, l, n, r)
  PROVE  Made(h, l, n, Complete(r, stage))
BY CompletePart, AlikeMade

\* The receipt names the commit it has made.
LEMMA OidGood ==
  ASSUME NEW h, NEW l, NEW n, NEW p, NEW r \in Receipt, Made(h, l, n, r), Honest(l, p, r),
         r.kind = "keep", "commit" \notin r.done, NEW oid \in Nat,
         oid = r.head + 1, oid \in 1 .. Len(h), h[oid].by = r.run
  PROVE  Made(h, l, n, [r EXCEPT !.oid = oid]) /\ Honest(l, p, [r EXCEPT !.oid = oid])
<1> DEFINE q == [r EXCEPT !.oid = oid]
<1>1. Alike(q, r) /\ q.done = r.done /\ q.status = r.status /\ q.oid = oid /\ q.commit = r.commit
  BY OidPart
<1> HIDE DEF q
<1>2. Made(h, l, n, q)
  BY <1>1 DEF Made, Alike, Keeps
<1>3. Honest(l, p, q)
  BY <1>1 DEF Honest, Alike, Keeps
<1> QED
  BY <1>2, <1>3 DEF q

\* The event will name the commit: none of it is in the ledger yet.
LEMMA CommitGood ==
  ASSUME NEW h, NEW l, NEW n, NEW p, NEW r \in Receipt, Made(h, l, n, r), Honest(l, p, r),
         Keeps(r), "commit" \notin r.done, NEW oid \in Nat
  PROVE  Made(h, l, n, [r EXCEPT !.commit = oid]) /\ Honest(l, p, [r EXCEPT !.commit = oid])
<1> DEFINE q == [r EXCEPT !.commit = oid]
<1>1. Alike(q, r) /\ q.done = r.done /\ q.status = r.status /\ q.oid = r.oid /\ q.commit = oid
  BY CommitPart
<1> HIDE DEF q
<1>2. Made(h, l, n, q)
  BY <1>1 DEF Made, Alike, Keeps
<1>3. Honest(l, p, q)
  BY <1>1 DEF Honest, Alike, Keeps
<1> QED
  BY <1>2, <1>3 DEF q

LEMMA Grown ==
  ASSUME NEW S, NEW s \in Seq(S), NEW e \in S
  PROVE  LET t == Append(s, e) IN
         /\ t \in Seq(S) /\ t # <<>> /\ Len(s) \in Nat /\ Len(t) = Len(s) + 1
         /\ \A i \in 1 .. Len(s) : t[i] = s[i]
         /\ t[Len(s) + 1] = e
         /\ 1 .. Len(t) = 1 .. Len(s) \cup {Len(s) + 1}
<1> DEFINE t == Append(s, e)
<1>1. Len(t) = Len(s) + 1 /\ Len(s) \in Nat
  BY AppendProperties
<1>2. 1 .. Len(s) + 1 = 1 .. Len(s) \cup {Len(s) + 1}
  BY <1>1
<1> HIDE DEF t
<1>3. 1 .. Len(t) = 1 .. Len(s) \cup {Len(s) + 1}
  BY <1>1, <1>2
<1> QED
  BY <1>1, <1>3, AppendProperties DEF t

\* A new commit is of another run, or the keep's own on its head.
LEMMA HistoryGrows ==
  ASSUME NEW h \in Seq(Commit), NEW c \in Commit, NEW l, NEW n, NEW r \in Receipt, Made(h, l, n, r),
         c.by = r.run => r.kind = "keep" /\ r.head = Len(h)
  PROVE  Made(Append(h, c), l, n, r)
<1> DEFINE t == Append(h, c)
<1>1. /\ Len(h) \in Nat /\ Len(t) = Len(h) + 1 /\ t[Len(h) + 1] = c
      /\ \A i \in 1 .. Len(h) : t[i] = h[i]
      /\ 1 .. Len(t) = 1 .. Len(h) \cup {Len(h) + 1}
  BY Grown
<1> HIDE DEF t
<1>2. \A i \in 1 .. Len(t) : t[i].by = r.run => r.kind = "keep" /\ i = r.head + 1
  BY <1>1 DEF Made
<1>3. /\ r.head \in 1 .. Len(t)
      /\ r.kind = "import" => r.oid = r.head /\ t[r.oid].tree = r.run
      /\ r.kind = "keep" /\ r.oid # 0 => r.oid = r.head + 1 /\ r.oid \in 1 .. Len(t) /\ t[r.oid].by = r.run
  BY <1>1 DEF Made
<1>4. Made(t, l, n, r)
  BY <1>2, <1>3 DEF Made
<1> QED
  BY <1>4 DEF t

\* A new row is of another run, or the next chunk of the event.
LEMMA LedgerGrows ==
  ASSUME NEW l \in Seq(Chunk), NEW c \in Chunk, NEW h, NEW n, NEW p, NEW r \in Receipt,
         Made(h, l, n, r), Honest(l, p, r),
         c.run = r.run => /\ Len(l) + 1 = r.prefix + c.part
                          /\ c.commit = r.commit
                          /\ Keeps(r) => "commit" \in r.done
  PROVE  Made(h, Append(l, c), n, r) /\ Honest(Append(l, c), p, r)
<1> DEFINE t == Append(l, c)
<1>1. /\ Len(l) \in Nat /\ Len(t) = Len(l) + 1 /\ t[Len(l) + 1] = c
      /\ \A i \in 1 .. Len(l) : t[i] = l[i]
      /\ 1 .. Len(t) = 1 .. Len(l) \cup {Len(l) + 1}
  BY Grown
<1>0. r.prefix \in Nat /\ c.part \in 1 .. Chunks
  BY DEF Receipt, Chunk
<1> HIDE DEF t
<1>2. r.prefix <= Len(t)
  BY <1>0, <1>1 DEF Made
<1>3. \A i \in 1 .. Len(t) : t[i].run = r.run =>
        /\ i > r.prefix /\ i = r.prefix + t[i].part
        /\ t[i].commit = r.commit
        /\ Keeps(r) => "commit" \in r.done
  BY <1>0, <1>1 DEF Made
<1>4. Made(h, t, n, r)
  BY <1>2, <1>3 DEF Made
<1>5. "ledger" \in r.done =>
        \A k \in 1 .. Chunks :
          r.prefix + k <= Len(t) /\ t[r.prefix + k] = [run |-> r.run, part |-> k, commit |-> r.commit]
  <2> SUFFICES ASSUME "ledger" \in r.done, NEW k \in 1 .. Chunks
               PROVE  r.prefix + k <= Len(t) /\ t[r.prefix + k] = [run |-> r.run, part |-> k, commit |-> r.commit]
    OBVIOUS
  <2>1. r.prefix + k <= Len(l) /\ l[r.prefix + k] = [run |-> r.run, part |-> k, commit |-> r.commit]
    BY DEF Honest
  <2>2. r.prefix + k \in 1 .. Len(l)
    BY <1>0, <1>1, <2>1
  <2> QED
    BY <1>0, <1>1, <2>1, <2>2
<1>6. Honest(t, p, r)
  BY <1>5 DEF Honest
<1> QED
  BY <1>4, <1>6 DEF t

LEMMA LoggedGrows ==
  ASSUME NEW l \in Seq(Chunk), NEW c \in Chunk, NEW x, Logged(l, x)
  PROVE  Logged(Append(l, c), x)
BY Grown DEF Logged

\* What the ledger holds behind the prefix.
LEMMA SuffixIs ==
  ASSUME ledger \in Seq(Chunk), NEW r \in Receipt, r.prefix <= Len(ledger)
  PROVE  /\ Len(ledger) \in Nat /\ r.prefix \in Nat
         /\ Len(Suffix(r)) = Len(ledger) - r.prefix
         /\ \A k \in 1 .. Len(ledger) - r.prefix : Suffix(r)[k] = ledger[r.prefix + k]
         /\ Suffix(r) \in Seq(Chunk)
<1>1. Len(ledger) \in Nat /\ r.prefix \in Nat
  BY DEF Receipt
<1>2. \A i \in r.prefix + 1 .. Len(ledger) : ledger[i] \in Chunk
  BY <1>1
<1>3. /\ SubSeq(ledger, r.prefix + 1, Len(ledger)) \in Seq(Chunk)
      /\ Len(SubSeq(ledger, r.prefix + 1, Len(ledger))) = IF r.prefix + 1 <= Len(ledger) THEN Len(ledger) - (r.prefix + 1) + 1 ELSE 0
      /\ \A k \in 1 .. Len(ledger) - (r.prefix + 1) + 1 :
           SubSeq(ledger, r.prefix + 1, Len(ledger))[k] = ledger[(r.prefix + 1) + k - 1]
  BY <1>1, <1>2, SubSeqProperties
<1>4. \A k \in 1 .. Len(ledger) - r.prefix : k \in Int /\ (r.prefix + 1) + k - 1 = r.prefix + k
  BY <1>1
<1>5. Len(ledger) - (r.prefix + 1) + 1 = Len(ledger) - r.prefix
  BY <1>1
<1>6. Len(Suffix(r)) = Len(ledger) - r.prefix
  BY <1>1, <1>3 DEF Suffix
<1> QED
  BY <1>1, <1>3, <1>4, <1>5, <1>6 DEF Suffix

LEMMA EventIs ==
  ASSUME NEW r
  PROVE  /\ Len(Event(r)) = Chunks /\ DOMAIN Event(r) = 1 .. Chunks
         /\ \A k \in 1 .. Chunks : Event(r)[k] = [run |-> r.run, part |-> k, commit |-> r.commit]
<1>1. Chunks \in Nat
  BY BoundsAssumption
<1> QED
  BY <1>1 DEF Event

LEMMA CompleteIs ==
  ASSUME ledger \in Seq(Chunk), NEW r \in Receipt, r.prefix <= Len(ledger), Relation(r) = "complete"
  PROVE  \A k \in 1 .. Chunks :
           r.prefix + k <= Len(ledger) /\ ledger[r.prefix + k] = [run |-> r.run, part |-> k, commit |-> r.commit]
<1>1. Suffix(r) = Event(r)
  BY DEF Relation
<1>2. Len(ledger) - r.prefix = Chunks
  BY <1>1, SuffixIs, EventIs
<1> QED
  BY <1>1, <1>2, SuffixIs, EventIs

LEMMA AbsentIs ==
  ASSUME ledger \in Seq(Chunk), NEW r \in Receipt, r.prefix <= Len(ledger), Relation(r) = "absent"
  PROVE  Len(ledger) = r.prefix
<1>1. Suffix(r) = <<>>
  BY DEF Relation
<1> QED
  BY <1>1, SuffixIs

LEMMA TornIs ==
  ASSUME ledger \in Seq(Chunk), NEW r \in Receipt, r.prefix <= Len(ledger), Relation(r) = "torn"
  PROVE  /\ Len(ledger) < r.prefix + Chunks
         /\ \A i \in r.prefix + 1 .. Len(ledger) : ledger[i].run = r.run
<1> DEFINE s == Suffix(r)  e == Event(r)
<1>0. Chunks \in Nat \ {0}
  BY BoundsAssumption
<1>1. IsPrefix(s, e) /\ s # e
  BY DEF Relation, IsStrictPrefix
<1>2. Len(s) <= Len(e) /\ SubSeq(s, 1, Len(s)) = SubSeq(e, 1, Len(s))
  BY <1>1 DEF IsPrefix
<1>3. /\ Len(ledger) \in Nat /\ r.prefix \in Nat /\ Len(s) = Len(ledger) - r.prefix /\ s \in Seq(Chunk)
      /\ \A k \in 1 .. Len(s) : s[k] = ledger[r.prefix + k]
  BY SuffixIs
<1>4. /\ Len(e) = Chunks /\ DOMAIN e = 1 .. Chunks
      /\ \A k \in 1 .. Chunks : e[k] = [run |-> r.run, part |-> k, commit |-> r.commit]
  BY EventIs
<1> HIDE DEF s, e
<1>5. Len(s) \in Nat
  BY <1>3
<1>6. \A k \in 1 .. Len(s) : s[k] = e[k]
  <2>1. \A k \in 1 .. Len(s) - 1 + 1 : SubSeq(s, 1, Len(s))[k] = s[1 + k - 1]
    BY <1>3, <1>5, SubSeqProperties
  <2>2. \A k \in 1 .. Len(s) : e[k] \in {e[i] : i \in 1 .. Chunks}
    BY <1>0, <1>2, <1>4, <1>5
  <2>3. \A k \in 1 .. Len(s) - 1 + 1 : SubSeq(e, 1, Len(s))[k] = e[1 + k - 1]
    BY <1>5, <2>2, SubSeqProperties
  <2> QED
    BY <1>2, <1>5, <2>1, <2>3
<1>7. Len(s) # Chunks
  <2>1. e \in Seq({e[i] : i \in 1 .. Chunks}) /\ s \in Seq(Chunk)
    <3>1. e = [i \in 1 .. Chunks |-> e[i]]
      BY DEF e, Event
    <3> QED
      BY <1>0, <1>3, <3>1, IsASeq
  <2>2. Len(s) = Chunks => s = e
    <3> SUFFICES ASSUME Len(s) = Chunks PROVE s = e
      OBVIOUS
    <3>1. DOMAIN s = 1 .. Chunks /\ s = [i \in 1 .. Chunks |-> s[i]]
      BY <1>3
    <3>2. e = [i \in 1 .. Chunks |-> e[i]]
      BY DEF e, Event
    <3> QED
      BY <1>6, <3>1, <3>2
  <2> QED
    BY <1>1, <2>2
<1>8. Len(ledger) < r.prefix + Chunks
  BY <1>0, <1>2, <1>3, <1>4, <1>7
<1>9. ASSUME NEW i \in r.prefix + 1 .. Len(ledger) PROVE ledger[i].run = r.run
  <2>1. i - r.prefix \in 1 .. Len(s) /\ r.prefix + (i - r.prefix) = i
    BY <1>3
  <2>2. i - r.prefix \in 1 .. Chunks
    BY <1>0, <1>2, <1>3, <1>4, <2>1
  <2> QED
    BY <1>3, <1>4, <1>6, <2>1, <2>2
<1> QED
  BY <1>8, <1>9

-----------------------------------------------------------------------------
(* The ways a step of the command moves on, when it leaves the history, the *)
(* ledger and the packet alone.                                            *)

LEMMA Running ==
  ASSUME IInv, pc \in Working
  PROVE  /\ mem \in Receipt /\ receipt \in Receipt /\ receipt # NoReceipt
         /\ Good(receipt) /\ Good(mem) /\ Link /\ mem.run \in 1 .. runs /\ receipt.run = mem.run
         /\ mem.prefix <= Len(ledger) /\ ledger \in Seq(Chunk)
         /\ FilesType /\ CommandType /\ TypeOK
<1>1. FilesType /\ CommandType /\ TypeOK
  BY Types DEF IInv
<1> QED
  BY <1>1 DEF IInv, ReceiptInv, Good, Made, Link, FilesType, CommandType

LEMMA ContinueStep ==
  ASSUME IInv, UNCHANGED <<history, ledger, packet, runs>>, pc \in Working,
         NEW label \in Working, Continue(label)
  PROVE  CommandType' /\ pc' = label /\ PastInv' /\ ReceiptInv'
<1>1. CommandType' /\ pc' = label
  BY Running, ContinueType DEF Working
<1>2. mem' = mem /\ receipt' = receipt
  BY DEF Continue
<1>3. PastInv'
  BY <1>2 DEF IInv, PastInv
<1>4. ReceiptInv'
  BY <1>1, <1>2 DEF IInv, ReceiptInv, Good, Link, Working
<1> QED
  BY <1>1, <1>3, <1>4

LEMMA SaveStep ==
  ASSUME IInv, UNCHANGED <<history, ledger, packet, runs>>, pc \in Working,
         NEW label \in Working, NEW r \in Receipt, Save(r, label), Good(r), r.run = mem.run
  PROVE  CommandType' /\ pc' = label /\ PastInv' /\ ReceiptInv'
<1>1. CommandType' /\ pc' = label
  BY Running, SaveType DEF Working
<1>2. mem' = r /\ receipt' = r
  BY DEF Save
<1>3. receipt # NoReceipt /\ r # NoReceipt /\ r.run = receipt.run
  BY Running, NoReceiptPart
<1>4. PastInv'
  BY <1>2, <1>3 DEF IInv, PastInv
<1>5. ReceiptInv'
  BY <1>1, <1>2, <1>3 DEF IInv, ReceiptInv, Good, Link, Working
<1> QED
  BY <1>1, <1>4, <1>5

\* The command ends, and the receipt keeps what it says of the run.
LEMMA EndStep ==
  ASSUME IInv, UNCHANGED <<history, ledger, packet, runs>>, Return, receipt' \in Receipt,
         receipt' # NoReceipt => Good(receipt)',
         receipt' = receipt \/ (receipt # NoReceipt /\ receipt' # NoReceipt /\ receipt'.run = receipt.run)
  PROVE  CommandType' /\ pc' = "idle" /\ PastInv' /\ ReceiptInv' /\ StageInv' /\ WindowInv'
<1>1. CommandType' /\ pc' = "idle"
  BY ReturnType, Types DEF IInv
<1>2. PastInv'
  BY DEF IInv, PastInv
<1>3. mem' = NoReceipt /\ ~failed' /\ written' = 0
  BY DEF Return
<1>4. ReceiptInv'
  BY <1>1, <1>3 DEF ReceiptInv, Working
<1>5. StageInv'
  BY <1>1, <1>3 DEF StageInv, Working, Committing, Recording, Restoring, Cleaning, Closing
<1>6. WindowInv'
  BY <1>1 DEF WindowInv
<1> QED
  BY <1>1, <1>2, <1>4, <1>5, <1>6

LEMMA ThrowStep ==
  ASSUME IInv, UNCHANGED <<history, ledger, packet, runs>>, pc \in Working,
         NEW r \in Receipt, Throw(r), Good(r), r.run = mem.run
  PROVE  CommandType' /\ pc' = "idle" /\ PastInv' /\ ReceiptInv' /\ StageInv' /\ WindowInv'
<1>1. receipt' = Failed(r) /\ Return
  BY DEF Throw, Failed
<1>2. Failed(r) \in Receipt /\ Failed(r).run = r.run
  BY FailedPart DEF Alike
<1>3. Good(receipt)'
  BY <1>1, FailedGood DEF Good
<1>4. receipt' # NoReceipt /\ receipt # NoReceipt /\ receipt'.run = receipt.run
  BY <1>1, <1>2, Running, NoReceiptPart
<1> QED
  BY <1>1, <1>2, <1>3, <1>4, EndStep

LEMMA TrackedFailsStep ==
  ASSUME IInv, UNCHANGED <<history, ledger, packet, runs>>, pc \in Restoring, TrackedFails(mem)
  PROVE  CommandType' /\ pc' = "untracked" /\ PastInv' /\ ReceiptInv' /\ StageInv' /\ WindowInv'
<1>0. pc \in Working
  BY DEF Restoring, Working, Labels
<1>1. /\ CommandType' /\ pc' = "untracked" /\ mem' = Failed(mem) /\ receipt' = Failed(mem)
      /\ failed' /\ written' = written
  BY <1>0, Running, TrackedFailsType DEF TrackedFails
<1>2. /\ Failed(mem) \in Receipt /\ Failed(mem).run = mem.run /\ Failed(mem).done = mem.done
      /\ Keeps(Failed(mem)) = Keeps(mem)
  BY <1>0, Running, FailedPart DEF Alike, Keeps
<1>3. Good(receipt)' /\ Good(mem)'
  BY <1>0, <1>1, Running, FailedGood DEF Good
<1>4. receipt # NoReceipt /\ receipt' # NoReceipt /\ receipt'.run = receipt.run
  BY <1>0, <1>1, <1>2, Running, NoReceiptPart
<1>5. PastInv'
  BY <1>4 DEF IInv, PastInv
<1>6. ReceiptInv'
  BY <1>1, <1>3, <1>4 DEF ReceiptInv, Link, Working
<1>7. ~Keeps(mem) /\ "ledger" \in mem.done /\ written = 0
  BY DEF IInv, StageInv, Restoring
<1>8. StageInv'
  BY <1>1, <1>2, <1>7 DEF StageInv, Working, Committing, Recording, Restoring, Cleaning, Closing, Keeps
<1>9. WindowInv'
  BY <1>1 DEF WindowInv
<1> QED
  BY <1>1, <1>5, <1>6, <1>8, <1>9

\* The same for a step that changes no file at all.
LEMMA ContinueHere ==
  ASSUME IInv, UNCHANGED <<files, env>>, pc \in Working \cap Unlocked,
         NEW label \in Working \cap Unlocked, Continue(label), StageInv', WindowInv'
  PROVE  IInv'
<1>1. UNCHANGED <<history, ledger, packet, runs>>
  BY DEF files, git, env
<1>2. CommandType' /\ pc' = label /\ PastInv' /\ ReceiptInv'
  BY <1>1, ContinueStep
<1> QED
  BY <1>2, QuietType DEF IInv

LEMMA SaveHere ==
  ASSUME IInv, UNCHANGED <<files, env>>, pc \in Working \cap Unlocked,
         NEW label \in Working \cap Unlocked, NEW r \in Receipt, Save(r, label),
         Good(r), r.run = mem.run, StageInv', WindowInv'
  PROVE  IInv'
<1>1. UNCHANGED <<history, ledger, packet, runs>>
  BY DEF files, git, env
<1>2. CommandType' /\ pc' = label /\ PastInv' /\ ReceiptInv'
  BY <1>1, SaveStep
<1> QED
  BY <1>2, QuietType DEF IInv

LEMMA ThrowHere ==
  ASSUME IInv, UNCHANGED <<files, env>>, pc \in Working \cap Unlocked,
         NEW r \in Receipt, Throw(r), Good(r), r.run = mem.run
  PROVE  IInv'
<1>1. UNCHANGED <<history, ledger, packet, runs>>
  BY DEF files, git, env
<1>2. CommandType' /\ pc' = "idle" /\ PastInv' /\ ReceiptInv' /\ StageInv' /\ WindowInv'
  BY <1>1, ThrowStep
<1> QED
  BY <1>2, QuietType DEF IInv, Unlocked, Labels

LEMMA ThrowMem ==
  ASSUME IInv, UNCHANGED <<files, env>>, pc \in Working \cap Unlocked, Throw(mem)
  PROVE  IInv'
BY Running, ThrowHere

LEMMA TrackedFailsHere ==
  ASSUME IInv, UNCHANGED <<files, env>>, pc \in Restoring, TrackedFails(mem)
  PROVE  IInv'
<1>1. UNCHANGED <<history, ledger, packet, runs>>
  BY DEF files, git, env
<1>2. CommandType' /\ pc' = "untracked" /\ PastInv' /\ ReceiptInv' /\ StageInv' /\ WindowInv'
  BY <1>1, TrackedFailsStep
<1>3. pc \in Unlocked
  BY DEF Restoring, Unlocked, Labels
<1> QED
  BY <1>2, <1>3, QuietType DEF IInv, Unlocked, Labels

-----------------------------------------------------------------------------
(* Steps that change no file.                                              *)

LEMMA WriteReceiptStep == IInv /\ WriteReceipt => IInv'
<1> SUFFICES ASSUME IInv, WriteReceipt PROVE IInv'
  OBVIOUS
<1>1. /\ pc = "writeReceipt" /\ Save(mem, Enter(mem)) /\ UNCHANGED <<files, env>>
      /\ receipt = NoReceipt /\ Good(mem) /\ mem.done = {} /\ mem.status = "pending"
      /\ packet # NoPacket /\ mem.run = packet.run /\ written = 0 /\ ~failed
      /\ TypeOK /\ CommandType /\ mem \in Receipt
  BY Types DEF WriteReceipt, IInv, ReceiptInv, StageInv, Cleaning, CommandType
<1>2. /\ pc' = Enter(mem) /\ mem' = mem /\ receipt' = mem /\ UNCHANGED <<failed, written>>
      /\ UNCHANGED <<history, ledger, packet, runs>>
      /\ Enter(mem) = (IF Keeps(mem) THEN "commit" ELSE "ledger")
  BY <1>1 DEF Save, Goto, files, git, env, Enter
<1>3. TypeOK'
  <2>1. Enter(mem) \in Unlocked /\ "writeReceipt" \in Unlocked
    BY <1>2 DEF Unlocked, Labels
  <2>2. CommandType' /\ pc' = Enter(mem)
    BY <1>1, <2>1, SaveType DEF Unlocked
  <2> QED
    BY <1>1, <2>1, <2>2, QuietType
<1>4. mem.run # 0 /\ mem # NoReceipt
  BY <1>1, NoReceiptPart DEF Good, Made
<1>5. PastInv'
  BY <1>1, <1>2, <1>4, NoReceiptPart DEF IInv, PastInv, Foreign
<1>6. ReceiptInv'
  BY <1>1, <1>2, <1>4 DEF ReceiptInv, Good, Link, Working, Labels
<1>7. StageInv' /\ WindowInv'
  BY <1>1, <1>2 DEF StageInv, WindowInv, Working, Labels, Committing, Recording, Restoring, Cleaning, Closing
<1> QED
  BY <1>3, <1>5, <1>6, <1>7 DEF IInv

LEMMA PrepareStep == IInv /\ Prepare => IInv'
<1> SUFFICES ASSUME IInv, Prepare PROVE IInv'
  OBVIOUS
<1>1. /\ pc = "prepare" /\ UNCHANGED <<files, receipt, env>> /\ receipt = NoReceipt /\ packet # NoPacket
      /\ mem.run = packet.run /\ mem.done = {} /\ mem.status = "pending" /\ written = 0 /\ ~failed
      /\ TypeOK /\ CommandType /\ FilesType /\ mem \in Receipt
  BY Types DEF Prepare, IInv, ReceiptInv, StageInv, Cleaning, CommandType
<1>2. UNCHANGED <<history, index, work, extra, ledger, packet, runs, receipt>> /\ UNCHANGED <<files, env>>
  BY <1>1 DEF files, git, env
<1>3. CASE Return
  <2>1. CommandType' /\ pc' = "idle" /\ PastInv' /\ ReceiptInv' /\ StageInv' /\ WindowInv'
    BY <1>1, <1>2, <1>3, EndStep DEF CommandType
  <2> QED
    BY <1>1, <1>2, <2>1, QuietType DEF IInv, Unlocked, Labels
<1>4. CASE /\ Keeps(mem) => work = mem.run
           /\ mem.kind = "import" => HeadTree = work
           /\ mem' = [mem EXCEPT
                 !.head = HeadOid, !.index = index, !.work = work, !.extra = extra,
                 !.tree = work, !.prefix = Len(ledger),
                 !.oid = IF mem.kind = "import" THEN HeadOid ELSE 0]
           /\ Goto("writeReceipt")
  <2> DEFINE r == [mem EXCEPT
                 !.head = HeadOid, !.index = index, !.work = work, !.extra = extra,
                 !.tree = work, !.prefix = Len(ledger),
                 !.oid = IF mem.kind = "import" THEN HeadOid ELSE 0]
  <2>1. HeadOid \in Nat \ {0} /\ Len(ledger) \in Nat
    BY <1>1, HeadType
  <2>2. index \in Content /\ work \in Content /\ extra \in Content
    BY <1>1 DEF FilesType
  <2>3. /\ r \in Receipt /\ r.run = mem.run /\ r.kind = mem.kind /\ r.done = {} /\ r.status = "pending"
        /\ r.head = HeadOid /\ r.tree = work /\ r.prefix = Len(ledger)
        /\ r.oid = IF mem.kind = "import" THEN HeadOid ELSE 0
    <3>1. (IF mem.kind = "import" THEN HeadOid ELSE 0) \in Nat
      BY <2>1
    <3> QED
      BY <1>1, <2>1, <2>2, <3>1 DEF Receipt
  <2>4. mem' = r /\ pc' = "writeReceipt" /\ UNCHANGED <<failed, written>>
    BY <1>4 DEF Goto
  <2> HIDE DEF r
  <2>5. packet.run \in 1 .. runs
    BY <1>1 DEF IInv, PastInv
  <2>6. /\ \A i \in 1 .. Len(history) : history[i].by # packet.run
        /\ \A k \in 1 .. Len(ledger) : ledger[k].run # packet.run
    BY <1>1 DEF IInv, PastInv
  <2>7. Made(history, ledger, runs, r)
    <3>1. Keeps(r) => r.tree = r.run
      BY <1>4, <2>3 DEF Keeps
    <3>2. r.head \in 1 .. Len(history) /\ r.prefix <= Len(ledger)
      BY <2>1, <2>3 DEF HeadOid
    <3>3. r.kind = "import" => r.oid = r.head /\ history[r.oid].tree = r.run
      BY <1>4, <2>3 DEF Keeps, HeadTree
    <3>4. r.kind = "keep" => r.oid = 0
      BY <2>3
    <3> QED
      BY <1>1, <2>3, <2>5, <2>6, <3>1, <3>2, <3>3, <3>4 DEF Made
  <2>8. Good(r)
    BY <2>3, <2>7 DEF Good, Honest
  <2>9. Good(mem)'
    BY <1>2, <2>4, <2>8 DEF Good
  <2>10. TypeOK'
    <3>1. CommandType'
      BY <1>1, <1>2, <2>3, <2>4 DEF CommandType, Labels
    <3> QED
      BY <1>1, <1>2, <2>4, <3>1, QuietType DEF Unlocked, Labels
  <2>11. PastInv'
    BY <1>2 DEF IInv, PastInv
  <2>12. ReceiptInv'
    BY <1>1, <1>2, <2>3, <2>4, <2>9 DEF ReceiptInv, Working
  <2>13. StageInv' /\ WindowInv'
    BY <1>1, <2>4 DEF StageInv, WindowInv, Working, Committing, Recording, Restoring, Cleaning, Closing
  <2> QED
    BY <2>10, <2>11, <2>12, <2>13 DEF IInv
<1> QED
  BY <1>3, <1>4 DEF Prepare

LEMMA CommitStageStep == IInv /\ CommitStage => IInv'
<1> SUFFICES ASSUME IInv, CommitStage PROVE IInv'
  OBVIOUS
<1>1. pc = "commit" /\ UNCHANGED <<files, env>> /\ pc \in Working \cap Unlocked
  BY DEF CommitStage, Working, Unlocked, Labels
<1>2. Keeps(mem) /\ written = 0 /\ ~failed
  BY <1>1 DEF IInv, StageInv, Committing, Cleaning
<1>3. CASE "commit" \in mem.done /\ Continue("ledger")
  <2>1. "ledger" \in Working \cap Unlocked
    BY DEF Working, Unlocked, Labels
  <2>2. StageInv' /\ WindowInv'
    BY <1>2, <1>3 DEF Continue, Goto, StageInv, WindowInv, Working, Committing, Recording, Restoring, Cleaning, Closing
  <2> QED
    BY <1>1, <1>3, <2>1, <2>2, ContinueHere
<1>4. CASE "commit" \notin mem.done /\ Continue("branch")
  <2>1. "branch" \in Working \cap Unlocked
    BY DEF Working, Unlocked, Labels
  <2>2. StageInv' /\ WindowInv'
    BY <1>2, <1>4 DEF Continue, Goto, StageInv, WindowInv, Working, Committing, Recording, Restoring, Cleaning,
                      Closing, Keeps
  <2> QED
    BY <1>1, <1>4, <2>1, <2>2, ContinueHere
<1>5. CASE Throw(mem)
  BY <1>1, <1>5, ThrowMem
<1> QED
  BY <1>3, <1>4, <1>5 DEF CommitStage

LEMMA BranchStep == IInv /\ Branch => IInv'
<1> SUFFICES ASSUME IInv, Branch PROVE IInv'
  OBVIOUS
<1>1. pc = "branch" /\ UNCHANGED <<files, env>> /\ pc \in Working \cap Unlocked
  BY DEF Branch, Working, Unlocked, Labels
<1>2. Keeps(mem) /\ "commit" \notin mem.done /\ written = 0 /\ ~failed
  BY <1>1 DEF IInv, StageInv, Committing, Cleaning
<1>3. mem.oid = 0 => mem.kind = "keep"
  BY <1>1, <1>2, Running DEF Good, Made, Keeps
<1>4. ASSUME NEW label \in {"verifyCommit", "lockIndex", "candidate"}, Continue(label),
             label = "verifyCommit" \/ mem.kind = "keep"
      PROVE  IInv'
  <2>1. label \in Working \cap Unlocked
    BY DEF Working, Unlocked, Labels
  <2>2. StageInv' /\ WindowInv'
    BY <1>2, <1>4 DEF Continue, Goto, StageInv, WindowInv, Working, Committing, Recording, Restoring, Cleaning,
                      Closing, Keeps
  <2> QED
    BY <1>1, <1>4, <2>1, <2>2, ContinueHere
<1>5. CASE mem.oid # 0 /\ Continue(IF mem.kind = "import" THEN "verifyCommit" ELSE "lockIndex")
  <2>1. mem.kind # "import" => mem.kind = "keep"
    BY <1>2 DEF Keeps
  <2> QED
    BY <1>4, <1>5, <2>1
<1>6. CASE mem.oid = 0 /\ Continue("candidate")
  BY <1>3, <1>4, <1>6
<1>7. CASE /\ mem.oid = 0 /\ Matches(HeadOid, mem)
           /\ mem' = [mem EXCEPT !.oid = HeadOid] /\ Goto("lockIndex") /\ UNCHANGED receipt
  <2>1. /\ HeadOid \in Nat /\ HeadOid = mem.head + 1 /\ HeadOid \in 1 .. Len(history)
        /\ history[HeadOid].by = mem.run /\ mem.kind = "keep" /\ mem \in Receipt
    BY <1>1, <1>3, <1>7, Running, HeadType DEF Matches, HeadOid
  <2>2. /\ mem' \in Receipt /\ Alike(mem', mem) /\ mem'.done = mem.done
        /\ mem'.commit = mem.commit /\ pc' = "lockIndex" /\ UNCHANGED <<failed, written, receipt>>
    BY <1>7, <2>1, OidPart DEF Goto
  <2>3. UNCHANGED <<history, ledger, packet, runs>>
    BY <1>1 DEF files, git, env
  <2>4. Good([mem EXCEPT !.oid = HeadOid])
    BY <1>1, <1>2, <2>1, Running, OidGood DEF Good
  <2>5. Good(mem)'
    BY <1>7, <2>3, <2>4 DEF Good
  <2>6. TypeOK'
    <3>1. CommandType'
      BY <1>1, <2>2, Running DEF CommandType, Labels
    <3> QED
      BY <1>1, <2>2, <3>1, Running, QuietType DEF Unlocked, Labels
  <2>7. PastInv'
    BY <2>2, <2>3 DEF IInv, PastInv
  <2>8. ReceiptInv'
    BY <1>1, <2>2, <2>3, <2>5, Running DEF ReceiptInv, Good, Link, Alike
  <2>9. StageInv' /\ WindowInv'
    BY <1>2, <2>1, <2>2 DEF StageInv, WindowInv, Working, Committing, Recording, Restoring, Cleaning,
                            Closing, Keeps, Alike
  <2> QED
    BY <2>6, <2>7, <2>8, <2>9 DEF IInv
<1>8. CASE Throw(mem)
  BY <1>1, <1>8, ThrowMem
<1> QED
  BY <1>5, <1>6, <1>7, <1>8 DEF Branch

LEMMA CandidateStep == IInv /\ Candidate => IInv'
<1> SUFFICES ASSUME IInv, Candidate PROVE IInv'
  OBVIOUS
<1>1. pc = "candidate" /\ UNCHANGED <<files, env>> /\ pc \in Working \cap Unlocked
  BY DEF Candidate, Working, Unlocked, Labels
<1>2. Keeps(mem) /\ mem.kind = "keep" /\ "commit" \notin mem.done /\ written = 0 /\ ~failed
  BY <1>1 DEF IInv, StageInv, Committing, Cleaning
<1>3. CASE Continue("lockHead")
  <2>1. "lockHead" \in Working \cap Unlocked
    BY DEF Working, Unlocked, Labels
  <2>2. StageInv' /\ WindowInv'
    BY <1>2, <1>3 DEF Continue, Goto, StageInv, WindowInv, Working, Committing, Recording, Restoring, Cleaning,
                      Closing, Keeps
  <2> QED
    BY <1>1, <1>3, <2>1, <2>2, ContinueHere
<1>4. CASE Throw(mem)
  BY <1>1, <1>4, ThrowMem
<1> QED
  BY <1>3, <1>4 DEF Candidate

LEMMA RecordStep == IInv /\ Record => IInv'
<1> SUFFICES ASSUME IInv, Record PROVE IInv'
  OBVIOUS
<1>1. /\ pc = "record" /\ UNCHANGED <<files, env>> /\ pc \in Working \cap Unlocked
      /\ "verifyCommit" \in Working \cap Unlocked
  BY DEF Record, Working, Unlocked, Labels
<1>2. Keeps(mem) /\ "commit" \notin mem.done /\ written = 0 /\ ~failed
  BY <1>1 DEF IInv, StageInv, Committing, Cleaning
<1> DEFINE r == [mem EXCEPT !.commit = mem.oid]
<1>3. /\ r \in Receipt /\ Alike(r, mem) /\ r.done = mem.done /\ Good(r) /\ r.run = mem.run
      /\ Save(r, "verifyCommit")
  <2>1. mem.oid \in Nat /\ mem \in Receipt
    BY <1>1, Running DEF Receipt
  <2> QED
    BY <1>1, <1>2, <2>1, Running, CommitPart, CommitGood DEF Good, Alike, Record
<1> HIDE DEF r
<1>4. StageInv' /\ WindowInv'
  BY <1>2, <1>3 DEF Save, Goto, StageInv, WindowInv, Working, Committing, Recording, Restoring, Cleaning,
                    Closing, Keeps, Alike
<1> QED
  BY <1>1, <1>3, <1>4, SaveHere

LEMMA VerifyCommitStep == IInv /\ VerifyCommit => IInv'
<1> SUFFICES ASSUME IInv, VerifyCommit PROVE IInv'
  OBVIOUS
<1>1. /\ pc = "verifyCommit" /\ UNCHANGED <<files, env>> /\ pc \in Working \cap Unlocked
      /\ "ledger" \in Working \cap Unlocked
  BY DEF VerifyCommit, Working, Unlocked, Labels
<1>2. Keeps(mem) /\ "commit" \notin mem.done /\ written = 0 /\ ~failed
  BY <1>1 DEF IInv, StageInv, Committing, Cleaning
<1>3. CASE RecordedOK(mem) /\ Save(Complete([mem EXCEPT !.commit = mem.oid], "commit"), "ledger")
  <2> DEFINE r == [mem EXCEPT !.commit = mem.oid]
             q == Complete(r, "commit")
  <2>1. mem.oid \in Nat /\ mem.oid # 0 /\ mem \in Receipt /\ "commit" \in Stages
    BY <1>1, <1>3, Running DEF Receipt, RecordedOK, IdentityOK, Stages
  <2>2. /\ r \in Receipt /\ Alike(r, mem) /\ r.done = mem.done /\ r.oid = mem.oid /\ r.commit = mem.oid
        /\ Good(r)
    BY <1>1, <1>2, <2>1, Running, CommitPart, CommitGood DEF Good
  <2> HIDE DEF r
  <2>3. /\ q \in Receipt /\ Alike(q, r) /\ q.done = r.done \cup {"commit"} /\ q.status = "pending"
        /\ q.oid = r.oid /\ q.commit = r.commit
    BY <2>1, <2>2, CompletePart
  <2>4. Made(history, ledger, runs, q)
    BY <2>1, <2>2, CompleteMade DEF Good
  <2>5. Save(q, "ledger")
    BY <1>3 DEF r
  <2> HIDE DEF q
  <2>6. Keeps(q) /\ Keeps(r) /\ q.run = mem.run
    BY <1>2, <2>2, <2>3 DEF Alike, Keeps
  <2>7. Honest(ledger, packet, q)
    BY <1>2, <2>1, <2>2, <2>3, <2>6 DEF Honest, Good
  <2>8. StageInv' /\ WindowInv'
    BY <1>2, <2>3, <2>5 DEF Save, Goto, StageInv, WindowInv, Working, Committing, Recording, Restoring, Cleaning,
                      Closing
  <2> QED
    BY <1>1, <2>3, <2>4, <2>5, <2>6, <2>7, <2>8, SaveHere DEF Good
<1>4. CASE Throw(mem)
  BY <1>1, <1>4, ThrowMem
<1> QED
  BY <1>3, <1>4 DEF VerifyCommit

LEMMA LedgerStageStep == IInv /\ LedgerStage => IInv'
<1> SUFFICES ASSUME IInv, LedgerStage PROVE IInv'
  OBVIOUS
<1>1. /\ pc = "ledger" /\ UNCHANGED <<files, env>> /\ pc \in Working \cap Unlocked
      /\ {"packet", "tracked", "verifyLedger", "append", "truncate"} \subseteq Working \cap Unlocked
  BY DEF LedgerStage, Working, Unlocked, Labels
<1>2. (Keeps(mem) => "commit" \in mem.done) /\ written = 0 /\ ~failed
  BY <1>1 DEF IInv, StageInv, Working, Labels, Committing, Cleaning
<1>3. UNCHANGED <<history, ledger, packet, runs>>
  BY <1>1 DEF files, git, env
<1>4. CASE "ledger" \in mem.done /\ Continue(AfterLedger(mem))
  <2>1. AfterLedger(mem) \in {"packet", "tracked"}
    BY DEF AfterLedger
  <2>2. StageInv' /\ WindowInv'
    BY <1>2, <1>4 DEF Continue, Goto, AfterLedger, StageInv, WindowInv, Working, Committing, Recording, Restoring,
                      Cleaning, Closing, Keeps
  <2> QED
    BY <1>1, <1>4, <2>1, <2>2, ContinueHere
<1>5. CASE "ledger" \notin mem.done /\ Save(mem, "verifyLedger")
  <2>1. StageInv' /\ WindowInv'
    BY <1>2, <1>5 DEF Save, Goto, StageInv, WindowInv, Working, Committing, Recording, Restoring,
                      Cleaning, Closing, Keeps
  <2> QED
    BY <1>1, <1>5, <2>1, Running, SaveHere
<1>6. CASE "ledger" \notin mem.done /\ Relation(mem) = "absent" /\ Save(mem, "append")
  <2>1. Len(ledger) = mem.prefix + written
    <3>1. mem.prefix \in Nat
      BY <1>1, Running DEF Receipt
    <3> QED
      BY <1>1, <1>2, <1>6, <3>1, Running, AbsentIs
  <2>2. StageInv' /\ WindowInv'
    BY <1>2, <1>3, <1>6, <2>1 DEF Save, Goto, StageInv, WindowInv, Working, Committing, Recording, Restoring,
                      Cleaning, Closing, Keeps
  <2> QED
    BY <1>1, <1>6, <2>2, Running, SaveHere
<1>7. CASE "ledger" \notin mem.done /\ Relation(mem) = "torn" /\ Save(mem, "truncate")
  <2>1. /\ Len(ledger) < mem.prefix + Chunks
        /\ \A i \in mem.prefix + 1 .. Len(ledger) : ledger[i].run = mem.run
    BY <1>1, <1>7, Running, TornIs
  <2>2. StageInv' /\ WindowInv'
    BY <1>2, <1>3, <1>7, <2>1 DEF Save, Goto, StageInv, WindowInv, Working, Committing, Recording, Restoring,
                      Cleaning, Closing, Keeps
  <2> QED
    BY <1>1, <1>7, <2>2, Running, SaveHere
<1>8. CASE Throw(mem)
  BY <1>1, <1>8, ThrowMem
<1> QED
  BY <1>4, <1>5, <1>6, <1>7, <1>8 DEF LedgerStage

LEMMA VerifyLedgerStep == IInv /\ VerifyLedger => IInv'
<1> SUFFICES ASSUME IInv, VerifyLedger PROVE IInv'
  OBVIOUS
<1>1. /\ pc = "verifyLedger" /\ UNCHANGED <<files, env>> /\ pc \in Working \cap Unlocked
      /\ {"packet", "tracked"} \subseteq Working \cap Unlocked
  BY DEF VerifyLedger, Working, Unlocked, Labels
<1>2. (Keeps(mem) => "commit" \in mem.done) /\ written = 0 /\ ~failed
  BY <1>1 DEF IInv, StageInv, Working, Labels, Committing, Cleaning
<1>3. CASE Relation(mem) = "complete" /\ Save(Complete(mem, "ledger"), AfterLedger(mem))
  <2> DEFINE q == Complete(mem, "ledger")
  <2>1. /\ q \in Receipt /\ Alike(q, mem) /\ q.done = mem.done \cup {"ledger"} /\ q.status = "pending"
        /\ q.oid = mem.oid /\ q.commit = mem.commit /\ Made(history, ledger, runs, q)
    BY <1>1, Running, CompletePart, CompleteMade DEF Good, Stages
  <2>2. Save(q, AfterLedger(mem)) /\ AfterLedger(mem) \in {"packet", "tracked"}
    BY <1>3 DEF AfterLedger
  <2> HIDE DEF q
  <2>3. Keeps(q) = Keeps(mem) /\ q.run = mem.run /\ q.prefix = mem.prefix
    BY <2>1 DEF Alike, Keeps
  <2>4. \A k \in 1 .. Chunks :
          mem.prefix + k <= Len(ledger)
            /\ ledger[mem.prefix + k] = [run |-> mem.run, part |-> k, commit |-> mem.commit]
    BY <1>1, <1>3, Running, CompleteIs
  <2>5. Honest(ledger, packet, q)
    <3>1. Honest(ledger, packet, mem)
      BY <1>1, Running DEF Good
    <3>2. "packet" \in q.done => "packet" \in mem.done
      BY <2>1
    <3>3. "commit" \in q.done <=> "commit" \in mem.done
      BY <2>1
    <3>4. "packet" \in mem.done => "ledger" \in mem.done
      BY <3>1 DEF Honest
    <3> QED
      BY <1>2, <2>1, <2>3, <2>4, <3>1, <3>2, <3>3, <3>4 DEF Honest
  <2>6. StageInv' /\ WindowInv'
    BY <1>2, <2>1, <2>2, <2>3 DEF Save, Goto, AfterLedger, StageInv, WindowInv, Working, Committing, Recording,
                                  Restoring, Cleaning, Closing, Keeps
  <2> QED
    BY <1>1, <2>1, <2>2, <2>3, <2>5, <2>6, SaveHere DEF Good
<1>4. CASE Throw(mem)
  BY <1>1, <1>4, ThrowMem
<1> QED
  BY <1>3, <1>4 DEF VerifyLedger

\* A cleanup stage that is complete.
LEMMA CleanedGood ==
  ASSUME IInv, pc \in Working, ~Keeps(mem), NEW stage \in {"tracked", "untracked"}
  PROVE  /\ Complete(mem, stage) \in Receipt /\ Good(Complete(mem, stage))
         /\ Complete(mem, stage).run = mem.run /\ ~Keeps(Complete(mem, stage))
         /\ Complete(mem, stage).done = mem.done \cup {stage}
<1> DEFINE q == Complete(mem, stage)
<1>1. /\ q \in Receipt /\ Alike(q, mem) /\ q.done = mem.done \cup {stage} /\ q.status = "pending"
      /\ q.oid = mem.oid /\ q.commit = mem.commit /\ Made(history, ledger, runs, q)
  BY Running, CompletePart, CompleteMade DEF Good, Stages
<1> HIDE DEF q
<1>2. ~Keeps(q) /\ q.run = mem.run
  BY <1>1 DEF Alike, Keeps
<1>3. Honest(ledger, packet, q)
  BY <1>1, <1>2, Running DEF Honest, Good, Alike
<1>4. Good(q)
  BY <1>1, <1>3 DEF Good
<1> QED
  BY <1>1, <1>2, <1>4 DEF q

LEMMA TrackedStageStep == IInv /\ TrackedStage => IInv'
<1> SUFFICES ASSUME IInv, TrackedStage PROVE IInv'
  OBVIOUS
<1>1. /\ pc = "tracked" /\ UNCHANGED <<files, env>> /\ pc \in Working \cap Unlocked /\ pc \in Restoring
      /\ {"untracked", "restoreIndex", "restoreWork"} \subseteq Working \cap Unlocked
  BY DEF TrackedStage, Working, Unlocked, Labels, Restoring
<1>2. ~Keeps(mem) /\ "ledger" \in mem.done /\ written = 0 /\ ~failed
  BY <1>1 DEF IInv, StageInv, Restoring, Cleaning
<1>3. UNCHANGED <<history, index, work, extra, ledger, packet, runs, late>> /\ mem \in Receipt
  BY <1>1, Running DEF files, git, env
<1>4. CASE "tracked" \in mem.done /\ Continue("untracked")
  <2>1. StageInv' /\ WindowInv'
    BY <1>2, <1>4 DEF Continue, Goto, StageInv, WindowInv, Working, Committing, Recording, Restoring,
                      Cleaning, Closing, Keeps
  <2> QED
    BY <1>1, <1>4, <2>1, ContinueHere
<1>5. CASE Save(Complete(mem, "tracked"), "untracked")
  <2>1. StageInv' /\ WindowInv'
    BY <1>1, <1>2, <1>5, CleanedGood DEF Save, Goto, StageInv, WindowInv, Working, Committing, Recording, Restoring,
                      Cleaning, Closing
  <2> QED
    BY <1>1, <1>2, <1>5, <2>1, CleanedGood, SaveHere
<1>6. CASE index \in {HeadTree, mem.index} /\ work \in {HeadTree, mem.work}
             /\ Continue(IF index # HeadTree THEN "restoreIndex" ELSE "restoreWork")
  <2>1. StageInv'
    BY <1>2, <1>6 DEF Continue, Goto, StageInv, Working, Committing, Recording, Restoring,
                      Cleaning, Closing, Keeps
  <2>2. WindowInv'
    BY <1>3, <1>6 DEF Continue, Goto, WindowInv, HeadTree, HeadOid
  <2> QED
    BY <1>1, <1>6, <2>1, <2>2, ContinueHere
<1>7. CASE TrackedFails(mem)
  BY <1>1, <1>7, TrackedFailsHere
<1> QED
  BY <1>4, <1>5, <1>6, <1>7 DEF TrackedStage

LEMMA CheckWorkStep == IInv /\ CheckWork => IInv'
<1> SUFFICES ASSUME IInv, CheckWork PROVE IInv'
  OBVIOUS
<1>1. /\ pc = "checkWork" /\ UNCHANGED <<files, env>> /\ pc \in Working \cap Unlocked /\ pc \in Restoring
      /\ {"verifyTracked", "restoreWork"} \subseteq Working \cap Unlocked
  BY DEF CheckWork, Working, Unlocked, Labels, Restoring
<1>2. ~Keeps(mem) /\ "ledger" \in mem.done /\ written = 0 /\ ~failed
  BY <1>1 DEF IInv, StageInv, Restoring, Cleaning
<1>3. UNCHANGED <<history, index, work, extra, ledger, packet, runs, late>>
  BY <1>1 DEF files, git, env
<1>4. CASE work \in {HeadTree, mem.work} /\ Continue(IF work = HeadTree THEN "verifyTracked" ELSE "restoreWork")
  <2>1. StageInv'
    BY <1>2, <1>4 DEF Continue, Goto, StageInv, Working, Committing, Recording, Restoring,
                      Cleaning, Closing, Keeps
  <2>2. WindowInv'
    BY <1>3, <1>4 DEF Continue, Goto, WindowInv, HeadTree, HeadOid
  <2> QED
    BY <1>1, <1>4, <2>1, <2>2, ContinueHere
<1>5. CASE TrackedFails(mem)
  BY <1>1, <1>5, TrackedFailsHere
<1> QED
  BY <1>4, <1>5 DEF CheckWork

LEMMA VerifyTrackedStep == IInv /\ VerifyTracked => IInv'
<1> SUFFICES ASSUME IInv, VerifyTracked PROVE IInv'
  OBVIOUS
<1>1. /\ pc = "verifyTracked" /\ UNCHANGED <<files, env>> /\ pc \in Working \cap Unlocked /\ pc \in Restoring
      /\ "untracked" \in Working \cap Unlocked
  BY DEF VerifyTracked, Working, Unlocked, Labels, Restoring
<1>2. ~Keeps(mem) /\ "ledger" \in mem.done /\ written = 0 /\ ~failed
  BY <1>1 DEF IInv, StageInv, Restoring, Cleaning
<1>3. CASE Save(Complete(mem, "tracked"), "untracked")
  <2>1. StageInv' /\ WindowInv'
    BY <1>1, <1>2, <1>3, CleanedGood DEF Save, Goto, StageInv, WindowInv, Working, Committing, Recording, Restoring,
                      Cleaning, Closing
  <2> QED
    BY <1>1, <1>2, <1>3, <2>1, CleanedGood, SaveHere
<1>4. CASE TrackedFails(mem)
  BY <1>1, <1>4, TrackedFailsHere
<1> QED
  BY <1>3, <1>4 DEF VerifyTracked

LEMMA UntrackedCompletes ==
  ASSUME IInv, pc \in Cleaning, UNCHANGED <<files, env>>, UntrackedComplete
  PROVE  IInv'
<1>1. pc \in Working \cap Unlocked /\ "packet" \in Working \cap Unlocked
  BY DEF Cleaning, Working, Unlocked, Labels
<1>2. ~Keeps(mem) /\ "ledger" \in mem.done /\ written = 0 /\ (failed \/ "tracked" \in mem.done)
  BY DEF IInv, StageInv, Cleaning
<1>3. CASE failed
  BY <1>1, <1>2, <1>3, CleanedGood, ThrowHere DEF UntrackedComplete
<1>4. CASE ~failed
  <2>1. StageInv' /\ WindowInv'
    BY <1>1, <1>2, <1>4, CleanedGood DEF UntrackedComplete, Save, Goto, StageInv, WindowInv, Working, Committing,
                      Recording, Restoring, Cleaning, Closing
  <2> QED
    BY <1>1, <1>2, <1>4, <2>1, CleanedGood, SaveHere DEF UntrackedComplete
<1> QED
  BY <1>3, <1>4

LEMMA UntrackedStageStep == IInv /\ UntrackedStage => IInv'
<1> SUFFICES ASSUME IInv, UntrackedStage PROVE IInv'
  OBVIOUS
<1>1. /\ pc = "untracked" /\ UNCHANGED <<files, env>> /\ pc \in Working \cap Unlocked /\ pc \in Cleaning
      /\ {"packet", "clean"} \subseteq Working \cap Unlocked
  BY DEF UntrackedStage, Working, Unlocked, Labels, Cleaning
<1>2. ~Keeps(mem) /\ "ledger" \in mem.done /\ written = 0 /\ (failed \/ "tracked" \in mem.done)
  BY <1>1 DEF IInv, StageInv, Cleaning
<1>3. UNCHANGED <<history, index, work, extra, ledger, packet, runs, late>>
  BY <1>1 DEF files, git, env
<1>4. CASE "untracked" \in mem.done /\ ~failed /\ Continue("packet")
  <2>1. StageInv' /\ WindowInv'
    BY <1>2, <1>4 DEF Continue, Goto, StageInv, WindowInv, Working, Committing, Recording, Restoring,
                      Cleaning, Closing, Keeps
  <2> QED
    BY <1>1, <1>4, <2>1, ContinueHere
<1>5. CASE UntrackedComplete
  BY <1>1, <1>5, UntrackedCompletes
<1>6. CASE extra = mem.extra /\ Continue("clean")
  <2>1. StageInv'
    BY <1>2, <1>6 DEF Continue, Goto, StageInv, Working, Committing, Recording, Restoring,
                      Cleaning, Closing, Keeps
  <2>2. WindowInv'
    BY <1>3, <1>6 DEF Continue, Goto, WindowInv
  <2> QED
    BY <1>1, <1>6, <2>1, <2>2, ContinueHere
<1>7. CASE Throw(mem)
  BY <1>1, <1>7, ThrowMem
<1> QED
  BY <1>4, <1>5, <1>6, <1>7 DEF UntrackedStage

LEMMA VerifyUntrackedStep == IInv /\ VerifyUntracked => IInv'
<1> SUFFICES ASSUME IInv, VerifyUntracked PROVE IInv'
  OBVIOUS
<1>1. pc = "verifyUntracked" /\ UNCHANGED <<files, env>> /\ pc \in Working \cap Unlocked /\ pc \in Cleaning
  BY DEF VerifyUntracked, Working, Unlocked, Labels, Cleaning
<1> QED
  BY <1>1, UntrackedCompletes, ThrowMem DEF VerifyUntracked

LEMMA CheckpointPacketStep == IInv /\ CheckpointPacket => IInv'
<1> SUFFICES ASSUME IInv, CheckpointPacket PROVE IInv'
  OBVIOUS
<1>1. /\ pc = "checkpointPacket" /\ UNCHANGED <<files, env>> /\ pc \in Working \cap Unlocked
      /\ "finish" \in Working \cap Unlocked
  BY DEF CheckpointPacket, Working, Unlocked, Labels
<1>2. /\ "ledger" \in mem.done /\ written = 0 /\ ~failed /\ packet = NoPacket
      /\ Keeps(mem) => "commit" \in mem.done
      /\ ~Keeps(mem) => {"tracked", "untracked"} \subseteq mem.done
  BY <1>1 DEF IInv, StageInv, Working, Labels, Committing, Cleaning, Closing
<1> DEFINE q == Complete(mem, "packet")
<1>3. /\ q \in Receipt /\ Alike(q, mem) /\ q.done = mem.done \cup {"packet"} /\ q.status = "pending"
      /\ q.oid = mem.oid /\ q.commit = mem.commit /\ Made(history, ledger, runs, q)
  BY <1>1, Running, CompletePart, CompleteMade DEF Good, Stages
<1>4. Save(q, "finish")
  BY DEF CheckpointPacket
<1> HIDE DEF q
<1>5. Keeps(q) = Keeps(mem) /\ q.run = mem.run
  BY <1>3 DEF Alike, Keeps
<1>6. Good(q)
  <2>1. Honest(ledger, packet, q)
    BY <1>1, <1>2, <1>3, <1>5, Running DEF Good, Honest, Alike
  <2> QED
    BY <1>3, <2>1 DEF Good
<1>7. StageInv' /\ WindowInv'
  BY <1>2, <1>3, <1>4, <1>5 DEF Save, Goto, StageInv, WindowInv, Working, Committing, Recording, Restoring,
                                Cleaning, Closing
<1> QED
  BY <1>1, <1>3, <1>4, <1>5, <1>6, <1>7, SaveHere

LEMMA FinishStep == IInv /\ Finish => IInv'
<1> SUFFICES ASSUME IInv, Finish PROVE IInv'
  OBVIOUS
<1>1. /\ pc = "finish" /\ UNCHANGED <<files, env>> /\ pc \in Working \cap Unlocked
      /\ "verifyAll" \in Working \cap Unlocked
  BY DEF Finish, Working, Unlocked, Labels
<1>2. /\ "ledger" \in mem.done /\ "packet" \in mem.done /\ written = 0 /\ ~failed
      /\ Keeps(mem) => "commit" \in mem.done
      /\ ~Keeps(mem) => {"tracked", "untracked"} \subseteq mem.done
  BY <1>1 DEF IInv, StageInv, Working, Labels, Committing, Cleaning, Closing
<1> DEFINE q == [mem EXCEPT !.done = @ \cup {"done"}, !.status = "done"]
<1>3. /\ q \in Receipt /\ Alike(q, mem) /\ q.done = mem.done \cup {"done"} /\ q.status = "done"
      /\ q.oid = mem.oid /\ q.commit = mem.commit
  <2>1. mem \in Receipt /\ mem.done \cup {"done"} \in SUBSET Stages
    BY <1>1, Running DEF Receipt, Stages
  <2> QED
    BY <2>1 DEF Receipt, Alike
<1>4. Save(q, "verifyAll")
  BY DEF Finish
<1> HIDE DEF q
<1>5. Keeps(q) = Keeps(mem) /\ q.run = mem.run
  BY <1>3 DEF Alike, Keeps
<1>6. Good(q)
  <2>1. Honest(ledger, packet, q)
    BY <1>1, <1>2, <1>3, <1>5, Running DEF Good, Honest, Alike
  <2>2. Made(history, ledger, runs, q)
    BY <1>1, <1>3, Running, AlikeMade DEF Good
  <2> QED
    BY <2>1, <2>2 DEF Good
<1>7. StageInv' /\ WindowInv'
  BY <1>2, <1>3, <1>4, <1>5 DEF Save, Goto, StageInv, WindowInv, Working, Committing, Recording, Restoring,
                                Cleaning, Closing
<1> QED
  BY <1>1, <1>3, <1>4, <1>5, <1>6, <1>7, SaveHere

LEMMA VerifyAllStep == IInv /\ VerifyAll => IInv'
<1> SUFFICES ASSUME IInv, VerifyAll PROVE IInv'
  OBVIOUS
<1>1. /\ pc = "verifyAll" /\ UNCHANGED <<files, env>> /\ pc \in Working \cap Unlocked
      /\ "clear" \in Working \cap Unlocked
  BY DEF VerifyAll, Working, Unlocked, Labels
<1>2. /\ "ledger" \in mem.done /\ "packet" \in mem.done /\ "done" \in mem.done /\ written = 0 /\ ~failed
      /\ Keeps(mem) => "commit" \in mem.done
      /\ ~Keeps(mem) => {"tracked", "untracked"} \subseteq mem.done
  BY <1>1 DEF IInv, StageInv, Working, Labels, Committing, Cleaning, Closing
<1>3. CASE Continue("clear")
  <2>1. StageInv' /\ WindowInv'
    BY <1>2, <1>3 DEF Continue, Goto, StageInv, WindowInv, Working, Committing, Recording, Restoring,
                      Cleaning, Closing, Keeps
  <2> QED
    BY <1>1, <1>3, <2>1, ContinueHere
<1>4. CASE Return /\ UNCHANGED receipt
  <2>1. UNCHANGED <<history, ledger, packet, runs>>
    BY <1>1 DEF files, git, env
  <2>2. receipt' \in Receipt /\ Good(receipt)'
    BY <1>1, <1>4, <2>1, Running DEF Good
  <2>3. CommandType' /\ pc' = "idle" /\ PastInv' /\ ReceiptInv' /\ StageInv' /\ WindowInv'
    BY <1>4, <2>1, <2>2, EndStep
  <2> QED
    BY <1>1, <2>3, QuietType DEF IInv, Unlocked, Labels
<1> QED
  BY <1>3, <1>4 DEF VerifyAll

\* When everything is done the event is in the ledger, with its commit.
LEMMA WholeAtClear ==
  ASSUME IInv, pc = "clear"
  PROVE  /\ Logged(ledger, mem.run) /\ packet = NoPacket
         /\ mem.kind = "keep" => \E i \in 1 .. Len(history) : history[i].by = mem.run
<1>1. pc \in Working
  BY DEF Working, Labels
<1>2. /\ "ledger" \in mem.done /\ "packet" \in mem.done
      /\ Keeps(mem) => "commit" \in mem.done
  BY DEF IInv, StageInv, Working, Labels, Committing, Closing
<1>3. Honest(ledger, packet, mem) /\ Made(history, ledger, runs, mem)
  BY <1>1, Running DEF Good
<1>4. Chunks \in 1 .. Chunks
  BY BoundsAssumption
<1>5. mem.prefix \in Nat /\ Len(ledger) \in Nat
  BY <1>1, Running DEF Receipt
<1>6. mem.prefix + Chunks <= Len(ledger)
      /\ ledger[mem.prefix + Chunks] = [run |-> mem.run, part |-> Chunks, commit |-> mem.commit]
  BY <1>2, <1>3, <1>4 DEF Honest
<1>7. mem.prefix + Chunks \in 1 .. Len(ledger)
  BY <1>4, <1>5, <1>6
<1>8. Logged(ledger, mem.run)
  BY <1>6, <1>7 DEF Logged
<1>9. mem.kind = "keep" => mem.oid \in 1 .. Len(history) /\ history[mem.oid].by = mem.run
  BY <1>2, <1>3 DEF Honest, Made, Keeps
<1> QED
  BY <1>2, <1>3, <1>8, <1>9 DEF Honest

LEMMA ClearStep == IInv /\ Clear => IInv'
<1> SUFFICES ASSUME IInv, Clear PROVE IInv'
  OBVIOUS
<1>1. pc = "clear" /\ UNCHANGED <<files, env>> /\ receipt' = NoReceipt /\ Return
  BY DEF Clear
<1>2. UNCHANGED <<history, ledger, packet, runs>>
  BY <1>1 DEF files, git, env
<1>3. pc \in Working /\ pc \in Unlocked /\ "idle" \in Unlocked
  BY <1>1 DEF Working, Unlocked, Labels
<1>4. CommandType' /\ pc' = "idle"
  BY <1>1, <1>3, Running, ReturnType, NoReceiptPart
<1>5. receipt.run = mem.run /\ packet = NoPacket /\ Logged(ledger, mem.run)
  BY <1>1, <1>3, Running, WholeAtClear
<1>6. PastInv'
  BY <1>1, <1>2, <1>5 DEF IInv, PastInv
<1>7. ReceiptInv'
  BY <1>1, <1>4 DEF ReceiptInv, Working, Return
<1>8. StageInv' /\ WindowInv'
  BY <1>1, <1>4 DEF StageInv, WindowInv, Return, Working, Committing, Recording, Restoring, Cleaning, Closing
<1>9. TypeOK'
  BY <1>1, <1>3, <1>4, Running, QuietType
<1> QED
  BY <1>6, <1>7, <1>8, <1>9 DEF IInv

\* A step that only sets the command's own state.
LEMMA ResumeStep == ASSUME NEW kind \in Kinds PROVE IInv /\ Resume(kind) => IInv'
<1> SUFFICES ASSUME IInv, Resume(kind) PROVE IInv'
  OBVIOUS
<1>1. /\ pc = "idle" /\ receipt # NoReceipt /\ mem' = receipt /\ late' = FALSE /\ Goto(Enter(receipt))
      /\ UNCHANGED <<files, receipt, runs, faults, gits, crashes>>
  BY DEF Resume
<1>2. UNCHANGED <<history, index, work, extra, headLock, indexLock, ledger, packet>>
  BY <1>1 DEF files, git
<1>3. /\ TypeOK /\ receipt \in Receipt /\ Good(receipt) /\ written = 0 /\ ~failed
  BY <1>1 DEF IInv, TypeOK, ReceiptInv, StageInv, Cleaning
<1>4. pc' = Enter(receipt) /\ Enter(receipt) \in {"verifyAll", "commit", "ledger"} /\ UNCHANGED <<failed, written>>
  BY <1>1 DEF Enter, Goto
<1>5. TypeOK'
  <2>1. CommandType' /\ EnvType' /\ FilesType'
    BY <1>1, <1>2, <1>3, <1>4, Types DEF CommandType, EnvType, FilesType, Labels
  <2>2. LocksType'
    BY <1>1, <1>2, <1>3, <1>4, Types DEF LocksType
  <2> QED
    BY <2>1, <2>2, TypesPrimed
<1>6. PastInv'
  BY <1>1, <1>2 DEF IInv, PastInv
<1>7. ReceiptInv'
  BY <1>1, <1>2, <1>3, <1>4 DEF ReceiptInv, Good, Link, Working, Labels
<1>8. receipt.status = "done" =>
        /\ {"ledger", "packet", "done"} \subseteq receipt.done
        /\ Keeps(receipt) => "commit" \in receipt.done
        /\ ~Keeps(receipt) => {"tracked", "untracked"} \subseteq receipt.done
  BY <1>3 DEF Good, Honest
<1>9. StageInv' /\ WindowInv'
  BY <1>1, <1>3, <1>4, <1>8 DEF Enter, StageInv, WindowInv, Working, Labels, Committing, Recording, Restoring,
                                Cleaning, Closing
<1> QED
  BY <1>5, <1>6, <1>7, <1>9 DEF IInv

LEMMA LogStep == ASSUME NEW kind \in Kinds PROVE IInv /\ Log(kind) => IInv'
<1> SUFFICES ASSUME IInv, Log(kind) PROVE IInv'
  OBVIOUS
<1> DEFINE r == [NoReceipt EXCEPT
       !.run = packet.run, !.kind = kind,
       !.tracked = (kind = "discard" /\ {index, work} # {HeadTree}),
       !.untracked = (kind = "discard" /\ extra # 0)]
<1>1. /\ pc = "idle" /\ receipt = NoReceipt /\ packet # NoPacket /\ mem' = r /\ late' = FALSE /\ Goto("prepare")
      /\ UNCHANGED <<files, receipt, runs, faults, gits, crashes>>
  BY DEF Log, Fresh
<1>2. UNCHANGED <<history, index, work, extra, headLock, indexLock, ledger, packet>>
  BY <1>1 DEF files, git
<1>3. TypeOK /\ packet \in Packet /\ written = 0 /\ ~failed
  BY <1>1 DEF IInv, TypeOK, StageInv, Cleaning
<1>4. r \in Receipt /\ r.run = packet.run /\ r.done = {} /\ r.status = "pending"
  <2>1. packet.run \in 0 .. MaxRuns
    BY <1>3 DEF Packet
  <2>2. (kind = "discard" /\ {index, work} # {HeadTree}) \in BOOLEAN /\ (kind = "discard" /\ extra # 0) \in BOOLEAN
    OBVIOUS
  <2> HIDE DEF Kinds
  <2>3. NoReceipt \in Receipt /\ NoReceipt.done = {} /\ NoReceipt.status = "pending"
    BY NoReceiptPart
  <2> QED
    BY <2>1, <2>2, <2>3 DEF Receipt
<1> HIDE DEF r
<1>5. pc' = "prepare" /\ UNCHANGED <<failed, written>>
  BY <1>1 DEF Goto
<1>6. TypeOK'
  <2>1. CommandType' /\ EnvType' /\ FilesType'
    BY <1>1, <1>2, <1>3, <1>4, <1>5, Types DEF CommandType, EnvType, FilesType, Labels
  <2>2. LocksType'
    BY <1>1, <1>2, <1>3, <1>5, Types DEF LocksType
  <2> QED
    BY <2>1, <2>2, TypesPrimed
<1>7. PastInv'
  BY <1>1, <1>2 DEF IInv, PastInv
<1>8. ReceiptInv'
  BY <1>1, <1>2, <1>4, <1>5 DEF ReceiptInv, Working
<1>9. StageInv' /\ WindowInv'
  BY <1>3, <1>5 DEF StageInv, WindowInv, Working, Committing, Recording, Restoring, Cleaning, Closing
<1> QED
  BY <1>6, <1>7, <1>8, <1>9 DEF IInv

-----------------------------------------------------------------------------
(* Steps of the command that change a file.                                *)

LEMMA LockHeadStep == IInv /\ LockHead => IInv'
<1> SUFFICES ASSUME IInv, LockHead PROVE IInv'
  OBVIOUS
<1>1. /\ pc = "lockHead" /\ pc \in Working /\ "advance" \in Working
      /\ UNCHANGED <<history, index, work, extra, indexLock, ledger, packet, env>>
      /\ UNCHANGED <<history, ledger, packet, runs>>
  BY DEF LockHead, Working, Labels, env
<1>2. Keeps(mem) /\ mem.kind = "keep" /\ "commit" \notin mem.done /\ written = 0 /\ ~failed
  BY <1>1 DEF IInv, StageInv, Committing, Cleaning
<1>3. FilesType' /\ EnvType'
  BY <1>1, Types DEF IInv, FilesType, EnvType, env
<1>4. CASE headLock = "free" /\ headLock' = "log" /\ Continue("advance")
  <2>1. CommandType' /\ pc' = "advance" /\ PastInv' /\ ReceiptInv'
    BY <1>1, <1>4, ContinueStep
  <2>2. LocksType'
    BY <1>1, <1>4, <2>1, Types DEF IInv, LocksType
  <2>3. StageInv' /\ WindowInv'
    BY <1>2, <1>4 DEF Continue, Goto, StageInv, WindowInv, Working, Committing, Recording, Restoring, Cleaning,
                      Closing, Keeps
  <2> QED
    BY <1>3, <2>1, <2>2, <2>3, TypesPrimed DEF IInv
<1>5. CASE Throw(mem) /\ UNCHANGED headLock
  <2>1. CommandType' /\ pc' = "idle" /\ PastInv' /\ ReceiptInv' /\ StageInv' /\ WindowInv'
    BY <1>1, <1>5, Running, ThrowStep
  <2>2. LocksType'
    BY <1>1, <1>5, <2>1, Types DEF IInv, LocksType
  <2> QED
    BY <1>3, <2>1, <2>2, TypesPrimed DEF IInv
<1> QED
  BY <1>4, <1>5 DEF LockHead

\* The commit of a keep is made on the receipt's head, before anything of the
\* event.
LEMMA AdvanceStep == IInv /\ Advance => IInv'
<1> SUFFICES ASSUME IInv, Advance PROVE IInv'
  OBVIOUS
<1>1. /\ pc = "advance" /\ pc \in Working /\ "unlockHead" \in Labels
      /\ UNCHANGED <<index, work, extra, indexLock, ledger, packet, runs, env>>
  BY DEF Advance, Working, Labels, env
<1>2. Keeps(mem) /\ mem.kind = "keep" /\ "commit" \notin mem.done /\ written = 0 /\ ~failed
  BY <1>1 DEF IInv, StageInv, Committing, Cleaning
<1>3. CASE /\ HeadOid = mem.head
           /\ history' = Append(history, [by |-> mem.run, tree |-> mem.tree])
           /\ Continue("unlockHead")
           /\ UNCHANGED headLock
  <2> DEFINE c == [by |-> mem.run, tree |-> mem.tree]
  <2>1. /\ mem \in Receipt /\ receipt \in Receipt /\ Good(mem) /\ Good(receipt) /\ Link /\ receipt # NoReceipt
        /\ mem.run \in 1 .. runs /\ FilesType /\ CommandType /\ mem.tree = mem.run
    BY <1>1, <1>2, Running DEF Good, Made
  <2>2. c \in Commit /\ c.by = mem.run /\ c.tree = mem.run
    BY <2>1 DEF Receipt, Commit
  <2> HIDE DEF c
  <2>3. history \in Seq(Commit)
    BY <2>1 DEF FilesType
  <2>4. history' = Append(history, c)
    BY <1>3 DEF c
  <2>5. /\ history' \in Seq(Commit) /\ history' # <<>> /\ Len(history) \in Nat
        /\ Len(history') = Len(history) + 1
        /\ \A i \in 1 .. Len(history) : history'[i] = history[i]
        /\ history'[Len(history) + 1] = c
        /\ 1 .. Len(history') = 1 .. Len(history) \cup {Len(history) + 1}
    BY <2>2, <2>3, <2>4, Grown
  <2>6. CommandType' /\ pc' = "unlockHead" /\ mem' = mem /\ receipt' = receipt /\ UNCHANGED <<failed, written>>
    BY <1>1, <1>3, <2>1, ContinueType DEF Continue, Goto
  <2>7. TypeOK'
    <3>1. FilesType' /\ EnvType'
      BY <1>1, <2>5, Types DEF IInv, FilesType, EnvType, env
    <3>2. LocksType'
      BY <1>1, <1>3, <2>6, Types DEF IInv, LocksType
    <3> QED
      BY <2>6, <3>1, <3>2, TypesPrimed
  <2>8. mem.head = Len(history) /\ receipt.head = Len(history) /\ receipt.kind = "keep" /\ receipt.run = mem.run
    BY <1>2, <1>3, <2>1 DEF HeadOid, Link
  <2>9. Good(mem)' /\ Good(receipt)'
    <3>1. Made(Append(history, c), ledger, runs, mem)
      BY <1>2, <2>1, <2>2, <2>3, <2>8, HistoryGrows DEF Good
    <3>2. Made(Append(history, c), ledger, runs, receipt)
      BY <1>2, <2>1, <2>2, <2>3, <2>8, HistoryGrows DEF Good
    <3> QED
      BY <1>1, <2>1, <2>4, <2>6, <3>1, <3>2 DEF Good
  <2>10. PastInv'
    <3>1. \A k \in 1 .. Len(ledger) : ledger[k].run # mem.run
      BY <1>2, <2>1 DEF Good, Made
    <3>2. \A i \in 1 .. Len(history') : history'[i].by # Foreign =>
            /\ history'[i].by <= runs /\ history'[i].tree = history'[i].by
            /\ history'[i].by = receipt.run \/ Logged(ledger, history'[i].by)
            /\ \A k \in 1 .. Len(ledger) : ledger[k].run = history'[i].by => ledger[k].commit = i
      <4> SUFFICES ASSUME NEW i \in 1 .. Len(history'), history'[i].by # Foreign
                   PROVE  /\ history'[i].by <= runs /\ history'[i].tree = history'[i].by
                          /\ history'[i].by = receipt.run \/ Logged(ledger, history'[i].by)
                          /\ \A k \in 1 .. Len(ledger) : ledger[k].run = history'[i].by => ledger[k].commit = i
        OBVIOUS
      <4>1. CASE i \in 1 .. Len(history)
        BY <2>5, <4>1 DEF IInv, PastInv
      <4>2. CASE i = Len(history) + 1
        BY <2>1, <2>2, <2>5, <2>8, <3>1, <4>2
      <4> QED
        BY <2>5, <4>1, <4>2
    <3>3. receipt' # NoReceipt
      BY <2>1, <2>6
    <3> QED
      BY <1>1, <2>6, <3>2, <3>3 DEF IInv, PastInv
  <2>11. ReceiptInv'
    BY <1>1, <2>1, <2>6, <2>9 DEF ReceiptInv, Link
  <2>12. StageInv' /\ WindowInv'
    <3>1. HeadOid' = mem'.head + 1 /\ history'[HeadOid'].by = mem'.run
      BY <2>2, <2>5, <2>6, <2>8 DEF HeadOid
    <3> QED
      BY <1>2, <2>6, <3>1 DEF StageInv, WindowInv, Working, Committing, Recording, Restoring, Cleaning,
                              Closing, Keeps
  <2> QED
    BY <2>7, <2>10, <2>11, <2>12 DEF IInv
<1>4. CASE headLock' = "free" /\ Throw(mem) /\ UNCHANGED history
  <2>1. CommandType' /\ pc' = "idle" /\ PastInv' /\ ReceiptInv' /\ StageInv' /\ WindowInv'
    BY <1>1, <1>4, Running, ThrowStep
  <2>2. FilesType' /\ EnvType'
    BY <1>1, <1>4, Types DEF IInv, FilesType, EnvType, env
  <2>3. LocksType'
    BY <1>1, <1>4, <2>1, Types DEF IInv, LocksType
  <2> QED
    BY <2>1, <2>2, <2>3, TypesPrimed DEF IInv
<1> QED
  BY <1>3, <1>4 DEF Advance

LEMMA UnlockHeadStep == IInv /\ UnlockHead => IInv'
<1> SUFFICES ASSUME IInv, UnlockHead PROVE IInv'
  OBVIOUS
<1>1. /\ pc = "unlockHead" /\ pc \in Working /\ headLock' = "free"
      /\ mem' = [mem EXCEPT !.oid = HeadOid] /\ Goto("lockIndex")
      /\ UNCHANGED <<history, index, work, extra, indexLock, ledger, packet, receipt, runs, env>>
  BY DEF UnlockHead, Working, Labels, env
<1>2. /\ Keeps(mem) /\ mem.kind = "keep" /\ "commit" \notin mem.done /\ written = 0 /\ ~failed
      /\ HeadOid = mem.head + 1 /\ history[HeadOid].by = mem.run
  BY <1>1 DEF IInv, StageInv, Committing, Cleaning
<1>3. HeadOid \in Nat /\ HeadOid \in 1 .. Len(history)
  BY <1>1, Running, HeadType DEF HeadOid
<1>4. /\ mem' \in Receipt /\ Alike(mem', mem) /\ mem'.done = mem.done
      /\ mem'.commit = mem.commit /\ pc' = "lockIndex" /\ UNCHANGED <<failed, written, receipt>>
  BY <1>1, <1>3, Running, OidPart DEF Goto
<1>5. Good(mem)'
  <2>1. Good([mem EXCEPT !.oid = HeadOid])
    BY <1>1, <1>2, <1>3, Running, OidGood DEF Good
  <2> QED
    BY <1>1, <2>1 DEF Good
<1>6. TypeOK'
  <2>1. CommandType' /\ FilesType' /\ EnvType'
    BY <1>1, <1>4, Running, Types DEF CommandType, FilesType, EnvType, env, Labels
  <2>2. LocksType'
    BY <1>1, <1>4, Running, Types DEF LocksType
  <2> QED
    BY <2>1, <2>2, TypesPrimed
<1>7. PastInv'
  BY <1>1 DEF IInv, PastInv
<1>8. ReceiptInv'
  BY <1>1, <1>4, <1>5, Running DEF ReceiptInv, Good, Link, Alike
<1>9. StageInv' /\ WindowInv'
  BY <1>2, <1>4 DEF StageInv, WindowInv, Working, Committing, Recording, Restoring, Cleaning, Closing, Keeps, Alike
<1> QED
  BY <1>6, <1>7, <1>8, <1>9 DEF IInv

LEMMA LockIndexStep == IInv /\ LockIndex => IInv'
<1> SUFFICES ASSUME IInv, LockIndex PROVE IInv'
  OBVIOUS
<1>1. /\ pc = "lockIndex" /\ pc \in Working /\ "install" \in Working
      /\ UNCHANGED <<history, index, work, extra, headLock, ledger, packet, runs, env>>
  BY DEF LockIndex, Working, Labels, env
<1>2. Keeps(mem) /\ mem.kind = "keep" /\ "commit" \notin mem.done /\ written = 0 /\ ~failed
  BY <1>1 DEF IInv, StageInv, Committing, Cleaning
<1>3. FilesType' /\ EnvType'
  BY <1>1, Types DEF IInv, FilesType, EnvType, env
<1>4. CASE indexLock = "free" /\ indexLock' = "log" /\ Continue("install")
  <2>1. CommandType' /\ pc' = "install" /\ PastInv' /\ ReceiptInv'
    BY <1>1, <1>4, ContinueStep
  <2>2. LocksType'
    BY <1>1, <1>4, <2>1, Types DEF IInv, LocksType
  <2>3. StageInv' /\ WindowInv'
    BY <1>2, <1>4 DEF Continue, Goto, StageInv, WindowInv, Working, Committing, Recording, Restoring, Cleaning,
                      Closing, Keeps
  <2> QED
    BY <1>3, <2>1, <2>2, <2>3, TypesPrimed DEF IInv
<1>5. CASE Throw(mem) /\ UNCHANGED indexLock
  <2>1. CommandType' /\ pc' = "idle" /\ PastInv' /\ ReceiptInv' /\ StageInv' /\ WindowInv'
    BY <1>1, <1>5, Running, ThrowStep
  <2>2. LocksType'
    BY <1>1, <1>5, <2>1, Types DEF IInv, LocksType
  <2> QED
    BY <1>3, <2>1, <2>2, TypesPrimed DEF IInv
<1> QED
  BY <1>4, <1>5 DEF LockIndex

LEMMA InstallStep == IInv /\ Install => IInv'
<1> SUFFICES ASSUME IInv, Install PROVE IInv'
  OBVIOUS
<1>1. /\ pc = "install" /\ pc \in Working /\ {"verifyCommit", "record"} \subseteq Working
      /\ indexLock' = "free"
      /\ UNCHANGED <<history, work, extra, headLock, ledger, packet, runs, env>>
  BY DEF Install, Working, Labels, env
<1>2. Keeps(mem) /\ mem.kind = "keep" /\ "commit" \notin mem.done /\ written = 0 /\ ~failed
  BY <1>1 DEF IInv, StageInv, Committing, Cleaning
<1>3. CASE /\ index \in {mem.tree, mem.index} /\ index' = mem.tree
           /\ Continue(IF receipt.oid = mem.oid THEN "verifyCommit" ELSE "record")
  <2> PICK label \in {"verifyCommit", "record"} : Continue(label)
    BY <1>3
  <2>1. CommandType' /\ pc' = label /\ PastInv' /\ ReceiptInv'
    BY <1>1, ContinueStep
  <2>2. mem.tree \in Content
    <3>1. mem.tree = mem.run /\ mem.run \in 1 .. runs /\ EnvType
      BY <1>1, <1>2, Running, Types DEF Good, Made
    <3> QED
      BY <3>1, BoundsAssumption DEF EnvType, Content
  <2>3. FilesType' /\ EnvType'
    BY <1>1, <1>3, <2>2, Types DEF IInv, FilesType, EnvType, env
  <2>4. LocksType'
    BY <1>1, <2>1, Types DEF IInv, LocksType
  <2>5. StageInv' /\ WindowInv'
    BY <1>2 DEF Continue, Goto, StageInv, WindowInv, Working, Committing, Recording, Restoring, Cleaning,
                      Closing, Keeps
  <2> QED
    BY <2>1, <2>3, <2>4, <2>5, TypesPrimed DEF IInv
<1>4. CASE Throw(mem) /\ UNCHANGED index
  <2>1. CommandType' /\ pc' = "idle" /\ PastInv' /\ ReceiptInv' /\ StageInv' /\ WindowInv'
    BY <1>1, <1>4, Running, ThrowStep
  <2>2. FilesType' /\ EnvType' /\ LocksType'
    BY <1>1, <1>4, <2>1, Types DEF IInv, FilesType, EnvType, LocksType, env
  <2> QED
    BY <2>1, <2>2, TypesPrimed DEF IInv
<1> QED
  BY <1>3, <1>4 DEF Install

\* Only a torn beginning of the event is cut off.
LEMMA TruncateStep == IInv /\ Truncate => IInv'
<1> SUFFICES ASSUME IInv, Truncate PROVE IInv'
  OBVIOUS
<1>1. /\ pc = "truncate" /\ pc \in Working /\ "append" \in Labels
      /\ ledger' = SubSeq(ledger, 1, mem.prefix) /\ Continue("append")
      /\ UNCHANGED <<history, index, work, extra, headLock, indexLock, packet, runs, env>>
  BY DEF Truncate, Working, Labels, env, git
<1>2. /\ "ledger" \notin mem.done /\ (Keeps(mem) => "commit" \in mem.done) /\ written = 0 /\ ~failed
      /\ \A i \in mem.prefix + 1 .. Len(ledger) : ledger[i].run = mem.run
  BY <1>1 DEF IInv, StageInv, Working, Labels, Committing, Cleaning
<1>3. /\ mem \in Receipt /\ receipt \in Receipt /\ Good(mem) /\ Good(receipt) /\ Link /\ receipt # NoReceipt
      /\ FilesType /\ CommandType /\ mem.prefix <= Len(ledger) /\ ledger \in Seq(Chunk)
      /\ mem.prefix \in Nat /\ Len(ledger) \in Nat
  BY <1>1, Running DEF Receipt
<1>4. /\ ledger' \in Seq(Chunk) /\ Len(ledger') = mem.prefix
      /\ \A i \in 1 .. mem.prefix : ledger'[i] = ledger[i]
  <2>1. \A i \in 1 .. mem.prefix : ledger[i] \in Chunk
    BY <1>3
  <2>2. /\ SubSeq(ledger, 1, mem.prefix) \in Seq(Chunk)
        /\ Len(SubSeq(ledger, 1, mem.prefix)) = IF 1 <= mem.prefix THEN mem.prefix - 1 + 1 ELSE 0
        /\ \A i \in 1 .. mem.prefix - 1 + 1 : SubSeq(ledger, 1, mem.prefix)[i] = ledger[1 + i - 1]
    BY <1>3, <2>1, SubSeqProperties
  <2>3. (IF 1 <= mem.prefix THEN mem.prefix - 1 + 1 ELSE 0) = mem.prefix
        /\ \A i \in 1 .. mem.prefix : i \in 1 .. mem.prefix - 1 + 1 /\ 1 + i - 1 = i
    BY <1>3
  <2> QED
    BY <1>1, <2>2, <2>3
<1>5. \A i \in 1 .. mem.prefix : i \in 1 .. Len(ledger)
  BY <1>3
<1>6. CommandType' /\ pc' = "append" /\ mem' = mem /\ receipt' = receipt /\ UNCHANGED <<failed, written>>
  BY <1>1, <1>3, ContinueType DEF Continue, Goto
<1>7. TypeOK'
  <2>1. FilesType' /\ EnvType'
    BY <1>1, <1>4, Types DEF IInv, FilesType, EnvType, env
  <2>2. LocksType'
    BY <1>1, <1>6, Types DEF IInv, LocksType
  <2> QED
    BY <1>6, <2>1, <2>2, TypesPrimed
<1>8. ASSUME NEW r \in Receipt, Good(r), r.prefix = mem.prefix, "ledger" \notin r.done
      PROVE  Made(history, ledger', runs, r) /\ Honest(ledger', packet, r)
  <2>1. Made(history, ledger', runs, r)
    BY <1>3, <1>4, <1>5, <1>8 DEF Good, Made
  <2>2. Honest(ledger', packet, r)
    BY <1>8 DEF Good, Honest
  <2> QED
    BY <2>1, <2>2
<1>9. Good(mem)' /\ Good(receipt)'
  <2>1. receipt.prefix = mem.prefix /\ "ledger" \notin receipt.done
    BY <1>2, <1>3 DEF Link
  <2> QED
    BY <1>1, <1>2, <1>3, <1>6, <1>8, <2>1 DEF Good
<1>10. PastInv'
  <2>1. ASSUME NEW x, x # receipt.run, Logged(ledger, x) PROVE Logged(ledger', x)
    <3>1. PICK k \in 1 .. Len(ledger) : ledger[k].run = x /\ ledger[k].part = Chunks
      BY <2>1 DEF Logged
    <3>2. k \notin mem.prefix + 1 .. Len(ledger)
      BY <1>2, <1>3, <2>1, <3>1 DEF Link
    <3>3. k \in 1 .. mem.prefix
      BY <1>3, <3>2
    <3> QED
      BY <1>4, <3>1, <3>3 DEF Logged
  <2>2. \A k \in 1 .. Len(ledger') : k \in 1 .. Len(ledger) /\ ledger'[k] = ledger[k]
    BY <1>4, <1>5
  <2>3. receipt' # NoReceipt
    BY <1>3, <1>6
  <2> HIDE DEF Logged
  <2> QED
    BY <1>1, <1>6, <2>1, <2>2, <2>3 DEF IInv, PastInv
<1>11. ReceiptInv'
  BY <1>1, <1>3, <1>6, <1>9 DEF ReceiptInv, Link
<1>12. StageInv' /\ WindowInv'
  <2>1. Len(ledger') = mem'.prefix + written'
    BY <1>2, <1>3, <1>4, <1>6
  <2> QED
    BY <1>2, <1>6, <2>1 DEF StageInv, WindowInv, Working, Committing, Recording, Restoring, Cleaning,
                            Closing, Keeps
<1> QED
  BY <1>7, <1>10, <1>11, <1>12 DEF IInv

\* The next chunk of the event, behind the prefix and what was appended of it.
LEMMA NextChunk ==
  ASSUME IInv, pc = "append"
  PROVE  LET c == Event(mem)[written + 1] IN
         /\ c \in Chunk /\ c = [run |-> mem.run, part |-> written + 1, commit |-> mem.commit]
         /\ written \in 0 .. Chunks - 1 /\ Len(ledger) = mem.prefix + written
         /\ mem.prefix \in Nat
<1>1. pc \in Working
  BY DEF Working, Labels
<1>2. written \in 0 .. Chunks - 1 /\ Len(ledger) = mem.prefix + written
  BY DEF IInv, TypeOK, StageInv
<1>3. written + 1 \in 1 .. Chunks
  BY <1>2, BoundsAssumption
<1>4. Event(mem)[written + 1] = [run |-> mem.run, part |-> written + 1, commit |-> mem.commit]
  BY <1>3, EventIs
<1>5. [run |-> mem.run, part |-> written + 1, commit |-> mem.commit] \in Chunk
  BY <1>1, <1>3, Running DEF Receipt, Chunk
<1>6. mem.prefix \in Nat
  BY <1>1, Running DEF Receipt
<1> QED
  BY <1>2, <1>4, <1>5, <1>6

LEMMA AppendChunkStep == IInv /\ AppendChunk => IInv'
<1> SUFFICES ASSUME IInv, AppendChunk PROVE IInv'
  OBVIOUS
<1> DEFINE c == Event(mem)[written + 1]
<1>1. /\ pc = "append" /\ pc \in Working /\ {"append", "verifyLedger"} \subseteq Labels
      /\ ledger' = Append(ledger, c)
      /\ UNCHANGED <<history, index, work, extra, headLock, indexLock, packet, receipt, mem, failed, runs, env>>
  BY DEF AppendChunk, Working, Labels, env, git
<1>2. /\ c \in Chunk /\ c = [run |-> mem.run, part |-> written + 1, commit |-> mem.commit]
      /\ written \in 0 .. Chunks - 1 /\ Len(ledger) = mem.prefix + written
      /\ mem.prefix \in Nat
  BY <1>1, NextChunk
<1> HIDE DEF c
<1>3. /\ \/ pc' = "append" /\ written' = written + 1 /\ written + 1 < Chunks
         \/ pc' = "verifyLedger" /\ written' = 0
      /\ written' \in 0 .. Chunks - 1
  BY <1>1, <1>2, BoundsAssumption DEF AppendChunk
<1>4. /\ "ledger" \notin mem.done /\ (Keeps(mem) => "commit" \in mem.done) /\ ~failed
  BY <1>1 DEF IInv, StageInv, Working, Labels, Committing, Cleaning
<1>5. /\ mem \in Receipt /\ receipt \in Receipt /\ Good(mem) /\ Good(receipt) /\ Link /\ receipt # NoReceipt
      /\ FilesType /\ CommandType /\ ledger \in Seq(Chunk) /\ mem.run \in 1 .. runs /\ receipt.run = mem.run
  BY <1>1, Running
<1>6. /\ ledger' \in Seq(Chunk) /\ Len(ledger) \in Nat /\ Len(ledger') = Len(ledger) + 1
      /\ \A i \in 1 .. Len(ledger) : ledger'[i] = ledger[i]
      /\ ledger'[Len(ledger) + 1] = c
      /\ 1 .. Len(ledger') = 1 .. Len(ledger) \cup {Len(ledger) + 1}
  BY <1>1, <1>2, <1>5, Grown
<1>7. TypeOK'
  <2>1. FilesType' /\ EnvType'
    BY <1>1, <1>6, Types DEF IInv, FilesType, EnvType, env
  <2>2. LocksType'
    BY <1>1, <1>3, Types DEF IInv, LocksType
  <2>3. CommandType'
    BY <1>1, <1>3, <1>5 DEF CommandType
  <2> QED
    BY <2>1, <2>2, <2>3, TypesPrimed
<1>8. Good(mem)' /\ Good(receipt)'
  <2>1. Len(ledger) + 1 = mem.prefix + c.part /\ c.commit = mem.commit /\ c.run = mem.run
    BY <1>2
  <2>2. Made(history, Append(ledger, c), runs, mem) /\ Honest(Append(ledger, c), packet, mem)
    BY <1>2, <1>4, <1>5, <2>1, LedgerGrows DEF Good
  <2>3. receipt.prefix = mem.prefix /\ receipt.commit = mem.commit /\ receipt.done = mem.done
        /\ Keeps(receipt) = Keeps(mem)
    BY <1>5 DEF Link, Keeps
  <2>4. Made(history, Append(ledger, c), runs, receipt) /\ Honest(Append(ledger, c), packet, receipt)
    BY <1>2, <1>4, <1>5, <2>1, <2>3, LedgerGrows DEF Good
  <2> QED
    BY <1>1, <2>2, <2>4 DEF Good
<1>9. PastInv'
  <2>1. \A x : Logged(ledger, x) => Logged(ledger', x)
    BY <1>1, <1>2, <1>5, LoggedGrows
  <2>2. \A i \in 1 .. Len(history) : history[i].by = mem.run => mem.commit = i
    BY <1>4, <1>5 DEF Good, Made, Honest, Keeps
  <2>3. \A k \in 1 .. Len(ledger') : ledger'[k].run <= runs
    <3>1. runs \in Nat
      BY DEF IInv, TypeOK
    <3>2. c.run <= runs
      BY <1>2, <1>5, <3>1
    <3> QED
      BY <1>6, <3>2 DEF IInv, PastInv
  <2>4. \A i \in 1 .. Len(history) : history[i].by # Foreign =>
          \A k \in 1 .. Len(ledger') : ledger'[k].run = history[i].by => ledger'[k].commit = i
    <3> SUFFICES ASSUME NEW i \in 1 .. Len(history), history[i].by # Foreign,
                        NEW k \in 1 .. Len(ledger'), ledger'[k].run = history[i].by
                 PROVE  ledger'[k].commit = i
      OBVIOUS
    <3>1. CASE k \in 1 .. Len(ledger)
      BY <1>6, <3>1 DEF IInv, PastInv
    <3>2. CASE k = Len(ledger) + 1
      BY <1>2, <1>6, <2>2, <3>2
    <3> QED
      BY <1>6, <3>1, <3>2
  <2>5. receipt' # NoReceipt
    BY <1>1, <1>5
  <2> QED
    BY <1>1, <2>1, <2>3, <2>4, <2>5 DEF IInv, PastInv
<1>10. ReceiptInv'
  BY <1>1, <1>3, <1>5, <1>8 DEF ReceiptInv, Link
<1>11. StageInv' /\ WindowInv'
  <2>1. pc' = "append" => Len(ledger') = mem'.prefix + written'
    BY <1>1, <1>2, <1>3, <1>6
  <2> QED
    BY <1>1, <1>3, <1>4, <2>1 DEF StageInv, WindowInv, Working, Committing, Recording, Restoring, Cleaning,
                                  Closing, Keeps
<1> QED
  BY <1>7, <1>9, <1>10, <1>11 DEF IInv

LEMMA RestoreIndexStep == IInv /\ RestoreIndex => IInv'
<1> SUFFICES ASSUME IInv, RestoreIndex PROVE IInv'
  OBVIOUS
<1>1. /\ pc = "restoreIndex" /\ pc \in Working /\ pc \in Restoring /\ "checkWork" \in Working
      /\ UNCHANGED <<history, work, extra, headLock, indexLock, ledger, packet, runs, env>>
  BY DEF RestoreIndex, Working, Labels, env, Restoring
<1>2. ~Keeps(mem) /\ "ledger" \in mem.done /\ written = 0 /\ ~failed
  BY <1>1 DEF IInv, StageInv, Restoring, Cleaning
<1>3. HeadTree \in Content
  BY <1>1, Running, HeadType
<1>4. EnvType' /\ index' \in Content => FilesType'
  BY <1>1, Types DEF IInv, FilesType, EnvType, env
<1>5. EnvType'
  BY <1>1, Types DEF IInv, EnvType, env
<1>6. CASE index' = HeadTree /\ Continue("checkWork")
  <2>1. CommandType' /\ pc' = "checkWork" /\ PastInv' /\ ReceiptInv'
    BY <1>1, <1>6, ContinueStep
  <2>2. LocksType'
    BY <1>1, <2>1, Types DEF IInv, LocksType
  <2>3. StageInv' /\ WindowInv'
    BY <1>2, <1>6 DEF Continue, Goto, StageInv, WindowInv, Working, Committing, Recording, Restoring, Cleaning,
                      Closing, Keeps
  <2> QED
    BY <1>3, <1>4, <1>5, <1>6, <2>1, <2>2, <2>3, TypesPrimed DEF IInv
<1>7. CASE UNCHANGED index /\ TrackedFails(mem)
  <2>1. CommandType' /\ pc' = "untracked" /\ PastInv' /\ ReceiptInv' /\ StageInv' /\ WindowInv'
    BY <1>1, <1>7, TrackedFailsStep
  <2>2. LocksType' /\ index' \in Content
    BY <1>1, <1>7, <2>1, Types DEF IInv, LocksType, FilesType
  <2> QED
    BY <1>4, <1>5, <2>1, <2>2, TypesPrimed DEF IInv
<1> QED
  BY <1>6, <1>7 DEF RestoreIndex

LEMMA RestoreWorkStep == IInv /\ RestoreWork => IInv'
<1> SUFFICES ASSUME IInv, RestoreWork PROVE IInv'
  OBVIOUS
<1>1. /\ pc = "restoreWork" /\ pc \in Working /\ pc \in Restoring /\ "verifyTracked" \in Working
      /\ UNCHANGED <<history, index, extra, headLock, indexLock, ledger, packet, runs, env>>
  BY DEF RestoreWork, Working, Labels, env, Restoring
<1>2. ~Keeps(mem) /\ "ledger" \in mem.done /\ written = 0 /\ ~failed
  BY <1>1 DEF IInv, StageInv, Restoring, Cleaning
<1>3. HeadTree \in Content
  BY <1>1, Running, HeadType
<1>4. EnvType' /\ work' \in Content => FilesType'
  BY <1>1, Types DEF IInv, FilesType, EnvType, env
<1>5. EnvType'
  BY <1>1, Types DEF IInv, EnvType, env
<1>6. CASE work' = HeadTree /\ Continue("verifyTracked")
  <2>1. CommandType' /\ pc' = "verifyTracked" /\ PastInv' /\ ReceiptInv'
    BY <1>1, <1>6, ContinueStep
  <2>2. LocksType'
    BY <1>1, <2>1, Types DEF IInv, LocksType
  <2>3. StageInv' /\ WindowInv'
    BY <1>2, <1>6 DEF Continue, Goto, StageInv, WindowInv, Working, Committing, Recording, Restoring, Cleaning,
                      Closing, Keeps
  <2> QED
    BY <1>3, <1>4, <1>5, <1>6, <2>1, <2>2, <2>3, TypesPrimed DEF IInv
<1>7. CASE UNCHANGED work /\ TrackedFails(mem)
  <2>1. CommandType' /\ pc' = "untracked" /\ PastInv' /\ ReceiptInv' /\ StageInv' /\ WindowInv'
    BY <1>1, <1>7, TrackedFailsStep
  <2>2. LocksType' /\ work' \in Content
    BY <1>1, <1>7, <2>1, Types DEF IInv, LocksType, FilesType
  <2> QED
    BY <1>4, <1>5, <2>1, <2>2, TypesPrimed DEF IInv
<1> QED
  BY <1>6, <1>7 DEF RestoreWork

LEMMA CleanStep == IInv /\ Clean => IInv'
<1> SUFFICES ASSUME IInv, Clean PROVE IInv'
  OBVIOUS
<1>1. /\ pc = "clean" /\ pc \in Working /\ "verifyUntracked" \in Working
      /\ extra' = 0 /\ Continue("verifyUntracked")
      /\ UNCHANGED <<history, index, work, headLock, indexLock, ledger, packet, runs, env>>
  BY DEF Clean, Working, Labels, env
<1>2. ~Keeps(mem) /\ "ledger" \in mem.done /\ written = 0 /\ (failed \/ "tracked" \in mem.done)
  BY <1>1 DEF IInv, StageInv, Cleaning
<1>3. CommandType' /\ pc' = "verifyUntracked" /\ PastInv' /\ ReceiptInv'
  BY <1>1, ContinueStep
<1>4. 0 \in Content
  BY BoundsAssumption DEF Content
<1>5. FilesType' /\ EnvType' /\ LocksType'
  BY <1>1, <1>3, <1>4, Types DEF IInv, FilesType, EnvType, LocksType, env
<1>6. StageInv' /\ WindowInv'
  BY <1>1, <1>2 DEF Continue, Goto, StageInv, WindowInv, Working, Committing, Recording, Restoring, Cleaning,
                    Closing, Keeps
<1> QED
  BY <1>3, <1>5, <1>6, TypesPrimed DEF IInv

LEMMA PacketStageStep == IInv /\ PacketStage => IInv'
<1> SUFFICES ASSUME IInv, PacketStage PROVE IInv'
  OBVIOUS
<1>1. /\ pc = "packet" /\ pc \in Working \cap Unlocked
      /\ {"finish", "checkpointPacket"} \subseteq Working \cap Unlocked
      /\ UNCHANGED <<history, index, work, extra, headLock, indexLock, ledger, runs, env>>
  BY DEF PacketStage, Working, Unlocked, Labels, env, git
<1>2. /\ "ledger" \in mem.done /\ written = 0 /\ ~failed
      /\ Keeps(mem) => "commit" \in mem.done
      /\ ~Keeps(mem) => {"tracked", "untracked"} \subseteq mem.done
  BY <1>1 DEF IInv, StageInv, Working, Labels, Committing, Cleaning, Closing
<1>3. CASE "packet" \in mem.done /\ UNCHANGED packet /\ Continue("finish")
  <2>1. StageInv' /\ WindowInv'
    BY <1>2, <1>3 DEF Continue, Goto, StageInv, WindowInv, Working, Committing, Recording, Restoring,
                      Cleaning, Closing, Keeps
  <2> QED
    BY <1>1, <1>3, <2>1, ContinueHere DEF files, git
<1>4. CASE UNCHANGED packet /\ Throw(mem)
  BY <1>1, <1>4, ThrowMem DEF files, git
<1>5. CASE packet' = NoPacket /\ Continue("checkpointPacket")
  <2>1. CommandType' /\ pc' = "checkpointPacket" /\ mem' = mem /\ receipt' = receipt /\ UNCHANGED <<failed, written>>
    BY <1>1, <1>5, Running, ContinueType DEF Continue, Goto, Working
  <2>2. /\ mem \in Receipt /\ receipt \in Receipt /\ Good(mem) /\ Good(receipt) /\ Link /\ receipt # NoReceipt
    BY <1>1, Running
  <2>3. TypeOK'
    <3>1. FilesType' /\ EnvType'
      BY <1>1, <1>5, Types, NoReceiptPart DEF IInv, FilesType, EnvType, env
    <3>2. LocksType'
      BY <1>1, <2>1, Types DEF IInv, LocksType
    <3> QED
      BY <2>1, <3>1, <3>2, TypesPrimed
  <2>4. \A r \in Receipt : Honest(ledger, packet, r) => Honest(ledger, NoPacket, r)
    BY DEF Honest
  <2>5. Good(mem)' /\ Good(receipt)'
    BY <1>1, <1>5, <2>1, <2>2, <2>4 DEF Good
  <2>6. PastInv'
    BY <1>1, <1>5, <2>1, <2>2 DEF IInv, PastInv
  <2>7. ReceiptInv'
    BY <1>1, <2>1, <2>2, <2>5 DEF ReceiptInv, Link
  <2>8. StageInv' /\ WindowInv'
    BY <1>2, <1>5, <2>1 DEF StageInv, WindowInv, Working, Committing, Recording, Restoring,
                            Cleaning, Closing, Keeps
  <2> QED
    BY <2>3, <2>6, <2>7, <2>8 DEF IInv
<1> QED
  BY <1>3, <1>4, <1>5 DEF PacketStage

-----------------------------------------------------------------------------
(* Deaths and other programs.                                              *)

LEMMA CrashStep == IInv /\ Crash => IInv'
<1> SUFFICES ASSUME IInv, Crash PROVE IInv'
  OBVIOUS
<1>1. /\ Return /\ headLock' = Abandon(headLock) /\ indexLock' = Abandon(indexLock)
      /\ crashes' = crashes + 1 /\ crashes < MaxCrashes
      /\ UNCHANGED <<history, index, work, extra, ledger, packet, receipt, late, runs, faults, gits>>
  BY DEF Crash
<1>2. receipt \in Receipt /\ FilesType /\ EnvType /\ LocksType
  BY Types DEF IInv, CommandType
<1>3. receipt' # NoReceipt => Good(receipt)'
  BY <1>1 DEF IInv, ReceiptInv, Good
<1>4. CommandType' /\ pc' = "idle" /\ PastInv' /\ ReceiptInv' /\ StageInv' /\ WindowInv'
  BY <1>1, <1>2, <1>3, EndStep
<1>5. FilesType' /\ LocksType'
  BY <1>1, <1>2, <1>4 DEF FilesType, LocksType, Abandon
<1>6. EnvType'
  BY <1>1, <1>2, BoundsAssumption DEF EnvType
<1> QED
  BY <1>4, <1>5, <1>6, TypesPrimed DEF IInv

\* A change that leaves the history, the ledger, the packet, the receipt and the
\* command alone.
LEMMA OutsideStep ==
  ASSUME IInv, UNCHANGED <<history, ledger, packet, runs, receipt, command>>, TypeOK', WindowInv'
  PROVE  IInv'
<1>1. UNCHANGED <<pc, mem, failed, written>>
  BY DEF command
<1>2. PastInv'
  BY DEF IInv, PastInv
<1>3. ReceiptInv'
  BY <1>1 DEF IInv, ReceiptInv, Good, Link
<1>4. StageInv'
  BY <1>1 DEF IInv, StageInv, HeadOid, Keeps
<1> QED
  BY <1>2, <1>3, <1>4 DEF IInv

LEMMA FaultType ==
  ASSUME TypeOK, NEW b \in BOOLEAN, Fault(b)
  PROVE  /\ EnvType' /\ late' = (late \/ b) /\ UNCHANGED <<ledger, packet, receipt, runs, command>>
         /\ UNCHANGED <<pc, mem, failed, written>> /\ CommandType'
<1>1. /\ faults < MaxFaults /\ faults' = faults + 1 /\ late' = (late \/ b)
      /\ UNCHANGED <<ledger, packet, receipt, command, runs, gits, crashes>>
      /\ UNCHANGED <<pc, mem, failed, written>>
  BY DEF Fault, command
<1>2. faults' \in 0 .. MaxFaults
  BY <1>1, BoundsAssumption DEF TypeOK
<1>3. late' \in BOOLEAN
  BY <1>1 DEF TypeOK
<1>4. EnvType'
  BY <1>1, <1>2, <1>3, Types DEF EnvType
<1> QED
  BY <1>1, <1>4, Types DEF CommandType

LEMMA EditStep == IInv /\ Edit => IInv'
<1> SUFFICES ASSUME IInv, Edit PROVE IInv'
  OBVIOUS
<1>1. /\ Fault(pc = "restoreWork") /\ work' \in Content
      /\ UNCHANGED <<history, index, extra, headLock, indexLock>>
  BY DEF Edit
<1>2. /\ EnvType' /\ late' = (late \/ pc = "restoreWork") /\ UNCHANGED <<ledger, packet, receipt, runs, command>>
      /\ UNCHANGED <<pc, mem, failed, written>> /\ CommandType'
  BY <1>1, FaultType DEF IInv
<1>3. FilesType' /\ LocksType'
  BY <1>1, <1>2, Types DEF IInv, FilesType, LocksType
<1>4. WindowInv'
  BY <1>1, <1>2 DEF IInv, WindowInv, HeadOid, HeadTree
<1> QED
  BY <1>1, <1>2, <1>3, <1>4, TypesPrimed, OutsideStep

LEMMA EditExtraStep == IInv /\ EditExtra => IInv'
<1> SUFFICES ASSUME IInv, EditExtra PROVE IInv'
  OBVIOUS
<1>1. /\ Fault(pc = "clean") /\ extra' \in Content
      /\ UNCHANGED <<history, index, work, headLock, indexLock>>
  BY DEF EditExtra
<1>2. /\ EnvType' /\ late' = (late \/ pc = "clean") /\ UNCHANGED <<ledger, packet, receipt, runs, command>>
      /\ UNCHANGED <<pc, mem, failed, written>> /\ CommandType'
  BY <1>1, FaultType DEF IInv
<1>3. FilesType' /\ LocksType'
  BY <1>1, <1>2, Types DEF IInv, FilesType, LocksType
<1>4. WindowInv'
  BY <1>1, <1>2 DEF IInv, WindowInv, HeadOid, HeadTree
<1> QED
  BY <1>1, <1>2, <1>3, <1>4, TypesPrimed, OutsideStep

LEMMA StageStep == IInv /\ Stage => IInv'
<1> SUFFICES ASSUME IInv, Stage PROVE IInv'
  OBVIOUS
<1>1. /\ Fault(pc = "restoreIndex") /\ index' \in {work, HeadTree}
      /\ UNCHANGED <<history, work, extra, headLock, indexLock>>
  BY DEF Stage
<1>2. /\ EnvType' /\ late' = (late \/ pc = "restoreIndex") /\ UNCHANGED <<ledger, packet, receipt, runs, command>>
      /\ UNCHANGED <<pc, mem, failed, written>> /\ CommandType'
  BY <1>1, FaultType DEF IInv
<1>3. index' \in Content
  BY <1>1, HeadType, Types DEF IInv, FilesType
<1>4. FilesType' /\ LocksType'
  BY <1>1, <1>2, <1>3, Types DEF IInv, FilesType, LocksType
<1>5. WindowInv'
  BY <1>1, <1>2 DEF IInv, WindowInv, HeadOid, HeadTree
<1> QED
  BY <1>1, <1>2, <1>4, <1>5, TypesPrimed, OutsideStep

\* A commit of the user's moves HEAD away from the receipt's.
LEMMA ForeignCommit ==
  ASSUME IInv, NEW c \in Commit, c.by = Foreign, history' = Append(history, c),
         UNCHANGED <<ledger, packet, receipt, runs>>
  PROVE  /\ history' \in Seq(Commit) /\ history' # <<>> /\ Len(history) \in Nat
         /\ Len(history') = Len(history) + 1
         /\ \A i \in 1 .. Len(history) : history'[i] = history[i]
         /\ history'[Len(history) + 1] = c
         /\ 1 .. Len(history') = 1 .. Len(history) \cup {Len(history) + 1}
         /\ PastInv'
         /\ \A r \in Receipt : Good(r) => Made(history', ledger, runs, r) /\ Honest(ledger, packet, r)
<1>1. history \in Seq(Commit)
  BY DEF IInv, TypeOK
<1>2. /\ history' \in Seq(Commit) /\ history' # <<>> /\ Len(history) \in Nat
      /\ Len(history') = Len(history) + 1
      /\ \A i \in 1 .. Len(history) : history'[i] = history[i]
      /\ history'[Len(history) + 1] = c
      /\ 1 .. Len(history') = 1 .. Len(history) \cup {Len(history) + 1}
  BY <1>1, Grown
<1>3. \A i \in 1 .. Len(history') : history'[i].by # Foreign => i \in 1 .. Len(history) /\ history'[i] = history[i]
  BY <1>2
<1>4. PastInv'
  <2>1. packet # NoPacket => packet.run # Foreign
    BY DEF IInv, PastInv, Foreign
  <2>2. receipt = NoReceipt /\ packet # NoPacket => \A i \in 1 .. Len(history') : history'[i].by # packet.run
    BY <1>3, <2>1 DEF IInv, PastInv
  <2> QED
    BY <1>3, <2>2 DEF IInv, PastInv
<1>5. ASSUME NEW r \in Receipt, Good(r) PROVE Made(history', ledger, runs, r) /\ Honest(ledger, packet, r)
  <2>1. c.by # r.run
    BY <1>5 DEF Good, Made, Foreign
  <2> QED
    BY <1>1, <1>5, <2>1, HistoryGrows DEF Good
<1> QED
  BY <1>2, <1>4, <1>5

LEMMA GitCommitStep == IInv /\ GitCommit => IInv'
<1> SUFFICES ASSUME IInv, GitCommit PROVE IInv'
  OBVIOUS
<1>1. PICK x \in {work, index} : /\ history' = Append(history, [by |-> Foreign, tree |-> x]) /\ index' = x
                                 /\ Fault(FALSE) /\ headLock = "free" /\ indexLock = "free"
                                 /\ UNCHANGED <<work, extra, headLock, indexLock>>
  BY DEF GitCommit
<1>2. /\ EnvType' /\ late' = late /\ UNCHANGED <<ledger, packet, receipt, runs, command>>
      /\ UNCHANGED <<pc, mem, failed, written>> /\ CommandType'
  BY <1>1, FaultType DEF IInv, TypeOK
<1> DEFINE c == [by |-> Foreign, tree |-> x]
<1>3. x \in Content /\ c \in Commit /\ c.by = Foreign
  BY <1>1, BoundsAssumption DEF IInv, TypeOK, Commit, Foreign
<1>4. history' = Append(history, c)
  BY <1>1
<1> HIDE DEF c
<1>5. /\ history' \in Seq(Commit) /\ history' # <<>> /\ Len(history) \in Nat
      /\ Len(history') = Len(history) + 1 /\ PastInv'
      /\ \A r \in Receipt : Good(r) => Made(history', ledger, runs, r) /\ Honest(ledger, packet, r)
  BY <1>2, <1>3, <1>4, ForeignCommit
<1>6. TypeOK'
  <2>1. FilesType' /\ LocksType'
    BY <1>1, <1>2, <1>3, <1>5, Types DEF IInv, FilesType, LocksType
  <2> QED
    BY <1>2, <2>1, TypesPrimed
<1>7. mem \in Receipt /\ receipt \in Receipt
  BY DEF IInv, TypeOK
<1>8. ReceiptInv'
  <2>1. Good(receipt) => Good(receipt)'
    BY <1>2, <1>5, <1>7 DEF Good
  <2>2. Good(mem) => Good(mem)'
    BY <1>2, <1>5, <1>7 DEF Good
  <2> HIDE DEF Good
  <2> QED
    BY <1>2, <2>1, <2>2 DEF IInv, ReceiptInv, Link
<1>9. pc \notin {"advance", "unlockHead", "install"}
  BY <1>1 DEF IInv, TypeOK
<1>10. StageInv'
  BY <1>2, <1>9 DEF IInv, StageInv, Keeps
<1>11. WindowInv'
  <2>1. pc \in {"restoreIndex", "restoreWork"} => HeadOid' # mem.head
    <3>1. pc \in {"restoreIndex", "restoreWork"} => mem.head \in 1 .. Len(history)
      BY Running DEF Good, Made, Working, Labels
    <3> QED
      BY <1>5, <3>1 DEF HeadOid
  <2> QED
    BY <1>1, <1>2, <2>1 DEF IInv, WindowInv
<1> QED
  BY <1>5, <1>6, <1>8, <1>10, <1>11 DEF IInv

LEMMA GitLocksStep == IInv /\ GitLocks => IInv'
<1> SUFFICES ASSUME IInv, GitLocks PROVE IInv'
  OBVIOUS
<1>1. /\ gits' = gits + 1 /\ gits < MaxGits
      /\ \/ headLock = "free" /\ headLock' = "git" /\ UNCHANGED indexLock
         \/ indexLock = "free" /\ indexLock' = "git" /\ UNCHANGED headLock
      /\ UNCHANGED <<history, index, work, extra, ledger, packet, receipt, command>>
      /\ UNCHANGED <<late, runs, faults, crashes>> /\ UNCHANGED <<pc, mem, failed, written>>
  BY DEF GitLocks, command
<1>2. gits' \in 0 .. MaxGits
  BY <1>1, BoundsAssumption DEF IInv, TypeOK
<1>3. FilesType' /\ CommandType' /\ EnvType'
  BY <1>1, <1>2, Types DEF IInv, FilesType, CommandType, EnvType
<1>4. LocksType'
  BY <1>1, Types DEF IInv, LocksType
<1>5. WindowInv'
  BY <1>1 DEF IInv, WindowInv, HeadOid, HeadTree
<1> QED
  BY <1>1, <1>3, <1>4, <1>5, TypesPrimed, OutsideStep

LEMMA GitUnlocksStep == IInv /\ GitUnlocks => IInv'
<1> SUFFICES ASSUME IInv, GitUnlocks PROVE IInv'
  OBVIOUS
<1>1. /\ \/ headLock = "git" /\ headLock' = "free" /\ UNCHANGED indexLock
         \/ indexLock = "git" /\ indexLock' = "free" /\ UNCHANGED headLock
      /\ UNCHANGED <<history, index, work, extra, ledger, packet, receipt, command>>
      /\ UNCHANGED <<late, runs, faults, gits, crashes>> /\ UNCHANGED <<pc, mem, failed, written>>
  BY DEF GitUnlocks, command, env
<1>2. FilesType' /\ CommandType' /\ EnvType'
  BY <1>1, Types DEF IInv, FilesType, CommandType, EnvType
<1>3. LocksType'
  BY <1>1, Types DEF IInv, LocksType
<1>4. WindowInv'
  BY <1>1 DEF IInv, WindowInv, HeadOid, HeadTree
<1> QED
  BY <1>1, <1>2, <1>3, <1>4, TypesPrimed, OutsideStep

LEMMA AppendOtherStep == IInv /\ AppendOther => IInv'
<1> SUFFICES ASSUME IInv, AppendOther PROVE IInv'
  OBVIOUS
<1> DEFINE c == [run |-> Foreign, part |-> 1, commit |-> 0]
<1>1. /\ pc = "idle" /\ faults < MaxFaults /\ faults' = faults + 1 /\ ledger' = Append(ledger, c)
      /\ UNCHANGED <<history, index, work, extra, headLock, indexLock, packet, receipt, late, runs, gits, crashes>>
      /\ UNCHANGED <<pc, mem, failed, written>>
  BY DEF AppendOther, git, command
<1>2. c \in Chunk /\ c.run = Foreign
  BY BoundsAssumption DEF Chunk, Foreign
<1> HIDE DEF c
<1>3. ledger \in Seq(Chunk) /\ receipt \in Receipt
  BY DEF IInv, TypeOK
<1>4. /\ ledger' \in Seq(Chunk) /\ Len(ledger) \in Nat /\ Len(ledger') = Len(ledger) + 1
      /\ \A i \in 1 .. Len(ledger) : ledger'[i] = ledger[i]
      /\ ledger'[Len(ledger) + 1] = c
      /\ 1 .. Len(ledger') = 1 .. Len(ledger) \cup {Len(ledger) + 1}
  BY <1>1, <1>2, <1>3, Grown
<1>5. TypeOK'
  <2>1. faults' \in 0 .. MaxFaults
    BY <1>1, BoundsAssumption DEF IInv, TypeOK
  <2>2. FilesType' /\ LocksType' /\ CommandType' /\ EnvType'
    BY <1>1, <1>4, <2>1, Types DEF IInv, FilesType, LocksType, CommandType, EnvType
  <2> QED
    BY <2>2, TypesPrimed
<1>6. receipt # NoReceipt => Good(receipt)'
  <2> SUFFICES ASSUME receipt # NoReceipt PROVE Good(receipt)'
    OBVIOUS
  <2>1. Good(receipt)
    BY DEF IInv, ReceiptInv
  <2>2. c.run # receipt.run
    BY <1>2, <2>1 DEF Good, Made, Foreign
  <2>3. Made(history, Append(ledger, c), runs, receipt) /\ Honest(Append(ledger, c), packet, receipt)
    BY <1>2, <1>3, <2>1, <2>2, LedgerGrows DEF Good
  <2> QED
    BY <1>1, <2>3 DEF Good
<1>7. PastInv'
  <2>1. \A x : Logged(ledger, x) => Logged(ledger', x)
    BY <1>1, <1>2, <1>3, LoggedGrows
  <2>2. \A k \in 1 .. Len(ledger') : ledger'[k].run # Foreign => k \in 1 .. Len(ledger) /\ ledger'[k] = ledger[k]
    BY <1>2, <1>4
  <2>3. \A k \in 1 .. Len(ledger') : ledger'[k].run <= runs
    <3>1. runs \in Nat
      BY DEF IInv, TypeOK
    <3> QED
      BY <1>2, <1>4, <3>1 DEF IInv, PastInv, Foreign
  <2>4. packet # NoPacket => packet.run # Foreign
    BY DEF IInv, PastInv, Foreign
  <2>5. receipt = NoReceipt /\ packet # NoPacket => \A k \in 1 .. Len(ledger') : ledger'[k].run # packet.run
    BY <2>2, <2>4 DEF IInv, PastInv
  <2>6. \A i \in 1 .. Len(history) : history[i].by # Foreign =>
          \A k \in 1 .. Len(ledger') : ledger'[k].run = history[i].by => ledger'[k].commit = i
    BY <2>2 DEF IInv, PastInv
  <2> HIDE DEF Logged
  <2> QED
    BY <1>1, <2>1, <2>3, <2>5, <2>6 DEF IInv, PastInv
<1>8. ReceiptInv'
  BY <1>1, <1>6 DEF IInv, ReceiptInv, Working
<1>9. StageInv' /\ WindowInv'
  BY <1>1 DEF IInv, StageInv, WindowInv, Working, Committing, Recording, Restoring, Cleaning, Closing
<1> QED
  BY <1>5, <1>7, <1>8, <1>9 DEF IInv

\* The run of a new packet is a new one.
LEMMA NextPacketStep == IInv /\ NextPacket => IInv'
<1> SUFFICES ASSUME IInv, NextPacket PROVE IInv'
  OBVIOUS
<1>1. /\ pc = "idle" /\ receipt = NoReceipt /\ runs < MaxRuns /\ runs' = runs + 1
      /\ work' = runs' /\ extra' \in {0, runs'}
      /\ packet' = [run |-> runs', head |-> Len(history'), index |-> index', work |-> work',
                    extra |-> extra']
      /\ UNCHANGED <<headLock, indexLock, ledger, receipt, late, faults, gits, crashes>>
      /\ UNCHANGED <<pc, mem, failed, written>>
  BY DEF NextPacket, command
<1>2. runs \in 0 .. MaxRuns /\ runs' \in 0 .. MaxRuns /\ runs' \in Content /\ 0 \in Content /\ runs \in Nat
  BY <1>1, BoundsAssumption DEF IInv, TypeOK, Content
<1>3. history \in Seq(Commit) /\ history # <<>> /\ HeadTree \in Content
  BY HeadType, Types DEF IInv, FilesType
<1>4. /\ history' \in Seq(Commit) /\ history' # <<>> /\ index' \in Content
      /\ \A i \in 1 .. Len(history') :
           history'[i].by = Foreign \/ (i \in 1 .. Len(history) /\ history'[i] = history[i])
  <2>1. CASE index' \in {HeadTree, runs'} /\ UNCHANGED history
    BY <1>2, <1>3, <2>1
  <2>2. CASE index' = runs' /\ history' = Append(history, [by |-> Foreign, tree |-> runs'])
    <3> DEFINE c == [by |-> Foreign, tree |-> runs']
    <3>1. c \in Commit /\ c.by = Foreign
      BY <1>2, BoundsAssumption DEF Commit, Foreign
    <3> HIDE DEF c
    <3>2. history' = Append(history, c)
      BY <2>2 DEF c
    <3>3. /\ history' \in Seq(Commit) /\ history' # <<>>
          /\ \A i \in 1 .. Len(history) : history'[i] = history[i]
          /\ history'[Len(history) + 1] = c
          /\ 1 .. Len(history') = 1 .. Len(history) \cup {Len(history) + 1}
      BY <1>3, <3>1, <3>2, Grown
    <3> QED
      BY <1>2, <2>2, <3>1, <3>3
  <2> QED
    BY <2>1, <2>2 DEF NextPacket
<1>5. packet' \in Packet /\ packet'.run = runs + 1
  BY <1>1, <1>2, <1>4 DEF Packet
<1>6. TypeOK'
  <2>1. FilesType'
    BY <1>1, <1>2, <1>4, <1>5, Types DEF IInv, FilesType
  <2>2. LocksType' /\ CommandType' /\ EnvType'
    BY <1>1, <1>2, Types DEF IInv, LocksType, CommandType, EnvType
  <2> QED
    BY <2>1, <2>2, TypesPrimed
<1>7. PastInv'
  <2>1. \A i \in 1 .. Len(history') : history'[i].by # Foreign =>
          /\ history'[i].by <= runs /\ history'[i].tree = history'[i].by
          /\ history'[i].by = receipt.run \/ Logged(ledger, history'[i].by)
          /\ \A k \in 1 .. Len(ledger) : ledger[k].run = history'[i].by => ledger[k].commit = i
    BY <1>4 DEF IInv, PastInv
  <2>2. \A k \in 1 .. Len(ledger) : ledger[k].run <= runs /\ ledger[k].run \in Nat
    <3>1. \A k \in 1 .. Len(ledger) : ledger[k] \in Chunk
      BY HeadType, Types DEF IInv
    <3> QED
      BY <3>1 DEF IInv, PastInv, Chunk
  <2>3. \A i \in 1 .. Len(history') : history'[i].by \in Nat
    <3>1. \A i \in 1 .. Len(history') : history'[i] \in Commit
      BY <1>4
    <3> QED
      BY <3>1 DEF Commit
  <2>4. /\ \A i \in 1 .. Len(history') : history'[i].by # Foreign => history'[i].by <= runs'
        /\ \A k \in 1 .. Len(ledger') : ledger'[k].run <= runs'
    BY <1>1, <1>2, <2>1, <2>2, <2>3
  <2>5. /\ \A i \in 1 .. Len(history') : history'[i].by # packet'.run
        /\ \A k \in 1 .. Len(ledger') : ledger'[k].run # packet'.run
    BY <1>1, <1>2, <1>5, <2>1, <2>2, <2>3 DEF Foreign
  <2>6. packet'.run \in 1 .. runs'
    BY <1>1, <1>2, <1>5
  <2> HIDE DEF Logged
  <2> QED
    BY <1>1, <2>1, <2>4, <2>5, <2>6 DEF PastInv
<1>8. ReceiptInv'
  BY <1>1 DEF IInv, ReceiptInv, Working
<1>9. StageInv' /\ WindowInv'
  BY <1>1 DEF IInv, StageInv, WindowInv, Working, Committing, Recording, Restoring, Cleaning, Closing
<1> QED
  BY <1>6, <1>7, <1>8, <1>9 DEF IInv

LEMMA InitStep == Init => IInv
<1> SUFFICES ASSUME Init PROVE IInv
  OBVIOUS
<1>1. /\ history = <<[by |-> Foreign, tree |-> 0]>> /\ ledger = <<>> /\ packet = NoPacket /\ receipt = NoReceipt
      /\ pc = "idle" /\ mem = NoReceipt /\ failed = FALSE /\ written = 0
  BY DEF Init
<1>2. PastInv
  BY <1>1 DEF PastInv
<1>3. ReceiptInv
  BY <1>1 DEF ReceiptInv, Working
<1>4. StageInv /\ WindowInv
  BY <1>1 DEF StageInv, WindowInv, Working, Committing, Recording, Restoring, Cleaning, Closing
<1> QED
  BY <1>2, <1>3, <1>4, InitType DEF IInv

LEMMA StutterStep == IInv /\ UNCHANGED vars => IInv'
<1> SUFFICES ASSUME IInv, UNCHANGED vars PROVE IInv'
  OBVIOUS
<1>1. /\ UNCHANGED <<history, ledger, packet, runs, receipt, command>> /\ UNCHANGED <<files, env>>
      /\ UNCHANGED <<history, index, work, extra, headLock, indexLock, late>>
      /\ UNCHANGED <<pc, mem, failed, written, receipt>>
  BY DEF vars, files, git, command, env
<1>2. FilesType' /\ LocksType' /\ CommandType'
  BY <1>1, Types DEF IInv, FilesType, LocksType, CommandType
<1>3. EnvType'
  BY <1>1, Types DEF IInv, EnvType, env
<1>4. WindowInv'
  BY <1>1 DEF IInv, WindowInv, HeadOid, HeadTree
<1> QED
  BY <1>1, <1>2, <1>3, <1>4, TypesPrimed, OutsideStep

LEMMA IInvStep == IInv /\ [Next]_vars => IInv'
<1> SUFFICES ASSUME IInv, [Next]_vars PROVE IInv'
  OBVIOUS
<1>1. CASE Stepping
  BY <1>1, WriteReceiptStep, PrepareStep, CommitStageStep, BranchStep, CandidateStep, LockHeadStep, AdvanceStep,
     UnlockHeadStep, LockIndexStep, InstallStep, RecordStep, VerifyCommitStep, LedgerStageStep, TruncateStep,
     AppendChunkStep, VerifyLedgerStep, TrackedStageStep, RestoreIndexStep, CheckWorkStep, RestoreWorkStep,
     VerifyTrackedStep, UntrackedStageStep, CleanStep, VerifyUntrackedStep, PacketStageStep,
     CheckpointPacketStep, FinishStep, VerifyAllStep, ClearStep
     DEF Stepping
<1>2. CASE Others
  BY <1>2, EditStep, EditExtraStep, StageStep, GitCommitStep, GitLocksStep, GitUnlocksStep, AppendOtherStep
     DEF Others
<1>3. CASE (\E kind \in Kinds : Resume(kind)) \/ (\E kind \in Kinds : Log(kind))
  BY <1>3, ResumeStep, LogStep
<1>4. CASE NextPacket \/ Crash \/ UNCHANGED vars
  BY <1>4, NextPacketStep, CrashStep, StutterStep
<1> QED
  BY <1>1, <1>2, <1>3, <1>4 DEF Next, Step

LEMMA Inductive == Spec => []IInv
<1> QED
  BY InitStep, IInvStep, PTL DEF Spec

-----------------------------------------------------------------------------
(* The properties.                                                         *)

LEMMA CommitsAre ==
  ASSUME IInv
  PROVE  /\ \A x \in Commits : x[1] \in 1 .. Len(history) /\ x[2] = history[x[1]].by /\ x[2] # Foreign
         /\ \A i \in 1 .. Len(history) : history[i].by # Foreign => <<i, history[i].by>> \in Commits
<1>1. DOMAIN history = 1 .. Len(history)
  BY DEF IInv, TypeOK
<1> QED
  BY <1>1 DEF Commits

LEMMA EventsAre ==
  ASSUME IInv
  PROVE  /\ \A y \in Events : /\ y[1] \in 1 .. Len(ledger) /\ y[2] = ledger[y[1]].run /\ y[2] # Foreign
                              /\ ledger[y[1]].part = Chunks
         /\ \A i \in 1 .. Len(ledger) :
              ledger[i].run # Foreign /\ ledger[i].part = Chunks => <<i, ledger[i].run>> \in Events
<1>1. DOMAIN ledger = 1 .. Len(ledger)
  BY DEF IInv, TypeOK
<1> QED
  BY <1>1 DEF Events

LEMMA LoggedHasEvent ==
  ASSUME IInv, NEW x, x # Foreign, Logged(ledger, x)
  PROVE  \E y \in Events : y[2] = x
<1>1. PICK k \in 1 .. Len(ledger) : ledger[k].run = x /\ ledger[k].part = Chunks
  BY DEF Logged
<1>2. <<k, x>> \in Events
  BY <1>1, EventsAre
<1> QED
  BY <1>2

\* The shape of the state, whatever is interrupted or edited.
THEOREM TypeInvariance == Spec => []TypeOK
<1>1. IInv => TypeOK
  BY DEF IInv
<1> QED
  BY <1>1, Inductive, PTL

\* What a keep commits is the candidate that was evaluated.
THEOREM EvaluatedCommits == Spec => []CommittedIsEvaluated
<1>1. IInv => CommittedIsEvaluated
  <2> SUFFICES ASSUME IInv PROVE CommittedIsEvaluated
    OBVIOUS
  <2>1. DOMAIN history = 1 .. Len(history)
    BY DEF IInv, TypeOK
  <2> QED
    BY <2>1 DEF IInv, PastInv, CommittedIsEvaluated
<1> QED
  BY <1>1, Inductive, PTL

\* No death leaves a commit that neither the ledger nor a receipt knows of, and
\* the event of a commit names it.
THEOREM AccountedCommits == Spec => []CommitAccounted
<1>1. IInv => CommitAccounted
  <2> SUFFICES ASSUME IInv, NEW x \in Commits
               PROVE  /\ receipt.run = x[2] \/ \E y \in Events : y[2] = x[2]
                      /\ \A i \in DOMAIN ledger : ledger[i].run = x[2] => ledger[i].commit = x[1]
    BY DEF CommitAccounted
  <2>1. x[1] \in 1 .. Len(history) /\ x[2] = history[x[1]].by /\ x[2] # Foreign
    BY CommitsAre
  <2>2. receipt.run = x[2] \/ Logged(ledger, x[2])
    BY <2>1 DEF IInv, PastInv
  <2>3. \A i \in 1 .. Len(ledger) : ledger[i].run = x[2] => ledger[i].commit = x[1]
    BY <2>1 DEF IInv, PastInv
  <2>4. DOMAIN ledger = 1 .. Len(ledger)
    BY DEF IInv, TypeOK
  <2> QED
    BY <2>1, <2>2, <2>3, <2>4, LoggedHasEvent
<1> QED
  BY <1>1, Inductive, PTL

\* A stage that the receipt on disk calls complete has been carried out.
THEOREM HonestCheckpoints == Spec => []CheckpointHonest
<1>1. IInv => CheckpointHonest
  <2> SUFFICES ASSUME IInv PROVE CheckpointHonest
    OBVIOUS
  <2>0. /\ receipt \in Receipt /\ DOMAIN history = 1 .. Len(history) /\ ledger \in Seq(Chunk)
        /\ \A i \in 1 .. Len(history) : history[i].by # Foreign => history[i].tree = history[i].by
    BY DEF IInv, TypeOK, PastInv
  <2>1. CASE receipt = NoReceipt
    <3>1. receipt.done = {}
      BY <2>1, NoReceiptPart
    <3> QED
      BY <3>1 DEF CheckpointHonest
  <2>2. CASE receipt # NoReceipt
    <3>1. Made(history, ledger, runs, receipt) /\ Honest(ledger, packet, receipt)
      BY <2>2 DEF IInv, ReceiptInv, Good
    <3>2. "commit" \in receipt.done =>
            receipt.oid \in DOMAIN history /\ receipt.commit = receipt.oid
              /\ history[receipt.oid].tree = receipt.run
      BY <2>0, <3>1 DEF Made, Honest, Keeps, Foreign
    <3>3. "ledger" \in receipt.done =>
            /\ Len(ledger) >= receipt.prefix + Chunks
            /\ SubSeq(ledger, receipt.prefix + 1, receipt.prefix + Chunks) = Event(receipt)
      <4> SUFFICES ASSUME "ledger" \in receipt.done
                   PROVE  /\ Len(ledger) >= receipt.prefix + Chunks
                          /\ SubSeq(ledger, receipt.prefix + 1, receipt.prefix + Chunks) = Event(receipt)
        OBVIOUS
      <4> DEFINE p == receipt.prefix
                 s == SubSeq(ledger, p + 1, p + Chunks)
      <4>1. p \in Nat /\ Chunks \in Nat \ {0} /\ Len(ledger) \in Nat
        BY <2>0, BoundsAssumption DEF Receipt
      <4>2. \A k \in 1 .. Chunks : p + k <= Len(ledger) /\ ledger[p + k] = Event(receipt)[k]
        BY <3>1, EventIs DEF Honest
      <4>3. p + Chunks <= Len(ledger)
        BY <4>1, <4>2
      <4> HIDE DEF p
      <4>4. \A i \in p + 1 .. p + Chunks : ledger[i] \in Chunk
        BY <2>0, <4>1, <4>3
      <4>5. /\ s \in Seq(Chunk)
            /\ Len(s) = IF p + 1 <= p + Chunks THEN (p + Chunks) - (p + 1) + 1 ELSE 0
            /\ \A i \in 1 .. (p + Chunks) - (p + 1) + 1 : s[i] = ledger[(p + 1) + i - 1]
        BY <4>1, <4>4, SubSeqProperties
      <4> HIDE DEF s
      <4>6. Len(s) = Chunks /\ (p + Chunks) - (p + 1) + 1 = Chunks
            /\ \A i \in 1 .. Chunks : (p + 1) + i - 1 = p + i
        BY <4>1, <4>5
      <4>7. \A i \in 1 .. Chunks : s[i] = Event(receipt)[i]
        BY <4>2, <4>5, <4>6
      <4>8. s = [i \in 1 .. Chunks |-> s[i]] /\ Event(receipt) = [i \in 1 .. Chunks |-> Event(receipt)[i]]
        BY <4>5, <4>6 DEF Event
      <4>9. s = Event(receipt)
        BY <4>7, <4>8
      <4> QED
        BY <4>1, <4>3, <4>9 DEF p, s
    <3>4. "packet" \in receipt.done => packet = NoPacket
      BY <3>1 DEF Honest
    <3>5. "done" \in receipt.done =>
            receipt.done \cup {"commit", "tracked", "untracked"} = Stages
              /\ (IF Keeps(receipt) THEN "commit" \in receipt.done
                                    ELSE {"tracked", "untracked"} \subseteq receipt.done)
      <4>1. receipt.done \subseteq Stages
        BY <2>0 DEF Receipt
      <4> QED
        BY <3>1, <4>1 DEF Honest, Stages
    <3> QED
      BY <3>2, <3>3, <3>4, <3>5 DEF CheckpointHonest
  <2> QED
    BY <2>1, <2>2
<1> QED
  BY <1>1, Inductive, PTL

\* What a step may do to the history, the ledger and the receipt's run.
LEMMA HistoryMoves ==
  [Next]_vars => UNCHANGED history \/ Advance \/ NextPacket \/ GitCommit
BY DEF Next, Step, Stepping, Others, vars, files, git, env, command,
       WriteReceipt, Prepare, CommitStage, Branch, Candidate, LockHead, UnlockHead, LockIndex, Install, Record,
       VerifyCommit, LedgerStage, Truncate, AppendChunk, VerifyLedger, TrackedStage, RestoreIndex, CheckWork,
       RestoreWork, VerifyTracked, UntrackedStage, Clean, VerifyUntracked, PacketStage, CheckpointPacket,
       Finish, VerifyAll, Clear, Resume, Log, Crash, Edit, EditExtra, Stage, GitLocks, GitUnlocks, AppendOther

LEMMA LedgerMoves ==
  [Next]_vars => UNCHANGED ledger \/ Truncate \/ AppendChunk \/ AppendOther
BY DEF Next, Step, Stepping, Others, vars, files, git, env, command, Fault,
       WriteReceipt, Prepare, CommitStage, Branch, Candidate, LockHead, Advance, UnlockHead, LockIndex, Install,
       Record, VerifyCommit, LedgerStage, VerifyLedger, TrackedStage, RestoreIndex, CheckWork,
       RestoreWork, VerifyTracked, UntrackedStage, Clean, VerifyUntracked, PacketStage, CheckpointPacket,
       Finish, VerifyAll, Clear, Resume, Log, NextPacket, Crash, Edit, EditExtra, Stage, GitCommit, GitLocks,
       GitUnlocks

\* The run of the receipt on disk changes when it is written and removed.
SameRun == receipt'.run = receipt.run /\ receipt'.kind = receipt.kind

LEMMA ReceiptMoves ==
  ASSUME IInv, [Next]_vars
  PROVE  SameRun \/ (WriteReceipt /\ receipt = NoReceipt) \/ Clear
<1>1. ASSUME pc \in Working, NEW label, Save(mem, label) PROVE SameRun
  BY <1>1, Running DEF Save, Link, SameRun
<1>2. ASSUME pc \in Working, NEW stage \in Stages, NEW label, Save(Complete(mem, stage), label) PROVE SameRun
  BY <1>2, Running, CompletePart DEF Save, Alike, Link, SameRun
<1>3. ASSUME pc \in Working, Throw(mem) PROVE SameRun
  <2>1. receipt' = Failed(mem)
    BY <1>3 DEF Throw, Failed
  <2> QED
    BY <1>3, <2>1, Running, FailedPart DEF Alike, Link, SameRun
<1>4. ASSUME pc \in Working, TrackedFails(mem) PROVE SameRun
  <2>1. receipt' = Failed(mem)
    BY <1>4 DEF TrackedFails, Failed
  <2> QED
    BY <1>4, <2>1, Running, FailedPart DEF Alike, Link, SameRun
<1>5. ASSUME NEW label, Continue(label) PROVE SameRun
  BY <1>5 DEF Continue, SameRun
<1>6. ASSUME UNCHANGED receipt PROVE SameRun
  BY <1>6 DEF SameRun
<1>7. ASSUME pc \in Working, UntrackedComplete PROVE SameRun
  <2>1. CASE Save(Complete(mem, "untracked"), "packet")
    BY <1>2, <1>7, <2>1 DEF Stages
  <2>2. CASE Throw(Complete(mem, "untracked"))
    <3>1. receipt' = Failed(Complete(mem, "untracked"))
      BY <2>2 DEF Throw, Failed
    <3>2. "untracked" \in Stages /\ mem \in Receipt
      BY <1>7, Running DEF Stages
    <3>3. Complete(mem, "untracked") \in Receipt /\ Alike(Complete(mem, "untracked"), mem)
      BY <3>2, CompletePart
    <3>4. Alike(Failed(Complete(mem, "untracked")), Complete(mem, "untracked"))
      BY <3>3, FailedPart
    <3> QED
      BY <1>7, <3>1, <3>3, <3>4, Running DEF Alike, Link, SameRun
  <2> QED
    BY <1>7, <2>1, <2>2 DEF UntrackedComplete
<1>8. CASE CommitStage \/ Branch \/ Candidate \/ LockHead \/ Advance
  <2>1. pc \in Working
    BY <1>8 DEF CommitStage, Branch, Candidate, LockHead, Advance, Working, Labels
  <2> HIDE DEF Working
  <2> QED
    BY <1>3, <1>5, <1>6, <1>8, <2>1 DEF CommitStage, Branch, Candidate, LockHead, Advance
<1>9. CASE UnlockHead \/ LockIndex \/ Install
  <2>1. pc \in Working
    BY <1>9 DEF UnlockHead, LockIndex, Install, Working, Labels
  <2> QED
    BY <1>3, <1>5, <1>6, <1>9, <2>1 DEF UnlockHead, LockIndex, Install
<1>10. CASE Record
  <2>1. pc \in Working /\ receipt' = [mem EXCEPT !.commit = mem.oid]
    BY <1>10 DEF Record, Save, Working, Labels
  <2>2. mem \in Receipt /\ mem.oid \in Nat
    BY <2>1, Running DEF Receipt
  <2>3. Alike([mem EXCEPT !.commit = mem.oid], mem)
    BY <2>2, CommitPart
  <2> QED
    BY <2>1, <2>3, Running DEF Alike, Link, SameRun
<1>11. CASE VerifyCommit
  <2>1. pc \in Working
    BY <1>11 DEF VerifyCommit, Working, Labels
  <2>2. CASE Save(Complete([mem EXCEPT !.commit = mem.oid], "commit"), "ledger")
    <3> DEFINE r == [mem EXCEPT !.commit = mem.oid]
    <3>1. mem \in Receipt /\ mem.oid \in Nat /\ "commit" \in Stages
      BY <2>1, Running DEF Receipt, Stages
    <3>2. r \in Receipt /\ Alike(r, mem)
      BY <3>1, CommitPart
    <3>3. receipt' = Complete(r, "commit")
      BY <2>2 DEF Save
    <3> HIDE DEF r
    <3>4. Alike(Complete(r, "commit"), r)
      BY <3>1, <3>2, CompletePart
    <3> QED
      BY <2>1, <3>2, <3>3, <3>4, Running DEF Alike, Link, SameRun
  <2> QED
    BY <1>3, <1>11, <2>1, <2>2 DEF VerifyCommit
<1>12. CASE LedgerStage \/ Truncate \/ AppendChunk \/ VerifyLedger
  <2>1. pc \in Working
    BY <1>12 DEF LedgerStage, Truncate, AppendChunk, VerifyLedger, Working, Labels
  <2> QED
    BY <1>1, <1>2, <1>3, <1>5, <1>6, <1>12, <2>1 DEF LedgerStage, Truncate, AppendChunk, VerifyLedger, Stages
<1>13. CASE TrackedStage \/ RestoreIndex \/ CheckWork \/ RestoreWork \/ VerifyTracked
  <2>1. pc \in Working
    BY <1>13 DEF TrackedStage, RestoreIndex, CheckWork, RestoreWork, VerifyTracked, Working, Labels
  <2> QED
    BY <1>2, <1>4, <1>5, <1>13, <2>1 DEF TrackedStage, RestoreIndex, CheckWork, RestoreWork, VerifyTracked, Stages
<1>14. CASE UntrackedStage \/ Clean \/ VerifyUntracked
  <2>1. pc \in Working
    BY <1>14 DEF UntrackedStage, Clean, VerifyUntracked, Working, Labels
  <2> QED
    BY <1>3, <1>5, <1>7, <1>14, <2>1 DEF UntrackedStage, Clean, VerifyUntracked
<1>15. CASE PacketStage \/ CheckpointPacket \/ VerifyAll
  <2>1. pc \in Working
    BY <1>15 DEF PacketStage, CheckpointPacket, VerifyAll, Working, Labels
  <2> QED
    BY <1>2, <1>3, <1>5, <1>6, <1>15, <2>1 DEF PacketStage, CheckpointPacket, VerifyAll, Stages
<1>16. CASE Finish
  <2>1. pc \in Working /\ receipt' = [mem EXCEPT !.done = @ \cup {"done"}, !.status = "done"]
    BY <1>16 DEF Finish, Save, Working, Labels
  <2>2. mem \in Receipt
    BY <2>1, Running
  <2>3. receipt'.run = mem.run /\ receipt'.kind = mem.kind
    BY <2>1, <2>2 DEF Receipt
  <2> QED
    BY <2>1, <2>3, Running DEF Link, SameRun
<1>17. CASE WriteReceipt
  BY <1>17 DEF WriteReceipt, IInv, ReceiptInv
<1>18. CASE Prepare \/ (\E kind \in Kinds : Resume(kind)) \/ (\E kind \in Kinds : Log(kind)) \/ NextPacket \/ Crash
  BY <1>6, <1>18 DEF Prepare, Resume, Log, NextPacket, Crash
<1>19. CASE Others \/ UNCHANGED vars
  BY <1>6, <1>19 DEF Others, Edit, EditExtra, Stage, GitCommit, GitLocks, GitUnlocks, AppendOther, Fault, vars
<1> QED
  BY <1>8, <1>9, <1>10, <1>11, <1>12, <1>13, <1>14, <1>15, <1>16, <1>17, <1>18, <1>19 DEF Next, Step, Stepping

\* A receipt is only removed when everything it stood for is there.
THEOREM ClearsWhole == Spec => ClearedWhole
<1>1. IInv /\ [Next]_vars =>
        [receipt # NoReceipt /\ receipt' = NoReceipt =>
           /\ \E y \in Events : y[2] = receipt.run
           /\ receipt.kind = "keep" => \E x \in Commits : x[2] = receipt.run
           /\ packet = NoPacket]_vars
  <2> SUFFICES ASSUME IInv, [Next]_vars, receipt # NoReceipt, receipt' = NoReceipt
               PROVE  /\ \E y \in Events : y[2] = receipt.run
                      /\ receipt.kind = "keep" => \E x \in Commits : x[2] = receipt.run
                      /\ packet = NoPacket
    OBVIOUS
  <2>1. receipt.run \in 1 .. runs /\ receipt.run # Foreign
    BY DEF IInv, ReceiptInv, Good, Made, Foreign
  <2>2. ~SameRun
    BY <2>1, NoReceiptPart DEF SameRun, Foreign
  <2>3. pc = "clear"
    BY <2>2, ReceiptMoves DEF Clear
  <2>4. /\ Logged(ledger, mem.run) /\ packet = NoPacket
        /\ mem.kind = "keep" => \E i \in 1 .. Len(history) : history[i].by = mem.run
    BY <2>3, WholeAtClear
  <2>5. mem.run = receipt.run /\ mem.kind = receipt.kind
    BY <2>3, Running DEF Working, Labels, Link
  <2>6. receipt.kind = "keep" => \E x \in Commits : x[2] = receipt.run
    <3> SUFFICES ASSUME receipt.kind = "keep" PROVE \E x \in Commits : x[2] = receipt.run
      OBVIOUS
    <3>1. PICK i \in 1 .. Len(history) : history[i].by = mem.run
      BY <2>4, <2>5
    <3>2. <<i, history[i].by>> \in Commits
      BY <2>1, <2>5, <3>1, CommitsAre
    <3> QED
      BY <2>5, <3>1, <3>2
  <2> QED
    BY <2>1, <2>4, <2>5, <2>6, LoggedHasEvent
<1> QED
  BY <1>1, Inductive, PTL DEF Spec, ClearedWhole

\* The run of a torn event has no complete one, and everything that is cut off
\* is a chunk of it.
LEMMA TornEnd ==
  ASSUME IInv, Truncate
  PROVE  /\ \A i \in mem.prefix + 1 .. Len(ledger) : ledger[i].run = receipt.run /\ ledger[i].part # Chunks
         /\ ledger \in Seq(Chunk) /\ Len(ledger) \in Nat /\ mem.prefix \in 0 .. Len(ledger)
         /\ receipt.run # Foreign /\ ~Logged(ledger, receipt.run)
         /\ Len(ledger') = mem.prefix /\ ledger' \in Seq(Chunk)
         /\ \A i \in 1 .. mem.prefix : ledger'[i] = ledger[i]
<1>1. pc = "truncate" /\ pc \in Working /\ ledger' = SubSeq(ledger, 1, mem.prefix)
  BY DEF Truncate, Working, Labels
<1>2. /\ \A i \in mem.prefix + 1 .. Len(ledger) : ledger[i].run = mem.run
      /\ Len(ledger) < mem.prefix + Chunks
  BY <1>1 DEF IInv, StageInv
<1>3. /\ mem.run = receipt.run /\ mem.run \in 1 .. runs /\ mem.prefix \in Nat /\ mem.prefix <= Len(ledger)
      /\ ledger \in Seq(Chunk) /\ Made(history, ledger, runs, mem) /\ Len(ledger) \in Nat
  BY <1>1, Running DEF Receipt, Good
<1>4. \A i \in 1 .. Len(ledger) : ledger[i].run = mem.run => i = mem.prefix + ledger[i].part
  BY <1>3 DEF Made
<1>5. \A i \in 1 .. Len(ledger) : ledger[i].run = mem.run => ledger[i].part # Chunks
  BY <1>2, <1>3, <1>4, BoundsAssumption
<1>6. \A i \in mem.prefix + 1 .. Len(ledger) : i \in 1 .. Len(ledger)
  BY <1>3
<1>7. ~Logged(ledger, mem.run)
  BY <1>5 DEF Logged
<1>8. \A i \in 1 .. mem.prefix : ledger[i] \in Chunk
  BY <1>3
<1>9. /\ SubSeq(ledger, 1, mem.prefix) \in Seq(Chunk)
      /\ Len(SubSeq(ledger, 1, mem.prefix)) = IF 1 <= mem.prefix THEN mem.prefix - 1 + 1 ELSE 0
      /\ \A i \in 1 .. mem.prefix - 1 + 1 : SubSeq(ledger, 1, mem.prefix)[i] = ledger[1 + i - 1]
  BY <1>3, <1>8, SubSeqProperties
<1>10. (IF 1 <= mem.prefix THEN mem.prefix - 1 + 1 ELSE 0) = mem.prefix
       /\ \A i \in 1 .. mem.prefix : i \in 1 .. mem.prefix - 1 + 1 /\ 1 + i - 1 = i
  BY <1>3
<1>11. /\ Len(ledger') = mem.prefix /\ ledger' \in Seq(Chunk)
       /\ \A i \in 1 .. mem.prefix : ledger'[i] = ledger[i]
  BY <1>1, <1>9, <1>10
<1>12. receipt.run # Foreign /\ mem.prefix \in 0 .. Len(ledger)
  BY <1>3 DEF Foreign
<1> QED
  BY <1>2, <1>3, <1>5, <1>6, <1>7, <1>11, <1>12

\* An append keeps what is there.
LEMMA LedgerAppends ==
  ASSUME IInv, AppendChunk \/ AppendOther
  PROVE  \E c \in Chunk :
           /\ ledger' = Append(ledger, c)
           /\ AppendChunk => c = [run |-> mem.run, part |-> written + 1, commit |-> mem.commit]
           /\ AppendOther => c.run = Foreign
           /\ ledger' \in Seq(Chunk) /\ Len(ledger) \in Nat /\ Len(ledger') = Len(ledger) + 1
           /\ \A i \in 1 .. Len(ledger) : ledger'[i] = ledger[i]
           /\ ledger'[Len(ledger) + 1] = c
           /\ 1 .. Len(ledger') = 1 .. Len(ledger) \cup {Len(ledger) + 1}
<1>1. ledger \in Seq(Chunk)
  BY DEF IInv, TypeOK
<1>2. CASE AppendChunk
  <2> DEFINE c == Event(mem)[written + 1]
  <2>1. /\ pc = "append" /\ ledger' = Append(ledger, c) /\ ~AppendOther
    BY <1>2 DEF AppendChunk, AppendOther
  <2>2. c \in Chunk /\ c = [run |-> mem.run, part |-> written + 1, commit |-> mem.commit]
    BY <2>1, NextChunk
  <2> HIDE DEF c
  <2> WITNESS c \in Chunk
  <2> QED
    BY <1>1, <2>1, <2>2, Grown
<1>3. CASE AppendOther
  <2> DEFINE c == [run |-> Foreign, part |-> 1, commit |-> 0]
  <2>1. ledger' = Append(ledger, c) /\ ~AppendChunk
    BY <1>3 DEF AppendChunk, AppendOther
  <2>2. c \in Chunk /\ c.run = Foreign
    BY BoundsAssumption DEF Chunk, Foreign
  <2> HIDE DEF c
  <2> WITNESS c \in Chunk
  <2> QED
    BY <1>1, <2>1, <2>2, Grown
<1> QED
  BY <1>2, <1>3

\* The ledger only grows, but for the torn end of the pending run's own event.
THEOREM LedgerIsKept == Spec => LedgerKept
<1>1. IInv /\ [Next]_vars =>
        [\A i \in DOMAIN ledger :
           \/ i \in DOMAIN ledger' /\ ledger'[i] = ledger[i]
           \/ ledger[i].run = receipt.run /\ receipt.run # Foreign
                /\ ~\E y \in Events : y[2] = receipt.run]_vars
  <2> SUFFICES ASSUME IInv, [Next]_vars, NEW i \in DOMAIN ledger
               PROVE  \/ i \in DOMAIN ledger' /\ ledger'[i] = ledger[i]
                      \/ ledger[i].run = receipt.run /\ receipt.run # Foreign
                           /\ ~\E y \in Events : y[2] = receipt.run
    OBVIOUS
  <2>0. i \in 1 .. Len(ledger)
    BY DEF IInv, TypeOK
  <2>1. CASE UNCHANGED ledger
    BY <2>1
  <2>2. CASE AppendChunk \/ AppendOther
    <3>1. PICK c \in Chunk :
            /\ ledger' \in Seq(Chunk)
            /\ \A j \in 1 .. Len(ledger) : ledger'[j] = ledger[j]
            /\ 1 .. Len(ledger') = 1 .. Len(ledger) \cup {Len(ledger) + 1}
      BY <2>2, LedgerAppends
    <3>2. DOMAIN ledger' = 1 .. Len(ledger')
      BY <3>1
    <3> QED
      BY <2>0, <3>1, <3>2
  <2>3. CASE Truncate
    <3>1. /\ \A j \in mem.prefix + 1 .. Len(ledger) : ledger[j].run = receipt.run
          /\ Len(ledger) \in Nat /\ mem.prefix \in 0 .. Len(ledger)
          /\ receipt.run # Foreign /\ ~Logged(ledger, receipt.run)
          /\ Len(ledger') = mem.prefix /\ ledger' \in Seq(Chunk)
          /\ \A j \in 1 .. mem.prefix : ledger'[j] = ledger[j]
      BY <2>3, TornEnd
    <3>2. ~\E y \in Events : y[2] = receipt.run
      BY <3>1, EventsAre DEF Logged
    <3>3. DOMAIN ledger' = 1 .. mem.prefix
      BY <3>1
    <3>4. i \in 1 .. mem.prefix \/ i \in mem.prefix + 1 .. Len(ledger)
      BY <2>0, <3>1
    <3> QED
      BY <3>1, <3>2, <3>3, <3>4
  <2> QED
    BY <2>1, <2>2, <2>3, LedgerMoves
<1> QED
  BY <1>1, Inductive, PTL DEF Spec, LedgerKept

LEMMA RestoresMove ==
  [Next]_vars /\ pc' # pc =>
    /\ pc = "restoreIndex" => RestoreIndex \/ UNCHANGED index
    /\ pc = "restoreWork" => RestoreWork \/ UNCHANGED work
    /\ pc = "clean" => Clean \/ UNCHANGED extra
BY DEF Next, Step, Stepping, Others, vars, files, git, env, command, Fault,
       WriteReceipt, Prepare, CommitStage, Branch, Candidate, LockHead, Advance, UnlockHead, LockIndex, Install,
       Record, VerifyCommit, LedgerStage, Truncate, AppendChunk, VerifyLedger, TrackedStage, RestoreIndex,
       CheckWork, RestoreWork, VerifyTracked, UntrackedStage, Clean, VerifyUntracked, PacketStage, CheckpointPacket,
       Finish, VerifyAll, Clear, Resume, Log, NextPacket, Crash, Edit, EditExtra, Stage, GitCommit, GitLocks,
       GitUnlocks, AppendOther

\* Cleanup destroys nothing but the content the receipt was prepared with, unless
\* it is edited after the last look at it.
THEOREM DiscardsPrepared == Spec => DiscardsOnlyPrepared
<1>1. IInv /\ [Next]_vars =>
        [pc' # pc /\ ~late =>
           /\ pc = "restoreIndex" => index' = index \/ index = mem.index
           /\ pc = "restoreWork" => work' = work \/ work = mem.work
           /\ pc = "clean" => extra' = extra \/ extra = mem.extra]_vars
  <2> SUFFICES ASSUME IInv, [Next]_vars, pc' # pc, ~late
               PROVE  /\ pc = "restoreIndex" => index' = index \/ index = mem.index
                      /\ pc = "restoreWork" => work' = work \/ work = mem.work
                      /\ pc = "clean" => extra' = extra \/ extra = mem.extra
    OBVIOUS
  <2>1. pc = "restoreIndex" => index' = index \/ index = mem.index
    BY RestoresMove DEF RestoreIndex, IInv, WindowInv
  <2>2. pc = "restoreWork" => work' = work \/ work = mem.work
    BY RestoresMove DEF RestoreWork, IInv, WindowInv
  <2>3. pc = "clean" => extra' = extra \/ extra = mem.extra
    BY RestoresMove DEF IInv, WindowInv
  <2> QED
    BY <2>1, <2>2, <2>3
<1> QED
  BY <1>1, Inductive, PTL DEF Spec, DiscardsOnlyPrepared

-----------------------------------------------------------------------------
(* The log command implements ExactlyOnceLog.                              *)

LEMMA SameCommits ==
  ASSUME IInv, IInv',
         \A i \in 1 .. Len(history') : history'[i].by # Foreign => i \in 1 .. Len(history),
         \A i \in 1 .. Len(history) : i \in 1 .. Len(history') /\ history'[i] = history[i]
  PROVE  Commits' = Commits
<1>1. DOMAIN history = 1 .. Len(history) /\ DOMAIN history' = 1 .. Len(history')
  BY DEF IInv, TypeOK
<1> QED
  BY <1>1 DEF Commits

LEMMA HistoryAppends ==
  ASSUME IInv, NEW c \in Commit, history' = Append(history, c)
  PROVE  /\ Len(history) \in Nat
         /\ \A i \in 1 .. Len(history) : history'[i] = history[i]
         /\ history'[Len(history) + 1] = c
         /\ 1 .. Len(history') = 1 .. Len(history) \cup {Len(history) + 1}
<1>1. history \in Seq(Commit)
  BY DEF IInv, TypeOK
<1> QED
  BY <1>1, Grown

\* Commits of other programs are nothing to the promise.
LEMMA ForeignStays ==
  ASSUME IInv, IInv', [Next]_vars, ~Advance
  PROVE  Commits' = Commits
<1>1. CASE UNCHANGED history
  BY <1>1 DEF Commits
<1>2. ASSUME NEW x, history' = Append(history, [by |-> Foreign, tree |-> x]), x \in Content
      PROVE  Commits' = Commits
  <2> DEFINE c == [by |-> Foreign, tree |-> x]
  <2>1. c \in Commit /\ c.by = Foreign
    BY <1>2, BoundsAssumption DEF Commit, Foreign
  <2>2. history' = Append(history, c)
    BY <1>2
  <2> HIDE DEF c
  <2> QED
    BY <2>1, <2>2, HistoryAppends, SameCommits
<1>3. CASE GitCommit
  <2>1. PICK x \in {work, index} : history' = Append(history, [by |-> Foreign, tree |-> x])
    BY <1>3 DEF GitCommit
  <2> QED
    BY <1>2, <2>1 DEF IInv, TypeOK
<1>4. CASE NextPacket
  <2>1. UNCHANGED history \/ history' = Append(history, [by |-> Foreign, tree |-> runs'])
    BY <1>4 DEF NextPacket
  <2>2. runs' \in Content
    <3>1. runs' \in 0 .. MaxRuns
      BY DEF IInv, TypeOK
    <3> QED
      BY <3>1, BoundsAssumption DEF Content
  <2> QED
    BY <1>1, <1>2, <2>1, <2>2
<1> QED
  BY <1>1, <1>3, <1>4, HistoryMoves

\* A step that adds or cuts off anything but the last chunk of an event.
LEMMA SameEvents ==
  ASSUME IInv, IInv', [Next]_vars, ~AppendChunk \/ written + 1 # Chunks
  PROVE  Events' = Events
<1>0. DOMAIN ledger = 1 .. Len(ledger) /\ DOMAIN ledger' = 1 .. Len(ledger')
  BY DEF IInv, TypeOK
<1> DEFINE Counts(l, i) == l[i].run # Foreign /\ l[i].part = Chunks
<1>1. ASSUME \A i \in 1 .. Len(ledger) : Counts(ledger, i) => i \in 1 .. Len(ledger') /\ ledger'[i] = ledger[i],
             \A i \in 1 .. Len(ledger') : Counts(ledger', i) => i \in 1 .. Len(ledger) /\ ledger'[i] = ledger[i]
      PROVE  Events' = Events
  <2>1. {i \in 1 .. Len(ledger) : Counts(ledger, i)} = {i \in 1 .. Len(ledger') : Counts(ledger', i)}
    BY <1>1
  <2>2. \A i \in {j \in 1 .. Len(ledger) : Counts(ledger, j)} : ledger'[i] = ledger[i]
    BY <1>1
  <2>3. Events = {<<i, ledger[i].run>> : i \in {j \in 1 .. Len(ledger) : Counts(ledger, j)}}
    BY <1>0 DEF Events
  <2>4. Events' = {<<i, ledger'[i].run>> : i \in {j \in 1 .. Len(ledger') : Counts(ledger', j)}}
    BY <1>0 DEF Events
  <2> HIDE DEF Counts
  <2> QED
    BY <2>1, <2>2, <2>3, <2>4
<1>2. CASE UNCHANGED ledger
  BY <1>2 DEF Events
<1>3. CASE AppendChunk \/ AppendOther
  <2>1. PICK c \in Chunk :
          /\ AppendChunk => c = [run |-> mem.run, part |-> written + 1, commit |-> mem.commit]
          /\ AppendOther => c.run = Foreign
          /\ \A i \in 1 .. Len(ledger) : ledger'[i] = ledger[i]
          /\ ledger'[Len(ledger) + 1] = c
          /\ 1 .. Len(ledger') = 1 .. Len(ledger) \cup {Len(ledger) + 1}
    BY <1>3, LedgerAppends
  <2>2. AppendChunk => c.part # Chunks
    BY <2>1
  <2>3. ~Counts(ledger', Len(ledger) + 1)
    BY <1>3, <2>1, <2>2
  <2> QED
    BY <1>1, <2>1, <2>3
<1>4. CASE Truncate
  <2>1. /\ \A i \in mem.prefix + 1 .. Len(ledger) : ledger[i].part # Chunks
        /\ Len(ledger) \in Nat /\ mem.prefix \in 0 .. Len(ledger)
        /\ Len(ledger') = mem.prefix
        /\ \A i \in 1 .. mem.prefix : ledger'[i] = ledger[i]
    BY <1>4, TornEnd
  <2>2. 1 .. Len(ledger) = 1 .. mem.prefix \cup mem.prefix + 1 .. Len(ledger) /\ 1 .. Len(ledger') = 1 .. mem.prefix
    BY <2>1
  <2> QED
    BY <1>1, <2>1, <2>2
<1> QED
  BY <1>2, <1>3, <1>4, LedgerMoves

\* Which actions write what the promise is about.
LEMMA Writes ==
  ASSUME [Next]_vars
  PROVE  /\ Advance => UNCHANGED ledger /\ ~AppendChunk
         /\ AppendChunk => ~Advance /\ UNCHANGED <<history, receipt>>
         /\ WriteReceipt \/ Clear => ~Advance /\ ~AppendChunk
BY DEF Advance, AppendChunk, WriteReceipt, Clear, git

LEMMA RunIs ==
  ASSUME IInv, pc \in Working
  PROVE  mem.run \in Run /\ mem.run # Foreign
<1>1. mem.run \in 0 .. MaxRuns /\ mem.run \in 1 .. runs
  BY Running DEF Receipt
<1> QED
  BY <1>1, BoundsAssumption DEF Run, Foreign

LEMMA BeginStep ==
  ASSUME IInv, IInv', [Next]_vars, WriteReceipt
  PROVE  \E r \in Run : Promise!Begin(r)
<1>1. /\ pc = "writeReceipt" /\ receipt' = mem /\ receipt = NoReceipt /\ packet # NoPacket /\ mem.run = packet.run
  BY DEF WriteReceipt, Save, IInv, ReceiptInv
<1>2. /\ \A i \in 1 .. Len(history) : history[i].by # mem.run
      /\ \A k \in 1 .. Len(ledger) : ledger[k].run # mem.run
  BY <1>1 DEF IInv, PastInv
<1>3. mem.run \in Run
  BY <1>1, BoundsAssumption DEF IInv, PastInv, TypeOK, Run
<1>4. Promise!Of(Commits, mem.run) = {} /\ Promise!Of(Events, mem.run) = {}
  BY <1>2, CommitsAre, EventsAre DEF Promise!Of
<1>5. Commits' = Commits /\ Events' = Events
  BY ForeignStays, SameEvents, Writes
<1>6. receipt.run = Foreign /\ (receipt.kind = "keep")' \in BOOLEAN
  BY <1>1, NoReceiptPart DEF Foreign
<1>7. Promise!Begin(mem.run)
  BY <1>1, <1>4, <1>5, <1>6 DEF Promise!Begin
<1> QED
  BY <1>3, <1>7

LEMMA CloseStep ==
  ASSUME IInv, IInv', [Next]_vars, Clear
  PROVE  \E r \in Run : Promise!Close(r)
<1>1. pc = "clear" /\ receipt' = NoReceipt /\ pc \in Working
  BY DEF Clear, Working, Labels
<1>2. Logged(ledger, mem.run) /\ receipt.run = mem.run /\ mem.run \in 1 .. runs
  BY <1>1, WholeAtClear, Running
<1>3. mem.run \in Run
  BY <1>1, RunIs
<1>4. mem.run # Foreign
  BY <1>1, RunIs
<1>5. Promise!Of(Events, mem.run) # {}
  BY <1>2, <1>4, LoggedHasEvent DEF Promise!Of
<1>6. Commits' = Commits /\ Events' = Events
  BY ForeignStays, SameEvents, Writes
<1>7. Promise!Close(mem.run)
  BY <1>1, <1>2, <1>5, <1>6, NoReceiptPart DEF Promise!Close, Foreign
<1> QED
  BY <1>3, <1>7

LEMMA CommitStep ==
  ASSUME IInv, IInv', [Next]_vars, Advance
  PROVE  (\E r \in Run : Promise!Commit(r)) \/ (Commits' = Commits /\ Events' = Events /\ SameRun)
<1>1. pc = "advance" /\ pc \in Working
  BY DEF Advance, Working, Labels
<1>2. /\ Keeps(mem) /\ mem.kind = "keep" /\ "commit" \notin mem.done
  BY <1>1 DEF IInv, StageInv, Committing
<1>3. Events' = Events /\ SameRun
  BY Writes, SameEvents, ReceiptMoves
<1>4. /\ mem.run \in 1 .. runs /\ receipt.run = mem.run /\ receipt.kind = "keep" /\ mem \in Receipt
      /\ Made(history, ledger, runs, mem)
  BY <1>1, <1>2, Running DEF Good, Link
<1>5. CASE UNCHANGED history
  BY <1>3, <1>5 DEF Commits
<1>6. CASE HeadOid = mem.head /\ history' = Append(history, [by |-> mem.run, tree |-> mem.tree])
  <2> DEFINE c == [by |-> mem.run, tree |-> mem.tree]
             x == <<Len(history) + 1, mem.run>>
  <2>1. c \in Commit /\ c.by = mem.run /\ mem.run # Foreign
    <3>1. mem.tree = mem.run
      BY <1>2, <1>4 DEF Made
    <3> QED
      BY <1>4, <3>1 DEF Receipt, Commit, Foreign
  <2>2. history' = Append(history, c)
    BY <1>6
  <2> HIDE DEF c
  <2>3. /\ Len(history) \in Nat
        /\ \A i \in 1 .. Len(history) : history'[i] = history[i]
        /\ history'[Len(history) + 1] = c
        /\ 1 .. Len(history') = 1 .. Len(history) \cup {Len(history) + 1}
    BY <2>1, <2>2, HistoryAppends
  <2>4. DOMAIN history = 1 .. Len(history) /\ DOMAIN history' = 1 .. Len(history')
    BY DEF IInv, TypeOK
  <2>5. Commits' = Commits \cup {x}
    <3>1. {i \in 1 .. Len(history') : history'[i].by # Foreign}
            = {i \in 1 .. Len(history) : history[i].by # Foreign} \cup {Len(history) + 1}
      BY <2>1, <2>3
    <3>2. Commits' = {<<i, history'[i].by>> : i \in {j \in 1 .. Len(history') : history'[j].by # Foreign}}
      BY <2>4 DEF Commits
    <3>3. Commits = {<<i, history[i].by>> : i \in {j \in 1 .. Len(history) : history[j].by # Foreign}}
      BY <2>4 DEF Commits
    <3> QED
      BY <2>1, <2>3, <3>1, <3>2, <3>3
  <2>6. Promise!Of(Commits, mem.run) = {}
    <3>1. \A i \in 1 .. Len(history) : history[i].by # mem.run
      BY <1>4, <1>6, <2>3 DEF Made, HeadOid
    <3> QED
      BY <3>1, CommitsAre DEF Promise!Of
  <2>7. Promise!Of(Events, mem.run) = {}
    <3>1. \A k \in 1 .. Len(ledger) : ledger[k].run # mem.run
      BY <1>2, <1>4 DEF Made
    <3> QED
      BY <3>1, EventsAre DEF Promise!Of
  <2>8. x \in Commits' /\ x[2] = mem.run
    BY <2>5
  <2>9. receipt'.run = receipt.run /\ (receipt.kind = "keep")' = (receipt.kind = "keep")
    BY <1>3 DEF SameRun
  <2> HIDE DEF x
  <2>10. Promise!Commit(mem.run)
    BY <1>3, <1>4, <2>5, <2>6, <2>7, <2>8, <2>9 DEF Promise!Commit
  <2>11. mem.run \in Run
    BY <1>1, RunIs
  <2> QED
    BY <2>10, <2>11
<1> QED
  BY <1>5, <1>6 DEF Advance

LEMMA PublishStep ==
  ASSUME IInv, IInv', [Next]_vars, AppendChunk, written + 1 = Chunks
  PROVE  \E r \in Run : Promise!Publish(r)
<1>1. pc = "append" /\ pc \in Working
  BY DEF AppendChunk, Working, Labels
<1>2. /\ "ledger" \notin mem.done /\ (Keeps(mem) => "commit" \in mem.done) /\ Len(ledger) = mem.prefix + written
      /\ written \in Nat
  BY <1>1 DEF IInv, StageInv, TypeOK, Working, Labels, Committing
<1>3. /\ mem.run \in 1 .. runs /\ receipt.run = mem.run /\ receipt.kind = mem.kind /\ mem \in Receipt
      /\ Made(history, ledger, runs, mem) /\ Honest(ledger, packet, mem) /\ mem.prefix \in Nat
  BY <1>1, Running DEF Good, Link, Receipt
<1>4. /\ mem.run # Foreign /\ mem.run \in Run
  BY <1>1, RunIs
<1>5. PICK c \in Chunk :
        /\ c = [run |-> mem.run, part |-> written + 1, commit |-> mem.commit]
        /\ Len(ledger) \in Nat
        /\ \A i \in 1 .. Len(ledger) : ledger'[i] = ledger[i]
        /\ ledger'[Len(ledger) + 1] = c
        /\ 1 .. Len(ledger') = 1 .. Len(ledger) \cup {Len(ledger) + 1}
  BY LedgerAppends
<1>6. c.run = mem.run /\ c.part = Chunks
  BY <1>5
<1> DEFINE x == <<Len(ledger) + 1, mem.run>>
<1>7. Events' = Events \cup {x}
  <2>0. DOMAIN ledger = 1 .. Len(ledger) /\ DOMAIN ledger' = 1 .. Len(ledger')
    BY DEF IInv, TypeOK
  <2>1. {i \in 1 .. Len(ledger') : ledger'[i].run # Foreign /\ ledger'[i].part = Chunks}
          = {i \in 1 .. Len(ledger) : ledger[i].run # Foreign /\ ledger[i].part = Chunks} \cup {Len(ledger) + 1}
    BY <1>4, <1>5, <1>6
  <2>2. Events' = {<<i, ledger'[i].run>> :
                     i \in {j \in 1 .. Len(ledger') : ledger'[j].run # Foreign /\ ledger'[j].part = Chunks}}
    BY <2>0 DEF Events
  <2>3. Events = {<<i, ledger[i].run>> :
                    i \in {j \in 1 .. Len(ledger) : ledger[j].run # Foreign /\ ledger[j].part = Chunks}}
    BY <2>0 DEF Events
  <2> QED
    BY <1>5, <1>6, <2>1, <2>2, <2>3
<1>8. Promise!Of(Events, mem.run) = {}
  <2>1. \A i \in 1 .. Len(ledger) : ledger[i].run = mem.run => i = mem.prefix + ledger[i].part
    BY <1>3 DEF Made
  <2>2. \A i \in 1 .. Len(ledger) : i < mem.prefix + Chunks
    BY <1>2, <1>3, <1>5, BoundsAssumption
  <2>3. \A i \in 1 .. Len(ledger) : ledger[i].run = mem.run => ledger[i].part # Chunks
    BY <1>3, <1>5, <2>1, <2>2, BoundsAssumption
  <2> QED
    BY <2>3, EventsAre DEF Promise!Of
<1>9. receipt.kind = "keep" => Promise!Of(Commits, mem.run) # {}
  <2> SUFFICES ASSUME receipt.kind = "keep" PROVE Promise!Of(Commits, mem.run) # {}
    OBVIOUS
  <2>1. mem.oid \in 1 .. Len(history) /\ history[mem.oid].by = mem.run
    BY <1>2, <1>3 DEF Honest, Made, Keeps
  <2>2. <<mem.oid, mem.run>> \in Commits
    BY <1>4, <2>1, CommitsAre
  <2> QED
    BY <2>2 DEF Promise!Of
<1>10. Commits' = Commits /\ receipt' = receipt
  BY Writes, ForeignStays
<1>11. x \in Events' /\ x[2] = mem.run
  BY <1>7
<1> HIDE DEF x
<1>12. Promise!Publish(mem.run)
  BY <1>3, <1>7, <1>8, <1>9, <1>10, <1>11 DEF Promise!Publish
<1> QED
  BY <1>4, <1>12

LEMMA PromiseStep == IInv /\ IInv' /\ [Next]_vars => [Promise!Next]_Promise!avars
<1> SUFFICES ASSUME IInv, IInv', [Next]_vars PROVE [Promise!Next]_Promise!avars
  OBVIOUS
<1>0. ASSUME Commits' = Commits, Events' = Events, SameRun PROVE UNCHANGED Promise!avars
  BY <1>0 DEF Promise!avars, SameRun
<1>1. CASE WriteReceipt
  BY <1>1, BeginStep DEF Promise!Next
<1>2. CASE Clear
  BY <1>2, CloseStep DEF Promise!Next
<1>3. CASE Advance
  BY <1>0, <1>3, CommitStep DEF Promise!Next
<1>4. CASE AppendChunk /\ written + 1 = Chunks
  BY <1>4, PublishStep DEF Promise!Next
<1>5. CASE ~WriteReceipt /\ ~Clear /\ ~Advance /\ ~(AppendChunk /\ written + 1 = Chunks)
  BY <1>0, <1>5, ReceiptMoves, ForeignStays, SameEvents
<1> QED
  BY <1>1, <1>2, <1>3, <1>4, <1>5

\* The log command keeps the promise of ExactlyOnceLog: the receipt that is
\* written begins it, the commit, the last chunk of the event and the removal of
\* the receipt are its other steps, and every other step is none of them.
THEOREM LogKeepsPromise == Spec => KeepsPromise
<1>1. Init => Promise!Init
  BY DEF Init, Promise!Init, NoReceipt, Commits, Events, Foreign
<1> QED
  BY <1>1, Inductive, PromiseStep, PTL DEF Spec, KeepsPromise, Promise!Spec
=============================================================================
