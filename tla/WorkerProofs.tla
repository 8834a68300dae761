---------------------------- MODULE WorkerProofs ----------------------------
(***************************************************************************)
(* For any number of actions, commands, workers, deaths and faults: the    *)
(* local worker keeps what a governed outcome promises of an action, and a *)
(* reservation is released only when the processes it paid for have        *)
(* stopped, but for those the code is known to lose sight of.              *)
(***************************************************************************)
EXTENDS OutcomeWorker, FiniteSetTheorems, TLAPS

TreeStates  == Live \cup {"none", "gone"}
Completions == [status : Terminal \cup {"none", "unknown"}, cancel : BOOLEAN]

Typed == /\ receipt \in [Ids -> Receipts] /\ cmd \in [Cmds -> Commands]
         /\ work \in [Ids -> [Slots -> Works]]
         /\ tree \in [Ids -> [Slots -> [Phases -> TreeStates]]]
         /\ completion \in [Ids -> Completions] /\ lost \subseteq Ids \X Slots \X Phases

Unstarted(e) == \A n \in Slots : work[e][n] = Unborn /\ \A p \in Phases : tree[e][n][p] = "none"
Quiet(e)     == \A n \in Slots : work[e][n].pc \in {"unborn", "dead"}
EvalRan(e)   == \E n \in Slots : tree[e][n]["eval"] = "gone"
EvalOver(e)  == \A n \in Slots : tree[e][n]["eval"] \notin Live
Accounted(e, n) == \A p \in Phases : tree[e][n][p] \in Live => <<e, n, p>> \in lost

\* An action is released with its verdict; before it is launched nothing of it
\* exists; the worker that has claimed it exists; it is in its checks only
\* after its evaluation; what lives on after its release is forgotten.
ReceiptInv(e) ==
  /\ terminalExecution(receipt[e]) <=> receipt[e].settlement \in Settled
  /\ Present(e) <=> receipt[e].settlement # "none"
  /\ receipt[e].status \in {"absent", "preparing", "ticket"} => receipt[e].worker.launched = FALSE
  /\ receipt[e].worker.launched = FALSE => receipt[e].worker = NoWorker /\ Unstarted(e)
  /\ receipt[e].worker.pid # 0 => work[e][receipt[e].worker.pid].pc \notin {"unborn", "claim"}
  /\ receipt[e].worker.child = "check" => EvalRan(e)
  /\ receipt[e].settlement \in Settled =>
       \A n \in Slots, p \in Phases : tree[e][n][p] \in Live => Forgotten(e, n, p)

\* A completion is the last thing its worker writes, and a certain one says
\* that every process has stopped.
CompletionInv(e) ==
  completion[e].status # "none" =>
    /\ receipt[e].worker.pid # 0
    /\ \A n \in Slots : work[e][n].pc \in {"unborn", "apply", "dead"}
    /\ completion[e].status # "unknown" => \A n \in Slots : Accounted(e, n)

\* Where a worker is says how far the processes it started may have come, and
\* while it serves the action it has claimed nobody else closes that.
Serving == {"admit", "running", "close"}
WorkerInv(e, n) ==
  LET w == work[e][n]  t == tree[e][n] IN
  /\ w.pc = "unborn" => w = Unborn
  /\ w.pc \in {"unborn", "claim"} => \A p \in Phases : t[p] = "none"
  /\ w.pc = "claim" => w = [Unborn EXCEPT !.pc = "claim"]
  /\ w.phase = "check" => t["eval"] = "gone"
  /\ w.pc \notin {"unborn", "claim", "dead"} => receipt[e].worker.pid = n
  /\ w.pc \in Serving => ~terminalExecution(receipt[e])
  /\ w.pc \in Serving /\ w.phase = "eval" => t["check"] = "none"
  /\ w.pc \in {"admit", "running"} => w.unproven = FALSE
  /\ w.pc \in {"admit", "running"} /\ w.phase = "check" => w.result = "completed"
  /\ w.pc = "admit" => t[w.phase] = "none"
  /\ w.pc = "running" => t[w.phase] # "none"
  /\ w.pc = "close" /\ w.phase = "eval" =>
       /\ w.result # "none" /\ (w.unproven = TRUE => w.result = "unknown")
       /\ w.unproven = FALSE => t["eval"] \notin Live
  /\ w.pc = "close" /\ w.phase = "check" =>
       w.unproven = FALSE /\ w.result # "none" /\ (w.result = "unknown" \/ t["check"] \notin Live)
  /\ w.pc = "finish" => w.result # "none" /\ (w.result = "unknown" \/ Accounted(e, n))
  /\ w.pc = "apply" => completion[e].status # "none"

OneWorker(e) ==
  \A n, m \in Slots : work[e][n].pc # "unborn" /\ work[e][m].pc # "unborn" => n = m

ActionInv(e) == ReceiptInv(e) /\ CompletionInv(e) /\ OneWorker(e) /\ \A n \in Slots : WorkerInv(e, n)

\* What a command remembers of the action it read earlier and still holds.
Spawnable(c, e) == /\ receipt[e].worker.launched = TRUE /\ receipt[e].worker.observer = c
                   /\ receipt[e].worker.pid = 0 /\ Unstarted(e)
CommandInv(c) ==
  LET k == cmd[c]  e == cmd[c].e IN
  /\ k.pc # "idle" => e \in Ids /\ Present(e)
  /\ k.pc = "prepare" => k.op # "none"
  /\ k.pc \in {"spawn", "spawnFailed"} => Spawnable(c, e)
  /\ k.pc = "apply" => completion[e].status # "none"
  /\ k.pc \in {"inspect", "tree"} => /\ k.seen.pid # 0 /\ k.seen.pid = receipt[e].worker.pid
                                     /\ k.seen.child = "check" => EvalRan(e)
  /\ k.pc \in {"tree", "settle"} => receipt[e].worker.pid # 0 /\ Quiet(e)
  /\ k.pc = "tree" => k.seen.child # "none"
  /\ k.pc = "settle" => EvalOver(e)

ExecutionInv == Typed /\ (\A e \in Ids : ActionInv(e)) /\ (\A c \in Cmds : CommandInv(c))

-----------------------------------------------------------------------------
(* What one step may change.                                               *)

\* What the commands rely on of an action they still hold.
Keeps(e) ==
  /\ Present(e) => Present(e)'
  /\ receipt[e].worker.pid # 0 => receipt'[e].worker.pid = receipt[e].worker.pid
  /\ EvalRan(e) => EvalRan(e)'
  /\ completion[e].status # "none" => completion'[e].status # "none"
  /\ receipt[e].worker.pid # 0 /\ Quiet(e) => Quiet(e)' /\ (EvalOver(e) => EvalOver(e)')
  /\ \A d \in Cmds : cmd'[d] = cmd[d] /\ cmd[d].pc \in {"spawn", "spawnFailed"} /\ cmd[d].e = e
                     /\ Spawnable(d, e) => Spawnable(d, e)'

Same(x) == /\ receipt'[x] = receipt[x] /\ completion'[x] = completion[x]
           /\ \A m \in Slots : work'[x][m] = work[x][m] /\ tree'[x][m] = tree[x][m]

LEMMA SameAction ==
  ASSUME Typed, NEW x \in Ids, ActionInv(x), Same(x), lost \subseteq lost'
  PROVE  ActionInv(x)' /\ Keeps(x)
<1> USE DEF Same
<1>0. receipt[x].worker.pid # 0 => receipt[x].worker.pid \in Slots
  BY DEF Typed, Receipts, Workers
<1>1. ReceiptInv(x)'
  BY <1>0 DEF ActionInv, ReceiptInv, Present, Unstarted, EvalRan, Forgotten
<1>2. CompletionInv(x)' /\ OneWorker(x)'
  BY DEF ActionInv, CompletionInv, OneWorker, Accounted
<1>3. ASSUME NEW n \in Slots PROVE WorkerInv(x, n)'
  <2>1. WorkerInv(x, n)
    BY DEF ActionInv
  <2> QED  BY <2>1 DEF WorkerInv, Accounted, Serving
<1>4. Keeps(x)
  BY DEF Keeps, Present, EvalRan, Quiet, EvalOver, Spawnable, Unstarted
<1> QED  BY <1>1, <1>2, <1>3, <1>4 DEF ActionInv

\* Commands that have not moved go on believing what they believed.
LEMMA CommandKept ==
  ASSUME NEW d \in Cmds, CommandInv(d), cmd'[d] = cmd[d], cmd[d].pc # "idle" => Keeps(cmd[d].e)
  PROVE  CommandInv(d)'
<1>1. CASE cmd[d].pc = "idle"
  BY <1>1 DEF CommandInv
<1>2. CASE cmd[d].pc # "idle"
  <2>1. Keeps(cmd[d].e) /\ cmd[d].e \in Ids /\ Present(cmd[d].e)
    BY <1>2 DEF CommandInv
  <2> QED  BY <1>2, <2>1 DEF CommandInv, Keeps
<1> QED  BY <1>1, <1>2

LEMMA OneAction ==
  ASSUME ExecutionInv, NEW e \in Ids, \A x \in Ids \ {e} : Same(x), lost \subseteq lost',
         Typed', ActionInv(e)', Keeps(e), \A d \in Cmds : cmd'[d] = cmd[d] \/ CommandInv(d)'
  PROVE  ExecutionInv'
<1>1. \A x \in Ids \ {e} : ActionInv(x)' /\ Keeps(x)
  BY SameAction DEF ExecutionInv
<1>2. \A x \in Ids : Keeps(x)
  BY <1>1
<1>3. ASSUME NEW d \in Cmds PROVE CommandInv(d)'
  <2>1. CASE cmd'[d] = cmd[d]
    <3>1. CommandInv(d) /\ (cmd[d].pc # "idle" => Keeps(cmd[d].e))
      BY <1>2 DEF ExecutionInv, CommandInv
    <3> QED  BY <2>1, <3>1, CommandKept
  <2> QED  BY <2>1
<1> QED  BY <1>1, <1>3 DEF ExecutionInv

\* One command moves; it goes on with something it may believe.
Moves(c) == cmd' \in [Cmds -> Commands] /\ \A d \in Cmds \ {c} : cmd'[d] = cmd[d]

LEMMA OnlyCommand ==
  ASSUME ExecutionInv, NEW c \in Cmds, Moves(c), CommandInv(c)', UNCHANGED <<receipt, procs, completion>>
  PROVE  ExecutionInv'
<1> USE DEF procs, Moves
<1>1. Typed'
  BY DEF ExecutionInv, Typed
<1>2. \A x \in Ids : Same(x)
  BY DEF Same
<1>3. \A x \in Ids : ActionInv(x)' /\ Keeps(x)
  BY <1>2, SameAction DEF ExecutionInv
<1>4. ASSUME NEW d \in Cmds \ {c} PROVE CommandInv(d)'
  <2>1. CommandInv(d) /\ (cmd[d].pc # "idle" => Keeps(cmd[d].e)) /\ cmd'[d] = cmd[d]
    BY <1>3 DEF ExecutionInv, CommandInv
  <2> QED  BY <2>1, CommandKept
<1> QED  BY <1>1, <1>3, <1>4 DEF ExecutionInv

\* One receipt is written, by a command, by a ticket's report or by nobody.
Writable(e, r) ==
  /\ r \in Receipts /\ r.status # "absent" /\ r.settlement # "none"
  /\ terminalExecution(r) <=> r.settlement \in Settled
  /\ r.status \in {"preparing", "ticket"} => r.worker.launched = FALSE
  /\ r.worker.launched = FALSE => r.worker = NoWorker /\ Unstarted(e)
  /\ r.worker.pid = receipt[e].worker.pid
  /\ r.worker.child = "check" => EvalRan(e)
  /\ receipt[e].worker.launched = TRUE =>
       r.worker.launched = TRUE /\ r.worker.observer = receipt[e].worker.observer

\* No process of the action would be overlooked if it were released thus.
Overlooks(e, kind) ==
  \E n \in Slots, p \in Phases : /\ tree[e][n][p] \in Live /\ <<e, n, p>> \notin lost
                                 /\ ~(p = "check" /\ kind = "estimated")

LEMMA OneReceipt ==
  ASSUME ExecutionInv, NEW e \in Ids, NEW r, Writable(e, r),
         terminalExecution(r) => ~Overlooks(e, r.settlement) /\ \A n \in Slots : work[e][n].pc \notin Serving,
         receipt' = [receipt EXCEPT ![e] = r], UNCHANGED <<procs, completion>>,
         cmd' \in [Cmds -> Commands], \A d \in Cmds : cmd'[d] = cmd[d] \/ CommandInv(d)'
  PROVE  ExecutionInv'
<1> USE DEF procs
<1>1. Typed /\ ActionInv(e) /\ r \in Receipts
  BY DEF ExecutionInv, Writable
<1>2. \A x \in Ids : receipt'[x] = IF x = e THEN r ELSE receipt[x]
  BY <1>1 DEF Typed
<1>3. Typed'
  BY <1>1 DEF Typed
<1>4. \A x \in Ids \ {e} : Same(x)
  BY <1>2 DEF Same
<1>5. ReceiptInv(e)'
  <2>1. r.worker.pid # 0 => work'[e][r.worker.pid].pc \notin {"unborn", "claim"}
    BY <1>1 DEF ActionInv, ReceiptInv, Writable
  <2>2. r.settlement \in Settled =>
          \A n \in Slots, p \in Phases : tree'[e][n][p] \in Live => Forgotten(e, n, p)'
    BY <1>2 DEF Overlooks, Forgotten, Writable
  <2> QED  BY <1>2, <2>1, <2>2 DEF Writable, ReceiptInv, Present, Unstarted, EvalRan, terminalExecution
<1>6. CompletionInv(e)' /\ OneWorker(e)'
  BY <1>1, <1>2 DEF ActionInv, CompletionInv, OneWorker, Accounted, Writable
<1>7. ASSUME NEW n \in Slots PROVE WorkerInv(e, n)'
  <2>1. WorkerInv(e, n)
    BY <1>1 DEF ActionInv
  <2>2. (work[e][n].pc \in Serving => ~terminalExecution(r)) /\ r.worker.pid = receipt[e].worker.pid
    BY DEF Writable
  <2> QED  BY <1>2, <2>1, <2>2 DEF WorkerInv, Accounted, Serving, terminalExecution
<1>8. Keeps(e)
  BY <1>1, <1>2 DEF Writable, Keeps, Present, EvalRan, Quiet, EvalOver, Spawnable, Unstarted
<1> QED  BY <1>3, <1>4, <1>5, <1>6, <1>7, <1>8, OneAction DEF ActionInv

\* Only the worker in one slot moves, or the processes it started.
OnlySlot(e, n) ==
  /\ work' \in [Ids -> [Slots -> Works]] /\ tree' \in [Ids -> [Slots -> [Phases -> TreeStates]]]
  /\ \A x \in Ids, m \in Slots :
       x # e \/ m # n => work'[x][m] = work[x][m] /\ tree'[x][m] = tree[x][m]
  /\ lost \subseteq lost' /\ lost' \subseteq Ids \X Slots \X Phases

\* What ran is over, what has stopped does not start again, and processes are
\* started by a worker that serves its action.
Onward(e, n) ==
  /\ work'[e][n].pc \notin {"unborn", "claim"}
  /\ work[e][n].pc \in {"apply", "dead"} => work'[e][n].pc \in {"apply", "dead"}
  /\ work[e][n].pc = "dead" => work'[e][n].pc = "dead"
  /\ tree[e][n]["eval"] = "gone" => tree'[e][n]["eval"] = "gone"
  /\ work[e][n].pc \notin Serving =>
       \A p \in Phases : tree'[e][n][p] \in Live => tree[e][n][p] \in Live

LEMMA OtherSlots ==
  ASSUME ExecutionInv, NEW e \in Ids, NEW n \in Slots, work[e][n].pc # "unborn", OnlySlot(e, n),
         NEW m \in Slots \ {n}
  PROVE  /\ work[e][m] = Unborn /\ work'[e][m] = Unborn
         /\ \A p \in Phases : tree[e][m][p] = "none" /\ tree'[e][m][p] = "none"
         /\ WorkerInv(e, m)'
<1>1. work[e][m].pc = "unborn" /\ WorkerInv(e, m)
  BY DEF ExecutionInv, ActionInv, OneWorker
<1>2. work[e][m] = Unborn /\ \A p \in Phases : tree[e][m][p] = "none"
  BY <1>1 DEF WorkerInv
<1>3. work'[e][m] = Unborn /\ \A p \in Phases : tree'[e][m][p] = "none"
  BY <1>2 DEF OnlySlot
<1>4. WorkerInv(e, m)'
  BY <1>3 DEF WorkerInv, Unborn, Serving, Phases
<1> QED  BY <1>2, <1>3, <1>4

\* The worker an action has is the one that has claimed it.
LEMMA Claimant ==
  ASSUME ExecutionInv, NEW e \in Ids, NEW n \in Slots, work[e][n].pc # "unborn"
  PROVE  receipt[e].worker.launched = TRUE /\ receipt[e].worker.pid \in {0, n}
<1>1. receipt[e].worker.pid \in Slots \cup {0} /\ receipt[e].worker.launched \in BOOLEAN
  BY DEF ExecutionInv, Typed, Receipts, Workers
<1>2. ReceiptInv(e) /\ OneWorker(e)
  BY DEF ExecutionInv, ActionInv
<1> QED  BY <1>1, <1>2 DEF ReceiptInv, OneWorker, Unstarted, Unborn

LEMMA SlotMoves ==
  ASSUME ExecutionInv, NEW e \in Ids, NEW n \in Slots, work[e][n].pc # "unborn",
         OnlySlot(e, n), Onward(e, n), UNCHANGED <<receipt, completion>>, WorkerInv(e, n)',
         cmd' \in [Cmds -> Commands], \A d \in Cmds : cmd'[d] = cmd[d] \/ CommandInv(d)'
  PROVE  ExecutionInv'
<1>1. Typed /\ ActionInv(e)
  BY DEF ExecutionInv
<1>2. Typed'
  BY <1>1 DEF Typed, OnlySlot
<1>3. \A x \in Ids \ {e} : Same(x)
  BY DEF Same, OnlySlot
<1>4. \A m \in Slots \ {n} : /\ work[e][m] = Unborn /\ work'[e][m] = Unborn /\ WorkerInv(e, m)'
                             /\ \A p \in Phases : tree[e][m][p] = "none" /\ tree'[e][m][p] = "none"
  BY OtherSlots
<1>5. receipt[e].worker.launched = TRUE /\ receipt[e].worker.pid \in {0, n}
  BY Claimant
<1>6. EvalRan(e) => EvalRan(e)'
  BY <1>4 DEF EvalRan, Onward, Phases
<1>7. work[e][n].pc \in Serving => receipt[e].settlement \notin Settled /\ completion[e].status = "none"
  <2>1. WorkerInv(e, n) /\ ReceiptInv(e) /\ CompletionInv(e)
    BY <1>1 DEF ActionInv
  <2> QED  BY <2>1 DEF WorkerInv, ReceiptInv, CompletionInv, Serving
<1>8. work[e][n].pc \in Serving \/
        \A m \in Slots, p \in Phases : tree'[e][m][p] \in Live => tree[e][m][p] \in Live
  BY <1>4 DEF Onward, Live
<1>9. ReceiptInv(e)'
  <2>1. ReceiptInv(e)
    BY <1>1 DEF ActionInv
  <2>2. receipt[e].settlement \in Settled =>
          \A m \in Slots, p \in Phases : tree'[e][m][p] \in Live => Forgotten(e, m, p)'
    BY <1>7, <1>8, <2>1 DEF ReceiptInv, Forgotten, OnlySlot
  <2>3. receipt[e].worker.pid # 0 => work'[e][receipt[e].worker.pid].pc \notin {"unborn", "claim"}
    BY <1>5 DEF Onward
  <2> QED  BY <1>5, <1>6, <2>1, <2>2, <2>3 DEF ReceiptInv, Present
<1>10. CompletionInv(e)'
  <2>1. CompletionInv(e)
    BY <1>1 DEF ActionInv
  <2>2. ASSUME completion[e].status # "none"
        PROVE  /\ \A m \in Slots : work'[e][m].pc \in {"unborn", "apply", "dead"}
               /\ \A m \in Slots : Accounted(e, m) => Accounted(e, m)'
    <3>1. work[e][n].pc \in {"apply", "dead"}
      BY <2>1, <2>2 DEF CompletionInv
    <3> QED  BY <1>4, <1>7, <1>8, <2>2, <3>1 DEF Onward, Unborn, Accounted, OnlySlot
  <2> QED  BY <2>1, <2>2 DEF CompletionInv
<1>11. OneWorker(e)'
  BY <1>4 DEF OneWorker, Unborn
<1>12. Keeps(e)
  <2>1. receipt[e].worker.pid # 0 /\ Quiet(e) => Quiet(e)' /\ (EvalOver(e) => EvalOver(e)')
    BY <1>4, <1>8 DEF Quiet, EvalOver, Onward, Unborn, Serving, Phases
  <2>2. ~Unstarted(e)
    BY DEF Unstarted, Unborn
  <2> QED  BY <1>6, <2>1, <2>2 DEF Keeps, Present, Spawnable
<1> QED  BY <1>2, <1>3, <1>4, <1>9, <1>10, <1>11, <1>12, OneAction DEF ActionInv, OnlySlot

LEMMA Becomes ==
  ASSUME Typed, NEW e \in Ids, NEW n \in Slots, NEW w \in Works, Become(e, n, w)
  PROVE  /\ work' \in [Ids -> [Slots -> Works]] /\ work'[e][n] = w
         /\ \A x \in Ids, m \in Slots : x # e \/ m # n => work'[x][m] = work[x][m]
BY DEF Typed, Become

Goes(e, n, p, s) == tree' = [tree EXCEPT ![e][n][p] = s]
LEMMA TreeGoes ==
  ASSUME Typed, NEW e \in Ids, NEW n \in Slots, NEW p \in Phases, NEW s \in TreeStates,
         Goes(e, n, p, s)
  PROVE  /\ tree' \in [Ids -> [Slots -> [Phases -> TreeStates]]]
         /\ tree'[e][n][p] = s /\ \A q \in Phases \ {p} : tree'[e][n][q] = tree[e][n][q]
         /\ \A x \in Ids, m \in Slots : x # e \/ m # n => tree'[x][m] = tree[x][m]
BY DEF Typed, Goes

-----------------------------------------------------------------------------
(* The worker.                                                             *)

\* A worker that goes on without a word to the store.
LEMMA WorkerGoes ==
  ASSUME ExecutionInv, NEW e \in Ids, NEW n \in Slots, work[e][n].pc # "unborn",
         NEW w \in Works, Become(e, n, w), UNCHANGED <<receipt, cmd, tree, completion>>,
         lost \subseteq lost', lost' \subseteq Ids \X Slots \X Phases,
         w.pc \notin {"unborn", "claim"}, work[e][n].pc \in {"apply", "dead"} => w.pc = "dead",
         WorkerInv(e, n)'
  PROVE  ExecutionInv'
<1>1. /\ work' \in [Ids -> [Slots -> Works]] /\ work'[e][n] = w
      /\ \A x \in Ids, m \in Slots : x # e \/ m # n => work'[x][m] = work[x][m]
  BY Becomes DEF ExecutionInv
<1>2. OnlySlot(e, n) /\ cmd' \in [Cmds -> Commands]
  BY <1>1 DEF OnlySlot, ExecutionInv, Typed
<1>3. Onward(e, n)
  BY <1>1 DEF Onward
<1> QED  BY <1>2, <1>3, SlotMoves

LEMMA RefusedStep ==
  ASSUME ExecutionInv, NEW e \in Ids, NEW n \in Slots, NEW a \in BOOLEAN, In(e, n, "admit"),
         Become(e, n, Caught([W(e, n) EXCEPT !.abort = a])),
         UNCHANGED <<receipt, cmd, tree, lost, completion>>
  PROVE  ExecutionInv'
<1> DEFINE w == Caught([W(e, n) EXCEPT !.abort = a])
<1>1. WorkerInv(e, n) /\ work[e][n] \in Works /\ work[e][n].pc = "admit" /\ Typed
  BY DEF ExecutionInv, ActionInv, Typed, In
<1>2. /\ w \in Works /\ w.pc = "finish" /\ w.phase = work[e][n].phase
      /\ w.result \in {"unknown", "cancelled", "failed"}
  BY <1>1 DEF W, Works, Caught, Terminal
<1>3. work'[e][n] = w
  BY <1>1, <1>2, Becomes
<1> HIDE DEF w
<1>4. \A p \in Phases : tree[e][n][p] \notin Live
  BY <1>1 DEF WorkerInv, Serving, Phases, Live, Works
<1>5. WorkerInv(e, n)'
  BY <1>1, <1>2, <1>3, <1>4 DEF WorkerInv, Accounted, Serving
<1> QED  BY <1>1, <1>2, <1>5, WorkerGoes DEF ExecutionInv, Typed, w

LEMMA AdmitStep ==
  ASSUME ExecutionInv, NEW e \in Ids, NEW n \in Slots, Admit(e, n)
  PROVE  ExecutionInv'
<1>1. WorkerInv(e, n) /\ work[e][n] \in Works /\ work[e][n].pc = "admit" /\ Typed
  BY DEF ExecutionInv, ActionInv, Typed, In, Admit
<1> DEFINE ph == work[e][n].phase
<1>2. CASE Aborting(e, n)
  BY <1>2, RefusedStep DEF Admit, store
<1>3. ASSUME NEW w \in Works, w.pc \in {"running", "finish"}, w.phase = ph, w.unproven = FALSE,
             w.pc = "running" => w.result = work[e][n].result,
             w.pc = "finish" => <<e, n, ph>> \in lost' /\ w.result # "none",
             Become(e, n, w), Tree(e, n, "root"), lost \subseteq lost',
             lost' \subseteq Ids \X Slots \X Phases, UNCHANGED <<receipt, cmd, completion>>
      PROVE  ExecutionInv'
  <2>1. ph \in Phases /\ "root" \in TreeStates
    BY <1>1 DEF Works, TreeStates, Live
  <2>2. Goes(e, n, ph, "root") /\ tree[e][n][ph] = "none"
    BY <1>1, <1>3 DEF Tree, W, Goes, WorkerInv
  <2>3. /\ tree' \in [Ids -> [Slots -> [Phases -> TreeStates]]]
        /\ tree'[e][n][ph] = "root" /\ \A q \in Phases \ {ph} : tree'[e][n][q] = tree[e][n][q]
        /\ \A x \in Ids, m \in Slots : x # e \/ m # n => tree'[x][m] = tree[x][m]
    BY <1>1, <2>1, <2>2, TreeGoes
  <2>4. /\ work' \in [Ids -> [Slots -> Works]] /\ work'[e][n] = w
        /\ \A x \in Ids, m \in Slots : x # e \/ m # n => work'[x][m] = work[x][m]
    BY <1>1, <1>3, Becomes
  <2>5. OnlySlot(e, n) /\ cmd' \in [Cmds -> Commands]
    BY <1>1, <1>3, <2>3, <2>4 DEF OnlySlot, Typed
  <2>6. Onward(e, n)
    BY <1>1, <1>3, <2>2, <2>3, <2>4 DEF Onward, Serving, Phases
  <2>7. /\ receipt[e].worker.pid = n /\ ~terminalExecution(receipt[e])
        /\ \/ ph = "eval" /\ tree[e][n]["check"] = "none"
           \/ ph = "check" /\ tree[e][n]["eval"] = "gone" /\ work[e][n].result = "completed"
    BY <1>1, <2>1 DEF WorkerInv, Serving, Phases
  <2>8. WorkerInv(e, n)'
    <3>1. CASE ph = "eval"
      BY <1>3, <2>3, <2>4, <2>7, <3>1 DEF WorkerInv, Serving, Accounted, Phases, Live
    <3>2. CASE ph = "check"
      BY <1>3, <2>3, <2>4, <2>7, <3>2 DEF WorkerInv, Serving, Accounted, Phases, Live
    <3> QED  BY <2>7, <3>1, <3>2
  <2> QED  BY <1>1, <1>3, <2>5, <2>6, <2>8, SlotMoves
<1>4. CASE ~Aborting(e, n)
  <2>1. work[e][n].unproven = FALSE
    BY <1>1 DEF WorkerInv
  <2>2. CASE Become(e, n, [W(e, n) EXCEPT !.pc = "running", !.queued = TRUE])
             /\ Tree(e, n, "root") /\ UNCHANGED lost
    <3> DEFINE w == [W(e, n) EXCEPT !.pc = "running", !.queued = TRUE]
    <3>1. w \in Works /\ w.pc = "running" /\ w.phase = ph /\ w.unproven = FALSE
          /\ w.result = work[e][n].result
      BY <1>1, <2>1 DEF W, Works
    <3>2. Become(e, n, w)
      BY <2>2
    <3> HIDE DEF w
    <3> QED  BY <1>1, <1>3, <2>2, <3>1, <3>2 DEF Admit, store, Typed
  <2>3. CASE Become(e, n, Caught([W(e, n) EXCEPT !.queued = TRUE]))
             /\ Tree(e, n, "root") /\ lost' = lost \cup {<<e, n, W(e, n).phase>>}
    <3> DEFINE w == Caught([W(e, n) EXCEPT !.queued = TRUE])
    <3>1. w \in Works /\ w.pc = "finish" /\ w.phase = ph /\ w.unproven = FALSE /\ w.result # "none"
      BY <1>1, <2>1 DEF W, Works, Caught, Terminal
    <3>2. Become(e, n, w)
      BY <2>3
    <3> HIDE DEF w
    <3>3. <<e, n, ph>> \in lost' /\ lost \subseteq lost' /\ lost' \subseteq Ids \X Slots \X Phases
      BY <1>1, <2>3 DEF Typed, W, Works
    <3> QED  BY <1>1, <1>3, <2>3, <3>1, <3>2, <3>3 DEF Admit, store
  <2> QED  BY <1>4, <2>2, <2>3 DEF Admit
<1> QED  BY <1>2, <1>4

LEMMA BeatStep ==
  ASSUME ExecutionInv, NEW e \in Ids, NEW n \in Slots, Beat(e, n)
  PROVE  ExecutionInv'
<1>1. WorkerInv(e, n) /\ work[e][n] \in Works /\ work[e][n].pc \in Serving /\ Typed
  BY DEF ExecutionInv, ActionInv, Typed, Beat, W, Serving
<1>2. PICK f \in BOOLEAN : Become(e, n, [W(e, n) EXCEPT !.abort = TRUE, !.failure = f])
  <2>1. [W(e, n) EXCEPT !.abort = TRUE] = [W(e, n) EXCEPT !.abort = TRUE, !.failure = work[e][n].failure]
        /\ work[e][n].failure \in BOOLEAN
    BY <1>1 DEF W, Works
  <2> QED  BY <2>1 DEF Beat
<1> DEFINE w == [W(e, n) EXCEPT !.abort = TRUE, !.failure = f]
<1>3. /\ w \in Works /\ w.pc = work[e][n].pc /\ w.phase = work[e][n].phase
      /\ w.unproven = work[e][n].unproven /\ w.result = work[e][n].result
  BY <1>1 DEF W, Works
<1>4. Become(e, n, w)
  BY <1>2
<1> HIDE DEF w
<1>5. work'[e][n] = w
  BY <1>1, <1>3, <1>4, Becomes
<1>6. WorkerInv(e, n)'
  BY <1>1, <1>3, <1>5 DEF WorkerInv, Serving, Beat, store
<1> QED  BY <1>1, <1>3, <1>4, <1>6, WorkerGoes DEF Serving, Beat, store, Typed

LEMMA CloseStep ==
  ASSUME ExecutionInv, NEW e \in Ids, NEW n \in Slots, Close(e, n)
  PROVE  ExecutionInv'
<1>1. WorkerInv(e, n) /\ work[e][n] \in Works /\ work[e][n].pc = "close" /\ Typed
  BY DEF ExecutionInv, ActionInv, Typed, In, Close
<1>2. ASSUME NEW w \in Works, w.pc = "finish", w.phase \in {"eval", work[e][n].phase}, Become(e, n, w),
             w.result # "none", lost \subseteq lost', lost' \subseteq Ids \X Slots \X Phases,
             \/ w.result = "unknown" \/ work[e][n].result # "unknown"
             \/ work[e][n].unproven = FALSE /\ work[e][n].phase = "eval"
             \/ <<e, n, "check">> \in lost' /\ work[e][n].phase = "check"
      PROVE  ExecutionInv'
  <2>1. work'[e][n] = w
    BY <1>1, <1>2, Becomes
  <2>2. w.result = "unknown" \/ \A p \in Phases : tree[e][n][p] \in Live => <<e, n, p>> \in lost'
    BY <1>1, <1>2 DEF WorkerInv, Serving, Phases, Live, Works
  <2>3. UNCHANGED <<receipt, cmd, tree, completion>>
    BY DEF Close, store
  <2>4. WorkerInv(e, n)'
    BY <1>1, <1>2, <2>1, <2>2, <2>3 DEF WorkerInv, Serving, Accounted
  <2> QED  BY <1>1, <1>2, <2>3, <2>4, WorkerGoes
<1>3. work[e][n].result # "none"
  BY <1>1 DEF WorkerInv, Works, Phases
<1>4. CASE Become(e, n, [Unborn EXCEPT !.pc = "finish", !.result = W(e, n).result]) /\ UNCHANGED lost
  <2> DEFINE w == [Unborn EXCEPT !.pc = "finish", !.result = W(e, n).result]
  <2>1. w \in Works /\ w.pc = "finish" /\ w.phase = "eval" /\ w.result = work[e][n].result
    BY <1>1 DEF W, Works, Unborn, Phases
  <2>2. Become(e, n, w)
    BY <1>4
  <2> HIDE DEF w
  <2> QED  BY <1>1, <1>2, <1>3, <1>4, <2>1, <2>2 DEF Typed
<1>5. CASE /\ Become(e, n, Caught(W(e, n)))
           /\ lost' = lost \cup (IF W(e, n).result = "unknown" /\ W(e, n).phase = "check"
                                 THEN {<<e, n, "check">>} ELSE {})
  <2> DEFINE w == Caught(W(e, n))
  <2>1. /\ w \in Works /\ w.pc = "finish" /\ w.phase = work[e][n].phase /\ w.result # "none"
        /\ work[e][n].unproven = TRUE => w.result = "unknown"
    BY <1>1 DEF W, Works, Caught, Terminal
  <2>2. Become(e, n, w)
    BY <1>5
  <2> HIDE DEF w
  <2>3. lost \subseteq lost' /\ lost' \subseteq Ids \X Slots \X Phases
        /\ (work[e][n].result = "unknown" /\ work[e][n].phase = "check" => <<e, n, "check">> \in lost')
    BY <1>1, <1>5 DEF Typed, W, Phases
  <2> QED  BY <1>1, <1>2, <2>1, <2>2, <2>3 DEF Works, Phases
<1> QED  BY <1>4, <1>5 DEF Close

\* A worker that writes to the store or its completion.
LEMMA WorkerWrites ==
  ASSUME ExecutionInv, NEW e \in Ids, NEW n \in Slots, work[e][n].pc # "unborn",
         NEW w \in Works, Become(e, n, w), w.pc \notin {"unborn", "claim"}, UNCHANGED <<cmd, tree, lost>>,
         work[e][n].pc # "dead",
         receipt' \in [Ids -> Receipts], completion' \in [Ids -> Completions],
         \A x \in Ids \ {e} : receipt'[x] = receipt[x] /\ completion'[x] = completion[x],
         receipt'[e].status # "absent",
         receipt[e].worker.pid # 0 => receipt'[e].worker.pid = receipt[e].worker.pid,
         completion[e].status # "none" => completion'[e].status # "none",
         ReceiptInv(e)', CompletionInv(e)', WorkerInv(e, n)'
  PROVE  ExecutionInv'
<1>1. Typed /\ ActionInv(e)
  BY DEF ExecutionInv
<1>2. /\ work' \in [Ids -> [Slots -> Works]] /\ work'[e][n] = w
      /\ \A x \in Ids, m \in Slots : x # e \/ m # n => work'[x][m] = work[x][m]
  BY <1>1, Becomes
<1>3. OnlySlot(e, n) /\ Typed'
  BY <1>1, <1>2 DEF OnlySlot, Typed
<1>4. \A m \in Slots \ {n} : work'[e][m] = Unborn /\ WorkerInv(e, m)'
  BY <1>3, OtherSlots
<1>5. OneWorker(e)' /\ \A x \in Ids \ {e} : Same(x)
  BY <1>2, <1>4 DEF OneWorker, Unborn, Same
<1>6. ~Quiet(e) \/ work[e][n].pc = "dead"
  BY DEF Quiet
<1>7. ~Unstarted(e)
  BY DEF Unstarted, Unborn
<1>8. Keeps(e)
  BY <1>6, <1>7 DEF Keeps, Present, EvalRan, Spawnable
<1> QED  BY <1>3, <1>4, <1>5, <1>8, OneAction DEF ActionInv

LEMMA DeadIs == Dead \in Works /\ Dead.pc = "dead" /\ Dead.phase = "eval" /\ Dead.queued = FALSE
BY DEF Dead, Unborn, Works, Phases

\* A worker that ends, whatever it was at.
LEMMA EndsStep ==
  ASSUME ExecutionInv, NEW e \in Ids, NEW n \in Slots, work[e][n].pc # "unborn", Become(e, n, Dead),
         UNCHANGED <<receipt, cmd, tree, lost, completion>>
  PROVE  ExecutionInv'
<1>1. work'[e][n] = Dead /\ Typed
  BY DeadIs, Becomes DEF ExecutionInv
<1>2. WorkerInv(e, n)'
  BY <1>1, DeadIs DEF WorkerInv, Serving
<1> QED  BY <1>1, <1>2, DeadIs, WorkerGoes DEF Typed

LEMMA ClaimStep ==
  ASSUME ExecutionInv, NEW e \in Ids, NEW n \in Slots, Claim(e, n)
  PROVE  ExecutionInv'
<1>1. /\ WorkerInv(e, n) /\ ReceiptInv(e) /\ CompletionInv(e) /\ Typed
      /\ work[e][n] \in Works /\ work[e][n].pc = "claim" /\ receipt[e] \in Receipts
  BY DEF ExecutionInv, ActionInv, Typed, In, Claim
<1>2. receipt[e].worker.launched = TRUE
  BY <1>1, Claimant
<1>3. CASE receipt[e].worker.pid # 0 \/ terminalExecution(receipt[e])
  BY <1>1, <1>3, EndsStep DEF Claim, store
<1>4. CASE receipt[e].worker.pid = 0 /\ ~terminalExecution(receipt[e])
  <2> DEFINE w == [W(e, n) EXCEPT !.pc = "admit", !.abort = receipt[e].worker.cancel]
             r == [receipt[e] EXCEPT !.worker.pid = n, !.status = "running"]
  <2>1. receipt[e].worker.cancel \in BOOLEAN /\ work[e][n].phase = "eval" /\ work[e][n].unproven = FALSE
    BY <1>1 DEF Receipts, Workers, WorkerInv, Unborn
  <2>2. w \in Works /\ w.pc = "admit" /\ w.phase = "eval" /\ w.unproven = FALSE
    BY <1>1, <2>1 DEF W, Works
  <2>3. r \in Receipts
    BY <1>1 DEF Receipts, Workers
  <2>4. /\ r.status = "running" /\ r.settlement = receipt[e].settlement /\ r.worker.pid = n
        /\ r.worker.launched = TRUE /\ r.worker.child = receipt[e].worker.child
    BY <1>1, <1>2 DEF Receipts, Workers
  <2>5. Become(e, n, w) /\ receipt' = [receipt EXCEPT ![e] = r] /\ UNCHANGED <<cmd, tree, lost, completion>>
    BY <1>4 DEF Claim, Set
  <2> HIDE DEF w, r
  <2>6. work'[e][n] = w
    BY <1>1, <2>2, <2>5, Becomes
  <2>7. receipt' \in [Ids -> Receipts] /\ receipt'[e] = r /\ \A x \in Ids \ {e} : receipt'[x] = receipt[x]
    BY <1>1, <2>3, <2>5 DEF Typed
  <2>8. n # 0 /\ completion[e].status = "none"
    BY <1>1, WorkerBounds DEF CompletionInv
  <2>9. WorkerInv(e, n)'
    BY <1>1, <2>2, <2>4, <2>5, <2>6, <2>7 DEF WorkerInv, Serving, terminalExecution, Terminal, Phases
  <2>10. ReceiptInv(e)'
    <3>1. receipt[e].settlement \notin Settled /\ receipt[e].settlement # "none"
      BY <1>1, <1>2, <1>4 DEF ReceiptInv, Present
    <3>2. r.worker.child = "check" => EvalRan(e)'
      BY <1>1, <2>4, <2>5 DEF ReceiptInv, EvalRan
    <3> QED  BY <2>2, <2>4, <2>6, <2>7, <3>1, <3>2 DEF ReceiptInv, Present, terminalExecution, Terminal
  <2>11. CompletionInv(e)'
    BY <2>5, <2>8 DEF CompletionInv
  <2>12. completion' \in [Ids -> Completions]
    BY <1>1, <2>5 DEF Typed
  <2> QED
    BY <1>1, <1>4, <2>2, <2>4, <2>5, <2>7, <2>8, <2>9, <2>10, <2>11, <2>12, WorkerWrites
<1> QED  BY <1>3, <1>4

LEMMA RecordChildStep ==
  ASSUME ExecutionInv, NEW e \in Ids, NEW n \in Slots, RecordChild(e, n)
  PROVE  ExecutionInv'
<1>1. /\ WorkerInv(e, n) /\ ReceiptInv(e) /\ CompletionInv(e) /\ Typed
      /\ work[e][n] \in Works /\ work[e][n].pc \notin {"unborn", "claim", "dead"} /\ receipt[e] \in Receipts
  BY DEF ExecutionInv, ActionInv, Typed, RecordChild, WorkerInv, WorkerLives, W, Unborn
<1>2. PICK f, a \in BOOLEAN : Become(e, n, [W(e, n) EXCEPT !.queued = FALSE, !.failure = f, !.abort = a])
  <2>1. /\ [W(e, n) EXCEPT !.queued = FALSE] =
             [W(e, n) EXCEPT !.queued = FALSE, !.failure = work[e][n].failure, !.abort = work[e][n].abort]
        /\ work[e][n].failure \in BOOLEAN /\ work[e][n].abort \in BOOLEAN
    BY <1>1 DEF W, Works
  <2> QED  BY <2>1 DEF RecordChild
<1> DEFINE w == [W(e, n) EXCEPT !.queued = FALSE, !.failure = f, !.abort = a]
<1>3. /\ w \in Works /\ w.pc = work[e][n].pc /\ w.phase = work[e][n].phase
      /\ w.unproven = work[e][n].unproven /\ w.result = work[e][n].result
  BY <1>1 DEF W, Works
<1>4. Become(e, n, w) /\ UNCHANGED <<cmd, tree, lost, completion>>
  BY <1>2 DEF RecordChild
<1> HIDE DEF w
<1>5. work'[e][n] = w
  BY <1>1, <1>3, <1>4, Becomes
<1>6. receipt[e].worker.launched = TRUE /\ receipt[e].worker.pid = n
  BY <1>1, Claimant DEF WorkerInv
<1>7. ASSUME NEW r \in Receipts, receipt' = [receipt EXCEPT ![e] = r], r.status = receipt[e].status,
             r.settlement = receipt[e].settlement, r.worker.pid = n, r.worker.launched = TRUE,
             r.worker.child = "check" => EvalRan(e)
      PROVE  ExecutionInv'
  <2>1. receipt' \in [Ids -> Receipts] /\ receipt'[e] = r /\ \A x \in Ids \ {e} : receipt'[x] = receipt[x]
    BY <1>1, <1>7 DEF Typed
  <2>2. WorkerInv(e, n)'
    BY <1>1, <1>3, <1>4, <1>5, <1>7, <2>1 DEF WorkerInv, Serving, Accounted, terminalExecution
  <2>3. ReceiptInv(e)'
    <3>1. (r.worker.child = "check" => EvalRan(e)') /\ receipt[e].status # "absent"
      BY <1>1, <1>4, <1>6, <1>7 DEF EvalRan, ReceiptInv
    <3>2. r.settlement \in Settled =>
            \A m \in Slots, p \in Phases : tree'[e][m][p] \in Live => Forgotten(e, m, p)'
      BY <1>1, <1>4, <1>7, <2>1 DEF ReceiptInv, Forgotten
    <3>3. terminalExecution(receipt[e])' <=> r.settlement \in Settled
      BY <1>1, <1>7, <2>1 DEF ReceiptInv, terminalExecution
    <3>4. receipt[e].status \notin {"absent", "preparing", "ticket"} /\ receipt[e].settlement # "none"
      BY <1>1, <1>6, <3>1 DEF ReceiptInv, Present
    <3>5. work'[e][n].pc \notin {"unborn", "claim"}
      BY <1>1, <1>3, <1>5
    <3> QED
      BY <1>7, <2>1, <3>1, <3>2, <3>3, <3>4, <3>5 DEF ReceiptInv, Present
  <2>4. CompletionInv(e)'
    <3>1. n # 0 /\ \A m \in Slots : m # n => work'[e][m] = work[e][m]
      BY <1>1, <1>3, <1>4, Becomes, WorkerBounds
    <3> QED
      BY <1>1, <1>3, <1>4, <1>5, <1>7, <2>1, <3>1 DEF CompletionInv, Accounted
  <2>5. completion' \in [Ids -> Completions] /\ r.status # "absent"
    BY <1>1, <1>4, <1>6, <1>7 DEF Typed, ReceiptInv
  <2> QED
    BY <1>1, <1>3, <1>4, <1>6, <1>7, <2>1, <2>2, <2>3, <2>4, <2>5, WorkerWrites
<1>8. CASE UNCHANGED receipt
  <2>1. receipt' = [receipt EXCEPT ![e] = receipt[e]]
    BY <1>1, <1>8 DEF Typed
  <2> QED  BY <1>1, <1>6, <1>7, <2>1 DEF ReceiptInv
<1>9. CASE receipt' = [receipt EXCEPT ![e] = [receipt[e] EXCEPT !.worker.child = W(e, n).phase]]
  <2> DEFINE r == [receipt[e] EXCEPT !.worker.child = W(e, n).phase]
  <2>1. /\ r \in Receipts /\ r.status = receipt[e].status /\ r.settlement = receipt[e].settlement
        /\ r.worker.pid = n /\ r.worker.launched = TRUE /\ r.worker.child = work[e][n].phase
    BY <1>1, <1>6 DEF Receipts, Workers, W, Works
  <2>2. receipt' = [receipt EXCEPT ![e] = r]
    BY <1>9
  <2> HIDE DEF r
  <2>3. work[e][n].phase = "check" => EvalRan(e)
    BY <1>1 DEF WorkerInv, EvalRan
  <2> QED  BY <1>7, <2>1, <2>2, <2>3
<1>10. \/ UNCHANGED receipt
       \/ receipt' = [receipt EXCEPT ![e] = [receipt[e] EXCEPT !.worker.child = W(e, n).phase]]
  BY <1>1 DEF RecordChild, Set, store, Typed
<1> QED  BY <1>8, <1>9, <1>10

\* The worker's processes are over, or their end is unproven.
LEMMA EndedStep ==
  ASSUME ExecutionInv, NEW e \in Ids, NEW n \in Slots, In(e, n, "running"),
         NEW out \in {"ok", "bad", "timedOut", "unproven"}, Ended(e, n, out),
         UNCHANGED tree \/ Tree(e, n, "gone"), UNCHANGED <<receipt, cmd, lost, completion>>,
         out # "unproven" => tree'[e][n][W(e, n).phase] = "gone"
  PROVE  ExecutionInv'
<1> DEFINE ph == work[e][n].phase
<1>1. /\ WorkerInv(e, n) /\ Typed /\ work[e][n] \in Works /\ work[e][n].pc = "running"
      /\ ph \in Phases
  BY DEF ExecutionInv, ActionInv, Typed, In, Works
<1>2. /\ receipt[e].worker.pid = n /\ ~terminalExecution(receipt[e]) /\ work[e][n].unproven = FALSE
      /\ \/ ph = "eval" /\ tree[e][n]["check"] = "none"
         \/ ph = "check" /\ tree[e][n]["eval"] = "gone" /\ work[e][n].result = "completed"
  BY <1>1 DEF WorkerInv, Serving, Phases
<1>3. /\ tree' \in [Ids -> [Slots -> [Phases -> TreeStates]]]
      /\ tree'[e][n][ph] \in {tree[e][n][ph], "gone"}
      /\ \A q \in Phases \ {ph} : tree'[e][n][q] = tree[e][n][q]
      /\ \A x \in Ids, m \in Slots : x # e \/ m # n => tree'[x][m] = tree[x][m]
  <2>1. CASE UNCHANGED tree
    BY <1>1, <2>1 DEF Typed
  <2>2. CASE Tree(e, n, "gone")
    <3>1. Goes(e, n, ph, "gone") /\ "gone" \in TreeStates
      BY <2>2 DEF Tree, Goes, W, TreeStates
    <3> QED  BY <1>1, <3>1, TreeGoes
  <2> QED  BY <2>1, <2>2
<1>4. out # "unproven" => tree'[e][n][ph] = "gone"
  BY DEF W
<1>5. ASSUME NEW w \in Works, Become(e, n, w),
             \/ /\ w.pc = "close" /\ w.phase = "eval" /\ ph = "eval" /\ w.result # "none"
                /\ (out = "unproven" => w.result = "unknown")
                /\ w.unproven \in BOOLEAN /\ (w.unproven = TRUE <=> out = "unproven")
             \/ /\ w.pc = "admit" /\ w.phase = "check" /\ ph = "eval" /\ w.result = "completed"
                /\ w.unproven = FALSE /\ out # "unproven"
             \/ /\ w.pc = "close" /\ w.phase = "check" /\ ph = "check" /\ w.result # "none"
                /\ w.unproven = FALSE /\ (out = "unproven" => w.result = "unknown")
      PROVE  ExecutionInv'
  <2>1. /\ work' \in [Ids -> [Slots -> Works]] /\ work'[e][n] = w
        /\ \A x \in Ids, m \in Slots : x # e \/ m # n => work'[x][m] = work[x][m]
    BY <1>1, <1>5, Becomes
  <2>2. OnlySlot(e, n) /\ cmd' \in [Cmds -> Commands]
    BY <1>1, <1>3, <2>1 DEF OnlySlot, Typed
  <2>3. Onward(e, n)
    BY <1>1, <1>3, <1>5, <2>1 DEF Onward, Serving, Phases
  <2>4. WorkerInv(e, n)'
    <3>1. CASE ph = "eval"
      BY <1>2, <1>3, <1>4, <1>5, <2>1, <3>1 DEF WorkerInv, Serving, Phases, Live
    <3>2. CASE ph = "check"
      <4>1. /\ w.pc = "close" /\ w.phase = "check" /\ w.result # "none" /\ w.unproven = FALSE
            /\ w.result = "unknown" \/ tree'[e][n]["check"] = "gone"
            /\ tree'[e][n]["eval"] = "gone"
        BY <1>2, <1>3, <1>4, <1>5, <3>2 DEF Phases
      <4> QED  BY <1>2, <2>1, <4>1 DEF WorkerInv, Serving, Live
    <3> QED  BY <1>2, <3>1, <3>2
  <2> QED  BY <1>1, <2>2, <2>3, <2>4, SlotMoves
<1>6. CASE ph = "check"
  <2> DEFINE w == Checked(W(e, n), out)
  <2>1. /\ w \in Works /\ w.pc = "close" /\ w.phase = "check" /\ w.result # "none" /\ w.unproven = FALSE
        /\ out = "unproven" => w.result = "unknown"
    BY <1>1, <1>2, <1>6 DEF W, Works, Checked
  <2>2. Become(e, n, w)
    BY <1>6 DEF Ended, W
  <2> HIDE DEF w
  <2> QED  BY <1>5, <1>6, <2>1, <2>2
<1>7. CASE ph = "eval"
  <2> DEFINE v == Judged(W(e, n), out)
  <2>1. /\ v \in Works /\ v.pc = "running" /\ v.phase = "eval" /\ v.result # "none"
        /\ (out = "unproven" => v.result = "unknown")
        /\ v.unproven \in BOOLEAN /\ (v.unproven = TRUE <=> out = "unproven")
    <3>1. CASE out = "unproven"
      <4>1. v = [work[e][n] EXCEPT !.result = "unknown", !.unproven = TRUE]
        BY <3>1 DEF W, Judged
      <4> QED  BY <1>1, <1>7, <3>1, <4>1 DEF Works
    <3>2. CASE out # "unproven"
      <4>1. PICK s \in Terminal \cup {"unknown"} : v = [work[e][n] EXCEPT !.result = s, !.unproven = FALSE]
        BY <3>2 DEF W, Judged, Terminal
      <4> QED  BY <1>1, <1>7, <3>2, <4>1 DEF Works, Terminal
    <3> QED  BY <3>1, <3>2
  <2>2. \/ Become(e, n, [v EXCEPT !.pc = "close"])
        \/ v.result = "completed" /\ Become(e, n, [v EXCEPT !.pc = "admit", !.phase = "check"])
    BY <1>7 DEF Ended, W
  <2> HIDE DEF v
  <2>3. CASE Become(e, n, [v EXCEPT !.pc = "close"])
    <3> DEFINE w == [v EXCEPT !.pc = "close"]
    <3>1. /\ w \in Works /\ w.pc = "close" /\ w.phase = "eval" /\ w.result # "none"
          /\ (out = "unproven" => w.result = "unknown")
          /\ w.unproven \in BOOLEAN /\ (w.unproven = TRUE <=> out = "unproven")
      BY <2>1 DEF Works
    <3>2. Become(e, n, w)
      BY <2>3
    <3> HIDE DEF w
    <3> QED  BY <1>5, <1>7, <3>1, <3>2
  <2>4. CASE v.result = "completed" /\ Become(e, n, [v EXCEPT !.pc = "admit", !.phase = "check"])
    <3> DEFINE w == [v EXCEPT !.pc = "admit", !.phase = "check"]
    <3>1. /\ w \in Works /\ w.pc = "admit" /\ w.phase = "check" /\ w.result = "completed"
          /\ w.unproven = FALSE /\ out # "unproven"
      BY <2>1, <2>4 DEF Works, Phases
    <3>2. Become(e, n, w)
      BY <2>4
    <3> HIDE DEF w
    <3> QED  BY <1>5, <1>7, <3>1, <3>2
  <2> QED  BY <2>2, <2>3, <2>4
<1> QED  BY <1>1, <1>6, <1>7 DEF Phases

LEMMA OutputStep ==
  ASSUME ExecutionInv, NEW e \in Ids, NEW n \in Slots, Output(e, n)
  PROVE  ExecutionInv'
<1>1. In(e, n, "running") /\ UNCHANGED <<receipt, cmd, lost, completion>> /\ Typed
      /\ W(e, n).phase \in Phases
  BY DEF Output, store, ExecutionInv, Typed, W, Works
<1>2. Tree(e, n, "gone") => tree'[e][n][W(e, n).phase] = "gone"
  <2>1. Tree(e, n, "gone") => Goes(e, n, W(e, n).phase, "gone")
    BY DEF Tree, Goes
  <2> QED  BY <1>1, <2>1, TreeGoes DEF TreeStates
<1>3. \E out \in {"ok", "bad", "timedOut", "unproven"} :
        /\ Ended(e, n, out) /\ (UNCHANGED tree \/ Tree(e, n, "gone"))
        /\ out # "unproven" => tree'[e][n][W(e, n).phase] = "gone"
  BY <1>2 DEF Output, Leftovers, Mine
<1> QED  BY <1>1, <1>3, EndedStep

LEMMA FinishStep ==
  ASSUME ExecutionInv, NEW e \in Ids, NEW n \in Slots, Finish(e, n)
  PROVE  ExecutionInv'
<1>1. /\ WorkerInv(e, n) /\ ReceiptInv(e) /\ CompletionInv(e) /\ Typed /\ receipt[e] \in Receipts
      /\ work[e][n] \in Works /\ work[e][n].pc = "finish" /\ completion[e] \in Completions
  BY DEF ExecutionInv, ActionInv, Typed, In, Finish
<1>2. receipt[e].worker.pid = n /\ receipt[e].worker.launched = TRUE /\ n # 0
  BY <1>1, Claimant, WorkerBounds DEF WorkerInv
<1>3. CASE Become(e, n, Dead) /\ UNCHANGED completion
  BY <1>1, <1>3, EndsStep DEF Finish, store
<1>4. CASE /\ completion' = [completion EXCEPT ![e] =
                               [status |-> W(e, n).result, cancel |-> receipt[e].worker.cancel]]
           /\ Become(e, n, [Unborn EXCEPT !.pc = "apply"])
  <2> DEFINE w == [Unborn EXCEPT !.pc = "apply"]
             done == [status |-> W(e, n).result, cancel |-> receipt[e].worker.cancel]
  <2>1. w \in Works /\ w.pc = "apply" /\ w.phase = "eval"
    BY DEF Unborn, Works, Phases
  <2>2. /\ done \in Completions /\ done.status = work[e][n].result /\ done.status # "none"
        /\ done.status = "unknown" \/ Accounted(e, n)
    BY <1>1 DEF Completions, W, Works, Receipts, Workers, WorkerInv
  <2>3. /\ completion' = [completion EXCEPT ![e] = done] /\ Become(e, n, w)
        /\ UNCHANGED <<receipt, cmd, tree, lost>>
    BY <1>4 DEF Finish, store
  <2> HIDE DEF w, done
  <2>4. work'[e][n] = w /\ (\A m \in Slots : m # n => work'[e][m] = work[e][m])
    BY <1>1, <2>1, <2>3, Becomes
  <2>5. /\ completion' \in [Ids -> Completions] /\ completion'[e] = done
        /\ \A x \in Ids \ {e} : completion'[x] = completion[x]
    BY <1>1, <2>2, <2>3 DEF Typed
  <2>6. WorkerInv(e, n)'
    BY <1>2, <2>1, <2>2, <2>3, <2>4, <2>5 DEF WorkerInv, Serving
  <2>7. ReceiptInv(e)'
    BY <1>1, <1>2, <2>1, <2>3, <2>4 DEF ReceiptInv, Present, EvalRan, Forgotten
  <2>8. OnlySlot(e, n)
    BY <1>1, <2>1, <2>3, <2>4, Becomes DEF OnlySlot, Typed
  <2>9. \A m \in Slots \ {n} : work'[e][m] = Unborn /\ \A p \in Phases : tree[e][m][p] = "none"
    BY <1>1, <2>8, OtherSlots
  <2>10. CompletionInv(e)'
    BY <1>2, <2>1, <2>2, <2>3, <2>4, <2>5, <2>9 DEF CompletionInv, Accounted, Unborn, Live
  <2>11. receipt' \in [Ids -> Receipts] /\ receipt'[e].status # "absent"
    BY <1>1, <1>2, <2>3 DEF ReceiptInv, Typed
  <2> QED
    BY <1>1, <2>1, <2>2, <2>3, <2>5, <2>6, <2>7, <2>10, <2>11, WorkerWrites
<1> QED  BY <1>3, <1>4 DEF Finish

LEMMA TreeEndsStep ==
  ASSUME ExecutionInv, NEW e \in Ids, NEW n \in Slots, NEW p \in Phases, TreeEnds(e, n, p)
  PROVE  ExecutionInv'
<1>1. /\ WorkerInv(e, n) /\ Typed /\ tree[e][n][p] \in Live
      /\ UNCHANGED <<receipt, cmd, work, lost, completion>>
  BY DEF ExecutionInv, ActionInv, TreeEnds, store, Live
<1>2. PICK s \in {"helper", "gone"} : Goes(e, n, p, s)
  BY DEF TreeEnds, Goes
<1>3. s \in TreeStates
  BY <1>2 DEF TreeStates, Live
<1>4. /\ tree' \in [Ids -> [Slots -> [Phases -> TreeStates]]]
      /\ tree'[e][n][p] = s /\ \A q \in Phases \ {p} : tree'[e][n][q] = tree[e][n][q]
      /\ \A x \in Ids, m \in Slots : x # e \/ m # n => tree'[x][m] = tree[x][m]
  BY <1>1, <1>2, <1>3, TreeGoes
<1>5. OnlySlot(e, n) /\ cmd' \in [Cmds -> Commands]
  BY <1>1, <1>4 DEF OnlySlot, Typed
<1>6. work[e][n].pc \notin {"unborn", "claim"} /\ work[e][n] \in Works
  BY <1>1 DEF WorkerInv, Live, Typed
<1>7. \A q \in Phases : /\ tree'[e][n][q] \in Live => tree[e][n][q] \in Live
                        /\ tree[e][n][q] \in {"gone", "none"} => tree'[e][n][q] = tree[e][n][q]
                        /\ tree[e][n][q] # "none" => tree'[e][n][q] # "none"
  BY <1>1, <1>2, <1>4 DEF Live
<1>8. Onward(e, n)
  BY <1>1, <1>6, <1>7 DEF Onward, Phases
<1>9. WorkerInv(e, n)'
  <2>1. work[e][n].phase \in Phases
    BY <1>6 DEF Works
  <2> QED  BY <1>1, <1>6, <1>7, <2>1 DEF WorkerInv, Accounted, Phases, Serving
<1> QED  BY <1>1, <1>5, <1>6, <1>8, <1>9, SlotMoves

-----------------------------------------------------------------------------
(* What is made of a receipt.                                              *)

LEMMA ClosedIs ==
  ASSUME NEW r \in Receipts, r.settlement \notin Settled,
         NEW s \in Terminal \cup {"unknown"}, NEW kind \in Settled \cup {"unknown"}
  PROVE  /\ Closed(r, s, kind) \in Receipts /\ Closed(r, s, kind).mode = r.mode
         /\ Closed(r, s, kind).status = s /\ Closed(r, s, kind).settlement = kind
         /\ Closed(r, s, kind).worker = r.worker
BY DEF Closed, settleInOutcome, Receipts

\* An action that is open may be closed when nothing of it would be overlooked.
LEMMA ClosedWritable ==
  ASSUME ExecutionInv, NEW e \in Ids, Present(e), ~terminalExecution(receipt[e]),
         NEW s \in Terminal \cup {"unknown"}, NEW kind \in Settled \cup {"unknown"},
         s \in Terminal <=> kind \in Settled
  PROVE  /\ Writable(e, Closed(receipt[e], s, kind))
         /\ terminalExecution(Closed(receipt[e], s, kind)) => s \in Terminal
         /\ Closed(receipt[e], s, kind).settlement = kind /\ Closed(receipt[e], s, kind).status = s
<1>1. receipt[e] \in Receipts /\ ReceiptInv(e)
  BY DEF ExecutionInv, Typed, ActionInv
<1>2. receipt[e].settlement \notin Settled
  BY <1>1 DEF ReceiptInv
<1> DEFINE r == Closed(receipt[e], s, kind)
<1>3. r \in Receipts /\ r.status = s /\ r.settlement = kind /\ r.worker = receipt[e].worker
  BY <1>1, <1>2, ClosedIs
<1>4. r.worker.launched \in BOOLEAN
  BY <1>3 DEF Receipts, Workers
<1>5. s \notin {"absent", "preparing", "ticket"} /\ kind # "none"
  BY DEF Terminal, Settled
<1> HIDE DEF r
<1>6. Writable(e, r)
  BY <1>1, <1>3, <1>4, <1>5 DEF Writable, ReceiptInv, terminalExecution
<1>7. terminalExecution(r) => s \in Terminal
  BY <1>3 DEF terminalExecution
<1> QED  BY <1>3, <1>6, <1>7 DEF r

LEMMA WritableAsIs ==
  ASSUME ExecutionInv, NEW e \in Ids, Present(e)
  PROVE  /\ Writable(e, receipt[e])
         /\ terminalExecution(receipt[e]) =>
              ~Overlooks(e, receipt[e].settlement) /\ \A n \in Slots : work[e][n].pc \notin Serving
<1>1. receipt[e] \in Receipts /\ ReceiptInv(e) /\ \A n \in Slots : WorkerInv(e, n)
  BY DEF ExecutionInv, Typed, ActionInv
<1>2. Writable(e, receipt[e])
  BY <1>1 DEF Writable, ReceiptInv, Present
<1>3. terminalExecution(receipt[e]) => \A n \in Slots : work[e][n].pc \notin Serving
  BY <1>1 DEF WorkerInv
<1>4. terminalExecution(receipt[e]) => ~Overlooks(e, receipt[e].settlement)
  BY <1>1 DEF ReceiptInv, Overlooks, Forgotten
<1> QED  BY <1>2, <1>3, <1>4

\* The completion that was found is applied by whoever finds it.
LEMMA AppliedWritable ==
  ASSUME ExecutionInv, NEW e \in Ids, completion[e].status # "none"
  PROVE  LET r == Applied(receipt[e], completion[e]) IN
         /\ Writable(e, r)
         /\ terminalExecution(r) =>
              ~Overlooks(e, r.settlement) /\ \A n \in Slots : work[e][n].pc \notin Serving
<1>1. /\ receipt[e] \in Receipts /\ ReceiptInv(e) /\ CompletionInv(e)
      /\ completion[e].status \in Terminal \cup {"unknown"} /\ completion[e].cancel \in BOOLEAN
  BY DEF ExecutionInv, Typed, ActionInv, Completions
<1>2. /\ receipt[e].worker.pid # 0 /\ \A n \in Slots : work[e][n].pc \notin Serving
      /\ completion[e].status # "unknown" => \A n \in Slots : Accounted(e, n)
  BY <1>1 DEF CompletionInv, Serving
<1>3. Present(e) /\ receipt[e].worker.launched = TRUE
  BY <1>1, <1>2 DEF ReceiptInv, Present, NoWorker, Receipts, Workers
<1> DEFINE r == Applied(receipt[e], completion[e])
<1>4. CASE terminalExecution(receipt[e])
  BY <1>3, <1>4, WritableAsIs DEF Applied
<1>5. CASE ~terminalExecution(receipt[e]) /\ completion[e].status = "unknown"
  <2> DEFINE u == Closed(receipt[e], "unknown", "unknown")
  <2>1. Writable(e, u) /\ u.status = "unknown"
    BY <1>3, <1>5, ClosedWritable DEF Terminal, Settled
  <2>2. r = [u EXCEPT !.worker.cancel = completion[e].cancel]
    BY <1>5 DEF Applied, Unknown
  <2> HIDE DEF u, r
  <2>3. /\ r \in Receipts /\ r.status = "unknown" /\ r.settlement = u.settlement
        /\ r.worker.launched = u.worker.launched /\ r.worker.pid = u.worker.pid
        /\ r.worker.child = u.worker.child /\ r.worker.observer = u.worker.observer
    BY <1>1, <2>1, <2>2 DEF Writable, Receipts, Workers
  <2>4. u.worker.launched = TRUE
    BY <1>3, <2>1 DEF Writable
  <2>5. Writable(e, r) /\ ~terminalExecution(r)
    BY <2>1, <2>3, <2>4 DEF Writable, terminalExecution, Terminal
  <2> QED  BY <2>5 DEF r
<1>6. CASE ~terminalExecution(receipt[e]) /\ completion[e].status # "unknown"
  <2>1. r = Closed(receipt[e], completion[e].status, "measured") /\ completion[e].status \in Terminal
    BY <1>1, <1>6 DEF Applied
  <2>2. Writable(e, r)
    BY <1>1, <1>3, <1>6, <2>1, ClosedWritable DEF Settled
  <2>3. \A kind : ~Overlooks(e, kind)
    BY <1>2, <1>6 DEF Overlooks, Accounted
  <2> QED  BY <1>2, <2>2, <2>3
<1> QED  BY <1>4, <1>5, <1>6

LEMMA ApplyOwnStep ==
  ASSUME ExecutionInv, NEW e \in Ids, NEW n \in Slots, ApplyOwn(e, n)
  PROVE  ExecutionInv'
<1>1. /\ WorkerInv(e, n) /\ ReceiptInv(e) /\ CompletionInv(e) /\ Typed
      /\ work[e][n] \in Works /\ work[e][n].pc = "apply" /\ completion[e].status # "none"
  BY DEF ExecutionInv, ActionInv, Typed, In, ApplyOwn, WorkerInv
<1> DEFINE r == Applied(receipt[e], completion[e])
<1>2. /\ Writable(e, r) /\ (terminalExecution(r) => ~Overlooks(e, r.settlement))
  BY <1>1, AppliedWritable
<1>3. receipt' = [receipt EXCEPT ![e] = r] /\ Become(e, n, Dead)
      /\ UNCHANGED <<cmd, tree, lost, completion>>
  BY DEF ApplyOwn, Set
<1> HIDE DEF r
<1>4. receipt' \in [Ids -> Receipts] /\ receipt'[e] = r /\ \A x \in Ids \ {e} : receipt'[x] = receipt[x]
  BY <1>1, <1>2, <1>3 DEF Typed, Writable
<1>5. work'[e][n] = Dead /\ \A m \in Slots : m # n => work'[e][m] = work[e][m]
  BY <1>1, <1>3, DeadIs, Becomes
<1>6. receipt[e].worker.pid = n /\ receipt[e].worker.launched = TRUE
  BY <1>1, Claimant DEF WorkerInv
<1>7. WorkerInv(e, n)'
  BY <1>5, DeadIs DEF WorkerInv, Serving
<1>8. CompletionInv(e)'
  BY <1>1, <1>2, <1>3, <1>4, <1>5, DeadIs DEF CompletionInv, Writable, Accounted
<1>9. ReceiptInv(e)'
  <2>1. r.settlement \in Settled =>
          \A m \in Slots, p \in Phases : tree'[e][m][p] \in Live => Forgotten(e, m, p)'
    BY <1>2, <1>3, <1>4 DEF Overlooks, Forgotten, Writable
  <2>2. r.worker.child = "check" => EvalRan(e)'
    BY <1>2, <1>3 DEF Writable, EvalRan
  <2> QED  BY <1>2, <1>4, <1>5, <1>6, <2>1, <2>2, DeadIs DEF ReceiptInv, Writable, Present
<1>10. completion' \in [Ids -> Completions]
  BY <1>1, <1>3 DEF Typed
<1> QED
  BY <1>1, <1>2, <1>3, <1>4, <1>7, <1>8, <1>9, <1>10, DeadIs, WorkerWrites DEF Writable

LEMMA WorkerKeeps ==
  ASSUME ExecutionInv, NEW e \in Ids, NEW n \in Slots, WorkerStep(e, n) \/ WorkerDies(e, n)
  PROVE  ExecutionInv'
<1>1. CASE Refused(e, n)
  <2>1. work[e][n].abort \in BOOLEAN /\ W(e, n) = [W(e, n) EXCEPT !.abort = work[e][n].abort]
    BY DEF ExecutionInv, Typed, W, Works
  <2> QED  BY <1>1, <2>1, RefusedStep DEF Refused, store
<1>2. CASE WorkerDies(e, n)
  BY <1>2, EndsStep DEF WorkerDies, WorkerLives, store
<1> QED
  BY <1>1, <1>2, ClaimStep, AdmitStep, RecordChildStep, BeatStep, OutputStep, CloseStep, FinishStep,
     ApplyOwnStep DEF WorkerStep

-----------------------------------------------------------------------------
(* The commands.                                                           *)
Plain == {"request", "launch", "read", "observer", "unknown"}
Places == Plain \cup {"idle", "prepare", "spawn", "spawnFailed", "apply", "inspect", "tree", "settle"}

LEMMA PlainCommand ==
  ASSUME NEW c \in Cmds, NEW e \in Ids,
         cmd'[c].pc = "idle" \/ (cmd'[c].pc \in Plain /\ cmd'[c].e = e /\ Present(e)')
  PROVE  CommandInv(c)'
BY DEF CommandInv, Plain

LEMMA IdleIs == Idle \in Commands /\ Idle.pc = "idle"
BY DEF Idle, Commands, NoWorker, Workers

LEMMA CommandMoves ==
  ASSUME Typed, NEW c \in Cmds, NEW pc \in Places
  PROVE  /\ Goto(c, pc) => Moves(c) /\ cmd'[c] = [cmd[c] EXCEPT !.pc = pc]
                           /\ cmd'[c].pc = pc /\ cmd'[c].e = cmd[c].e /\ cmd'[c].seen = cmd[c].seen
         /\ Leave(c, pc) => Moves(c) /\ cmd'[c].pc = pc /\ cmd'[c].e = cmd[c].e
         /\ Return(c) => Moves(c) /\ cmd'[c].pc = "idle"
<1>1. cmd \in [Cmds -> Commands] /\ cmd[c] \in Commands
  BY DEF Typed
<1>2. ASSUME Goto(c, pc) PROVE Moves(c) /\ cmd'[c] = [cmd[c] EXCEPT !.pc = pc]
                               /\ cmd'[c].pc = pc /\ cmd'[c].e = cmd[c].e /\ cmd'[c].seen = cmd[c].seen
  <2>1. [cmd[c] EXCEPT !.pc = pc] \in Commands
    BY <1>1 DEF Commands, Places, Plain
  <2>2. cmd' = [cmd EXCEPT ![c] = [cmd[c] EXCEPT !.pc = pc]]
    BY <1>2 DEF Goto
  <2> QED  BY <1>1, <2>1, <2>2 DEF Moves, Commands
<1>3. ASSUME Leave(c, pc) PROVE Moves(c) /\ cmd'[c].pc = pc /\ cmd'[c].e = cmd[c].e
  <2> DEFINE k == [cmd[c] EXCEPT !.pc = pc, !.op = "none", !.seen = NoWorker]
  <2>1. NoWorker \in Workers
    BY DEF NoWorker, Workers
  <2>2. k \in Commands /\ k.pc = pc /\ k.e = cmd[c].e
    BY <1>1, <2>1 DEF Commands, Places, Plain
  <2>3. cmd' = [cmd EXCEPT ![c] = k]
    BY <1>1, <1>3 DEF Leave
  <2> HIDE DEF k
  <2> QED  BY <1>1, <2>2, <2>3 DEF Moves
<1>4. ASSUME Return(c) PROVE Moves(c) /\ cmd'[c].pc = "idle"
  BY <1>1, <1>4, IdleIs DEF Return, Moves
<1> QED  BY <1>2, <1>3, <1>4

LEMMA UnderWay ==
  ASSUME ExecutionInv, NEW c \in Cmds, cmd[c].pc # "idle"
  PROVE  /\ cmd[c].e \in Ids /\ Present(cmd[c].e) /\ Rc(c) = receipt[cmd[c].e] /\ Rc(c) \in Receipts
         /\ ReceiptInv(cmd[c].e) /\ CommandInv(c) /\ Typed
BY DEF ExecutionInv, CommandInv, ActionInv, Typed, Rc

\* A command that ends, or goes on, without a change of the store.
LEMMA CommandGoes ==
  ASSUME ExecutionInv, NEW c \in Cmds, cmd[c].pc # "idle", Moves(c),
         cmd'[c].pc = "idle" \/ (cmd'[c].pc \in Plain /\ cmd'[c].e = cmd[c].e),
         UNCHANGED <<receipt, procs, completion>>
  PROVE  ExecutionInv'
<1>1. CommandInv(c)'
  BY UnderWay, PlainCommand DEF Present
<1> QED  BY <1>1, OnlyCommand

\* A command that writes the receipt of its action.
LEMMA CommandWrites ==
  ASSUME ExecutionInv, NEW c \in Cmds, cmd[c].pc # "idle", Moves(c),
         cmd'[c].pc = "idle" \/ (cmd'[c].pc \in Plain /\ cmd'[c].e = cmd[c].e),
         NEW r, Writable(cmd[c].e, r), Set(cmd[c].e, r), UNCHANGED <<procs, completion>>,
         terminalExecution(r) => /\ ~Overlooks(cmd[c].e, r.settlement)
                                 /\ \A n \in Slots : work[cmd[c].e][n].pc \notin Serving
  PROVE  ExecutionInv'
<1>1. cmd[c].e \in Ids /\ Typed
  BY UnderWay
<1>2. receipt' = [receipt EXCEPT ![cmd[c].e] = r] /\ r.status # "absent"
  BY DEF Set, Writable
<1>3. receipt'[cmd[c].e] = r
  BY <1>1, <1>2 DEF Typed
<1>4. CommandInv(c)'
  BY <1>1, <1>2, <1>3, PlainCommand DEF Present
<1> QED  BY <1>1, <1>2, <1>4, OneReceipt DEF Moves

LEMMA UnstartedQuiet ==
  ASSUME NEW e \in Ids, Unstarted(e)
  PROVE  (\A kind : ~Overlooks(e, kind)) /\ \A n \in Slots : work[e][n].pc \notin Serving
<1>1. Unborn.pc = "unborn"
  BY DEF Unborn
<1>2. \A n \in Slots : work[e][n].pc \notin Serving
  BY <1>1 DEF Unstarted, Serving
<1>3. \A kind : ~Overlooks(e, kind)
  BY DEF Unstarted, Overlooks, Live
<1> QED  BY <1>2, <1>3

LEMMA NextNewStep ==
  ASSUME ExecutionInv, NEW c \in Cmds, NEW e \in Ids, NEW m \in Modes[e], NextNew(c, e, m)
  PROVE  ExecutionInv'
<1> DEFINE k == [Idle EXCEPT !.pc = "prepare", !.op = "next", !.e = e]
           r == [Absent EXCEPT !.mode = m, !.status = "preparing", !.settlement = "reserved"]
<1>1. cmd \in [Cmds -> Commands] /\ receipt \in [Ids -> Receipts] /\ ReceiptInv(e) /\ receipt[e].status = "absent"
  BY DEF ExecutionInv, Typed, ActionInv, NextNew, Nominated, Present
<1>2. k \in Commands /\ k.pc = "prepare" /\ k.op = "next" /\ k.e = e
  BY DEF Commands, Idle, NoWorker, Workers
<1>3. r \in Receipts /\ r.status = "preparing" /\ r.settlement = "reserved" /\ r.worker = NoWorker
  BY DEF Receipts, Absent, NoWorker, Workers
<1>4. cmd' = [cmd EXCEPT ![c] = k] /\ receipt' = [receipt EXCEPT ![e] = r] /\ UNCHANGED <<procs, completion>>
  BY DEF NextNew, Nominated
<1> HIDE DEF k, r
<1>5. receipt[e].worker = NoWorker /\ Unstarted(e)
  BY <1>1 DEF ReceiptInv
<1>6. Writable(e, r) /\ ~terminalExecution(r)
  BY <1>3, <1>5 DEF Writable, terminalExecution, Terminal, Settled, NoWorker
<1>7. cmd' \in [Cmds -> Commands] /\ cmd'[c] = k /\ \A d \in Cmds \ {c} : cmd'[d] = cmd[d]
  BY <1>1, <1>2, <1>4
<1>8. CommandInv(c)'
  BY <1>1, <1>2, <1>3, <1>4, <1>7 DEF CommandInv, Present
<1> QED  BY <1>4, <1>6, <1>7, <1>8, OneReceipt

LEMMA ReconnectStep ==
  ASSUME ExecutionInv, NEW c \in Cmds, NEW e \in Ids, NEW op \in {"next", "resume", "cancel"},
         Reconnect(c, e, op)
  PROVE  ExecutionInv'
<1>1. cmd \in [Cmds -> Commands] /\ Present(e) /\ UNCHANGED <<receipt, procs, completion>>
  BY DEF ExecutionInv, Typed, Reconnect, store
<1>2. PICK k \in Commands : /\ cmd' = [cmd EXCEPT ![c] = k] /\ k.e = e /\ k.pc \in Plain \cup {"prepare"}
                            /\ k.pc = "prepare" => k.op # "none"
  <2>1. After(op) \in {"request", "launch", "read"}
    BY DEF After
  <2>2. /\ [Idle EXCEPT !.pc = "prepare", !.op = op, !.e = e] \in Commands
        /\ [Idle EXCEPT !.pc = "prepare", !.op = op, !.e = e].e = e
        /\ [Idle EXCEPT !.pc = "prepare", !.op = op, !.e = e].op # "none"
        /\ [Idle EXCEPT !.pc = "prepare", !.op = op, !.e = e].pc = "prepare"
    BY DEF Commands, Idle, NoWorker, Workers
  <2>3. /\ [Idle EXCEPT !.pc = After(op), !.e = e] \in Commands
        /\ [Idle EXCEPT !.pc = After(op), !.e = e].e = e
        /\ [Idle EXCEPT !.pc = After(op), !.e = e].pc \in {"request", "launch", "read"}
    BY <2>1 DEF Commands, Idle, NoWorker, Workers
  <2>4. \/ cmd' = [cmd EXCEPT ![c] = [Idle EXCEPT !.pc = "prepare", !.op = op, !.e = e]]
        \/ cmd' = [cmd EXCEPT ![c] = [Idle EXCEPT !.pc = After(op), !.e = e]]
    BY DEF Reconnect
  <2> QED  BY <2>2, <2>3, <2>4 DEF Plain
<1>3. Moves(c) /\ cmd'[c] = k
  BY <1>1, <1>2 DEF Moves
<1>4. CommandInv(c)'
  BY <1>1, <1>2, <1>3 DEF CommandInv, Plain, Present
<1> QED  BY <1>1, <1>3, <1>4, OnlyCommand

LEMMA PrepareStep ==
  ASSUME ExecutionInv, NEW c \in Cmds, Prepare(c)
  PROVE  ExecutionInv'
<1> DEFINE e == cmd[c].e
<1>1. cmd[c].pc = "prepare" /\ UNCHANGED <<procs, completion>>
  BY DEF Prepare, At
<1>2. /\ e \in Ids /\ Present(e) /\ receipt[e] \in Receipts /\ ReceiptInv(e) /\ Typed /\ cmd[c].op # "none"
      /\ Rc(c) = receipt[e]
  BY <1>1, UnderWay DEF CommandInv
<1>3. cmd[c].op \in {"next", "resume", "cancel"}
  BY <1>2 DEF Typed, Commands
<1>4. After(cmd[c].op) \in {"request", "launch", "read"}
  BY <1>3 DEF After
<1>5. Moves(c) /\ (cmd'[c].pc = "idle" \/ (cmd'[c].pc \in Plain /\ cmd'[c].e = cmd[c].e))
  BY <1>2, <1>4, CommandMoves DEF Prepare, Plain, Places
<1>6. CASE receipt[e].status # "preparing"
  <2>1. UNCHANGED receipt
    BY <1>2, <1>6 DEF Prepare, Set, Prepared, Unprepared, Typed
  <2> QED  BY <1>1, <1>5, <2>1, CommandGoes
<1>7. CASE receipt[e].status = "preparing"
  <2>1. ~terminalExecution(receipt[e]) /\ receipt[e].worker = NoWorker /\ Unstarted(e)
    BY <1>2, <1>7 DEF ReceiptInv, terminalExecution, Terminal
  <2>2. receipt[e].settlement \notin Settled
    BY <1>2, <2>1 DEF ReceiptInv
  <2>3. CASE Set(e, Prepared(receipt[e]))
    <3> DEFINE r == Prepared(receipt[e])
    <3>1. /\ r \in Receipts /\ r.status \in {"ticket", "launching"} /\ r.worker = NoWorker
          /\ r.settlement = receipt[e].settlement
      BY <1>2, <1>7, <2>1 DEF Prepared, Receipts
    <3>2. Set(e, r)
      BY <2>3
    <3> HIDE DEF r
    <3>3. Writable(e, r) /\ ~terminalExecution(r)
      BY <1>2, <2>1, <2>2, <3>1 DEF Writable, terminalExecution, Terminal, ReceiptInv, NoWorker
    <3> QED  BY <1>1, <1>5, <3>2, <3>3, CommandWrites
  <2>4. CASE Set(e, Unprepared(receipt[e]))
    <3>1. Unprepared(receipt[e]) = Closed(receipt[e], "failed", "measured")
      BY <1>7 DEF Unprepared
    <3>2. Writable(e, Unprepared(receipt[e]))
      BY <1>2, <2>1, <3>1, ClosedWritable DEF Terminal, Settled
    <3> QED  BY <1>1, <1>2, <1>5, <2>1, <2>4, <3>2, CommandWrites, UnstartedQuiet
  <2> QED  BY <1>2, <2>3, <2>4 DEF Prepare
<1> QED  BY <1>6, <1>7

LEMMA RequestStep ==
  ASSUME ExecutionInv, NEW c \in Cmds, RequestCancellation(c)
  PROVE  ExecutionInv'
<1> DEFINE e == cmd[c].e
<1>1. cmd[c].pc = "request" /\ UNCHANGED <<procs, completion>> /\ Set(e, Cancelled(Rc(c))) /\ Goto(c, "read")
  BY DEF RequestCancellation, At
<1>2. /\ e \in Ids /\ Present(e) /\ receipt[e] \in Receipts /\ ReceiptInv(e) /\ Typed /\ Rc(c) = receipt[e]
  BY <1>1, UnderWay
<1>3. Moves(c) /\ cmd'[c].pc \in Plain /\ cmd'[c].e = cmd[c].e
  BY <1>1, <1>2, CommandMoves DEF Plain, Places
<1>4. CASE terminalExecution(receipt[e])
  BY <1>1, <1>2, <1>3, <1>4, WritableAsIs, CommandWrites DEF Cancelled
<1>5. CASE ~terminalExecution(receipt[e]) /\ receipt[e].worker.launched = TRUE
  <2> DEFINE r == [receipt[e] EXCEPT !.worker.cancel = TRUE]
  <2>1. /\ r \in Receipts /\ r.status = receipt[e].status /\ r.settlement = receipt[e].settlement
        /\ r.worker.launched = TRUE /\ r.worker.pid = receipt[e].worker.pid
        /\ r.worker.child = receipt[e].worker.child /\ r.worker.observer = receipt[e].worker.observer
    BY <1>2, <1>5 DEF Receipts, Workers
  <2>2. Set(e, r)
    BY <1>1, <1>2, <1>5 DEF Cancelled
  <2> HIDE DEF r
  <2>3. Writable(e, r) /\ ~terminalExecution(r)
    BY <1>2, <1>5, <2>1, WritableAsIs DEF Writable, terminalExecution
  <2> QED  BY <1>1, <1>3, <2>2, <2>3, CommandWrites
<1>6. CASE ~terminalExecution(receipt[e]) /\ receipt[e].worker.launched = FALSE
  <2>1. Cancelled(receipt[e]) = Closed(receipt[e], "cancelled", "measured")
    BY <1>6 DEF Cancelled
  <2>2. Writable(e, Cancelled(receipt[e]))
    BY <1>2, <1>6, <2>1, ClosedWritable DEF Terminal, Settled
  <2>3. Unstarted(e)
    BY <1>2, <1>6 DEF ReceiptInv
  <2> QED  BY <1>1, <1>2, <1>3, <2>2, <2>3, CommandWrites, UnstartedQuiet
<1> QED  BY <1>2, <1>4, <1>5, <1>6 DEF Receipts, Workers

LEMMA LaunchStep ==
  ASSUME ExecutionInv, NEW c \in Cmds, Launch(c)
  PROVE  ExecutionInv'
<1> DEFINE e == cmd[c].e
<1>1. cmd[c].pc = "launch" /\ UNCHANGED <<procs, completion>>
  BY DEF Launch, At
<1>2. /\ e \in Ids /\ Present(e) /\ receipt[e] \in Receipts /\ ReceiptInv(e) /\ Typed /\ Rc(c) = receipt[e]
  BY <1>1, UnderWay
<1>3. CASE ~MayLaunch(receipt[e])
  <2>1. Goto(c, "read") /\ UNCHANGED receipt
    BY <1>2, <1>3 DEF Launch, store
  <2>2. Moves(c) /\ cmd'[c].pc \in Plain /\ cmd'[c].e = cmd[c].e
    BY <1>2, <2>1, CommandMoves DEF Plain, Places
  <2> QED  BY <1>1, <2>1, <2>2, CommandGoes
<1>4. CASE MayLaunch(receipt[e])
  <2> DEFINE v == [NoWorker EXCEPT !.launched = TRUE, !.observer = c]
             r == [receipt[e] EXCEPT !.worker = v]
             k == [cmd[c] EXCEPT !.pc = "spawn", !.observes = e]
  <2>1. /\ receipt[e].status = "launching" /\ receipt[e].worker.launched = FALSE
        /\ Set(e, r) /\ cmd' = [cmd EXCEPT ![c].pc = "spawn", ![c].observes = e]
    BY <1>2, <1>4 DEF Launch, MayLaunch, Receipts, Workers
  <2>2. receipt[e].worker = NoWorker /\ Unstarted(e)
    BY <1>2, <2>1 DEF ReceiptInv
  <2>3. v \in Workers /\ v.launched = TRUE /\ v.observer = c /\ v.pid = 0 /\ v.child = "none"
    BY DEF NoWorker, Workers
  <2> HIDE DEF v
  <2>4. /\ r \in Receipts /\ r.status = "launching" /\ r.settlement = receipt[e].settlement /\ r.worker = v
    BY <1>2, <2>1, <2>3 DEF Receipts
  <2> HIDE DEF r
  <2>5. Writable(e, r) /\ ~terminalExecution(r)
    BY <1>2, <2>1, <2>2, <2>3, <2>4
    DEF Writable, ReceiptInv, terminalExecution, Terminal, NoWorker, Present
  <2>6. k \in Commands /\ k.pc = "spawn" /\ k.e = e
    BY <1>2 DEF Typed, Commands
  <2>7. cmd' = [cmd EXCEPT ![c] = k]
    BY <1>2, <2>1 DEF Typed
  <2> HIDE DEF k
  <2>8. cmd' \in [Cmds -> Commands] /\ cmd'[c] = k /\ \A d \in Cmds \ {c} : cmd'[d] = cmd[d]
    BY <1>2, <2>6, <2>7 DEF Typed
  <2>9. receipt' = [receipt EXCEPT ![e] = r] /\ receipt'[e] = r
    BY <1>2, <2>1 DEF Set, Typed
  <2>10. CommandInv(c)'
    BY <1>1, <1>2, <2>2, <2>3, <2>4, <2>6, <2>8, <2>9
    DEF CommandInv, Present, Spawnable, Unstarted, procs
  <2> QED  BY <1>1, <1>2, <2>5, <2>8, <2>9, <2>10, OneReceipt
<1> QED  BY <1>3, <1>4

LEMMA SpawnStep ==
  ASSUME ExecutionInv, NEW c \in Cmds, Spawn(c)
  PROVE  ExecutionInv'
<1>1. cmd[c].pc = "spawn" /\ UNCHANGED <<receipt, tree, lost, completion>>
  BY DEF Spawn, At, store
<1>2. PICK e \in Ids : cmd[c].e = e /\ Present(e) /\ ReceiptInv(e) /\ Typed /\ Spawnable(c, e)
  BY <1>1, UnderWay DEF CommandInv
<1>3. CASE Goto(c, "spawnFailed") /\ UNCHANGED work
  <2>1. Moves(c) /\ cmd'[c].pc = "spawnFailed" /\ cmd'[c].e = e
    BY <1>2, <1>3, CommandMoves DEF Places
  <2>2. CommandInv(c)'
    BY <1>1, <1>2, <1>3, <2>1 DEF CommandInv, Spawnable, Present, Unstarted
  <2> QED  BY <1>1, <1>3, <2>1, <2>2, OnlyCommand DEF procs
<1>4. ASSUME NEW n \in Slots, work' = [work EXCEPT ![e][n].pc = "claim"], Return(c)
      PROVE  ExecutionInv'
  <2> DEFINE w == [Unborn EXCEPT !.pc = "claim"]
  <2>1. w \in Works /\ w.pc = "claim" /\ w.phase = "eval"
    BY DEF Works, Unborn, Phases
  <2>2. \A m \in Slots : work[e][m] = Unborn /\ \A p \in Phases : tree[e][m][p] = "none"
    BY <1>2 DEF Spawnable, Unstarted
  <2>3. Become(e, n, w)
    BY <1>2, <1>4, <2>2 DEF Typed, Become
  <2> HIDE DEF w
  <2>4. /\ work' \in [Ids -> [Slots -> Works]] /\ work'[e][n] = w
        /\ \A x \in Ids, m \in Slots : x # e \/ m # n => work'[x][m] = work[x][m]
    BY <1>2, <2>1, <2>3, Becomes
  <2>5. Moves(c) /\ cmd'[c].pc = "idle"
    BY <1>2, <1>4, CommandMoves DEF Places
  <2>6. Typed' /\ \A x \in Ids \ {e} : Same(x)
    BY <1>1, <1>2, <2>4, <2>5 DEF Typed, Same, Moves
  <2>7. ReceiptInv(e)'
    BY <1>1, <1>2 DEF ReceiptInv, Spawnable, Present, EvalRan, Forgotten
  <2>8. CompletionInv(e)'
    <3>1. CompletionInv(e)
      BY <1>2 DEF ExecutionInv, ActionInv
    <3> QED  BY <1>1, <1>2, <3>1 DEF CompletionInv, Spawnable
  <2>9. OneWorker(e)'
    <3>1. \A m \in Slots : m # n => work'[e][m] = Unborn
      BY <2>2, <2>4
    <3> QED  BY <3>1 DEF OneWorker, Unborn
  <2>10. ASSUME NEW m \in Slots PROVE WorkerInv(e, m)'
    <3>1. work'[e][m] = w \/ work'[e][m] = Unborn
      BY <2>2, <2>4
    <3>2. \A p \in Phases : tree'[e][m][p] = "none"
      BY <1>1, <2>2
    <3> QED  BY <3>1, <3>2 DEF WorkerInv, Serving, Unborn, w
  <2>11. Keeps(e)
    <3>1. ASSUME NEW d \in Cmds, cmd'[d] = cmd[d], cmd[d].pc \in {"spawn", "spawnFailed"}, Spawnable(d, e)
          PROVE  FALSE
      BY <1>2, <2>5, <3>1 DEF Spawnable
    <3> QED  BY <1>1, <1>2, <3>1 DEF Keeps, Present, EvalRan, Spawnable
  <2>12. CommandInv(c)' /\ \A d \in Cmds : cmd'[d] = cmd[d] \/ CommandInv(d)'
    <3>1. CommandInv(c)'
      BY <1>2, <2>5, PlainCommand
    <3> QED  BY <2>5, <3>1 DEF Moves
  <2> QED
    BY <1>1, <1>2, <2>6, <2>7, <2>8, <2>9, <2>10, <2>11, <2>12, OneAction DEF ActionInv
<1> QED  BY <1>2, <1>3, <1>4 DEF Spawn

LEMMA SpawnFailedStep ==
  ASSUME ExecutionInv, NEW c \in Cmds, SpawnFailed(c)
  PROVE  ExecutionInv'
<1> DEFINE e == cmd[c].e
<1>1. cmd[c].pc = "spawnFailed" /\ UNCHANGED <<procs, completion>> /\ Return(c)
  BY DEF SpawnFailed, At
<1>2. /\ e \in Ids /\ Present(e) /\ Typed /\ Rc(c) = receipt[e] /\ Unstarted(e)
  BY <1>1, UnderWay DEF CommandInv, Spawnable
<1>3. Moves(c) /\ cmd'[c].pc = "idle"
  BY <1>1, <1>2, CommandMoves DEF Places
<1>4. CASE Set(e, receipt[e])
  BY <1>1, <1>2, <1>3, <1>4, WritableAsIs, CommandWrites
<1>5. CASE ~terminalExecution(receipt[e]) /\ Set(e, Closed(receipt[e], "failed", "measured"))
  <2>1. Writable(e, Closed(receipt[e], "failed", "measured"))
    BY <1>2, <1>5, ClosedWritable DEF Terminal, Settled
  <2> QED  BY <1>1, <1>2, <1>3, <1>5, <2>1, CommandWrites, UnstartedQuiet
<1> QED  BY <1>2, <1>4, <1>5 DEF SpawnFailed

LEMMA ReadStep ==
  ASSUME ExecutionInv, NEW c \in Cmds, Read(c)
  PROVE  ExecutionInv'
<1>1. cmd[c].pc = "read" /\ UNCHANGED <<receipt, procs, completion>>
  BY DEF Read, At, store
<1>2. PICK e \in Ids : /\ cmd[c].e = e /\ Present(e) /\ receipt[e] \in Receipts /\ ReceiptInv(e) /\ Typed
                       /\ Rc(c) = receipt[e]
  BY <1>1, UnderWay
<1> DEFINE seen == receipt[e].worker
           pc == IF seen.pid # 0 THEN "inspect" ELSE "observer"
           k == [cmd[c] EXCEPT !.seen = seen, !.pc = pc]
<1>3. \/ Return(c) \/ Goto(c, "launch")
      \/ completion[e].status # "none" /\ Goto(c, "apply")
      \/ cmd' = [cmd EXCEPT ![c].seen = seen, ![c].pc = pc]
  BY <1>2 DEF Read
<1>4. CASE Return(c) \/ Goto(c, "launch")
  <2>1. Moves(c) /\ (cmd'[c].pc = "idle" \/ (cmd'[c].pc \in Plain /\ cmd'[c].e = cmd[c].e))
    BY <1>2, <1>4, CommandMoves DEF Plain, Places
  <2> QED  BY <1>1, <2>1, CommandGoes
<1>5. CASE completion[e].status # "none" /\ Goto(c, "apply")
  <2>1. Moves(c) /\ cmd'[c].pc = "apply" /\ cmd'[c].e = e
    BY <1>2, <1>5, CommandMoves DEF Plain, Places
  <2>2. CommandInv(c)'
    BY <1>1, <1>2, <1>5, <2>1 DEF CommandInv, Present
  <2> QED  BY <1>1, <2>1, <2>2, OnlyCommand
<1>6. CASE cmd' = [cmd EXCEPT ![c].seen = seen, ![c].pc = pc]
  <2>1. cmd' = [cmd EXCEPT ![c] = k]
    BY <1>2, <1>6 DEF Typed
  <2>2. seen \in Workers /\ pc \in {"inspect", "observer"} /\ (pc = "inspect" => seen.pid # 0)
    BY <1>2 DEF Receipts
  <2> HIDE DEF seen, pc
  <2>3. k \in Commands /\ k.pc = pc /\ k.e = e /\ k.seen = seen
    BY <1>2, <2>2 DEF Typed, Commands
  <2> HIDE DEF k
  <2>4. Moves(c) /\ cmd'[c] = k
    BY <1>2, <2>1, <2>3 DEF Typed, Moves
  <2>5. seen.child = "check" => EvalRan(e)'
    BY <1>1, <1>2 DEF ReceiptInv, EvalRan, seen, procs
  <2>6. CommandInv(c)'
    BY <1>1, <1>2, <2>2, <2>3, <2>4, <2>5 DEF CommandInv, Present, seen
  <2> QED  BY <1>1, <2>4, <2>6, OnlyCommand
<1> QED  BY <1>3, <1>4, <1>5, <1>6

\* When the worker that has claimed an action is dead, nobody works on it.
LEMMA ClaimantGone ==
  ASSUME ExecutionInv, NEW e \in Ids, receipt[e].worker.pid # 0, ~WorkerLives(e, receipt[e].worker.pid)
  PROVE  Quiet(e) /\ receipt[e].worker.pid \in Slots /\ work[e][receipt[e].worker.pid].pc = "dead"
<1>1. receipt[e].worker.pid \in Slots /\ ReceiptInv(e) /\ OneWorker(e)
  BY DEF ExecutionInv, ActionInv, Typed, Receipts, Workers
<1>2. work[e][receipt[e].worker.pid].pc = "dead"
  BY <1>1 DEF ReceiptInv, WorkerLives
<1> QED  BY <1>1, <1>2 DEF OneWorker, Quiet

LEMMA InspectStep ==
  ASSUME ExecutionInv, NEW c \in Cmds, Inspect(c)
  PROVE  ExecutionInv'
<1>1. cmd[c].pc = "inspect" /\ UNCHANGED <<receipt, procs, completion>>
  BY DEF Inspect, At, store
<1>2. PICK e \in Ids : /\ cmd[c].e = e /\ Present(e) /\ Typed /\ CommandInv(c)
  BY <1>1, UnderWay
<1>3. CASE Return(c) \/ Leave(c, "unknown")
  <2>1. Moves(c) /\ (cmd'[c].pc = "idle" \/ (cmd'[c].pc \in Plain /\ cmd'[c].e = cmd[c].e))
    BY <1>2, <1>3, CommandMoves DEF Plain, Places
  <2> QED  BY <1>1, <2>1, CommandGoes
<1>4. CASE ~WorkerLives(e, cmd[c].seen.pid) /\ cmd[c].seen.child # "none" /\ Goto(c, "tree")
  <2>1. Moves(c) /\ cmd'[c].pc = "tree" /\ cmd'[c].e = e /\ cmd'[c].seen = cmd[c].seen
    BY <1>2, <1>4, CommandMoves DEF Places
  <2>2. /\ cmd[c].seen.pid # 0 /\ cmd[c].seen.pid = receipt[e].worker.pid
        /\ cmd[c].seen.child = "check" => EvalRan(e)
    BY <1>1, <1>2 DEF CommandInv
  <2>3. Quiet(e)' /\ (EvalRan(e) => EvalRan(e)')
    BY <1>1, <1>4, <2>2, ClaimantGone DEF Quiet, EvalRan, procs
  <2>4. CommandInv(c)'
    BY <1>1, <1>2, <1>4, <2>1, <2>2, <2>3 DEF CommandInv, Present
  <2> QED  BY <1>1, <2>1, <2>4, OnlyCommand
<1> QED  BY <1>2, <1>3, <1>4 DEF Inspect

LEMMA StopOrphanStep ==
  ASSUME ExecutionInv, NEW c \in Cmds, StopOrphan(c)
  PROVE  ExecutionInv'
<1>1. cmd[c].pc = "tree" /\ UNCHANGED <<receipt, work, lost, completion>>
  BY DEF StopOrphan, At, store
<1>2. PICK e \in Ids : /\ cmd[c].e = e /\ Present(e) /\ Typed /\ CommandInv(c)
  BY <1>1, UnderWay
<1>3. CASE Leave(c, "unknown") /\ UNCHANGED tree
  <2>1. Moves(c) /\ cmd'[c].pc \in Plain /\ cmd'[c].e = cmd[c].e
    BY <1>2, <1>3, CommandMoves DEF Plain, Places
  <2> QED  BY <1>1, <1>3, <2>1, CommandGoes DEF procs
<1>4. CASE Stopped(c)
  <2>1. PICK n \in Slots, p \in Phases : /\ cmd[c].seen.pid = n /\ cmd[c].seen.child = p /\ receipt[e].worker.pid = n
                                         /\ n # 0 /\ Quiet(e) /\ (p = "check" => EvalRan(e))
    BY <1>1, <1>2 DEF CommandInv, Typed, Commands, Workers
  <2>2. WorkerInv(e, n) /\ ReceiptInv(e) /\ work[e][n].pc = "dead"
    BY <2>1 DEF ExecutionInv, ActionInv, ReceiptInv, Quiet
  <2>3. Moves(c) /\ cmd'[c].pc = "settle" /\ cmd'[c].e = e
    BY <1>2, <1>4, CommandMoves DEF Stopped, Places
  <2>4. \/ tree[e][n][p] \notin Live /\ UNCHANGED tree
        \/ tree[e][n][p] \in Live /\ Goes(e, n, p, "gone")
    BY <1>2, <1>4, <2>1 DEF Stopped, Child, Goes
  <2>5. /\ tree' \in [Ids -> [Slots -> [Phases -> TreeStates]]]
        /\ tree'[e][n][p] \notin Live /\ \A q \in Phases \ {p} : tree'[e][n][q] = tree[e][n][q]
        /\ tree'[e][n][p] \in {tree[e][n][p], "gone"}
        /\ \A x \in Ids, m \in Slots : x # e \/ m # n => tree'[x][m] = tree[x][m]
    <3>1. CASE tree[e][n][p] \notin Live /\ UNCHANGED tree
      BY <1>2, <3>1 DEF Typed
    <3>2. CASE Goes(e, n, p, "gone")
      BY <1>2, <3>2, TreeGoes DEF TreeStates, Live
    <3> QED  BY <2>4, <3>1, <3>2
  <2>6. OnlySlot(e, n)
    BY <1>1, <1>2, <2>5 DEF OnlySlot, Typed
  <2>7. \A q \in Phases : (tree'[e][n][q] \in Live => tree[e][n][q] \in Live)
                          /\ (tree[e][n][q] = "gone" => tree'[e][n][q] = "gone")
    BY <2>5
  <2>8. Onward(e, n)
    BY <1>1, <2>2, <2>7 DEF Onward, Phases
  <2>9. WorkerInv(e, n)'
    BY <1>1, <2>2, <2>7 DEF WorkerInv, Serving, Phases
  <2>10. \A m \in Slots \ {n} : \A q \in Phases : tree[e][m][q] = "none" /\ tree'[e][m][q] = "none"
    BY <2>2, <2>6, OtherSlots
  <2>11. EvalOver(e)'
    <3>1. p = "check" => tree[e][n]["eval"] = "gone"
      BY <2>1, <2>10 DEF EvalRan, Phases
    <3>2. tree'[e][n]["eval"] \notin Live
      BY <2>5, <2>7, <3>1 DEF Phases, Live
    <3> QED  BY <2>10, <3>2 DEF EvalOver, Phases, Live
  <2>12. CommandInv(c)'
    BY <1>1, <1>2, <2>1, <2>3, <2>11 DEF CommandInv, Present, Quiet
  <2> QED
    BY <1>1, <2>2, <2>3, <2>6, <2>8, <2>9, <2>12, SlotMoves DEF Moves
<1> QED  BY <1>3, <1>4 DEF StopOrphan

LEMMA SettlingStep ==
  ASSUME ExecutionInv, NEW c \in Cmds, SettleOrphan(c) \/ MarkUnknown(c) \/ ApplyFound(c)
  PROVE  ExecutionInv'
<1>1. cmd[c].pc # "idle" /\ Return(c) /\ UNCHANGED <<procs, completion>>
  BY DEF SettleOrphan, MarkUnknown, ApplyFound, At
<1>2. PICK e \in Ids : /\ cmd[c].e = e /\ Present(e) /\ Typed /\ CommandInv(c) /\ Rc(c) = receipt[e]
  BY <1>1, UnderWay
<1>3. Moves(c) /\ cmd'[c].pc = "idle"
  BY <1>1, <1>2, CommandMoves DEF Places
<1>4. CASE terminalExecution(receipt[e]) /\ Set(e, receipt[e])
  BY <1>1, <1>2, <1>3, <1>4, WritableAsIs, CommandWrites
<1>5. CASE SettleOrphan(c) /\ ~terminalExecution(receipt[e])
  <2>1. Set(e, Closed(receipt[e], "cancelled", "estimated")) /\ Quiet(e) /\ EvalOver(e)
    BY <1>2, <1>5 DEF SettleOrphan, CommandInv, At
  <2>2. /\ Writable(e, Closed(receipt[e], "cancelled", "estimated"))
        /\ Closed(receipt[e], "cancelled", "estimated").settlement = "estimated"
    BY <1>2, <1>5, ClosedWritable DEF Terminal, Settled
  <2>3. ~Overlooks(e, "estimated") /\ \A n \in Slots : work[e][n].pc \notin Serving
    BY <2>1 DEF Overlooks, Quiet, EvalOver, Serving, Phases
  <2> QED  BY <1>1, <1>2, <1>3, <2>1, <2>2, <2>3, CommandWrites
<1>6. CASE MarkUnknown(c) /\ ~terminalExecution(receipt[e])
  <2>1. Set(e, Closed(receipt[e], "unknown", "unknown"))
    BY <1>2, <1>6 DEF MarkUnknown, Unknown
  <2>2. /\ Writable(e, Closed(receipt[e], "unknown", "unknown"))
        /\ ~terminalExecution(Closed(receipt[e], "unknown", "unknown"))
    BY <1>2, <1>6, ClosedWritable DEF Terminal, Settled
  <2> QED  BY <1>1, <1>2, <1>3, <2>1, <2>2, CommandWrites
<1>7. CASE ApplyFound(c)
  <2>1. Set(e, Applied(receipt[e], completion[e])) /\ completion[e].status # "none"
    BY <1>2, <1>7 DEF ApplyFound, CommandInv, At
  <2> QED  BY <1>1, <1>2, <1>3, <2>1, AppliedWritable, CommandWrites
<1>8. CASE terminalExecution(receipt[e]) /\ (SettleOrphan(c) \/ MarkUnknown(c))
  BY <1>2, <1>4, <1>8 DEF SettleOrphan, MarkUnknown, Unknown
<1> QED  BY <1>5, <1>6, <1>7, <1>8

LEMMA ReadingStep ==
  ASSUME ExecutionInv, NEW c \in Cmds, Observe(c) \/ CmdDies(c)
  PROVE  ExecutionInv'
<1>1. /\ cmd[c].pc # "idle" /\ UNCHANGED <<receipt, procs, completion>>
      /\ Return(c) \/ Leave(c, "unknown")
  BY DEF Observe, CmdDies, At, store
<1>2. Moves(c) /\ (cmd'[c].pc = "idle" \/ (cmd'[c].pc \in Plain /\ cmd'[c].e = cmd[c].e))
  BY <1>1, UnderWay, CommandMoves DEF Plain, Places
<1> QED  BY <1>1, <1>2, CommandGoes

LEMMA NothingMoves ==
  ASSUME ExecutionInv, UNCHANGED <<receipt, cmd, procs, completion>>
  PROVE  ExecutionInv'
<1>1. \A x \in Ids : Same(x)
  BY DEF Same, procs
<1>2. \A x \in Ids : ActionInv(x)' /\ Keeps(x)
  BY <1>1, SameAction DEF ExecutionInv, procs
<1>3. ASSUME NEW d \in Cmds PROVE CommandInv(d)'
  <2>1. CommandInv(d) /\ (cmd[d].pc # "idle" => Keeps(cmd[d].e)) /\ cmd'[d] = cmd[d]
    BY <1>2 DEF ExecutionInv, CommandInv
  <2> QED  BY <2>1, CommandKept
<1>4. Typed'
  BY DEF ExecutionInv, Typed, procs
<1> QED  BY <1>2, <1>3, <1>4 DEF ExecutionInv

LEMMA AuthorityStep == ASSUME ExecutionInv, Authority PROVE ExecutionInv'
<1>1. UNCHANGED <<cmd, procs, completion>>
  BY DEF Authority
<1>2. ASSUME NEW e \in Ids, LogTicket(e) PROVE ExecutionInv'
  <2>1. receipt[e].status = "ticket" /\ receipt' = [receipt EXCEPT ![e] = Closed(receipt[e], "completed", "measured")]
    BY <1>2 DEF LogTicket
  <2>2. ReceiptInv(e) /\ cmd \in [Cmds -> Commands]
    BY DEF ExecutionInv, ActionInv, Typed
  <2>3. Present(e) /\ ~terminalExecution(receipt[e]) /\ Unstarted(e)
    BY <2>1, <2>2 DEF ReceiptInv, Present, terminalExecution, Terminal
  <2>4. Writable(e, Closed(receipt[e], "completed", "measured"))
    BY <2>3, ClosedWritable DEF Terminal, Settled
  <2> QED  BY <1>1, <2>1, <2>2, <2>3, <2>4, OneReceipt, UnstartedQuiet
<1>3. CASE UNCHANGED receipt
  BY <1>1, <1>3, NothingMoves
<1> QED  BY <1>2, <1>3 DEF Authority, Stop, Amend

-----------------------------------------------------------------------------
LEMMA ExecutionInit == Init => ExecutionInv
<1> SUFFICES ASSUME Init PROVE ExecutionInv
  OBVIOUS
<1>1. NoWorker \in Workers /\ NoWorker.launched = FALSE /\ NoWorker.pid = 0 /\ NoWorker.child = "none"
  BY DEF NoWorker, Workers
<1>2. /\ Absent \in Receipts /\ Absent.status = "absent" /\ Absent.settlement = "none"
      /\ Absent.worker = NoWorker
  BY DEF Absent, Receipts, NoWorker, Workers
<1>3. Unborn \in Works /\ Unborn.pc = "unborn" /\ Unborn.phase = "eval"
  BY DEF Unborn, Works, Phases
<1>4. NoCompletion \in Completions /\ NoCompletion.status = "none"
  BY DEF NoCompletion, Completions
<1>5. Typed
  BY <1>2, <1>3, <1>4, IdleIs DEF Init, StoreInit, Typed, TreeStates
<1>6. ASSUME NEW e \in Ids PROVE ActionInv(e)
  <2>1. receipt[e] = Absent /\ completion[e] = NoCompletion /\ Unstarted(e)
    BY DEF Init, StoreInit, Unstarted
  <2>2. ReceiptInv(e) /\ CompletionInv(e)
    BY <1>1, <1>2, <1>4, <2>1
    DEF ReceiptInv, CompletionInv, Present, terminalExecution, Terminal, Settled
  <2>3. OneWorker(e)
    BY <1>3, <2>1 DEF Unstarted, OneWorker
  <2>4. ASSUME NEW n \in Slots PROVE WorkerInv(e, n)
    BY <1>3, <2>1 DEF Unstarted, WorkerInv, Serving
  <2> QED  BY <2>2, <2>3, <2>4 DEF ActionInv
<1>7. ASSUME NEW c \in Cmds PROVE CommandInv(c)
  BY IdleIs DEF Init, CommandInv
<1> QED  BY <1>5, <1>6, <1>7 DEF ExecutionInv

LEMMA ExecutionStep == ExecutionInv /\ [Next]_vars => ExecutionInv'
<1> SUFFICES ASSUME ExecutionInv, [Next]_vars PROVE ExecutionInv'
  OBVIOUS
<1>1. ASSUME NEW c \in Cmds, Proceed(c) \/ CmdDies(c) PROVE ExecutionInv'
  BY <1>1, PrepareStep, RequestStep, LaunchStep, SpawnStep, SpawnFailedStep, ReadStep, InspectStep,
     StopOrphanStep, SettlingStep, ReadingStep DEF Proceed
<1>2. CASE UNCHANGED vars
  BY <1>2, NothingMoves DEF vars, procs
<1> QED
  BY <1>1, <1>2, NextNewStep, ReconnectStep, WorkerKeeps, TreeEndsStep, AuthorityStep DEF Next

\* The bounds of the model, and what stops or amends an outcome.
LimitInv == /\ lifecycle \in {"active", "stopped-unmet"}
            /\ deaths \in 0 .. MaxDeaths /\ faults \in 0 .. MaxFaults

LEMMA LimitStep == LimitInv /\ [Next]_vars => LimitInv'
<1> SUFFICES ASSUME LimitInv, [Next]_vars PROVE LimitInv'
  OBVIOUS
<1> DEFINE Within == \/ UNCHANGED limits
                     \/ deaths < MaxDeaths /\ deaths' = deaths + 1 /\ UNCHANGED faults
                     \/ faults < MaxFaults /\ faults' = faults + 1 /\ UNCHANGED deaths
<1> SUFFICES Within /\ lifecycle' \in {lifecycle, "active", "stopped-unmet"}
  BY WorkerBounds DEF LimitInv, limits
<1>1. ASSUME NEW c \in Cmds, Proceed(c) \/ CmdDies(c) PROVE Within /\ lifecycle' = lifecycle
  <2>1. CASE Prepare(c) \/ RequestCancellation(c) \/ Launch(c) \/ SpawnFailed(c) \/ SettleOrphan(c)
             \/ MarkUnknown(c) \/ ApplyFound(c)
    BY <2>1 DEF Prepare, RequestCancellation, Launch, SpawnFailed, SettleOrphan, MarkUnknown, ApplyFound,
                Set, store
  <2>2. CASE Spawn(c) \/ Read(c) \/ Inspect(c) \/ StopOrphan(c) \/ Observe(c) \/ CmdDies(c)
    BY <2>2 DEF Spawn, Read, Inspect, StopOrphan, Observe, CmdDies, Fault, store, limits
  <2> QED  BY <1>1, <2>1, <2>2 DEF Proceed
<1>2. ASSUME NEW e \in Ids, NEW n \in Slots, WorkerStep(e, n) \/ WorkerDies(e, n)
      PROVE  Within /\ lifecycle' = lifecycle
  <2>1. CASE Claim(e, n) \/ Refused(e, n) \/ Close(e, n) \/ Finish(e, n) \/ ApplyOwn(e, n) \/ WorkerDies(e, n)
    BY <2>1 DEF Claim, Refused, Close, Finish, ApplyOwn, WorkerDies, Set, store, limits
  <2>2. CASE Admit(e, n) \/ RecordChild(e, n) \/ Beat(e, n)
    BY <2>2 DEF Admit, RecordChild, Beat, Set, store, Fault
  <2>3. CASE Output(e, n)
    BY <2>3 DEF Output, Leftovers, store, Fault, limits
  <2> QED  BY <1>2, <2>1, <2>2, <2>3 DEF WorkerStep
<1>3. ASSUME NEW e \in Ids, \/ \E c \in Cmds : \/ \E m \in Modes[e] : NextNew(c, e, m)
                                               \/ \E op \in {"next", "resume", "cancel"} : Reconnect(c, e, op)
                            \/ \E n \in Slots, p \in Phases : TreeEnds(e, n, p)
      PROVE  Within /\ lifecycle' = lifecycle
  BY <1>3 DEF NextNew, Nominated, Reconnect, TreeEnds, store
<1>4. CASE Authority
  BY <1>4 DEF Authority, Stop, Amend, LogTicket
<1>5. CASE UNCHANGED vars
  BY <1>5 DEF vars, limits
<1> QED  BY <1>1, <1>2, <1>3, <1>4, <1>5 DEF Next

\* What holds of every action and of every command that still holds what it
\* read, in every reachable state (lib/outcome-worker.ts).
THEOREM Executed == Spec => [](ExecutionInv /\ LimitInv)
<1>1. Init => ExecutionInv /\ LimitInv
  BY ExecutionInit, WorkerBounds DEF Init, StoreInit, LimitInv
<1>2. ExecutionInv /\ LimitInv /\ [Next]_vars => (ExecutionInv /\ LimitInv)'
  BY ExecutionStep, LimitStep
<1> QED  BY <1>1, <1>2, PTL DEF Spec

\* Every variable keeps its type.
THEOREM TypeCorrect == Spec => []TypeOK
<1>1. ExecutionInv /\ LimitInv => TypeOK
  BY DEF ExecutionInv, LimitInv, Typed, TypeOK, TreeStates, Completions
<1> QED  BY <1>1, Executed, PTL

\* A reservation is released only when the processes it paid for have stopped,
\* but for those the code loses sight of (reconcileOutcomeWorker, execute).
THEOREM ReleasesWhenStopped == Spec => []ReleasedMeansStopped
<1>1. ExecutionInv => ReleasedMeansStopped
  BY DEF ExecutionInv, ActionInv, ReceiptInv, ReleasedMeansStopped
<1> QED  BY <1>1, Executed, PTL

-----------------------------------------------------------------------------
(* OutcomeWorker implements OneExecution.                                  *)
Stage(e)  == IF ~Present(e) THEN "idle" ELSE IF Exposed(e) THEN "reserved" ELSE "released"
Started(e) == {n \in Slots : tree[e][n]["eval"] # "none"}
Told(e)   == IF terminalExecution(receipt[e]) THEN receipt[e].status ELSE "none"
Stopping  == lifecycle = "stopped-unmet"
SameAs(x) == Stage(x)' = Stage(x) /\ Told(x)' = Told(x)

\* No evaluator is started by the step.
NoneBegun == \A x \in Ids : Started(x)' = Started(x)

LEMMA Stutters ==
  ASSUME NoneBegun, UNCHANGED Stopping, \A x \in Ids : SameAs(x)
  PROVE  UNCHANGED Abstract!vars
BY DEF Abstract!vars, Stage, Told, Started, Stopping, SameAs, NoneBegun

\* The receipt of one action is written: it stays reserved or is released.
Tells(e) == /\ \A x \in Ids \ {e} : receipt'[x] = receipt[x]
            /\ receipt'[e] = receipt[e] \/ (~terminalExecution(receipt[e]) /\ receipt'[e].status # "absent")

LEMMA OneTells ==
  ASSUME ExecutionInv, ExecutionInv', NEW e \in Ids, Present(e), Tells(e), NoneBegun, UNCHANGED lifecycle
  PROVE  [Abstract!Next]_Abstract!vars
<1>1. \A x \in Ids \ {e} : SameAs(x)
  BY DEF Tells, SameAs, Stage, Told, Present, Exposed
<1>2. UNCHANGED Stopping
  BY DEF Stopping
<1>3. CASE receipt'[e] = receipt[e]
  <2>1. SameAs(e)
    BY <1>3 DEF SameAs, Stage, Told, Present, Exposed
  <2> QED  BY <1>1, <1>2, <2>1, Stutters
<1>4. CASE ~terminalExecution(receipt[e]) /\ receipt'[e].status # "absent"
  <2>1. ReceiptInv(e) /\ ReceiptInv(e)'
    BY DEF ExecutionInv, ActionInv
  <2>2. Stage(e) = "reserved" /\ Told(e) = "none"
    BY <1>4, <2>1 DEF ReceiptInv, Stage, Told, Present, Exposed
  <2>3. CASE receipt'[e].status \notin Terminal
    <3>1. Stage(e)' = "reserved" /\ Told(e)' = "none"
      BY <1>4, <2>1, <2>3 DEF ReceiptInv, Stage, Told, Present, Exposed, terminalExecution
    <3> QED  BY <1>1, <1>2, <2>2, <3>1, Stutters DEF SameAs
  <2>4. CASE receipt'[e].status \in Terminal
    <3>1. Stage(e)' = "released" /\ Told(e)' = receipt'[e].status
      BY <1>4, <2>1, <2>4 DEF ReceiptInv, Stage, Told, Present, Exposed, terminalExecution
    <3>2. PICK v \in Terminal : receipt'[e].status = v
      BY <2>4
    <3>3. Abstract!Release(e, v)
      BY <1>1, <1>2, <2>2, <3>1, <3>2
      DEF Abstract!Release, Stage, Told, Started, NoneBegun, SameAs, Stopping
    <3> QED  BY <3>3 DEF Abstract!Next, Abstract!Verdicts, Terminal
  <2> QED  BY <2>3, <2>4
<1> QED  BY <1>3, <1>4 DEF Tells

LEMMA StatusOf == ASSUME NEW r \in Receipts, NEW s, NEW kind PROVE Closed(r, s, kind).status = s
BY DEF Closed, settleInOutcome, Receipts

\* What a command makes of the receipt of its action.
LEMMA CommandTells ==
  ASSUME ExecutionInv, NEW c \in Cmds, Proceed(c) \/ CmdDies(c), NEW e \in Ids, cmd[c].e = e, Present(e)
  PROVE  Tells(e) /\ UNCHANGED lifecycle
<1> DEFINE Goal == Tells(e) /\ UNCHANGED lifecycle
<1>1. /\ receipt \in [Ids -> Receipts] /\ receipt[e] \in Receipts /\ Rc(c) = receipt[e]
      /\ receipt[e].worker.launched \in BOOLEAN
  BY DEF ExecutionInv, Typed, Rc, Receipts, Workers
<1>2. ASSUME UNCHANGED store PROVE Goal
  BY <1>2 DEF Tells, store
<1>3. ASSUME Set(e, receipt[e]) PROVE Goal
  BY <1>1, <1>3 DEF Tells, Set
<1>4. ASSUME NEW r, ~terminalExecution(receipt[e]), r.status # "absent", Set(e, r) PROVE Goal
  BY <1>1, <1>4 DEF Tells, Set
<1>5. ASSUME NEW s \in Terminal \cup {"unknown"}, NEW kind, ~terminalExecution(receipt[e]),
             Set(e, Closed(receipt[e], s, kind))
      PROVE  Goal
  <2>1. Closed(receipt[e], s, kind).status = s /\ s # "absent"
    BY <1>1, StatusOf DEF Terminal
  <2> QED  BY <1>4, <1>5, <2>1
<1>6. CASE Spawn(c) \/ Read(c) \/ Inspect(c) \/ StopOrphan(c) \/ Observe(c) \/ CmdDies(c)
  <2>1. UNCHANGED store
    BY <1>6 DEF Spawn, Read, Inspect, StopOrphan, Observe, CmdDies
  <2> QED  BY <1>2, <2>1
<1>7. CASE Prepare(c)
  <2>1. Set(e, Prepared(receipt[e])) \/ Set(e, Unprepared(receipt[e]))
    BY <1>1, <1>7 DEF Prepare
  <2>2. CASE receipt[e].status # "preparing"
    BY <1>3, <2>1, <2>2 DEF Prepared, Unprepared
  <2>3. CASE receipt[e].status = "preparing"
    <3>1. ~terminalExecution(receipt[e]) /\ Unprepared(receipt[e]) = Closed(receipt[e], "failed", "measured")
      BY <2>3 DEF terminalExecution, Terminal, Unprepared
    <3>2. Prepared(receipt[e]).status # "absent"
      BY <1>1, <2>3 DEF Prepared, Receipts
    <3> QED  BY <1>4, <1>5, <2>1, <3>1, <3>2 DEF Terminal
  <2> QED  BY <2>2, <2>3
<1>8. CASE RequestCancellation(c)
  <2>1. Set(e, Cancelled(receipt[e]))
    BY <1>1, <1>8 DEF RequestCancellation
  <2>2. CASE terminalExecution(receipt[e])
    BY <1>3, <2>1, <2>2 DEF Cancelled
  <2>3. CASE ~terminalExecution(receipt[e]) /\ receipt[e].worker.launched = TRUE
    <3>1. [receipt[e] EXCEPT !.worker.cancel = TRUE].status # "absent"
      BY <1>1 DEF Present, Receipts
    <3>2. Set(e, [receipt[e] EXCEPT !.worker.cancel = TRUE])
      BY <2>1, <2>3 DEF Cancelled
    <3> QED  BY <1>4, <2>3, <3>1, <3>2
  <2>4. CASE ~terminalExecution(receipt[e]) /\ receipt[e].worker.launched = FALSE
    <3>1. Set(e, Closed(receipt[e], "cancelled", "measured"))
      BY <2>1, <2>4 DEF Cancelled
    <3> QED  BY <1>5, <2>4, <3>1 DEF Terminal
  <2> QED  BY <1>1, <2>2, <2>3, <2>4
<1>9. CASE Launch(c)
  <2>1. CASE ~MayLaunch(receipt[e])
    BY <1>1, <1>2, <1>9, <2>1 DEF Launch
  <2>2. CASE MayLaunch(receipt[e])
    <3> DEFINE r == [receipt[e] EXCEPT !.worker = [NoWorker EXCEPT !.launched = TRUE, !.observer = c]]
    <3>1. Set(e, r)
      BY <1>1, <1>9, <2>2 DEF Launch
    <3>2. r.status = "launching"
      BY <1>1, <2>2 DEF MayLaunch, Receipts
    <3>3. ~terminalExecution(receipt[e])
      BY <2>2 DEF MayLaunch, terminalExecution, Terminal
    <3> HIDE DEF r
    <3> QED  BY <1>4, <3>1, <3>2, <3>3
  <2> QED  BY <2>1, <2>2
<1>10. CASE SpawnFailed(c) \/ SettleOrphan(c) \/ MarkUnknown(c)
  <2>1. \/ Set(e, receipt[e])
        \/ /\ ~terminalExecution(receipt[e])
           /\ \/ Set(e, Closed(receipt[e], "failed", "measured"))
              \/ Set(e, Closed(receipt[e], "cancelled", "estimated"))
              \/ Set(e, Closed(receipt[e], "unknown", "unknown"))
    BY <1>1, <1>10 DEF SpawnFailed, SettleOrphan, MarkUnknown, Unknown
  <2> QED  BY <1>3, <1>5, <2>1 DEF Terminal
<1>11. CASE ApplyFound(c)
  <2>1. Set(e, Applied(receipt[e], completion[e])) /\ completion[e].status \in Terminal \cup {"unknown"}
        /\ completion[e] \in Completions
    <3>1. cmd[c].pc = "apply" /\ Set(e, Applied(receipt[e], completion[e]))
      BY <1>1, <1>11 DEF ApplyFound, At
    <3>2. completion[e].status # "none" /\ completion[e] \in Completions
      BY <3>1 DEF ExecutionInv, Typed, CommandInv
    <3> QED  BY <3>1, <3>2 DEF Completions
  <2>2. terminalExecution(receipt[e]) => Applied(receipt[e], completion[e]) = receipt[e]
    BY DEF Applied
  <2>3. Writable(e, Applied(receipt[e], completion[e]))
    BY <2>1, AppliedWritable DEF Terminal
  <2> QED  BY <1>3, <1>4, <2>1, <2>2, <2>3 DEF Writable
<1> QED  BY <1>6, <1>7, <1>8, <1>9, <1>10, <1>11 DEF Proceed

\* A command starts no evaluator: it stops what is left of one.
LEMMA CommandsBeginNone ==
  ASSUME NEW c \in Cmds, Proceed(c) \/ CmdDies(c), ExecutionInv
  PROVE  NoneBegun
<1>1. CASE StopOrphan(c)
  <2>1. \/ UNCHANGED tree
        \/ /\ tree[cmd[c].e][cmd[c].seen.pid][cmd[c].seen.child] \in Live
           /\ tree' = [tree EXCEPT ![cmd[c].e][cmd[c].seen.pid][cmd[c].seen.child] = "gone"]
    BY <1>1 DEF StopOrphan, Stopped, Child
  <2>2. ASSUME NEW e, NEW m, NEW p, tree[e][m][p] \in Live, tree' = [tree EXCEPT ![e][m][p] = "gone"]
        PROVE  NoneBegun
    <3>1. tree \in [Ids -> [Slots -> [Phases -> TreeStates]]] /\ "eval" \in Phases
      BY DEF ExecutionInv, Typed, Phases
    <3>2. ASSUME NEW x \in Ids, NEW n \in Slots
          PROVE  tree'[x][n]["eval"] # "none" <=> tree[x][n]["eval"] # "none"
      <4>1. tree'[x] = IF x = e THEN [tree[x] EXCEPT ![m] = [tree[x][m] EXCEPT ![p] = "gone"]] ELSE tree[x]
        BY <2>2, <3>1
      <4>2. tree'[x][n] = IF x = e /\ n = m THEN [tree[x][n] EXCEPT ![p] = "gone"] ELSE tree[x][n]
        BY <3>1, <4>1
      <4>3. tree'[x][n]["eval"] = IF x = e /\ n = m /\ p = "eval" THEN "gone" ELSE tree[x][n]["eval"]
        BY <3>1, <4>2
      <4> QED  BY <2>2, <4>3 DEF Live
    <3> QED  BY <3>2 DEF NoneBegun, Started
  <2>3. CASE UNCHANGED tree
    BY <2>3 DEF NoneBegun, Started
  <2>4. CASE ~UNCHANGED tree
    <3>1. /\ tree[cmd[c].e][cmd[c].seen.pid][cmd[c].seen.child] \in Live
          /\ tree' = [tree EXCEPT ![cmd[c].e][cmd[c].seen.pid][cmd[c].seen.child] = "gone"]
      BY <2>1, <2>4
    <3> HIDE <2>4
    <3> QED  BY <2>2, <3>1
  <2> QED  BY <2>3, <2>4
<1>2. CASE UNCHANGED tree
  BY <1>2 DEF NoneBegun, Started
<1> QED
  BY <1>1, <1>2 DEF Proceed, procs, CmdDies, Prepare, RequestCancellation, Launch, Spawn, SpawnFailed,
     Read, Inspect, SettleOrphan, MarkUnknown, Observe, ApplyFound

\* What a worker makes of the receipt of its action.
LEMMA WorkerTells ==
  ASSUME ExecutionInv, NEW e \in Ids, NEW n \in Slots, WorkerStep(e, n) \/ WorkerDies(e, n)
  PROVE  Tells(e) /\ UNCHANGED lifecycle /\ (work[e][n].pc # "unborn" => Present(e))
<1>1. /\ receipt \in [Ids -> Receipts] /\ receipt[e] \in Receipts /\ ReceiptInv(e) /\ WorkerInv(e, n)
      /\ completion[e] \in Completions
  BY DEF ExecutionInv, Typed, ActionInv
<1>2. work[e][n].pc # "unborn" => Present(e)
  BY <1>1, Claimant DEF ReceiptInv, Present
<1>3. CASE Claim(e, n)
  <2>1. \/ UNCHANGED store
        \/ /\ ~terminalExecution(receipt[e])
           /\ Set(e, [receipt[e] EXCEPT !.worker.pid = n, !.status = "running"])
    BY <1>3 DEF Claim
  <2>2. [receipt[e] EXCEPT !.worker.pid = n, !.status = "running"].status = "running"
    BY <1>1 DEF Receipts
  <2> QED  BY <1>1, <1>2, <2>1, <2>2 DEF Tells, Set, store
<1>4. CASE RecordChild(e, n)
  <2>1. \/ UNCHANGED store \/ Set(e, receipt[e])
        \/ /\ ~terminalExecution(receipt[e])
           /\ Set(e, [receipt[e] EXCEPT !.worker.child = W(e, n).phase])
    BY <1>4 DEF RecordChild
  <2>2. [receipt[e] EXCEPT !.worker.child = W(e, n).phase].status = receipt[e].status
    BY <1>1 DEF Receipts
  <2>3. Present(e)
    BY <1>1, <1>2, <1>4 DEF RecordChild, WorkerLives
  <2> QED  BY <1>1, <2>1, <2>2, <2>3 DEF Tells, Set, store, Present
<1>5. CASE ApplyOwn(e, n)
  <2>1. Set(e, Applied(receipt[e], completion[e])) /\ completion[e].status # "none"
    BY <1>1, <1>5 DEF ApplyOwn, In, WorkerInv
  <2>2. Writable(e, Applied(receipt[e], completion[e]))
    BY <2>1, AppliedWritable
  <2>3. terminalExecution(receipt[e]) => Applied(receipt[e], completion[e]) = receipt[e]
    BY DEF Applied
  <2> QED  BY <1>1, <1>2, <2>1, <2>2, <2>3 DEF Tells, Set, Writable
<1>6. CASE UNCHANGED store
  BY <1>2, <1>6 DEF Tells, store
<1> QED
  BY <1>3, <1>4, <1>5, <1>6 DEF WorkerStep, Refused, Admit, Beat, Output, Close, Finish, WorkerDies

\* What was started stays so; only a process that was not there is begun.
LEMMA TreeBeginsNone ==
  ASSUME ExecutionInv, NEW e \in Ids, NEW n \in Slots, NEW p \in Phases, NEW s \in Live \cup {"gone"},
         Goes(e, n, p, s), p # "eval" \/ tree[e][n][p] # "none"
  PROVE  NoneBegun
<1>1. Typed /\ s \in TreeStates /\ s # "none"
  BY DEF ExecutionInv, TreeStates, Live
<1>2. /\ tree'[e][n][p] = s /\ \A q \in Phases \ {p} : tree'[e][n][q] = tree[e][n][q]
      /\ \A x \in Ids, m \in Slots : x # e \/ m # n => tree'[x][m] = tree[x][m]
  BY <1>1, TreeGoes
<1>3. "eval" \in Phases
  BY DEF Phases
<1>4. \A x \in Ids, m \in Slots : tree'[x][m]["eval"] # "none" <=> tree[x][m]["eval"] # "none"
  BY <1>1, <1>2, <1>3
<1> QED  BY <1>4 DEF NoneBegun, Started

Starts(e, n) == Admit(e, n) /\ W(e, n).phase = "eval" /\ ~Aborting(e, n)

LEMMA WorkerBeginsNone ==
  ASSUME ExecutionInv, NEW e \in Ids, NEW n \in Slots, WorkerStep(e, n) \/ WorkerDies(e, n), ~Starts(e, n)
  PROVE  NoneBegun
<1>1. W(e, n).phase \in Phases
  BY DEF ExecutionInv, Typed, W, Works
<1>2. CASE UNCHANGED tree
  BY <1>2 DEF NoneBegun, Started
<1>3. CASE Admit(e, n)
  <2>1. CASE Aborting(e, n)
    BY <1>2, <1>3, <2>1 DEF Admit
  <2>2. CASE ~Aborting(e, n)
    <3>1. Goes(e, n, W(e, n).phase, "root") /\ W(e, n).phase # "eval"
      BY <1>3, <2>2 DEF Admit, Tree, Goes, Starts
    <3> QED  BY <1>1, <3>1, TreeBeginsNone DEF Live
  <2> QED  BY <2>1, <2>2
<1>4. CASE Output(e, n)
  <2>1. UNCHANGED tree \/ (Mine(e, n) \in Live /\ Tree(e, n, "gone"))
    BY <1>4 DEF Output, Leftovers, Live
  <2>2. CASE Mine(e, n) \in Live /\ Tree(e, n, "gone")
    <3>1. Goes(e, n, W(e, n).phase, "gone") /\ tree[e][n][W(e, n).phase] # "none"
      BY <2>2 DEF Tree, Goes, Mine, Live
    <3> QED  BY <1>1, <3>1, TreeBeginsNone
  <2> QED  BY <1>2, <2>1, <2>2
<1> QED
  BY <1>2, <1>3, <1>4 DEF WorkerStep, Claim, Refused, RecordChild, Beat, Close, Finish, ApplyOwn, WorkerDies, procs

LEMMA TreeEndsBeginsNone ==
  ASSUME ExecutionInv, NEW e \in Ids, NEW n \in Slots, NEW p \in Phases, TreeEnds(e, n, p)
  PROVE  NoneBegun
<1>1. tree[e][n][p] # "none" /\ \E s \in Live \cup {"gone"} : Goes(e, n, p, s)
  BY DEF TreeEnds, Goes, Live
<1> QED  BY <1>1, TreeBeginsNone

\* The one admission of an evaluator: its worker is the only one of the action.
LEMMA BeginStep ==
  ASSUME ExecutionInv, NEW e \in Ids, NEW n \in Slots, Starts(e, n)
  PROVE  Abstract!Next
<1>1. /\ UNCHANGED store /\ Goes(e, n, "eval", "root")
      /\ work[e][n].pc = "admit" /\ work[e][n].phase = "eval"
  BY DEF Starts, Admit, Tree, Goes, In, W
<1>2. Typed /\ ReceiptInv(e) /\ OneWorker(e) /\ \A m \in Slots : WorkerInv(e, m)
  BY DEF ExecutionInv, ActionInv
<1>3. ~terminalExecution(receipt[e]) /\ tree[e][n]["eval"] = "none" /\ receipt[e].worker.pid = n
  BY <1>1, <1>2 DEF WorkerInv, Serving
<1>4. "eval" \in Phases /\ "root" \in TreeStates
  BY DEF Phases, TreeStates, Live
<1>5. \A m \in Slots \ {n} : tree[e][m]["eval"] = "none"
  BY <1>1, <1>2, <1>4 DEF OneWorker, WorkerInv
<1>6. /\ tree'[e][n]["eval"] = "root"
      /\ \A x \in Ids, m \in Slots : x # e \/ m # n => tree'[x][m] = tree[x][m]
  BY <1>1, <1>2, <1>4, TreeGoes
<1>7. Started(e) = {} /\ Started(e)' = {n} /\ \A x \in Ids \ {e} : Started(x)' = Started(x)
  BY <1>3, <1>5, <1>6 DEF Started
<1>8. Cardinality(Started(e)) = 0 /\ Cardinality(Started(e))' = 1
  BY <1>7, FS_EmptySet, FS_Singleton
<1>9. receipt[e].worker.launched = TRUE
  BY <1>1, Claimant
<1>10. Stage(e) = "reserved"
  BY <1>2, <1>3, <1>9 DEF ReceiptInv, Stage, Present, Exposed
<1>11. UNCHANGED Stopping /\ \A x \in Ids : SameAs(x)
  BY <1>1 DEF SameAs, Stage, Told, Present, Exposed, Stopping, store
<1>12. Abstract!Begin(e)
  <2> DEFINE Begun(x) == Cardinality({m \in Slots : tree[x][m]["eval"] # "none"})
  <2>1. \A x \in Ids : Begun(x) = Cardinality(Started(x))
    BY DEF Started
  <2>2. \A x \in Ids : Begun(x)' = IF x = e THEN 1 ELSE Begun(x)
    BY <1>7, <1>8 DEF Started
  <2>3. Begun(e) = 0
    BY <1>8, <2>1
  <2> HIDE DEF Begun
  <2>4. [x \in Ids |-> Begun(x)]' = [[x \in Ids |-> Begun(x)] EXCEPT ![e] = 1]
    BY <2>2
  <2>5. [x \in Ids |-> Begun(x)][e] = 0
    BY <2>3
  <2> USE DEF Begun
  <2> QED  BY <1>10, <1>11, <2>4, <2>5 DEF Abstract!Begin, Stage, Told, SameAs, Stopping
<1> QED  BY <1>12 DEF Abstract!Next

LEMMA ReserveStep ==
  ASSUME ExecutionInv, NEW c \in Cmds, NEW e \in Ids, NEW m \in Modes[e], NextNew(c, e, m)
  PROVE  Abstract!Next
<1>1. /\ UNCHANGED <<lifecycle, tree>> /\ lifecycle = "active" /\ ~Present(e)
      /\ receipt' = [receipt EXCEPT ![e] = [Absent EXCEPT !.mode = m, !.status = "preparing",
                                                          !.settlement = "reserved"]]
      /\ \A x \in Ids : Present(x) => terminalExecution(receipt[x])
  BY DEF NextNew, Nominated, MayNominate, procs
<1>2. \A x \in Ids : Present(x) => ~Exposed(x)
  BY <1>1 DEF ExecutionInv, ActionInv, ReceiptInv, Exposed
<1>3. \A x \in Ids \ {e} : receipt'[x] = receipt[x]
  BY <1>1 DEF ExecutionInv, Typed
<1>4. receipt'[e].status = "preparing" /\ receipt'[e].settlement = "reserved"
  BY <1>1 DEF ExecutionInv, Typed, Absent
<1>5. receipt[e].status = "absent"
  BY <1>1 DEF Present
<1>6. Stage(e) = "idle" /\ Stage(e)' = "reserved" /\ Told(e) = "none" /\ Told(e)' = "none"
  BY <1>4, <1>5 DEF Stage, Told, Present, Exposed, terminalExecution, Terminal, Settled
<1>7. \A x \in Ids \ {e} : SameAs(x)
  BY <1>3 DEF SameAs, Stage, Told, Present, Exposed
<1>8. \A x \in Ids : Stage(x) # "reserved"
  BY <1>2 DEF Stage, Exposed
<1>9. NoneBegun
  BY <1>1 DEF NoneBegun, Started
<1>10. Abstract!Reserve(e)
  BY <1>1, <1>6, <1>7, <1>8, <1>9 DEF Abstract!Reserve, Stage, Told, SameAs, NoneBegun, Started
<1> QED  BY <1>10 DEF Abstract!Next

LEMMA AuthorityMoves ==
  ASSUME ExecutionInv, ExecutionInv', Authority
  PROVE  [Abstract!Next]_Abstract!vars
<1>1. UNCHANGED tree /\ NoneBegun
  BY DEF Authority, procs, NoneBegun, Started
<1>2. CASE Stop \/ Amend
  <2>1. UNCHANGED receipt /\ NothingOutstanding /\ lifecycle' \in {"active", "stopped-unmet"}
    BY <1>2 DEF Stop, Amend
  <2>2. \A x \in Ids : SameAs(x) /\ Stage(x) # "reserved"
    BY <2>1 DEF SameAs, Stage, Told, Present, Exposed, NothingOutstanding
  <2>3. CASE lifecycle' = "stopped-unmet"
    BY <1>1, <2>1, <2>2, <2>3 DEF Abstract!Stop, Abstract!Next, Stage, Told, SameAs, NoneBegun, Started
  <2>4. CASE lifecycle' = "active"
    BY <1>1, <2>1, <2>2, <2>4 DEF Abstract!Amend, Abstract!Next, Stage, Told, SameAs, NoneBegun, Started
  <2> QED  BY <2>1, <2>3, <2>4
<1>3. ASSUME NEW e \in Ids, LogTicket(e) PROVE [Abstract!Next]_Abstract!vars
  <2>1. /\ receipt[e].status = "ticket" /\ UNCHANGED lifecycle
        /\ receipt' = [receipt EXCEPT ![e] = Closed(receipt[e], "completed", "measured")]
    BY <1>3 DEF LogTicket
  <2>2. receipt \in [Ids -> Receipts] /\ receipt[e] \in Receipts
    BY DEF ExecutionInv, Typed
  <2>3. /\ receipt'[e].status = "completed" /\ Present(e) /\ ~terminalExecution(receipt[e])
        /\ \A x \in Ids \ {e} : receipt'[x] = receipt[x]
    BY <2>1, <2>2, StatusOf DEF Present, terminalExecution, Terminal
  <2>4. Tells(e)
    BY <2>3 DEF Tells
  <2> QED  BY <1>1, <2>1, <2>3, <2>4, OneTells
<1> QED  BY <1>2, <1>3 DEF Authority

LEMMA WorkerIsBorn ==
  ASSUME ExecutionInv, NEW e \in Ids, NEW n \in Slots, WorkerStep(e, n) \/ WorkerDies(e, n)
  PROVE  work[e][n].pc # "unborn"
<1>1. work[e][n].pc = "unborn" => W(e, n).queued = FALSE
  BY DEF ExecutionInv, ActionInv, WorkerInv, Unborn, W
<1> QED
  BY <1>1 DEF WorkerStep, Claim, Refused, Admit, RecordChild, Beat, Output, Close, Finish, ApplyOwn,
     WorkerDies, WorkerLives, In, W

LEMMA PromiseStep ==
  ExecutionInv /\ ExecutionInv' /\ [Next]_vars => [Abstract!Next]_Abstract!vars
<1> SUFFICES ASSUME ExecutionInv, ExecutionInv', [Next]_vars PROVE [Abstract!Next]_Abstract!vars
  OBVIOUS
<1>0. ASSUME UNCHANGED <<receipt, lifecycle>>, NoneBegun PROVE [Abstract!Next]_Abstract!vars
  <2>1. UNCHANGED Stopping /\ \A x \in Ids : SameAs(x)
    BY <1>0 DEF SameAs, Stage, Told, Present, Exposed, Stopping
  <2> QED  BY <1>0, <2>1, Stutters
<1>1. ASSUME NEW c \in Cmds, Proceed(c) \/ CmdDies(c) PROVE [Abstract!Next]_Abstract!vars
  <2>1. cmd[c].pc # "idle"
    BY <1>1 DEF Proceed, CmdDies, Prepare, RequestCancellation, Launch, Spawn, SpawnFailed, Read, Inspect,
           StopOrphan, SettleOrphan, MarkUnknown, Observe, ApplyFound, At
  <2>2. PICK e \in Ids : cmd[c].e = e /\ Present(e)
    BY <2>1 DEF ExecutionInv, CommandInv
  <2>3. Tells(e) /\ UNCHANGED lifecycle
    BY <1>1, <2>2, CommandTells
  <2>4. NoneBegun
    BY <1>1, CommandsBeginNone
  <2> QED  BY <2>2, <2>3, <2>4, OneTells
<1>2. ASSUME NEW e \in Ids, NEW n \in Slots, WorkerStep(e, n) \/ WorkerDies(e, n)
      PROVE  [Abstract!Next]_Abstract!vars
  <2>1. CASE Starts(e, n)
    BY <2>1, BeginStep
  <2>2. CASE ~Starts(e, n)
    <3>1. NoneBegun /\ Tells(e) /\ UNCHANGED lifecycle
      BY <1>2, <2>2, WorkerBeginsNone, WorkerTells
    <3>2. work[e][n].pc # "unborn"
      BY <1>2, WorkerIsBorn
    <3>3. Present(e)
      BY <1>2, <3>2, WorkerTells
    <3> QED  BY <3>1, <3>3, OneTells
  <2> QED  BY <2>1, <2>2
<1>3. ASSUME NEW e \in Ids, NEW n \in Slots, NEW p \in Phases, TreeEnds(e, n, p)
      PROVE  [Abstract!Next]_Abstract!vars
  <2>1. NoneBegun /\ UNCHANGED <<receipt, lifecycle>>
    BY <1>3, TreeEndsBeginsNone DEF TreeEnds, store
  <2> QED  BY <1>0, <2>1
<1>4. ASSUME NEW c \in Cmds, NEW e \in Ids, NEW m \in Modes[e], NextNew(c, e, m)
      PROVE  [Abstract!Next]_Abstract!vars
  BY <1>4, ReserveStep
<1>5. ASSUME NEW c \in Cmds, NEW e \in Ids, NEW op, Reconnect(c, e, op)
      PROVE  [Abstract!Next]_Abstract!vars
  BY <1>0, <1>5 DEF Reconnect, store, procs, NoneBegun, Started
<1>6. CASE UNCHANGED vars
  BY <1>0, <1>6 DEF vars, NoneBegun, Started
<1> QED  BY <1>1, <1>2, <1>3, <1>4, <1>5, <1>6, AuthorityMoves DEF Next

\* Whatever dies, repeats itself or comes late, an action's evaluator is
\* started at most once and its reservation is released once with one final
\* verdict (launchOutcomeWorker, applyWorkerCompletion, markUnknown).
THEOREM WorkerKeepsPromise == Spec => KeepsPromise
<1>1. Init => Abstract!Init
  <2> SUFFICES ASSUME Init PROVE Abstract!Init
    OBVIOUS
  <2>1. \A e \in Ids : receipt[e].status = "absent" /\ Started(e) = {}
    BY DEF Init, StoreInit, Absent, Started, Phases
  <2>2. \A e \in Ids : Stage(e) = "idle" /\ Told(e) = "none" /\ Cardinality(Started(e)) = 0
    BY <2>1, FS_EmptySet DEF Stage, Told, Present, terminalExecution, Terminal
  <2>3. ~Stopping
    BY DEF Init, StoreInit, Stopping
  <2> QED  BY <2>2, <2>3 DEF Abstract!Init, Stage, Told, Started, Stopping
<1>2. ExecutionInv /\ ExecutionInv' /\ [Next]_vars => [Abstract!Next]_Abstract!vars
  BY PromiseStep
<1>3. Spec => []ExecutionInv
  <2>1. ExecutionInv /\ LimitInv => ExecutionInv
    OBVIOUS
  <2> QED  BY <2>1, Executed, PTL
<1> QED  BY <1>1, <1>2, <1>3, PTL DEF Spec, KeepsPromise, Abstract!Spec
=============================================================================
