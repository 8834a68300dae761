------------------------- MODULE ConfirmationProofs -------------------------
(***************************************************************************)
(* For any number of actions, commands and faults: a confirmation keeps    *)
(* what a governed outcome promises of an action, and what counts as       *)
(* independent evidence comes from data no earlier run has seen.           *)
(***************************************************************************)
EXTENDS OutcomeConfirmation, SequenceTheorems, TLAPS

Receipts == [mode : {"none", "github-actions"},
             status : Terminal \cup {"absent", "preparing", "launching", "unknown"},
             settlement : Settled \cup {"none", "reserved", "unknown"}, worker : {NoWorker}]
Attempts == [status : Verdicts \cup {"none", "preparing", "dispatching", "running", "unknown"},
             runId : BOOLEAN, fresh : BOOLEAN]
Started == {"posted", "success", "other"}   \* a run the provider has an identity for
Steps == {"idle", "prepare", "read", "nominate", "check", "admit", "post", "await", "answered",
          "caught", "withdraw", "find", "found", "observe", "proofless", "settle"}
Commands == [pc : Steps, cancel : BOOLEAN, e : Ids \cup {0}, verdict : Verdicts \cup {"none"},
             nested : BOOLEAN]

ConfirmationTypes ==
  /\ receipt \in [Ids -> Receipts] /\ lifecycle \in {"active", "stopped-unmet"}
  /\ attempt \in [Ids -> Attempts] /\ exposures \in Seq(Ids)
  /\ run \in [Ids -> {"none", "sent", "refused", "posted", "success", "other"}]
  /\ posts \in [Ids -> {0, 1}]
  /\ cmd \in [Cmds -> Commands]

\* An action is released with its verdict and not before.
ReceiptInv ==
  \A e \in Ids : /\ terminalExecution(receipt[e]) <=> receipt[e].settlement \in Settled
                 /\ Present(e) <=> receipt[e].settlement # "none"

\* The attempt says whether a dispatch may have been sent: until it is
\* dispatching nothing was, and while it is preparing nothing is released.
AttemptInv ==
  \A e \in Ids :
    /\ receipt[e].status \in {"absent", "preparing"} => attempt[e].status = "none"
    /\ attempt[e].status = "preparing" => Exposed(e)
    /\ attempt[e].status \in {"none", "preparing"} => posts[e] = 0
    /\ posts[e] = 0 <=> run[e] = "none"
    /\ attempt[e].runId => run[e] \in Started

\* What a command remembers of the action it read earlier and still holds.
AfterPost == {"await", "answered", "found", "observe", "proofless", "settle"}
HasRun    == {"answered", "found", "observe"}
Fits(pc, e) == (pc \in AfterPost => posts[e] = 1) /\ (pc \in HasRun => run[e] \in Started)

Sound(k) ==
  /\ k \in Commands
  /\ k.pc # "idle" => k.e \in Ids /\ Present(k.e)
  /\ k.pc \notin {"idle", "prepare"} => receipt[k.e].status # "preparing"
  /\ Fits(k.pc, k.e)
  /\ k.pc = "settle" => k.verdict \in Verdicts
CommandInv == \A c \in Cmds : Sound(cmd[c])

\* The command that is about to dispatch is the only one, and first.
MayPost(e) == posts[e] = 0 /\ Exposed(e) /\ attempt[e].status \notin {"none", "preparing"}
PostInv ==
  \A c \in Cmds : At(c, "post") =>
    /\ MayPost(cmd[c].e)
    /\ \A d \in Cmds : At(d, "post") /\ cmd[d].e = cmd[c].e => d = c

\* What was dispatched and is no longer open has been disclosed.
DisclosedInv == \A e \in Ids : posts[e] = 1 => Exposed(e) \/ Contains(exposures, e)

ConfirmationInv == /\ ConfirmationTypes /\ ReceiptInv /\ AttemptInv /\ CommandInv /\ PostInv
                   /\ DisclosedInv

LEMMA ConfirmationInit == Init => ConfirmationInv
<1> SUFFICES ASSUME Init PROVE ConfirmationInv
  OBVIOUS
<1> USE DEF Init, StoreInit, Absent, NoAttempt, Idle
<1>1. ConfirmationTypes
  BY DEF ConfirmationTypes, Receipts, Attempts, Commands, Steps
<1>2. ReceiptInv
  BY DEF ReceiptInv, terminalExecution, Terminal, Settled, Present
<1>3. AttemptInv /\ CommandInv /\ PostInv /\ DisclosedInv
  BY DEF AttemptInv, CommandInv, Sound, Commands, Steps, PostInv, DisclosedInv, At, AfterPost, HasRun, Fits
<1> QED  BY <1>1, <1>2, <1>3 DEF ConfirmationInv

-----------------------------------------------------------------------------
(* What one step may change.                                               *)
\* A command that only reads: it goes on with something sound.
LEMMA OnlyCommand ==
  ASSUME ConfirmationInv, NEW c \in Cmds, NEW k, Sound(k), k.pc # "post",
         cmd' = [cmd EXCEPT ![c] = k], UNCHANGED <<store, records, provider>>
  PROVE  ConfirmationInv'
<1> USE DEF ConfirmationInv, store, records, provider
<1>1. cmd \in [Cmds -> Commands]
  BY DEF ConfirmationTypes
<1>2. \A d \in Cmds : cmd'[d] = IF d = c THEN k ELSE cmd[d]
  BY <1>1
<1>3. ConfirmationTypes'
  BY <1>1 DEF ConfirmationTypes, Sound, Fits
<1>4. ReceiptInv' /\ AttemptInv' /\ DisclosedInv'
  BY DEF ReceiptInv, AttemptInv, DisclosedInv, Present, Exposed
<1>5. CommandInv'
  BY <1>2 DEF CommandInv, Sound, Fits, Present
<1>6. PostInv'
  BY <1>2 DEF PostInv, MayPost, At, Exposed, Present
<1> QED  BY <1>3, <1>4, <1>5, <1>6

\* The receipt and the attempt of an action may become r and a.
Writable(e, r, a) ==
  /\ r \in Receipts /\ r.status \notin {"absent", "preparing"} /\ r.settlement # "none"
  /\ r.status \in Terminal <=> r.settlement \in Settled
  /\ a \in Attempts /\ (a.status = "preparing" => r.settlement \notin Settled)
  /\ a.status \in {"none", "preparing"} => posts[e] = 0
  /\ a.runId => run[e] \in Started
  /\ MayPost(e) => r.settlement \notin Settled /\ a.status \notin {"none", "preparing"}
Writes(e, r, a) ==
  /\ receipt' = [receipt EXCEPT ![e] = r] /\ attempt' = [attempt EXCEPT ![e] = a]
  /\ exposures' \in Seq(Ids) /\ \A x \in Ids : Contains(exposures, x) => Contains(exposures', x)
  /\ posts[e] = 1 => r.settlement \notin Settled \/ Contains(exposures', e)
  /\ UNCHANGED <<lifecycle, provider>>

\* A command that writes what it has found out of its action.
LEMMA OneRecord ==
  ASSUME ConfirmationInv, NEW c \in Cmds, NEW e \in Ids, NEW r, NEW a,
         Present(e), Writable(e, r, a), Writes(e, r, a),
         NEW k \in Commands, cmd' = [cmd EXCEPT ![c] = k],
         k.pc # "idle" => k.e = e, k.pc \notin {"post", "settle"}, Fits(k.pc, e)
  PROVE  ConfirmationInv'
<1> USE DEF ConfirmationInv, provider, Writable, Writes
<1>1. /\ receipt \in [Ids -> Receipts] /\ attempt \in [Ids -> Attempts] /\ cmd \in [Cmds -> Commands]
  BY DEF ConfirmationTypes
<1>2. /\ \A d \in Cmds : cmd'[d] = IF d = c THEN k ELSE cmd[d]
      /\ \A x \in Ids : receipt'[x] = IF x = e THEN r ELSE receipt[x]
      /\ \A x \in Ids : attempt'[x] = IF x = e THEN a ELSE attempt[x]
  BY <1>1
<1>3. ConfirmationTypes'
  BY <1>1 DEF ConfirmationTypes
<1>4. ReceiptInv'
  BY <1>2 DEF ReceiptInv, Present, terminalExecution
<1>5. AttemptInv'
  BY <1>2 DEF AttemptInv, Present, Exposed
<1>6. DisclosedInv'
  BY <1>2 DEF DisclosedInv, Present, Exposed
<1>7. CommandInv'
  <2>1. \A x \in Ids : /\ receipt[x].status # "absent" => receipt'[x].status # "absent"
                       /\ receipt[x].status # "preparing" => receipt'[x].status # "preparing"
    BY <1>2
  <2>2. Sound(k)'
    BY <1>2 DEF Sound, Present, AfterPost, HasRun, Fits
  <2>3. ASSUME NEW d \in Cmds, d # c PROVE Sound(cmd[d])'
    <3>1. cmd'[d] = cmd[d] /\ Sound(cmd[d])
      BY <1>2, <2>3 DEF CommandInv
    <3>2. posts' = posts /\ run' = run
      OBVIOUS
    <3> HIDE DEF Writable, Writes, ConfirmationInv, provider
    <3>3. CASE cmd[d].pc = "idle"
      BY <3>1, <3>3 DEF Sound, AfterPost, HasRun, Fits
    <3>4. CASE cmd[d].pc # "idle"
      BY <2>1, <3>1, <3>2, <3>4 DEF Sound, Fits, Present
    <3> QED  BY <3>3, <3>4
  <2> QED  BY <1>2, <2>2, <2>3 DEF CommandInv
<1>8. PostInv'
  BY <1>2 DEF PostInv, MayPost, At, Exposed, Present, CommandInv, Sound, Fits
<1> QED  BY <1>3, <1>4, <1>5, <1>6, <1>7, <1>8

\* What a command that is under way knows of its action.
Knows(c, e) ==
  /\ cmd[c].e = e /\ Present(e) /\ Rc(c) = receipt[e] /\ Att(c) = attempt[e]
  /\ receipt[e] \in Receipts /\ attempt[e] \in Attempts /\ cmd[c] \in Commands
  /\ cmd[c].pc # "prepare" => receipt[e].status # "preparing"
  /\ Fits(cmd[c].pc, e)
  /\ receipt[e].status \in Terminal <=> receipt[e].settlement \in Settled
  /\ receipt[e].settlement # "none" /\ receipt[e].status # "absent"
  /\ receipt[e].status = "preparing" => attempt[e].status = "none"
  /\ attempt[e].status = "preparing" => receipt[e].settlement \notin Settled
  /\ attempt[e].status \in {"none", "preparing"} => posts[e] = 0
  /\ posts[e] = 0 <=> run[e] = "none"
  /\ run[e] \in {"none", "sent", "refused"} \cup Started
  /\ attempt[e].runId => run[e] \in Started
  /\ posts[e] = 1 => receipt[e].settlement \notin Settled \/ Contains(exposures, e)
  /\ posts[e] \in {0, 1}
  /\ cmd[c].pc = "post" => MayPost(e)
  /\ cmd[c].pc = "settle" => cmd[c].verdict \in Verdicts

LEMMA UnderWay ==
  ASSUME ConfirmationInv, NEW c \in Cmds, cmd[c].pc # "idle"
  PROVE  \E e \in Ids : Knows(c, e)
<1>1. PICK e \in Ids : cmd[c].e = e
  BY DEF ConfirmationInv, CommandInv, Sound, Fits
<1> QED
  BY <1>1 DEF ConfirmationInv, ConfirmationTypes, CommandInv, Sound, Fits, ReceiptInv, AttemptInv, Knows,
              DisclosedInv, PostInv, At, Rc, Att, Present, Exposed, terminalExecution, Started

\* The steps that need nothing but an action, and those that need a dispatch.
Plain == {"read", "nominate", "check", "admit", "caught", "withdraw", "find"}

LEMMA EndsOrGoes ==
  ASSUME ConfirmationInv, NEW c \in Cmds, NEW e \in Ids, Knows(c, e), cmd[c].pc # "idle",
         \/ Return(c)
         \/ \E step \in Plain \cup (AfterPost \ {"settle"}) :
              Goto(c, step) /\ Fits(step, e)
  PROVE  \E k \in Commands : /\ cmd' = [cmd EXCEPT ![c] = k] /\ k.pc \notin {"prepare", "post", "settle"}
                             /\ k.pc # "idle" => k.e = e
                             /\ Fits(k.pc, e)
<1>1. CASE Return(c)
  <2>1. Idle \in Commands /\ Idle.pc = "idle"
    BY DEF Idle, Commands, Steps
  <2> QED  BY <1>1, <2>1 DEF Return, AfterPost, HasRun, Fits
<1>2. ASSUME NEW step \in Plain \cup (AfterPost \ {"settle"}), Goto(c, step),
             Fits(step, e)
      PROVE  \E k \in Commands : /\ cmd' = [cmd EXCEPT ![c] = k] /\ k.pc \notin {"prepare", "post", "settle"}
                                 /\ k.pc # "idle" => k.e = e
                                 /\ Fits(k.pc, e)
  <2> DEFINE k == [cmd[c] EXCEPT !.pc = step]
  <2>1. k \in Commands /\ k.pc = step /\ k.e = e
    BY DEF Knows, Commands, Steps, Plain, AfterPost, HasRun, Fits
  <2>2. cmd' = [cmd EXCEPT ![c] = k]
    BY <1>2 DEF Goto
  <2>3. step \notin {"prepare", "post", "settle"}
    BY DEF Plain, AfterPost, HasRun, Fits
  <2> HIDE DEF k
  <2> QED  BY <1>2, <2>1, <2>2, <2>3
<1> QED  BY <1>1, <1>2

\* A command that moves on without writing anything.
LEMMA Moves ==
  ASSUME ConfirmationInv, NEW c \in Cmds, NEW e \in Ids, Knows(c, e), cmd[c].pc # "idle",
         UNCHANGED <<store, records, provider>>,
         \/ Return(c)
         \/ cmd[c].pc # "prepare" /\ \E step \in Plain \cup (AfterPost \ {"settle"}) :
              Goto(c, step) /\ Fits(step, e)
  PROVE  ConfirmationInv'
<1>1. CASE Return(c)
  <2>1. Sound(Idle) /\ Idle.pc # "post"
    BY DEF Sound, Idle, Commands, Steps, AfterPost, HasRun, Fits
  <2> QED  BY <1>1, <2>1, OnlyCommand DEF Return
<1>2. CASE cmd[c].pc # "prepare" /\ \E step \in Plain \cup (AfterPost \ {"settle"}) :
              Goto(c, step) /\ Fits(step, e)
  <2>1. PICK k \in Commands : /\ cmd' = [cmd EXCEPT ![c] = k] /\ k.pc \notin {"prepare", "post", "settle"}
                              /\ k.pc # "idle" => k.e = e
                              /\ Fits(k.pc, e)
    BY <1>2, EndsOrGoes
  <2>2. Sound(k)
    BY <1>2, <2>1 DEF Sound, Knows, AfterPost, HasRun, Fits
  <2> QED  BY <2>1, <2>2, OnlyCommand
<1> QED  BY <1>1, <1>2

LEMMA Records ==
  ASSUME ConfirmationInv, NEW c \in Cmds, NEW e \in Ids, Knows(c, e), cmd[c].pc # "idle",
         NEW r, NEW a, Writable(e, r, a), Writes(e, r, a),
         \/ Return(c)
         \/ \E step \in Plain \cup (AfterPost \ {"settle"}) :
              Goto(c, step) /\ Fits(step, e)
  PROVE  ConfirmationInv'
<1>1. PICK k \in Commands : /\ cmd' = [cmd EXCEPT ![c] = k] /\ k.pc \notin {"prepare", "post", "settle"}
                            /\ k.pc # "idle" => k.e = e
                            /\ Fits(k.pc, e)
  BY EndsOrGoes
<1> QED  BY <1>1, OneRecord DEF Knows

-----------------------------------------------------------------------------
(* What the store makes of a receipt.                                      *)
LEMMA ClosedIs ==
  ASSUME NEW r \in Receipts, NEW s \in Terminal \cup {"unknown"}, NEW kind \in Settled \cup {"unknown"},
         r.settlement \notin Settled
  PROVE  /\ Closed(r, s, kind) \in Receipts
         /\ Closed(r, s, kind).status = s /\ Closed(r, s, kind).settlement = kind
BY DEF Closed, settleInOutcome, Receipts

LEMMA PreparedIs ==
  ASSUME NEW r \in Receipts, r.status = "preparing"
  PROVE  /\ Prepared(r) \in Receipts /\ Prepared(r).status = "launching"
         /\ Prepared(r).settlement = r.settlement
BY DEF Prepared, Receipts, Terminal

LEMMA StatusIs ==
  ASSUME NEW a \in Attempts,
         NEW s \in Verdicts \cup {"none", "preparing", "dispatching", "running", "unknown"}
  PROVE  LET b == [a EXCEPT !.status = s] IN b \in Attempts /\ b.status = s /\ b.runId = a.runId
BY DEF Attempts

-----------------------------------------------------------------------------
(* The steps of a command.                                                 *)
LEMMA MovingStep ==
  ASSUME ConfirmationInv, NEW c \in Cmds, NEW e \in Ids, Knows(c, e), cmd[c].pc # "idle",
         Check(c) \/ Answer(c) \/ Read(c) \/ Find(c) \/ Throws(c) \/ CmdDies(c)
  PROVE  ConfirmationInv'
<1>1. cmd[c].pc # "prepare" \/ CmdDies(c)
  BY DEF Check, Answer, Read, Find, Throws, At
<1>2. UNCHANGED <<store, records, provider>>
  BY DEF Check, Answer, Read, Find, Throws, CmdDies, provider
<1>3. \/ Return(c)
      \/ \E step \in Plain \cup (AfterPost \ {"settle"}) :
           Goto(c, step) /\ Fits(step, e)
  <2> USE DEF At, Plain, AfterPost, HasRun, Fits, Knows
  <2>1. CASE Check(c) \/ Throws(c) \/ CmdDies(c)
    BY <2>1 DEF Check, Throws, CmdDies
  <2>2. CASE Answer(c)
    BY <2>2 DEF Answer
  <2>3. CASE Read(c)
    <3>1. attempt[e].runId => posts[e] = 1 /\ run[e] \in Started
      BY DEF Started
    <3>2. \/ Return(c) \/ Goto(c, "withdraw") \/ Goto(c, "nominate") \/ Goto(c, "find")
          \/ attempt[e].runId /\ Goto(c, "observe")
      BY <2>3 DEF Read
    <3> HIDE DEF Knows
    <3> QED  BY <3>1, <3>2
  <2>4. CASE Find(c)
    BY <2>4 DEF Find
  <2> QED  BY <2>1, <2>2, <2>3, <2>4
<1> QED  BY <1>1, <1>2, <1>3, Moves DEF CmdDies

LEMMA PrepareStep ==
  ASSUME ConfirmationInv, NEW c \in Cmds, NEW e \in Ids, Knows(c, e), Prepare(c)
  PROVE  ConfirmationInv'
<1> USE DEF Knows
<1>1. receipt \in [Ids -> Receipts] /\ attempt \in [Ids -> Attempts] /\ exposures \in Seq(Ids)
  BY DEF ConfirmationInv, ConfirmationTypes
<1>2. \E r \in {Prepared(receipt[e]), Unprepared(receipt[e])} :
        /\ receipt' = [receipt EXCEPT ![e] = r]
        /\ (r = Prepared(receipt[e]) /\ Goto(c, "read")) \/ Return(c)
  BY DEF Prepare, Set
<1>3. PICK r \in {Prepared(receipt[e]), Unprepared(receipt[e])} :
        /\ receipt' = [receipt EXCEPT ![e] = r]
        /\ Goto(c, "read") \/ Return(c)
  BY <1>2
<1>4. Writable(e, r, attempt[e])
  <2>1. CASE receipt[e].status # "preparing"
    BY <2>1 DEF Prepared, Unprepared, Writable, MayPost, Exposed
  <2>2. CASE receipt[e].status = "preparing"
    <3>1. receipt[e].settlement \notin Settled /\ attempt[e].status = "none"
      BY <2>2 DEF Terminal
    <3>2. CASE r = Prepared(receipt[e])
      BY <2>2, <3>1, <3>2, PreparedIs DEF Writable, MayPost, Terminal
    <3>3. CASE r = Unprepared(receipt[e])
      <4>1. r = Closed(receipt[e], "failed", "measured")
        BY <2>2, <3>3 DEF Unprepared
      <4>2. r \in Receipts /\ r.status = "failed" /\ r.settlement = "measured"
        BY <3>1, <4>1, ClosedIs DEF Terminal, Settled
      <4> QED  BY <3>1, <4>2 DEF Writable, MayPost, Terminal, Settled
    <3> QED  BY <3>2, <3>3
  <2> QED  BY <2>1, <2>2
<1>5. Writes(e, r, attempt[e])
  <2>1. posts[e] = 1 => r.settlement \notin Settled \/ Contains(exposures, e)
    <3>1. CASE receipt[e].status # "preparing"
      BY <3>1 DEF Prepared, Unprepared
    <3>2. CASE receipt[e].status = "preparing"
      BY <3>2
    <3> QED  BY <3>1, <3>2
  <2> QED  BY <1>1, <1>3, <2>1 DEF Writes, Prepare, Set, records, provider
<1>6. cmd[c].pc # "idle"
  BY DEF Prepare, At
<1> HIDE DEF Knows
<1> QED  BY <1>3, <1>4, <1>5, <1>6, Records DEF Plain, AfterPost, HasRun, Fits

LEMMA NominateStep ==
  ASSUME ConfirmationInv, NEW c \in Cmds, NEW e \in Ids, Knows(c, e), Nominate(c)
  PROVE  ConfirmationInv'
<1>1. cmd[c].pc \notin {"idle", "prepare"}
  BY DEF Nominate, At
<1>2. receipt \in [Ids -> Receipts] /\ attempt \in [Ids -> Attempts] /\ exposures \in Seq(Ids)
  BY DEF ConfirmationInv, ConfirmationTypes
<1>3. CASE terminalExecution(receipt[e]) \/ attempt[e].status # "none"
  <2>1. UNCHANGED <<store, records, provider>>
    BY <1>3 DEF Nominate, Knows, records, provider
  <2>2. Return(c) \/ \E step \in Plain : Goto(c, step)
    BY <1>3 DEF Nominate, Knows, Plain
  <2> QED  BY <1>1, <2>1, <2>2, Moves DEF Plain, AfterPost, HasRun, Fits
<1>4. CASE ~terminalExecution(receipt[e]) /\ attempt[e].status = "none"
  <2> DEFINE a == [NoAttempt EXCEPT !.status = "preparing", !.fresh = exposures = <<>>]
  <2>1. a \in Attempts /\ a.status = "preparing" /\ ~a.runId
    BY DEF NoAttempt, Attempts
  <2>2. attempt' = [attempt EXCEPT ![e] = a] /\ Goto(c, "check") /\ UNCHANGED <<store, exposures, provider>>
    BY <1>4 DEF Nominate, Save, Knows
  <2> HIDE DEF a
  <2>3. Writable(e, receipt[e], a)
    BY <1>1, <1>4, <2>1 DEF Writable, Knows, MayPost, terminalExecution
  <2>4. Writes(e, receipt[e], a)
    BY <1>2, <2>2 DEF Writes, Knows, store
  <2> QED  BY <1>1, <2>2, <2>3, <2>4, Records DEF Plain, AfterPost, HasRun, Fits
<1> QED  BY <1>3, <1>4

\* The run's identity is only saved after its dispatch.
LEMMA RunStep ==
  ASSUME ConfirmationInv, NEW c \in Cmds, NEW e \in Ids, Knows(c, e), Answered(c) \/ Found(c)
  PROVE  ConfirmationInv'
<1>1. cmd[c].pc \notin {"idle", "prepare"} /\ posts[e] = 1 /\ run[e] \in Started
  BY DEF Answered, Found, At, Knows, AfterPost, HasRun, Fits
<1>2. receipt \in [Ids -> Receipts] /\ attempt \in [Ids -> Attempts] /\ exposures \in Seq(Ids)
  BY DEF ConfirmationInv, ConfirmationTypes
<1>3. CASE UNCHANGED attempt /\ Goto(c, "caught") /\ Answered(c)
  BY <1>1, <1>3, Moves DEF Answered, records, Plain, AfterPost, HasRun, Fits
<1>4. CASE SaveRun(c) /\ (Return(c) \/ Goto(c, "observe"))
  <2> DEFINE a == [attempt[e] EXCEPT !.runId = TRUE, !.status = "running"]
  <2>1. a \in Attempts /\ a.status = "running"
    BY DEF Attempts, Knows
  <2>2. attempt' = [attempt EXCEPT ![e] = a] /\ UNCHANGED <<store, exposures, provider>>
    BY <1>4 DEF SaveRun, Save, Answered, Found, Knows
  <2> HIDE DEF a
  <2>3. Writable(e, receipt[e], a)
    BY <1>1, <2>1 DEF Writable, Knows, MayPost
  <2>4. Writes(e, receipt[e], a)
    BY <1>2, <2>2 DEF Writes, Knows, store
  <2> QED  BY <1>1, <1>4, <2>3, <2>4, Records DEF Plain, AfterPost, HasRun, Fits
<1> QED  BY <1>3, <1>4 DEF Answered, Found

\* A command that settles, or gives up, writes a closed receipt.
LEMMA ClosingStep ==
  ASSUME ConfirmationInv, NEW c \in Cmds, NEW e \in Ids, Knows(c, e), cmd[c].pc \notin {"idle", "prepare"},
         NEW s \in Terminal \cup {"unknown"}, NEW kind \in Settled \cup {"unknown"}, NEW a \in Attempts,
         receipt[e].settlement \notin Settled, s \in Terminal <=> kind \in Settled,
         Set(e, Closed(receipt[e], s, kind)), attempt' = [attempt EXCEPT ![e] = a],
         a.runId = attempt[e].runId, a.status # "preparing", a.status = "none" => posts[e] = 0,
         \/ attempt[e].status \in {"none", "preparing"} \/ posts[e] = 1
         \/ kind = "unknown" /\ a.status # "none",
         exposures' \in Seq(Ids) /\ \A x \in Ids : Contains(exposures, x) => Contains(exposures', x),
         posts[e] = 1 => kind = "unknown" \/ Contains(exposures', e),
         UNCHANGED provider, Return(c)
  PROVE  ConfirmationInv'
<1> DEFINE r == Closed(receipt[e], s, kind)
<1>1. r \in Receipts /\ r.status = s /\ r.settlement = kind
  BY ClosedIs DEF Knows
<1>2. receipt' = [receipt EXCEPT ![e] = r] /\ UNCHANGED lifecycle
  BY DEF Set
<1> HIDE DEF r
<1>3. Writable(e, r, a)
  BY <1>1 DEF Writable, Knows, MayPost, Terminal, Settled
<1>4. Writes(e, r, a)
  BY <1>1, <1>2 DEF Writes, Settled
<1> QED  BY <1>3, <1>4, Records

LEMMA CaughtStep ==
  ASSUME ConfirmationInv, NEW c \in Cmds, NEW e \in Ids, Knows(c, e), Caught(c)
  PROVE  ConfirmationInv'
<1>1. cmd[c].pc \notin {"idle", "prepare"} /\ Return(c) /\ UNCHANGED <<exposures, provider>>
  BY DEF Caught, At
<1>2. exposures \in Seq(Ids)
  BY DEF ConfirmationInv, ConfirmationTypes
<1>3. CASE terminalExecution(receipt[e])
  BY <1>1, <1>3, Moves DEF Caught, Knows, records
<1>4. ~terminalExecution(receipt[e]) => receipt[e].settlement \notin Settled
  BY DEF Knows, terminalExecution
<1>5. CASE ~terminalExecution(receipt[e]) /\ attempt[e].status = "preparing"
  <2> DEFINE a == [attempt[e] EXCEPT !.status = "rejected"]
  <2>1. a \in Attempts /\ a.status = "rejected" /\ a.runId = attempt[e].runId /\ posts[e] # 1
    BY <1>5 DEF Knows, Attempts, Verdicts
  <2>2. attempt' = [attempt EXCEPT ![e] = a] /\ Set(e, Closed(receipt[e], "failed", "measured"))
    BY <1>5 DEF Caught, Knows, Save, Unstarted
  <2> HIDE DEF a
  <2> QED  BY <1>1, <1>2, <1>4, <1>5, <2>1, <2>2, ClosingStep DEF Terminal, Settled
<1>6. CASE ~terminalExecution(receipt[e]) /\ attempt[e].status # "preparing"
  <2> DEFINE a == [attempt[e] EXCEPT !.status = "unknown"]
  <2>1. a \in Attempts /\ a.status = "unknown" /\ a.runId = attempt[e].runId
    BY DEF Knows, Attempts, Verdicts
  <2>2. attempt' = [attempt EXCEPT ![e] = a] /\ Set(e, Closed(receipt[e], "unknown", "unknown"))
    BY <1>6 DEF Caught, Knows, Save, Unstarted
  <2> HIDE DEF a
  <2> QED  BY <1>1, <1>2, <1>4, <1>6, <2>1, <2>2, ClosingStep DEF Terminal, Settled
<1> QED  BY <1>3, <1>5, <1>6

LEMMA WithdrawStep ==
  ASSUME ConfirmationInv, NEW c \in Cmds, NEW e \in Ids, Knows(c, e), Withdraw(c)
  PROVE  ConfirmationInv'
<1>1. cmd[c].pc \notin {"idle", "prepare"} /\ Return(c) /\ UNCHANGED <<exposures, provider>>
  BY DEF Withdraw, At
<1>2. exposures \in Seq(Ids) /\ attempt \in [Ids -> Attempts]
  BY DEF ConfirmationInv, ConfirmationTypes
<1>3. CASE terminalExecution(receipt[e]) \/ ~MayWithdraw(attempt[e])
  BY <1>1, <1>3, Moves DEF Withdraw, Knows, records
<1>4. CASE ~terminalExecution(receipt[e]) /\ MayWithdraw(attempt[e])
  <2>1. /\ receipt[e].settlement \notin Settled /\ posts[e] = 0 /\ posts[e] # 1
        /\ attempt[e].status \in {"none", "preparing"}
    BY <1>4 DEF Knows, terminalExecution, MayWithdraw
  <2>2. Set(e, Closed(receipt[e], "cancelled", "measured"))
    BY <1>4 DEF Withdraw, Knows
  <2>3. \E a \in Attempts : /\ attempt' = [attempt EXCEPT ![e] = a] /\ a.runId = attempt[e].runId
                            /\ a.status \in {"none", "rejected"}
    <3>1. CASE attempt[e].status = "none"
      <4>1. attempt' = [attempt EXCEPT ![e] = attempt[e]]
        BY <1>2, <1>4, <3>1 DEF Withdraw, Knows
      <4> QED  BY <3>1, <4>1 DEF Knows
    <3>2. CASE attempt[e].status # "none"
      <4> DEFINE a == [attempt[e] EXCEPT !.status = "rejected"]
      <4>1. a \in Attempts /\ a.status = "rejected" /\ a.runId = attempt[e].runId
        BY DEF Knows, Attempts, Verdicts
      <4>2. attempt' = [attempt EXCEPT ![e] = a]
        BY <1>4, <3>2 DEF Withdraw, Knows, Save
      <4> QED  BY <4>1, <4>2
    <3> QED  BY <3>1, <3>2
  <2>4. PICK a \in Attempts : /\ attempt' = [attempt EXCEPT ![e] = a] /\ a.runId = attempt[e].runId
                             /\ a.status \in {"none", "rejected"}
    BY <2>3
  <2>5. a.status # "preparing" /\ (a.status = "none" => posts[e] = 0) /\ exposures' = exposures
    BY <1>1, <2>1, <2>4
  <2>6. "cancelled" \in Terminal /\ "measured" \in Settled
    BY DEF Terminal, Settled
  <2>7. exposures' \in Seq(Ids) /\ \A x \in Ids : Contains(exposures, x) => Contains(exposures', x)
    BY <1>2, <2>5
  <2>8. /\ "cancelled" \in Terminal \cup {"unknown"} /\ "measured" \in Settled \cup {"unknown"}
        /\ "cancelled" \in Terminal <=> "measured" \in Settled
    BY <2>6
  <2>9. UNCHANGED provider /\ Return(c)
    BY <1>1
  <2> QED  BY <1>1, <2>1, <2>2, <2>4, <2>5, <2>7, <2>8, <2>9, ClosingStep
<1> QED  BY <1>3, <1>4

LEMMA ProoflessStep ==
  ASSUME ConfirmationInv, NEW c \in Cmds, NEW e \in Ids, Knows(c, e), Proofless(c)
  PROVE  ConfirmationInv'
<1>1. cmd[c].pc \notin {"idle", "prepare"} /\ Return(c) /\ UNCHANGED <<exposures, provider>>
  BY DEF Proofless, At
<1>2. exposures \in Seq(Ids)
  BY DEF ConfirmationInv, ConfirmationTypes
<1>3. CASE ~MayForget(receipt[e])
  BY <1>1, <1>3, Moves DEF Proofless, Knows, records
<1>4. CASE MayForget(receipt[e])
  <2> DEFINE a == [attempt[e] EXCEPT !.status = "unknown"]
  <2>1. a \in Attempts /\ a.status = "unknown" /\ a.runId = attempt[e].runId
    BY DEF Knows, Attempts, Verdicts
  <2>2. /\ attempt' = [attempt EXCEPT ![e] = a] /\ Set(e, Closed(receipt[e], "unknown", "unknown"))
        /\ receipt[e].settlement \notin Settled
    BY <1>4 DEF Proofless, Knows, Save, MayForget
  <2> HIDE DEF a
  <2> QED  BY <1>1, <1>2, <2>1, <2>2, ClosingStep DEF Terminal, Settled
<1> QED  BY <1>3, <1>4

\* Disclosing an action adds it to what was disclosed.
LEMMA DisclosedIs ==
  ASSUME NEW c, NEW e \in Ids, cmd[c].e = e, exposures \in Seq(Ids)
  PROVE  /\ Disclosed(c) \in Seq(Ids) /\ Contains(Disclosed(c), e)
         /\ \A x \in Ids : Contains(exposures, x) => Contains(Disclosed(c), x)
<1>1. CASE Contains(exposures, e)
  BY <1>1 DEF Disclosed
<1>2. CASE ~Contains(exposures, e)
  <2>1. Disclosed(c) = Append(exposures, e)
    BY <1>2 DEF Disclosed
  <2>2. /\ Append(exposures, e) \in Seq(Ids) /\ Len(Append(exposures, e)) = Len(exposures) + 1
        /\ \A i \in 1 .. Len(exposures) : Append(exposures, e)[i] = exposures[i]
        /\ Append(exposures, e)[Len(exposures) + 1] = e /\ Len(exposures) \in Nat
    BY AppendProperties, LenProperties
  <2> QED  BY <2>1, <2>2 DEF Contains
<1> QED  BY <1>1, <1>2

LEMMA SettleStep ==
  ASSUME ConfirmationInv, NEW c \in Cmds, NEW e \in Ids, Knows(c, e), Settle(c)
  PROVE  ConfirmationInv'
<1>1. /\ cmd[c].pc \notin {"idle", "prepare"} /\ Return(c) /\ UNCHANGED provider
      /\ posts[e] = 1 /\ cmd[c].verdict \in Verdicts
  BY DEF Settle, At, Knows, AfterPost, HasRun, Fits
<1>2. exposures \in Seq(Ids)
  BY DEF ConfirmationInv, ConfirmationTypes
<1>3. CASE terminalExecution(receipt[e])
  BY <1>1, <1>3, Moves DEF Settle, Knows, records
<1>4. CASE ~terminalExecution(receipt[e])
  <2> DEFINE a == [attempt[e] EXCEPT !.status = cmd[c].verdict]
  <2>1. a \in Attempts /\ a.status \in Verdicts /\ a.runId = attempt[e].runId
    BY <1>1 DEF Knows, Attempts
  <2>2. /\ attempt' = [attempt EXCEPT ![e] = a] /\ exposures' = Disclosed(c)
        /\ receipt[e].settlement \notin Settled
    BY <1>4 DEF Settle, Knows, Save, terminalExecution
  <2>3. /\ exposures' \in Seq(Ids) /\ Contains(exposures', e)
        /\ \A x \in Ids : Contains(exposures, x) => Contains(exposures', x)
    BY <1>2, <2>2, DisclosedIs DEF Knows
  <2>4. \E s \in {"completed", "failed"}, kind \in Settled : Set(e, Closed(receipt[e], s, kind))
    BY <1>4 DEF Settle, Knows, Settled
  <2>5. a.status \notin {"preparing", "none"}
    BY <2>1 DEF Verdicts
  <2> HIDE DEF a
  <2> QED  BY <1>1, <2>1, <2>2, <2>3, <2>4, <2>5, ClosingStep DEF Terminal
<1> QED  BY <1>3, <1>4

\* Who admits a dispatch holds the only preparing attempt of its action.
LEMMA AdmitStep ==
  ASSUME ConfirmationInv, NEW c \in Cmds, NEW e \in Ids, Knows(c, e), Admit(c)
  PROVE  ConfirmationInv'
<1>1. cmd[c].pc = "admit" /\ UNCHANGED <<store, exposures, provider>>
  BY DEF Admit, At
<1>2. CASE UNCHANGED attempt /\ Goto(c, "caught")
  BY <1>1, <1>2, Moves DEF records, Plain, AfterPost, HasRun, Fits
<1>3. CASE UNCHANGED attempt /\ cmd' = [cmd EXCEPT ![c].pc = "read", ![c].nested = TRUE]
  <2> DEFINE k == [cmd[c] EXCEPT !.pc = "read", !.nested = TRUE]
  <2>1. k \in Commands /\ k.pc = "read" /\ k.e = e
    BY DEF Knows, Commands, Steps
  <2>2. cmd' = [cmd EXCEPT ![c] = k]
    BY <1>3
  <2> HIDE DEF k
  <2>3. Sound(k)
    BY <1>1, <2>1 DEF Sound, Knows, AfterPost, HasRun, Fits
  <2> QED  BY <1>1, <1>3, <2>1, <2>2, <2>3, OnlyCommand DEF records
<1>4. CASE /\ attempt[e].status = "preparing" /\ Goto(c, "post")
           /\ Save(e, [attempt[e] EXCEPT !.status = "dispatching"])
  <2> DEFINE a == [attempt[e] EXCEPT !.status = "dispatching"]
             k == [cmd[c] EXCEPT !.pc = "post"]
  <2>1. a \in Attempts /\ a.status = "dispatching" /\ a.runId = attempt[e].runId
    BY DEF Knows, Attempts
  <2>2. k \in Commands /\ k.pc = "post" /\ k.e = e
    BY DEF Knows, Commands, Steps
  <2>3. attempt' = [attempt EXCEPT ![e] = a] /\ cmd' = [cmd EXCEPT ![c] = k]
    BY <1>4 DEF Save, Goto
  <2>4. /\ posts[e] = 0 /\ receipt[e].settlement \notin Settled
        /\ receipt[e].status \notin {"absent", "preparing"}
        /\ Present(e) /\ Exposed(e) /\ ~attempt[e].runId /\ ~MayPost(e) /\ run[e] = "none"
    BY <1>1, <1>4 DEF Knows, Exposed, MayPost, Started
  <2> HIDE DEF a, k
  <2> USE DEF ConfirmationInv
  <2>5. /\ \A d \in Cmds : cmd'[d] = IF d = c THEN k ELSE cmd[d]
        /\ \A x \in Ids : attempt'[x] = IF x = e THEN a ELSE attempt[x]
    BY <2>3 DEF ConfirmationTypes
  <2>6. UNCHANGED <<receipt, lifecycle, exposures, run, posts>>
    BY <1>1 DEF store, provider
  <2>7. ConfirmationTypes'
    BY <2>1, <2>2, <2>3, <2>6 DEF ConfirmationTypes
  <2>8. ReceiptInv' /\ DisclosedInv'
    BY <2>6 DEF ReceiptInv, DisclosedInv, Present, Exposed
  <2>9. AttemptInv'
    BY <2>1, <2>4, <2>5, <2>6 DEF AttemptInv, Present, Exposed
  <2>10. CommandInv'
    BY <2>2, <2>4, <2>5, <2>6 DEF CommandInv, Sound, Present, AfterPost, HasRun, Fits
  <2>11. \A d \in Cmds : At(d, "post") => cmd[d].e # e /\ MayPost(cmd[d].e) /\ d # c
    BY <1>1, <2>4 DEF PostInv, At
  <2>12. MayPost(e)' /\ \A x \in Ids : MayPost(x) => MayPost(x)'
    BY <2>1, <2>4, <2>5, <2>6 DEF MayPost, Exposed, Present
  <2>13. \A d \in Cmds : At(d, "post")' => d = c \/ (At(d, "post") /\ cmd'[d] = cmd[d])
    BY <2>5 DEF At
  <2>14. PostInv'
    <3>1. ASSUME NEW d \in Cmds, At(d, "post")' PROVE MayPost(cmd[d].e)'
      <4>1. CASE d = c
        BY <2>2, <2>5, <2>12, <4>1 DEF MayPost
      <4>2. CASE d # c
        <5>1. cmd'[d] = cmd[d] /\ MayPost(cmd[d].e) /\ cmd[d].e \in Ids
          BY <2>11, <2>13, <3>1, <4>2 DEF CommandInv, Sound, At
        <5>2. MayPost(cmd[d].e) => /\ posts'[cmd[d].e] = 0 /\ attempt'[cmd[d].e] = attempt[cmd[d].e]
                                   /\ receipt'[cmd[d].e] = receipt[cmd[d].e]
          BY <2>4, <2>5, <2>6, <5>1 DEF MayPost
        <5> QED  BY <5>1, <5>2 DEF MayPost, Exposed, Present
      <4> QED  BY <4>1, <4>2
    <3>2. ASSUME NEW d1 \in Cmds, NEW d2 \in Cmds, At(d1, "post")', At(d2, "post")', cmd'[d1].e = cmd'[d2].e
          PROVE  d1 = d2
      <4>1. CASE d1 = c \/ d2 = c
        BY <2>2, <2>5, <2>11, <2>13, <3>2, <4>1
      <4>2. CASE d1 # c /\ d2 # c
        BY <2>13, <3>2, <4>2 DEF PostInv
      <4> QED  BY <4>1, <4>2
    <3> QED  BY <3>1, <3>2 DEF PostInv, At
  <2> QED  BY <2>7, <2>8, <2>9, <2>10, <2>14
<1> QED  BY <1>2, <1>3, <1>4 DEF Admit, MayDispatch, Knows

LEMMA PostStep ==
  ASSUME ConfirmationInv, NEW c \in Cmds, NEW e \in Ids, Knows(c, e), Post(c)
  PROVE  ConfirmationInv'
<1>1. PICK k \in Commands : k = [cmd[c] EXCEPT !.pc = "await"] /\ k.pc = "await" /\ k.e = e
  <2>1. [cmd[c] EXCEPT !.pc = "await"] \in Commands
    BY DEF Knows, Commands, Steps
  <2>2. [cmd[c] EXCEPT !.pc = "await"].pc = "await" /\ [cmd[c] EXCEPT !.pc = "await"].e = e
    BY DEF Knows, Commands
  <2> QED  BY <2>1, <2>2
<1>2. /\ cmd' = [cmd EXCEPT ![c] = k] /\ run' = [run EXCEPT ![e] = "sent"]
      /\ posts' = [posts EXCEPT ![e] = posts[e] + 1]
      /\ UNCHANGED <<receipt, lifecycle, attempt, exposures>> /\ cmd[c].pc = "post"
  BY <1>1 DEF Post, Goto, Knows, store, records, At
<1>3. MayPost(e) /\ Present(e) /\ receipt[e].status # "preparing"
  BY <1>2 DEF Knows
<1> USE DEF ConfirmationInv
<1>4. /\ \A d \in Cmds : cmd'[d] = IF d = c THEN k ELSE cmd[d]
      /\ \A x \in Ids : posts'[x] = IF x = e THEN 1 ELSE posts[x]
      /\ \A x \in Ids : run'[x] = IF x = e THEN "sent" ELSE run[x]
  BY <1>2, <1>3 DEF ConfirmationTypes, MayPost
<1>5. ConfirmationTypes'
  BY <1>1, <1>2, <1>3 DEF ConfirmationTypes, MayPost
<1>6. ReceiptInv'
  BY <1>2 DEF ReceiptInv, Present
<1>7. AttemptInv' /\ DisclosedInv'
  BY <1>2, <1>3, <1>4 DEF AttemptInv, DisclosedInv, MayPost, Present, Exposed, Started
<1>8. CommandInv'
  <2>1. Sound(k)'
    BY <1>1, <1>2, <1>3, <1>4 DEF Sound, Present, AfterPost, HasRun, Fits
  <2>2. ASSUME NEW d \in Cmds, d # c PROVE Sound(cmd[d])'
    <3>1. cmd'[d] = cmd[d] /\ Sound(cmd[d]) /\ posts[e] = 0
      BY <1>3, <1>4, <2>2 DEF CommandInv, MayPost
    <3>2. CASE cmd[d].pc = "idle"
      BY <1>2, <3>1, <3>2 DEF Sound, Present, Fits, AfterPost, HasRun
    <3>3. CASE cmd[d].pc # "idle"
      BY <1>2, <1>4, <3>1, <3>3 DEF Sound, Present, Fits, AfterPost, HasRun
    <3> QED  BY <3>2, <3>3
  <2> QED  BY <1>4, <2>1, <2>2 DEF CommandInv
<1>9. \A d \in Cmds : cmd[d].pc = "post" /\ cmd[d].e = e => d = c
  BY <1>2 DEF PostInv, At, Knows
<1>10. PostInv'
  <2>1. \A d \in Cmds : At(d, "post")' => At(d, "post") /\ cmd[d].e # e /\ cmd'[d] = cmd[d]
    BY <1>1, <1>4, <1>9 DEF At
  <2>2. \A x \in Ids \ {e} : MayPost(x) => MayPost(x)'
    BY <1>2, <1>4 DEF MayPost, Exposed, Present
  <2>3. \A d \in Cmds : At(d, "post") => cmd[d].e \in Ids
    BY DEF CommandInv, Sound, At
  <2>4. ASSUME NEW d \in Cmds, At(d, "post")' PROVE MayPost(cmd[d].e)'
    <3>1. MayPost(cmd[d].e) /\ cmd'[d] = cmd[d] /\ cmd[d].e \in Ids \ {e}
      BY <2>1, <2>3, <2>4 DEF PostInv
    <3> QED  BY <1>2, <1>4, <3>1 DEF MayPost, Exposed, Present
  <2> QED  BY <2>1, <2>4 DEF PostInv
<1> QED  BY <1>5, <1>6, <1>7, <1>8, <1>10

\* The provider's own steps, also those a cancellation asks for, are about
\* runs that were dispatched.
LEMMA ProviderMoves ==
  ASSUME ConfirmationInv, NEW e \in Ids, run[e] # "none",
         NEW s \in {"sent", "refused", "posted", "success", "other"},
         run' = [run EXCEPT ![e] = s], run[e] \in Started => s \in Started,
         UNCHANGED <<receipt, lifecycle, attempt, exposures, posts>>, CommandInv', ConfirmationTypes',
         \A c \in Cmds : At(c, "post")' => At(c, "post") /\ cmd'[c] = cmd[c]
  PROVE  ConfirmationInv'
<1> USE DEF ConfirmationInv
<1>1. \A x \in Ids : run'[x] = IF x = e THEN s ELSE run[x]
  BY DEF ConfirmationTypes
<1>2. ReceiptInv' /\ DisclosedInv'
  BY DEF ReceiptInv, DisclosedInv, Present, Exposed
<1>3. AttemptInv'
  BY <1>1 DEF AttemptInv, Present, Exposed
<1>4. PostInv'
  BY DEF PostInv, MayPost, At, Exposed, Present
<1> QED  BY <1>2, <1>3, <1>4

LEMMA ObserveStep ==
  ASSUME ConfirmationInv, NEW c \in Cmds, NEW e \in Ids, Knows(c, e), Observe(c)
  PROVE  ConfirmationInv'
<1>1. /\ posts[e] = 1 /\ UNCHANGED <<receipt, lifecycle, attempt, exposures, posts>>
      /\ cmd[c].pc \notin {"idle", "prepare", "post"}
  BY DEF Observe, At, Knows, AfterPost, HasRun, Fits, store, records
<1>2. run[e] \in Started
  BY DEF Observe, At, Knows, HasRun, Fits
<1>3. PICK now \in {run[e]} \cup (IF cmd[c].cancel /\ run[e] = "posted" THEN {"other"} ELSE {}) :
        /\ run' = [run EXCEPT ![e] = now] /\ now \in {"posted", "other", "success"}
        /\ \/ Return(c) \/ Goto(c, "proofless")
           \/ \E v \in Verdicts : cmd' = [cmd EXCEPT ![c].pc = "settle", ![c].verdict = v]
  BY <1>2 DEF Observe, Started, Verdicts, Knows
<1>4. \E k \in Commands :
        /\ cmd' = [cmd EXCEPT ![c] = k] /\ k.pc \in {"idle", "proofless", "settle"}
        /\ k.pc # "idle" => k.e = e
        /\ k.pc = "settle" => k.verdict \in Verdicts
  <2>1. CASE Return(c)
    <3>1. Idle \in Commands /\ Idle.pc = "idle"
      BY DEF Idle, Commands, Steps
    <3> QED  BY <2>1, <3>1 DEF Return
  <2>2. CASE Goto(c, "proofless")
    <3> DEFINE k == [cmd[c] EXCEPT !.pc = "proofless"]
    <3>1. k \in Commands /\ k.pc = "proofless" /\ k.e = e /\ cmd' = [cmd EXCEPT ![c] = k]
      BY <2>2 DEF Goto, Knows, Commands, Steps
    <3> QED  BY <3>1
  <2>3. ASSUME NEW v \in Verdicts, cmd' = [cmd EXCEPT ![c].pc = "settle", ![c].verdict = v]
        PROVE  \E k \in Commands : cmd' = [cmd EXCEPT ![c] = k] /\ k.pc = "settle" /\ k.e = e
                                    /\ k.verdict \in Verdicts
    <3> DEFINE k == [cmd[c] EXCEPT !.pc = "settle", !.verdict = v]
    <3>1. k \in Commands /\ k.pc = "settle" /\ k.verdict = v /\ k.e = e
      BY DEF Knows, Commands, Steps
    <3>2. cmd' = [cmd EXCEPT ![c] = k]
      BY <2>3 DEF ConfirmationInv, ConfirmationTypes
    <3> QED  BY <3>1, <3>2
  <2> QED  BY <1>3, <2>1, <2>2, <2>3
<1>5. PICK k \in Commands :
        /\ cmd' = [cmd EXCEPT ![c] = k] /\ k.pc \in {"idle", "proofless", "settle"}
        /\ k.pc # "idle" => k.e = e
        /\ k.pc = "settle" => k.verdict \in Verdicts
  BY <1>4
<1>6. \A d \in Cmds : cmd'[d] = IF d = c THEN k ELSE cmd[d]
  BY <1>5 DEF ConfirmationInv, ConfirmationTypes
<1>7. \A x \in Ids : run'[x] = IF x = e THEN now ELSE run[x]
  BY <1>3 DEF ConfirmationInv, ConfirmationTypes
<1>8. ConfirmationTypes'
  BY <1>1, <1>3, <1>5 DEF ConfirmationInv, ConfirmationTypes
<1>9. CommandInv'
  <2>1. Sound(k)'
    BY <1>1, <1>5 DEF Sound, Fits, AfterPost, HasRun, Present, Knows
  <2>2. ASSUME NEW d \in Cmds, d # c PROVE Sound(cmd[d])'
    BY <1>1, <1>3, <1>6, <1>7, <2>2 DEF ConfirmationInv, CommandInv, Sound, Fits, Present, Started
  <2> QED  BY <1>6, <2>1, <2>2 DEF CommandInv
<1>10. \A d \in Cmds : At(d, "post")' => At(d, "post") /\ cmd'[d] = cmd[d]
  BY <1>5, <1>6 DEF At
<1>11. now \in Started
  BY <1>3 DEF Started
<1> QED  BY <1>1, <1>2, <1>3, <1>8, <1>9, <1>10, <1>11, ProviderMoves DEF Started

LEMMA ProvidesStep ==
  ASSUME ConfirmationInv, NEW e \in Ids, Provides(e)
  PROVE  ConfirmationInv'
<1>1. UNCHANGED <<receipt, lifecycle, attempt, exposures, posts, cmd>> /\ run[e] # "none"
  BY DEF Provides, store, records
<1>2. PICK s \in {"refused", "posted", "success", "other"} :
        run' = [run EXCEPT ![e] = s] /\ (run[e] \in Started => s \in Started)
  BY DEF Provides, Started
<1>3. ConfirmationTypes' /\ CommandInv'
  BY <1>1, <1>2 DEF ConfirmationInv, ConfirmationTypes, CommandInv, Sound, Fits, Present, Started
<1>4. \A c \in Cmds : At(c, "post")' => At(c, "post") /\ cmd'[c] = cmd[c]
  BY <1>1 DEF At
<1> QED  BY <1>1, <1>2, <1>3, <1>4, ProviderMoves

-----------------------------------------------------------------------------
(* An action is nominated, taken up again, stopped or amended.             *)
LEMMA NewStep ==
  ASSUME ConfirmationInv, NEW c \in Cmds, NEW e \in Ids, NextNew(c, e)
  PROVE  ConfirmationInv'
<1> DEFINE r == [Absent EXCEPT !.mode = "github-actions", !.status = "preparing", !.settlement = "reserved"]
           k == [Idle EXCEPT !.pc = "prepare", !.e = e]
<1>1. r \in Receipts /\ r.status = "preparing" /\ r.settlement = "reserved"
  BY DEF Absent, Receipts
<1>2. k \in Commands /\ k.pc = "prepare" /\ k.e = e
  BY DEF Idle, Commands, Steps
<1>3. /\ receipt' = [receipt EXCEPT ![e] = r] /\ cmd' = [cmd EXCEPT ![c] = k] /\ receipt[e].status = "absent"
      /\ UNCHANGED <<lifecycle, attempt, exposures, run, posts>>
  BY DEF NextNew, Nominated, Present, records, provider
<1> HIDE DEF r, k
<1> USE DEF ConfirmationInv
<1>4. /\ \A d \in Cmds : cmd'[d] = IF d = c THEN k ELSE cmd[d]
      /\ \A x \in Ids : receipt'[x] = IF x = e THEN r ELSE receipt[x]
  BY <1>3 DEF ConfirmationTypes
<1>5. ConfirmationTypes'
  BY <1>1, <1>2, <1>3 DEF ConfirmationTypes
<1>6. attempt[e].status = "none" /\ posts[e] = 0
  BY <1>3 DEF AttemptInv
<1>7. ReceiptInv'
  BY <1>1, <1>4 DEF ReceiptInv, Present, terminalExecution, Terminal, Settled
<1>8. AttemptInv' /\ DisclosedInv'
  BY <1>1, <1>3, <1>4, <1>6 DEF AttemptInv, DisclosedInv, Present, Exposed
<1>9. \A d \in Cmds : cmd[d].pc # "idle" => cmd[d].e # e /\ cmd[d].e \in Ids
  BY <1>3 DEF CommandInv, Sound, Fits, Present
<1>10. CommandInv'
  BY <1>1, <1>2, <1>3, <1>4, <1>9 DEF CommandInv, Sound, Present, AfterPost, HasRun, Fits
<1>11. PostInv'
  BY <1>2, <1>3, <1>4, <1>9 DEF PostInv, MayPost, At, Exposed, Present
<1> QED  BY <1>5, <1>7, <1>8, <1>10, <1>11

LEMMA ReconnectStep ==
  ASSUME ConfirmationInv, NEW c \in Cmds, NEW e \in Ids, NEW cancel \in BOOLEAN, Reconnect(c, e, cancel)
  PROVE  ConfirmationInv'
<1> DEFINE k == [Idle EXCEPT !.cancel = cancel, !.e = e,
                             !.pc = IF receipt[e].status = "preparing" THEN "prepare" ELSE "read"]
<1>1. k \in Commands /\ k.e = e /\ k.pc = IF receipt[e].status = "preparing" THEN "prepare" ELSE "read"
  BY DEF Idle, Commands, Steps
<1>2. cmd' = [cmd EXCEPT ![c] = k] /\ Present(e) /\ UNCHANGED <<store, records, provider>>
  BY DEF Reconnect
<1> HIDE DEF k
<1>3. Sound(k) /\ k.pc # "post"
  BY <1>1, <1>2 DEF Sound, AfterPost, HasRun, Fits
<1> QED  BY <1>2, <1>3, OnlyCommand

LEMMA AuthorityStep ==
  ASSUME ConfirmationInv, Authority \/ UNCHANGED vars
  PROVE  ConfirmationInv'
<1>1. /\ UNCHANGED <<receipt, attempt, exposures, run, posts, cmd>>
      /\ lifecycle' \in {lifecycle, "active", "stopped-unmet"}
  BY DEF Authority, Stop, Amend, vars, records, provider
<1> QED
  BY <1>1 DEF ConfirmationInv, ConfirmationTypes, ReceiptInv, AttemptInv, CommandInv, Sound, Fits, PostInv,
              DisclosedInv, MayPost, At, Present, Exposed

LEMMA ConfirmationStep == ConfirmationInv /\ [Next]_vars => ConfirmationInv'
<1> SUFFICES ASSUME ConfirmationInv, [Next]_vars PROVE ConfirmationInv'
  OBVIOUS
<1>1. ASSUME NEW c \in Cmds, Proceed(c) \/ CmdDies(c) PROVE ConfirmationInv'
  <2>1. cmd[c].pc # "idle"
    BY <1>1 DEF Proceed, CmdDies, Prepare, Nominate, Check, Admit, Post, Answer, Answered, Caught, Read,
           Withdraw, Find, Found, Observe, Proofless, Settle, Throws, At
  <2>2. PICK e \in Ids : Knows(c, e)
    BY <2>1, UnderWay
  <2> QED
    BY <1>1, <2>1, <2>2, MovingStep, PrepareStep, NominateStep, RunStep, CaughtStep, WithdrawStep,
       ProoflessStep, SettleStep, AdmitStep, PostStep, ObserveStep DEF Proceed
<1> QED
  BY <1>1, ProvidesStep, NewStep, ReconnectStep, AuthorityStep DEF Next

-----------------------------------------------------------------------------
(* The theorems.                                                           *)
LEMMA Confirmed == Spec => []ConfirmationInv
BY ConfirmationInit, ConfirmationStep, PTL DEF Spec

\* Evidence that counts as independent comes from data no earlier run has
\* seen (verifiedOutcomeConfirmations, confirmationExposures): a run that was
\* dispatched for another action is still open or was disclosed later.
THEOREM EvidenceUnseen == Spec => []IndependentIsUnseen
<1>1. ConfirmationInv => IndependentIsUnseen
  <2> SUFFICES ASSUME ConfirmationInv, NEW e \in Ids, Independent(e), NEW x \in Ids \ {e},
                      posts[x] > 0, ~Exposed(x)
               PROVE  Contains(Tail(exposures), x)
    BY DEF IndependentIsUnseen
  <2>1. posts[x] = 1 /\ exposures \in Seq(Ids)
    BY DEF ConfirmationInv, ConfirmationTypes
  <2>2. Contains(exposures, x)
    BY <2>1 DEF ConfirmationInv, DisclosedInv
  <2>3. PICK i \in 1 .. Len(exposures) : exposures[i] = x
    BY <2>2 DEF Contains
  <2>4. exposures # <<>> /\ Head(exposures) = e /\ x # e
    BY DEF Independent
  <2>5. Head(exposures) = exposures[1] /\ Len(exposures) \in Nat
    BY <2>1, <2>4, HeadTailProperties, LenProperties
  <2>6. i # 1
    BY <2>3, <2>4, <2>5
  <2>7. Len(Tail(exposures)) = Len(exposures) - 1 /\ Tail(exposures)[i - 1] = exposures[i]
        /\ i - 1 \in 1 .. Len(Tail(exposures))
    BY <2>1, <2>3, <2>4, <2>5, <2>6, HeadTailProperties
  <2> QED  BY <2>3, <2>7 DEF Contains
<1> QED  BY <1>1, Confirmed, PTL

-----------------------------------------------------------------------------
(* OutcomeConfirmation implements OneExecution.                            *)
Stage(e)  == IF ~Present(e) THEN "idle" ELSE IF Exposed(e) THEN "reserved" ELSE "released"
Told(e)   == IF terminalExecution(receipt[e]) THEN receipt[e].status ELSE "none"
Stopped   == lifecycle = "stopped-unmet"
SameAs(x) == Stage(x)' = Stage(x) /\ Told(x)' = Told(x)

LEMMA Stutters ==
  ASSUME UNCHANGED posts, UNCHANGED Stopped, \A x \in Ids : SameAs(x)
  PROVE  UNCHANGED Abstract!vars
BY DEF Abstract!vars, Stage, Told, Stopped, SameAs

\* A receipt that is written by a command keeps its reservation or releases it.
LEMMA OneReceipt ==
  ASSUME ConfirmationInv, NEW e \in Ids, Present(e), receipt[e].settlement \notin Settled,
         NEW r \in Receipts, receipt' = [receipt EXCEPT ![e] = r], UNCHANGED <<lifecycle, posts>>,
         r.status # "absent", r.status \in Terminal <=> r.settlement \in Settled
  PROVE  [Abstract!Next]_Abstract!vars
<1>1. /\ \A x \in Ids : receipt'[x] = IF x = e THEN r ELSE receipt[x]
      /\ ~terminalExecution(receipt[e])
  BY DEF ConfirmationInv, ConfirmationTypes, ReceiptInv
<1>2. \A x \in Ids \ {e} : SameAs(x)
  BY <1>1 DEF SameAs, Stage, Told, Present, Exposed
<1>3. Stage(e) = "reserved" /\ Told(e) = "none" /\ UNCHANGED Stopped
  BY <1>1 DEF Stage, Told, Exposed, Stopped
<1>4. CASE r.settlement \notin Settled
  <2>1. Stage(e)' = "reserved" /\ Told(e)' = "none"
    BY <1>1, <1>4 DEF Stage, Told, Present, Exposed, terminalExecution
  <2> QED  BY <1>2, <1>3, <2>1, Stutters DEF SameAs
<1>5. CASE r.settlement \in Settled
  <2>1. Stage(e)' = "released" /\ Told(e)' = r.status /\ r.status \in Terminal
    BY <1>1, <1>5 DEF Stage, Told, Present, Exposed, terminalExecution
  <2>2. Abstract!Release(e, r.status)
    BY <1>2, <1>3, <2>1 DEF Abstract!Release, Stage, Told, SameAs, Stopped
  <2> QED  BY <2>1, <2>2 DEF Abstract!Next, Abstract!Verdicts, Terminal
<1> QED  BY <1>4, <1>5

LEMMA NothingWritten ==
  ASSUME UNCHANGED <<receipt, posts>>, UNCHANGED Stopped
  PROVE  UNCHANGED Abstract!vars
BY Stutters DEF SameAs, Stage, Told, Present, Exposed, Stopped

\* What a command makes of the receipt of its action.
LEMMA CommandWrites ==
  ASSUME ConfirmationInv, NEW c \in Cmds, NEW e \in Ids, Knows(c, e),
         Proceed(c) \/ CmdDies(c), ~Post(c)
  PROVE  /\ UNCHANGED <<lifecycle, posts>>
         /\ \/ UNCHANGED receipt
            \/ /\ receipt[e].settlement \notin Settled
               /\ \E r \in Receipts : /\ receipt' = [receipt EXCEPT ![e] = r] /\ r.status # "absent"
                                      /\ r.status \in Terminal <=> r.settlement \in Settled
<1> DEFINE Goal == /\ UNCHANGED <<lifecycle, posts>>
                   /\ \/ UNCHANGED receipt
                      \/ /\ receipt[e].settlement \notin Settled
                         /\ \E r \in Receipts : /\ receipt' = [receipt EXCEPT ![e] = r] /\ r.status # "absent"
                                                /\ r.status \in Terminal <=> r.settlement \in Settled
<1>1. receipt \in [Ids -> Receipts]
  BY DEF ConfirmationInv, ConfirmationTypes
<1>2. ~terminalExecution(receipt[e]) => receipt[e].settlement \notin Settled
  BY DEF Knows, terminalExecution
<1>3. ASSUME NEW s \in Terminal \cup {"unknown"}, NEW kind \in Settled \cup {"unknown"},
             s \in Terminal <=> kind \in Settled, receipt[e].settlement \notin Settled,
             Set(e, Closed(receipt[e], s, kind)), UNCHANGED posts
      PROVE  Goal
  <2>1. /\ Closed(receipt[e], s, kind) \in Receipts /\ s # "absent"
        /\ Closed(receipt[e], s, kind).status = s /\ Closed(receipt[e], s, kind).settlement = kind
    BY <1>3, ClosedIs DEF Knows, Terminal
  <2> QED  BY <1>3, <2>1 DEF Set
<1>4. CASE \/ Nominate(c) \/ Check(c) \/ Admit(c) \/ Answer(c) \/ Answered(c) \/ Read(c) \/ Find(c)
           \/ Found(c) \/ Observe(c) \/ Throws(c) \/ CmdDies(c)
  BY <1>4 DEF Nominate, Check, Admit, Answer, Answered, Read, Find, Found, Observe, Throws, CmdDies, store, provider
<1>5. CASE Caught(c)
  <2>1. /\ UNCHANGED posts
        /\ \/ UNCHANGED store
           \/ ~terminalExecution(receipt[e]) /\ Set(e, Closed(receipt[e], "failed", "measured"))
           \/ ~terminalExecution(receipt[e]) /\ Set(e, Closed(receipt[e], "unknown", "unknown"))
    BY <1>5 DEF Caught, Knows, provider
  <2> QED  BY <1>2, <1>3, <2>1 DEF Terminal, Settled, store
<1>6. CASE Withdraw(c)
  <2>1. /\ UNCHANGED posts
        /\ \/ UNCHANGED store
           \/ ~terminalExecution(receipt[e]) /\ Set(e, Closed(receipt[e], "cancelled", "measured"))
    BY <1>6 DEF Withdraw, Knows, provider
  <2> QED  BY <1>2, <1>3, <2>1 DEF Terminal, Settled, store
<1>7. CASE Proofless(c)
  <2>1. UNCHANGED posts /\ \/ UNCHANGED store
                           \/ /\ receipt[e].settlement \notin Settled
                              /\ Set(e, Closed(receipt[e], "unknown", "unknown"))
    BY <1>7 DEF Proofless, Knows, provider, MayForget
  <2> QED  BY <1>3, <2>1 DEF Terminal, Settled, store
<1>8. CASE Settle(c)
  <2>1. UNCHANGED posts /\ \/ UNCHANGED store
                           \/ /\ ~terminalExecution(receipt[e])
                              /\ \E s \in {"completed", "failed"}, kind \in Settled :
                                   Set(e, Closed(receipt[e], s, kind))
    BY <1>8 DEF Settle, Knows, provider, Settled
  <2> QED  BY <1>2, <1>3, <2>1 DEF Terminal, store
<1>9. CASE Prepare(c)
  <2>1. UNCHANGED posts /\ \/ Set(e, Prepared(receipt[e])) \/ Set(e, Unprepared(receipt[e]))
    BY <1>9 DEF Prepare, Knows, provider
  <2>2. CASE receipt[e].status # "preparing"
    BY <1>1, <2>1, <2>2 DEF Set, Prepared, Unprepared
  <2>3. CASE receipt[e].status = "preparing"
    <3>1. ~terminalExecution(receipt[e]) /\ Unprepared(receipt[e]) = Closed(receipt[e], "failed", "measured")
      BY <2>3 DEF terminalExecution, Terminal, Unprepared
    <3>2. CASE Set(e, Prepared(receipt[e]))
      <4>1. /\ Prepared(receipt[e]) \in Receipts /\ Prepared(receipt[e]).status = "launching"
            /\ Prepared(receipt[e]).settlement \notin Settled
        BY <1>2, <2>3, <3>1, PreparedIs DEF Knows
      <4> QED  BY <1>2, <2>1, <3>1, <3>2, <4>1 DEF Set, Terminal
    <3>3. CASE Set(e, Unprepared(receipt[e]))
      BY <1>2, <1>3, <2>1, <3>1, <3>3 DEF Terminal, Settled
    <3> QED  BY <2>1, <3>2, <3>3
  <2> QED  BY <2>2, <2>3
<1> QED  BY <1>4, <1>5, <1>6, <1>7, <1>8, <1>9 DEF Proceed

LEMMA ReserveStep ==
  ASSUME ConfirmationInv, NEW c \in Cmds, NEW e \in Ids, NextNew(c, e)
  PROVE  Abstract!Next
<1>1. /\ UNCHANGED <<lifecycle, posts>> /\ lifecycle = "active" /\ ~Present(e)
      /\ receipt' = [receipt EXCEPT ![e] = [Absent EXCEPT !.mode = "github-actions",
                                                          !.status = "preparing", !.settlement = "reserved"]]
      /\ \A x \in Ids : Present(x) => terminalExecution(receipt[x])
  BY DEF NextNew, Nominated, MayNominate, provider
<1>2. \A x \in Ids : Present(x) => ~Exposed(x)
  BY <1>1 DEF ConfirmationInv, ReceiptInv, Exposed
<1>3. \A x \in Ids \ {e} : receipt'[x] = receipt[x]
  BY <1>1 DEF ConfirmationInv, ConfirmationTypes
<1>4. receipt'[e].status = "preparing" /\ receipt'[e].settlement = "reserved"
  BY <1>1 DEF ConfirmationInv, ConfirmationTypes, Absent
<1>5. receipt[e].status = "absent"
  BY <1>1 DEF Present
<1>6. Stage(e) = "idle" /\ Stage(e)' = "reserved" /\ Told(e) = "none" /\ Told(e)' = "none"
  BY <1>4, <1>5 DEF Stage, Told, Present, Exposed, terminalExecution, Terminal, Settled
<1>7. \A x \in Ids \ {e} : SameAs(x)
  BY <1>3 DEF SameAs, Stage, Told, Present, Exposed
<1>8. \A x \in Ids : Stage(x) # "reserved"
  BY <1>2 DEF Stage, Exposed
<1>9. Abstract!Reserve(e)
  BY <1>1, <1>6, <1>7, <1>8 DEF Abstract!Reserve, Stage, Told, SameAs
<1> QED  BY <1>9 DEF Abstract!Next

LEMMA BeginStep ==
  ASSUME ConfirmationInv, NEW c \in Cmds, NEW e \in Ids, Knows(c, e), Post(c)
  PROVE  Abstract!Next
<1>1. /\ UNCHANGED <<receipt, lifecycle>> /\ posts' = [posts EXCEPT ![e] = posts[e] + 1] /\ MayPost(e)
  BY DEF Post, Knows, At, store
<1>2. posts[e] = 0 /\ posts' = [posts EXCEPT ![e] = 1] /\ Stage(e) = "reserved"
  BY <1>1 DEF MayPost, Stage, Exposed
<1>3. \A x \in Ids : SameAs(x)
  BY <1>1 DEF SameAs, Stage, Told, Present, Exposed
<1>4. Abstract!Begin(e)
  BY <1>1, <1>2, <1>3 DEF Abstract!Begin, Stage, Told, SameAs
<1> QED  BY <1>4 DEF Abstract!Next

LEMMA AuthorityMoves ==
  ASSUME ConfirmationInv, Authority
  PROVE  Abstract!Next
<1>1. UNCHANGED <<receipt, posts>> /\ NothingOutstanding /\ lifecycle' \in {"active", "stopped-unmet"}
  BY DEF Authority, Stop, Amend, provider
<1>2. \A x \in Ids : SameAs(x) /\ Stage(x) # "reserved"
  BY <1>1 DEF SameAs, Stage, Told, Present, Exposed, NothingOutstanding
<1>3. CASE lifecycle' = "stopped-unmet"
  BY <1>1, <1>2, <1>3 DEF Abstract!Stop, Abstract!Next, Stage, Told, SameAs
<1>4. CASE lifecycle' = "active"
  BY <1>1, <1>2, <1>4 DEF Abstract!Amend, Abstract!Next, Stage, Told, SameAs
<1> QED  BY <1>1, <1>3, <1>4

LEMMA PromiseStep == ConfirmationInv /\ [Next]_vars => [Abstract!Next]_Abstract!vars
<1> SUFFICES ASSUME ConfirmationInv, [Next]_vars PROVE [Abstract!Next]_Abstract!vars
  OBVIOUS
<1>1. ASSUME NEW c \in Cmds, Proceed(c) \/ CmdDies(c) PROVE [Abstract!Next]_Abstract!vars
  <2>1. cmd[c].pc # "idle"
    BY <1>1 DEF Proceed, CmdDies, Prepare, Nominate, Check, Admit, Post, Answer, Answered, Caught, Read,
           Withdraw, Find, Found, Observe, Proofless, Settle, Throws, At
  <2>2. PICK e \in Ids : Knows(c, e)
    BY <2>1, UnderWay
  <2>3. CASE Post(c)
    BY <2>2, <2>3, BeginStep
  <2>4. CASE ~Post(c)
    <3>1. Present(e)
      BY <2>2 DEF Knows
    <3> QED  BY <1>1, <2>2, <2>4, <3>1, CommandWrites, OneReceipt, NothingWritten DEF Stopped
  <2> QED  BY <2>3, <2>4
<1>2. ASSUME NEW e \in Ids, \/ Provides(e)
                            \/ \E c \in Cmds, cancel \in BOOLEAN : Reconnect(c, e, cancel)
      PROVE  UNCHANGED Abstract!vars
  BY <1>2, NothingWritten DEF Provides, Reconnect, store, provider, Stopped
<1>3. CASE UNCHANGED vars
  BY <1>3, NothingWritten DEF vars, Stopped
<1> QED
  BY <1>1, <1>2, <1>3, ReserveStep, AuthorityMoves DEF Next

\* However many commands resume, cancel or repeat it over what they read
\* earlier, a confirmation is dispatched at most once and only while its
\* reservation stands, and is released once with one verdict
\* (dispatchOutcomeConfirmation, reconcileOutcomeConfirmation).
THEOREM KeepsItsPromise == Spec => KeepsPromise
<1>1. Init => Abstract!Init
  BY DEF Init, StoreInit, Absent, Abstract!Init, Present, Exposed, terminalExecution, Terminal
<1> QED  BY <1>1, Confirmed, PromiseStep, PTL DEF Spec, KeepsPromise, Abstract!Spec
=============================================================================
