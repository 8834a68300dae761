----------------------- MODULE CommandProtocolProofs -----------------------
(***************************************************************************)
(* Theorems about CommandProtocol for any number of edits and deaths.      *)
(***************************************************************************)
EXTENDS CommandProtocol, TLAPS

(* No diagnostic blocks mutate-session: the session-wide ones leave it to  *)
(* their recovery command, so it is restricted by exactly these            *)
(* (compileCapabilities over the registry).                                *)
LEMMA SessionWideRestrict ==
  ASSUME NEW codes
  PROVE  Restricting(codes, "mutate-session") = codes \cap SessionWide
<1>1. ASSUME NEW c PROVE "mutate-session" \notin Blocked(c)
  BY DEF Blocked, Capabilities
<1>2. ASSUME NEW c PROVE "mutate-session" \in RecoveryOnly(c) <=> c \in SessionWide
  BY DEF RecoveryOnly, SessionWide, ContractPending
<1>3. {c \in codes : "mutate-session" \in Blocked(c)} = {}
  BY <1>1
<1>4. {c \in codes : "mutate-session" \in RecoveryOnly(c)} = codes \cap SessionWide
  BY <1>2
<1> QED  BY <1>3, <1>4 DEF Restricting

(* Every diagnostic of the whole session that an admitted command finds is *)
(* its own to recover (recoveryCoversCapabilityRestrictions).              *)
LEMMA AdmittedRecovers ==
  ASSUME NEW command, NEW codes, NEW owned,
         Admits(command, codes, owned)
  PROVE  codes \cap SessionWide \subseteq
           Recovers(command) \cup (IF command \in LogRequests THEN owned ELSE {})
<1>1. \/ Allowed(codes, "mutate-session")
      \/ Covers(command, codes, owned, "mutate-session")
  BY DEF Admits
<1>2. Restricting(codes, "mutate-session") = codes \cap SessionWide
  BY SessionWideRestrict
<1>3. CASE Allowed(codes, "mutate-session")
  BY <1>2, <1>3 DEF Allowed
<1>4. CASE Covers(command, codes, owned, "mutate-session")
  BY <1>2, <1>4 DEF Covers
<1> QED  BY <1>1, <1>3, <1>4

(* A pending log receipt, consistent or not, admits nothing but a log.     *)
THEOREM PendingAdmitsLogs ==
  ASSUME NEW command \in Commands, NEW codes, NEW owned,
         codes \cap {"pending-log-transaction",
                     "pending-log-transaction-inconsistent"} # {},
         Admits(command, codes, owned)
  PROVE  command \in LogRequests
<1>1. PICK code \in codes : code \in {"pending-log-transaction",
                                      "pending-log-transaction-inconsistent"}
  OBVIOUS
<1>2. code \in SessionWide
  BY <1>1 DEF SessionWide
<1>3. SUFFICES ASSUME command \notin LogRequests PROVE FALSE
  OBVIOUS
<1>4. code \in Recovers(command)
  BY <1>1, <1>2, <1>3, AdmittedRecovers
<1>5. code \notin Recovers(command)
  BY <1>1, <1>3 DEF Recovers, LogRequests, ContractPending, OutcomeResumes
<1> QED  BY <1>4, <1>5

(* A damaged ledger beside the evidence of a process that was not proven   *)
(* dead admits no command at all, the two recovery commands included,      *)
(* unless the damage is the torn event of the pending receipt.             *)
THEOREM TwoDamagesAdmitNothing ==
  ASSUME NEW command \in Commands, NEW codes, NEW owned,
         {"ledger-integrity", "process-integrity"} \subseteq codes,
         "process-integrity" \notin owned
  PROVE  ~Admits(command, codes, owned)
<1>1. SUFFICES ASSUME Admits(command, codes, owned) PROVE FALSE
  OBVIOUS
<1>2. {"ledger-integrity", "process-integrity"} \subseteq
        Recovers(command) \cup (IF command \in LogRequests THEN owned ELSE {})
  BY <1>1, AdmittedRecovers DEF SessionWide
<1>3. "process-integrity" \in Recovers(command) => command = "process-recover"
  BY DEF Recovers, LogRequests, ContractPending, OutcomeResumes
<1>4. "ledger-integrity" \notin Recovers("process-recover")
  BY DEF Recovers, LogRequests, ContractPending, OutcomeResumes
<1>5. command \notin LogRequests
  <2>1. "process-integrity" \in Recovers(command)
    BY <1>2
  <2> QED  BY <2>1, <1>3 DEF LogRequests
<1> QED  BY <1>2, <1>3, <1>4, <1>5

-----------------------------------------------------------------------------
(* The inductive invariant.  A receipt and a contract that is still to be  *)
(* accepted never meet: acceptance comes before every handler but that of  *)
(* new-segment, and under a receipt only a log gets past the admission.    *)
Working == cmd.phase \in {"accept", "work", "running"}

ProtocolInv ==
  /\ IsPending => contract # "derivable"
  /\ IsPending /\ Working => cmd.kind \in LogRequests
  /\ cmd.phase = "accept" => contract = "derivable"
  /\ cmd.phase = "work" /\ contract = "derivable" => cmd.kind = "new-segment"
  /\ cmd.phase \in {"begun", "accept"} => ~cmd.touched
  /\ RefusedIsUntouched

LEMMA InitType == Init => TypeOK
<1> SUFFICES ASSUME Init PROVE TypeOK
  OBVIOUS
<1>1. ledger \in Ledgers /\ pending \in Receipts /\ packet \in Packets
  BY DEF Init, Ledgers, Packets, Receipts
<1>2. drift \in BOOLEAN /\ dirty \in BOOLEAN /\ alive \in BOOLEAN
  BY Zenon DEF Init
<1>3. edits \in 0 .. MaxEdits /\ deaths \in 0 .. MaxDeaths
  BY ProtocolBounds DEF Init
<1>4. /\ head \in {"expected", "kept", "foreign"} /\ route \in {1, 2}
      /\ contract \in {"none", "derivable", "accepted"}
      /\ marker \in {"none", "running", "failed"}
      /\ cmd \in Held \cup {Idle} /\ answer \in Answers \cup {NoAnswer}
  BY DEF Init
<1> QED  BY <1>1, <1>2, <1>3, <1>4 DEF TypeOK

LEMMA HeldInPhase ==
  ASSUME TypeOK, cmd.phase \in Phases
  PROVE  cmd \in Held
BY DEF TypeOK, Idle, Phases

LEMMA GotoHeld ==
  ASSUME cmd \in Held, NEW phase \in Phases, Goto(phase)
  PROVE  /\ cmd' \in Held /\ cmd'.kind = cmd.kind
         /\ cmd'.phase = phase /\ cmd'.touched = cmd.touched
BY DEF Held, Goto

LEMMA TouchHeld ==
  ASSUME cmd \in Held, NEW phase \in Phases, Touch(phase)
  PROVE  /\ cmd' \in Held /\ cmd'.kind = cmd.kind
         /\ cmd'.phase = phase /\ cmd'.touched
BY DEF Held, Touch

LEMMA AgedPacket ==
  ASSUME packet \in Packets
  PROVE  Aged \in Packets
<1>1. CASE packet = NoPacket
  <2>1. ~Fresh /\ Aged = packet
    BY <1>1 DEF Fresh, Aged, NoPacket
  <2> QED  BY <2>1
<1>2. CASE packet \in [at : {"fresh", "stale"}, keep : BOOLEAN, flagged : BOOLEAN]
  BY <1>2 DEF Aged, Packets
<1> QED  BY <1>1, <1>2 DEF Packets

\* The types of everything but the command and its answer.
StateType ==
  /\ ledger \in Ledgers /\ pending \in Receipts /\ head \in {"expected", "kept", "foreign"}
  /\ contract \in {"none", "derivable", "accepted"} /\ drift \in BOOLEAN
  /\ packet \in Packets /\ dirty \in BOOLEAN
  /\ marker \in {"none", "running", "failed"} /\ alive \in BOOLEAN

WorldType == route \in {1, 2} /\ edits \in 0 .. MaxEdits /\ deaths \in 0 .. MaxDeaths

LEMMA TypeParts ==
  TypeOK <=> /\ StateType /\ WorldType
             /\ cmd \in Held \cup {Idle} /\ answer \in Answers \cup {NoAnswer}
BY DEF TypeOK, StateType, WorldType

LEMMA SameType ==
  /\ StateType /\ UNCHANGED state => StateType'
  /\ WorldType /\ UNCHANGED world => WorldType'
BY DEF StateType, WorldType, state, world

(* The session keeps its types, action by action.                          *)
LEMMA StateTypeStep == TypeOK /\ [Next]_vars => StateType'
<1> SUFFICES ASSUME TypeOK, StateType, [Next]_vars PROVE StateType'
  BY TypeParts
<1>1. Aged \in Packets
  BY AgedPacket DEF StateType
<1>2. CASE Accept
  BY <1>2 DEF Accept, StateType
<1>3. CASE Launch
  BY <1>3 DEF Launch, Throws, state, StateType
<1>4. CASE Measured
  BY <1>4 DEF Measured, Packets, StateType
<1>5. CASE Prepare
  BY <1>5 DEF Prepare, IsLog, Throws, state, Receipts, StateType
<1>6. CASE Reject
  BY <1>6 DEF Reject, Throws, state, StateType
<1>7. CASE Commit
  BY <1>7, <1>1 DEF Commit, StateType
<1>8. CASE RecordCommit
  BY <1>8 DEF RecordCommit, Receipts, NoReceipt, StateType
<1>9. CASE Append
  BY <1>9, <1>1 DEF Append, Receipts, Ledgers, AppendsNow, NoReceipt, StateType
<1>10. CASE CleanUp
  BY <1>10 DEF CleanUp, Packets, Receipts, StateType
<1>11. CASE LedgerDoctor
  BY <1>11 DEF LedgerDoctor, Ledgers, StateType
<1>12. CASE ProcessRecover
  BY <1>12 DEF ProcessRecover, Throws, state, StateType
<1>13. CASE NewSegment
  BY <1>13, <1>1 DEF NewSegment, Throws, state, StateType
<1>14. CASE AcceptSegment
  BY <1>14 DEF AcceptSegment, StateType
<1>15. CASE Setup
  BY <1>15, <1>1 DEF Setup, Throws, state, StateType
<1>16. CASE Clear
  BY <1>16 DEF Clear, Throws, state, Packets, Receipts, Ledgers, StateType
<1>17. CASE RunProcess
  BY <1>17 DEF RunProcess, Throws, state, StateType
<1>18. CASE Dies
  BY <1>18 DEF Dies, Ledgers, Unreadable, StateType
<1>19. CASE EditLedger
  BY <1>19 DEF EditLedger, Ledgers, Unreadable, StateType
<1>20. CASE EditTree
  BY <1>20, <1>1 DEF EditTree, StateType
<1>21. CASE TreeEnds
  BY <1>21 DEF TreeEnds, StateType
<1>22. ASSUME NEW command \in Commands, Begin(command) PROVE StateType'
  BY <1>22, SameType DEF Begin
<1>23. CASE Refuse \/ Load \/ AnswerFailed \/ AnswerResult \/ Reroute \/ UNCHANGED vars
  <2>1. UNCHANGED state
    BY <1>23 DEF Refuse, Load, AnswerFailed, AnswerResult, Reroute, vars
  <2> QED  BY <2>1, SameType
<1> QED
  BY <1>2, <1>3, <1>4, <1>5, <1>6, <1>7, <1>8, <1>9, <1>10, <1>11, <1>12, <1>13, <1>14, <1>15, <1>16, <1>17, <1>18, <1>19, <1>20, <1>21, <1>22, <1>23 DEF Next, Command, Handler, User

LEMMA WorldTypeStep == TypeOK /\ [Next]_vars => WorldType'
<1> SUFFICES ASSUME WorldType, [Next]_vars PROVE WorldType'
  BY TypeParts
<1>1. CASE Dies
  BY <1>1, ProtocolBounds DEF Dies, WorldType
<1>2. CASE EditLedger
  BY <1>2, ProtocolBounds DEF EditLedger, Edit, WorldType
<1>3. CASE EditTree
  BY <1>3, ProtocolBounds DEF EditTree, Edit, WorldType
<1>4. CASE Reroute
  BY <1>4, ProtocolBounds DEF Reroute, Edit, WorldType
<1>5. CASE Handler
  <2>1. UNCHANGED world
    BY <1>5 DEF Handler, Launch, Measured, Prepare, Reject, Commit, RecordCommit, Append,
         CleanUp, LedgerDoctor, ProcessRecover, NewSegment, AcceptSegment, Setup, Clear,
         RunProcess, Throws, Same
  <2> QED  BY <2>1, SameType
<1>6. ASSUME NEW command \in Commands, Begin(command) PROVE WorldType'
  BY <1>6, SameType DEF Begin
<1>7. CASE \/ Refuse \/ Load \/ Accept \/ AnswerFailed \/ AnswerResult
         \/ TreeEnds \/ UNCHANGED vars
  <2>1. UNCHANGED world
    BY <1>7 DEF Refuse, Load, Accept, AnswerFailed, AnswerResult, TreeEnds, Same, vars
  <2> QED  BY <2>1, SameType
<1> QED
  BY <1>1, <1>2, <1>3, <1>4, <1>5, <1>6, <1>7 DEF Next, Command, User

\* What a handler's step leaves of the command: its kind, a later phase, and
\* the answer of the command before it.
LEMMA HandlerHolds ==
  ASSUME TypeOK, Handler
  PROVE  /\ cmd \in Held /\ cmd' \in Held /\ cmd'.kind = cmd.kind
         /\ cmd.phase \in {"work", "running"}
         /\ cmd'.phase \in {"work", "running", "failed", "result"}
         /\ answer' = answer
<1>1. /\ cmd.phase \in {"work", "running"} /\ answer' = answer
  BY DEF Handler, Launch, Measured, Prepare, Reject, Stage, Commit, RecordCommit, Append,
         CleanUp, LedgerDoctor, ProcessRecover, NewSegment, AcceptSegment, Setup, Clear,
         RunProcess, IsLog, Throws, Same
<1>2. cmd \in Held
  BY <1>1, HeldInPhase DEF Phases
<1>3. \/ \E phase \in {"work", "running", "failed", "result"} : Goto(phase) \/ Touch(phase)
      \/ LedgerDoctor
  BY DEF Handler, Launch, Measured, Prepare, Reject, Commit, RecordCommit, Append,
         CleanUp, ProcessRecover, NewSegment, AcceptSegment, Setup, Clear, RunProcess, Throws
<1>4. CASE LedgerDoctor
  <2>1. (cmd.touched \/ ledger = "duplicate") \in BOOLEAN
    BY <1>2 DEF Held
  <2> QED  BY <1>1, <1>2, <1>4, <2>1 DEF LedgerDoctor, Held, Phases
<1>5. ASSUME NEW phase \in {"work", "running", "failed", "result"}, Goto(phase) \/ Touch(phase)
      PROVE  cmd' \in Held /\ cmd'.kind = cmd.kind /\ cmd'.phase = phase
  BY <1>2, <1>5, GotoHeld, TouchHeld DEF Phases
<1> QED  BY <1>1, <1>2, <1>3, <1>4, <1>5

\* Only a log takes more than one step in its working phase.
LEMMA OnlyLogsStay ==
  ASSUME TypeOK, Handler, cmd'.phase = "work"
  PROVE  IsLog
<1>1. SUFFICES ASSUME ~IsLog PROVE FALSE
  OBVIOUS
<1>2. cmd \in Held
  BY HandlerHolds
<1>3. CASE LedgerDoctor
  BY <1>2, <1>3 DEF LedgerDoctor, Held
<1>4. CASE ~LedgerDoctor
  <2>1. \E phase \in {"running", "failed", "result"} : Goto(phase) \/ Touch(phase)
    BY <1>1, <1>4 DEF Handler, Launch, Measured, Prepare, Reject, Stage, Commit, RecordCommit,
       Append, CleanUp, ProcessRecover, NewSegment, AcceptSegment, Setup, Clear, RunProcess, Throws
  <2> QED  BY <1>2, <2>1, GotoHeld, TouchHeld DEF Phases
<1> QED  BY <1>3, <1>4

LEMMA CmdTypeStep ==
  TypeOK /\ [Next]_vars => cmd' \in Held \cup {Idle} /\ answer' \in Answers \cup {NoAnswer}
<1> SUFFICES ASSUME TypeOK, [Next]_vars
             PROVE  cmd' \in Held \cup {Idle} /\ answer' \in Answers \cup {NoAnswer}
  OBVIOUS
<1> USE TypeParts
<1>1. ASSUME NEW command \in Commands, Begin(command)
      PROVE  cmd' \in Held /\ answer' = answer
  BY <1>1 DEF Begin, Held, Idle, Phases, WorldType
<1>2. CASE Refuse \/ AnswerFailed \/ AnswerResult
  <2>1. cmd \in Held
    BY <1>2, HeldInPhase DEF Refuse, AnswerFailed, AnswerResult, Phases
  <2>2. cmd' = Idle
    BY <1>2 DEF Refuse, AnswerFailed, AnswerResult
  <2>3. cmd.touched \in BOOLEAN
    BY <2>1 DEF Held
  <2>4. answer' \in Answers
    <3>1. CASE Refuse
      BY <2>3, <3>1 DEF Refuse, Answers
    <3>2. CASE AnswerFailed
      BY <2>3, <3>2 DEF AnswerFailed, Answers
    <3>3. CASE AnswerResult
      BY <2>3, <3>3 DEF AnswerResult, Answers
    <3> QED  BY <1>2, <3>1, <3>2, <3>3
  <2> QED  BY <2>2, <2>4
<1>3. CASE Load \/ Accept
  <2>1. cmd \in Held
    BY <1>3, HeldInPhase DEF Load, Accept, Phases
  <2>2. \E phase \in {"accept", "work"} : Goto(phase) \/ Touch(phase)
    BY <1>3 DEF Load, Accept
  <2>3. cmd' \in Held
    BY <2>1, <2>2, GotoHeld, TouchHeld DEF Phases
  <2>4. answer' = answer
    BY <1>3 DEF Load, Accept, Same
  <2> QED  BY <2>3, <2>4
<1>4. CASE Handler
  BY <1>4, HandlerHolds
<1>5. CASE Dies
  BY <1>5 DEF Dies
<1>6. CASE User \/ TreeEnds \/ UNCHANGED vars
  BY <1>6 DEF User, EditLedger, EditTree, Reroute, Edit, TreeEnds, vars
<1> QED
  BY <1>1, <1>2, <1>3, <1>4, <1>5, <1>6 DEF Next, Command

(* Every variable of the protocol keeps its type.                          *)
THEOREM TypeCorrect == Spec => []TypeOK
<1>1. Init => TypeOK
  BY InitType
<1>2. TypeOK /\ [Next]_vars => TypeOK'
  BY TypeParts, StateTypeStep, WorldTypeStep, CmdTypeStep DEF TypeOK, StateType, WorldType
<1> QED  BY <1>1, <1>2, PTL DEF Spec

\* Under a receipt every session-wide diagnostic list names it.
LEMMA PendingDiagnosed ==
  IsPending => Diagnostics \cap {"pending-log-transaction",
                                 "pending-log-transaction-inconsistent"} # {}
<1>1. IsPending => \/ "pending-log-transaction" \in When(Consistent, "pending-log-transaction")
                   \/ "pending-log-transaction-inconsistent" \in
                        When(IsPending /\ ~Consistent, "pending-log-transaction-inconsistent")
  BY DEF When
<1>2. /\ When(Consistent, "pending-log-transaction") \subseteq Diagnostics
      /\ When(IsPending /\ ~Consistent, "pending-log-transaction-inconsistent")
           \subseteq Diagnostics
  BY DEF Diagnostics
<1> QED  BY <1>1, <1>2

LEMMA InitInv == Init => ProtocolInv
BY DEF Init, ProtocolInv, IsPending, Working, Idle, NoAnswer, RefusedIsUntouched

(* A step of a command keeps the invariant: one step per action.           *)
LEMMA InvStep == TypeOK /\ TypeOK' /\ ProtocolInv /\ [Next]_vars => ProtocolInv'
<1> SUFFICES ASSUME TypeOK, TypeOK', ProtocolInv, [Next]_vars PROVE ProtocolInv'
  OBVIOUS
<1> USE DEF ProtocolInv, IsPending, Working, RefusedIsUntouched
<1>1. ASSUME NEW command \in Commands, Begin(command) PROVE ProtocolInv'
  <2>1. cmd'.phase = "begun" /\ cmd'.touched = FALSE
    BY <1>1 DEF Begin, Idle
  <2>2. UNCHANGED <<pending, contract, answer>>
    BY <1>1 DEF Begin, state
  <2> QED  BY <2>1, <2>2
<1>2. CASE Refuse \/ AnswerFailed \/ AnswerResult
  <2>1. cmd'.phase = "idle" /\ UNCHANGED <<pending, contract>>
    BY <1>2 DEF Refuse, AnswerFailed, AnswerResult, Idle, state
  <2>2. answer'.touched => answer'.receipt /\ answer'.says # "refused"
    BY <1>2 DEF Refuse, AnswerFailed, AnswerResult
  <2> QED  BY <2>1, <2>2
<1>3. CASE Load
  <2>1. cmd \in Held /\ cmd.phase = "begun" /\ Accepted /\ UNCHANGED <<pending, contract, answer>>
    BY <1>3, HeldInPhase DEF Load, Phases, state, Same
  <2>2. IsPending => cmd.kind \in LogRequests
    BY <2>1, PendingDiagnosed, PendingAdmitsLogs DEF Accepted, Held
  <2>3. cmd'.kind = cmd.kind /\ cmd'.touched = cmd.touched
    BY <1>3, <2>1, GotoHeld DEF Load, Phases
  <2>4. cmd'.phase = IF contract = "derivable" /\ Needs(cmd.kind) # {"transition-segment"}
                       THEN "accept" ELSE "work"
    BY <1>3, <2>1, GotoHeld DEF Load, Phases
  <2>5. Needs(cmd.kind) = {"transition-segment"} => cmd.kind = "new-segment"
    BY DEF Needs
  <2> QED  BY <2>1, <2>2, <2>3, <2>4, <2>5
<1>4. CASE Accept
  <2>1. cmd \in Held
    BY <1>4, HeldInPhase DEF Accept, Phases
  <2>2. cmd'.kind = cmd.kind /\ cmd'.phase = "work"
    BY <1>4, <2>1, TouchHeld DEF Accept, Phases
  <2>3. contract' = "accepted" /\ UNCHANGED <<pending, answer>>
    BY <1>4 DEF Accept, Same
  <2> QED  BY <1>4, <2>2, <2>3 DEF Accept
<1>5. CASE Handler
  <2>1. /\ cmd'.kind = cmd.kind /\ cmd'.phase \in {"work", "running", "failed", "result"}
        /\ cmd.phase \in {"work", "running"} /\ answer' = answer
    BY <1>5, HandlerHolds
  <2>2. cmd'.phase = "work" => cmd.phase = "work" /\ cmd.kind \in LogRequests
    BY <1>5, OnlyLogsStay DEF IsLog
  <2>3. CASE Launch
    BY <2>1, <2>3 DEF Launch, LogRequests, Throws, state
  <2>4. CASE Prepare
    BY <2>1, <2>4, HeldInPhase DEF Prepare, IsLog, LogRequests, NoReceipt, Throws, state
  <2>5. CASE RecordCommit \/ Append \/ CleanUp
    BY <2>1, <2>5 DEF RecordCommit, Append, CleanUp, Stage, IsLog, LogRequests
  <2>6. CASE NewSegment \/ AcceptSegment \/ Setup \/ Clear
    <3>1. cmd.kind \notin LogRequests
      BY <2>6 DEF NewSegment, AcceptSegment, Setup, Clear, LogRequests
    <3>2. ~IsPending /\ (pending' = NoReceipt \/ UNCHANGED pending)
      BY <2>1, <2>6, <3>1 DEF NewSegment, AcceptSegment, Setup, Clear, Throws, state
    <3> QED  BY <2>1, <2>2, <3>1, <3>2
  <2>7. CASE Measured \/ Reject \/ Commit \/ LedgerDoctor \/ ProcessRecover \/ RunProcess
    <3>1. UNCHANGED <<pending, contract>>
      BY <2>7 DEF Measured, Reject, Commit, LedgerDoctor, ProcessRecover, RunProcess,
                  Throws, state
    <3> QED  BY <2>1, <2>2, <3>1
  <2> QED
    BY <1>5, <2>3, <2>4, <2>5, <2>6, <2>7 DEF Handler
<1>6. CASE Dies
  <2>1. cmd'.phase = "idle" /\ UNCHANGED <<pending, contract, answer>>
    BY <1>6 DEF Dies, Idle
  <2> QED  BY <2>1
<1>7. CASE User \/ TreeEnds \/ UNCHANGED vars
  <2>1. UNCHANGED <<cmd, pending, contract, answer>>
    BY <1>7 DEF User, EditLedger, EditTree, Reroute, Edit, TreeEnds, vars, state
  <2> QED  BY <2>1
<1> HIDE DEF ProtocolInv
<1> QED
  BY <1>1, <1>2, <1>3, <1>4, <1>5, <1>6, <1>7 DEF Next, Command

(* A refused command has changed nothing, and a command that changed the   *)
(* session answers with a receipt (runCommandDecisionProtocol).            *)
THEOREM RefusalsAreClean == Spec => []RefusedIsUntouched
<1>1. Init => TypeOK /\ ProtocolInv
  BY InitType, InitInv
<1>2. TypeOK /\ ProtocolInv /\ [Next]_vars => (TypeOK /\ ProtocolInv)'
  BY InvStep, TypeParts, StateTypeStep, WorldTypeStep, CmdTypeStep
     DEF TypeOK, StateType, WorldType
<1>3. ProtocolInv => RefusedIsUntouched
  BY DEF ProtocolInv
<1> QED  BY <1>1, <1>2, <1>3, PTL DEF Spec

(* Under a receipt, a step that changes the session is one of the log that *)
(* the receipt belongs to, of the user, or the end of a process tree.      *)
LEMMA OwnedStep ==
  ASSUME TypeOK, ProtocolInv, [Next]_vars, IsPending, cmd # Idle, state' # state
  PROVE  cmd.kind = pending.request \/ User \/ TreeEnds
<1> USE DEF ProtocolInv, Working
<1>1. CASE Accept
  BY <1>1 DEF Accept
<1>2. CASE Handler
  <2>1. cmd.kind \in LogRequests
    BY <1>2, HandlerHolds
  <2>2. CASE Prepare \/ Reject
    BY <2>2 DEF Prepare, Reject, Throws
  <2>3. CASE Commit \/ RecordCommit \/ Append \/ CleanUp
    BY <2>3 DEF Commit, RecordCommit, Append, CleanUp, Stage, Resumable
  <2>4. ~(\/ Launch \/ Measured \/ LedgerDoctor \/ ProcessRecover \/ NewSegment
          \/ AcceptSegment \/ Setup \/ Clear \/ RunProcess)
    BY <2>1 DEF Launch, Measured, LedgerDoctor, ProcessRecover, NewSegment, AcceptSegment,
                Setup, Clear, RunProcess, LogRequests
  <2> QED  BY <1>2, <2>2, <2>3, <2>4 DEF Handler
<1>3. CASE Dies
  BY <1>3 DEF Dies, Stage, Resumable, state
<1>4. ASSUME NEW command \in Commands, Begin(command) PROVE FALSE
  BY <1>4 DEF Begin
<1>5. ~(Refuse \/ Load \/ AnswerFailed \/ AnswerResult \/ UNCHANGED vars)
  BY DEF Refuse, Load, AnswerFailed, AnswerResult, vars
<1> QED
  BY <1>1, <1>2, <1>3, <1>4, <1>5 DEF Next, Command, User

(* While a log receipt is pending only its own request changes the session *)
(* (runCommandDecisionProtocol, resumePendingLogTransaction).              *)
THEOREM ReceiptsAreOwned == Spec => PendingIsOwned
<1>1. Init => TypeOK /\ ProtocolInv
  BY InitType, InitInv
<1>2. TypeOK /\ ProtocolInv /\ [Next]_vars => (TypeOK /\ ProtocolInv)'
  BY InvStep, TypeParts, StateTypeStep, WorldTypeStep, CmdTypeStep
     DEF TypeOK, StateType, WorldType
<1>3. TypeOK /\ ProtocolInv /\ [Next]_vars =>
        [IsPending /\ cmd # Idle /\ state' # state
           => cmd.kind = pending.request \/ User \/ TreeEnds]_vars
  BY OwnedStep
<1> QED  BY <1>1, <1>2, <1>3, PTL DEF Spec, PendingIsOwned

-----------------------------------------------------------------------------
(* No command locks the session.  Without edits a session has at most one  *)
(* damage at a time: a receipt is only prepared where no process is left   *)
(* unproven, and under a receipt nothing is started; the ledger is torn    *)
(* only by the receipt's own append; and what a pending keep was           *)
(* authorized by still holds.                                              *)
CleanInv ==
  /\ IsPending => marker # "failed"
  /\ Working /\ cmd.kind \in LogRequests => marker # "failed"
  /\ edits = 0 =>
       /\ drift = FALSE /\ head # "foreign"
       /\ ledger = "sound" \/ (ledger = "torn-owned" /\ IsPending /\ pending.stage # "appended")
  /\ pending.request = "log-keep" => contract = "accepted" /\ (Fresh => packet.keep = TRUE)

LEMMA CleanInit == Init => CleanInv
BY DEF Init, CleanInv, IsPending, NoReceipt, Working, Idle

\* A packet that has aged is not fresh.
LEMMA AgedIsStale ==
  ASSUME packet \in Packets
  PROVE  Aged.at # "fresh"
<1>1. CASE packet = NoPacket
  BY <1>1 DEF Fresh, Aged, NoPacket
<1>2. CASE packet \in [at : {"fresh", "stale"}, keep : BOOLEAN, flagged : BOOLEAN]
  BY <1>2 DEF Fresh, Aged
<1> QED  BY <1>1, <1>2 DEF Packets

\* A log is admitted only where every process was proven dead.
LEMMA LogsFindNoProcess ==
  ASSUME cmd.kind \in LogRequests, Accepted
  PROVE  marker # "failed"
<1> SUFFICES ASSUME marker = "failed" PROVE FALSE
  OBVIOUS
<1>1. "process-integrity" \in Diagnostics \cap SessionWide
  <2>1. "process-integrity" \in When(marker = "failed", "process-integrity")
    BY DEF When
  <2>2. When(marker = "failed", "process-integrity") \subseteq Diagnostics
    BY DEF Diagnostics
  <2> QED  BY <2>1, <2>2 DEF SessionWide
<1>2. "process-integrity" \in Recovers(cmd.kind) \cup Owned
  BY <1>1, AdmittedRecovers DEF Accepted
<1>3. "process-integrity" \notin Owned
  BY DEF Owned, When
<1>4. "process-integrity" \notin Recovers(cmd.kind)
  BY DEF Recovers, LogRequests
<1> QED  BY <1>2, <1>3, <1>4

LEMMA CleanStep ==
  ASSUME TypeOK, ProtocolInv, CleanInv, [Next]_vars
  PROVE  CleanInv'
<1> USE DEF CleanInv, IsPending, Fresh
<1>0. packet \in Packets /\ edits \in Nat /\ pending \in Receipts
  BY ProtocolBounds DEF TypeOK
<1>1. ASSUME NEW command \in Commands, Begin(command) PROVE CleanInv'
  <2>1. cmd'.phase = "begun" /\ UNCHANGED <<state, world>>
    BY <1>1 DEF Begin, Idle
  <2> QED  BY <2>1 DEF state, world, Working
<1>2. CASE Refuse \/ AnswerFailed \/ AnswerResult
  <2>1. cmd'.phase = "idle" /\ UNCHANGED <<state, world>>
    BY <1>2 DEF Refuse, AnswerFailed, AnswerResult, Idle
  <2> QED  BY <2>1 DEF state, world, Working
<1>3. CASE Load
  <2>1. cmd \in Held /\ Accepted /\ UNCHANGED <<state, world>>
    BY <1>3, HeldInPhase DEF Load, Phases, Same
  <2>2. cmd'.kind = cmd.kind
    BY <1>3, <2>1, GotoHeld DEF Load, Phases
  <2> QED  BY <2>1, <2>2, LogsFindNoProcess DEF state, world
<1>4. CASE Accept
  <2>1. cmd \in Held
    BY <1>4, HeldInPhase DEF Accept, Phases
  <2>2. cmd'.kind = cmd.kind /\ cmd.phase = "accept"
    BY <1>4, <2>1, TouchHeld DEF Accept, Phases
  <2> QED  BY <1>4, <2>2 DEF Accept, Same, world, Working
<1>5. CASE Handler
  <2>1. /\ cmd'.kind = cmd.kind /\ cmd'.phase \in {"work", "running", "failed", "result"}
        /\ cmd.phase \in {"work", "running"}
    BY <1>5, HandlerHolds
  <2>2. cmd.kind \in LogRequests => Working /\ marker # "failed"
    BY <2>1 DEF Working
  <2>3. cmd.kind \notin LogRequests => ~IsPending
    BY <2>1 DEF ProtocolInv, Working
  <2>4. UNCHANGED world
    BY <1>5 DEF Handler, Launch, Measured, Prepare, Reject, Commit, RecordCommit, Append,
         CleanUp, LedgerDoctor, ProcessRecover, NewSegment, AcceptSegment, Setup, Clear,
         RunProcess, Throws, Same
  <2>5. CASE UNCHANGED state
    BY <2>1, <2>2, <2>4, <2>5 DEF state, world, Working
  <2>6. CASE Prepare /\ state' # state
    BY <2>1, <2>2, <2>4, <2>6 DEF Prepare, Throws, MayPrepare, Keeps, FromLast, IsLog, world
  <2>7. CASE Commit \/ RecordCommit \/ Append \/ CleanUp
    <3>1. cmd.kind \in LogRequests
      BY <2>7 DEF Commit, RecordCommit, Append, CleanUp, Stage, IsLog
    <3>2. Aged.at # "fresh"
      BY <1>0, AgedIsStale
    <3>3. CASE Commit
      BY <2>2, <2>4, <3>1, <3>2, <3>3 DEF Commit, world
    <3>4. CASE RecordCommit
      BY <1>0, <2>2, <2>4, <3>1, <3>4 DEF RecordCommit, Receipts, NoReceipt, world
    <3>5. CASE Append
      BY <1>0, <2>2, <2>4, <3>1, <3>2, <3>5 DEF Append, Receipts, NoReceipt, world
    <3>6. CASE CleanUp
      BY <2>2, <2>4, <3>1, <3>6 DEF CleanUp, NoReceipt, world
    <3> QED  BY <2>7, <3>3, <3>4, <3>5, <3>6
  <2>8. CASE /\ Launch \/ Measured \/ LedgerDoctor \/ ProcessRecover \/ NewSegment
                \/ AcceptSegment \/ Setup \/ Clear \/ RunProcess
             /\ state' # state
    <3>1. cmd.kind \notin LogRequests
      BY <2>8 DEF Launch, Measured, LedgerDoctor, ProcessRecover, NewSegment, AcceptSegment,
                  Setup, Clear, RunProcess, LogRequests
    <3>2. ~IsPending /\ pending.request # "log-keep" /\ pending' \in {pending, NoReceipt}
      BY <2>3, <2>8, <3>1 DEF NoReceipt, Launch, Measured, LedgerDoctor, ProcessRecover, NewSegment,
         AcceptSegment, Setup, Clear, RunProcess, Throws
    <3>3. pending' = NoReceipt
      BY <3>2
    <3>4. edits = 0 =>
            /\ drift' = FALSE /\ head' # "foreign" /\ ledger' = "sound"
      BY <2>8, <3>2 DEF Launch, Measured, LedgerDoctor, ProcessRecover, NewSegment,
         AcceptSegment, Setup, Clear, RunProcess, Throws
    <3> QED  BY <2>1, <2>4, <3>1, <3>3, <3>4 DEF NoReceipt, world
  <2> QED
    BY <1>5, <2>5, <2>6, <2>7, <2>8 DEF Handler, Reject, Throws
<1>6. CASE Dies
  <2>1. cmd'.phase = "idle" /\ UNCHANGED <<pending, head, contract, drift, packet, dirty, marker, edits>>
    BY <1>6 DEF Dies, Idle
  <2>2. ledger' = ledger \/ (ledger' = "torn-owned" /\ IsPending /\ pending.stage # "appended")
    BY <1>6 DEF Dies, Stage, Resumable, Consistent, AppendsNow
  <2> QED  BY <2>1, <2>2 DEF Working
<1>7. CASE User
  <2>1. edits' # 0 /\ UNCHANGED <<cmd, pending, contract, marker>>
    BY <1>0, <1>7 DEF User, EditLedger, EditTree, Reroute, Edit, state
  <2>2. packet' = packet \/ packet'.at # "fresh"
    BY <1>0, <1>7, AgedIsStale DEF User, EditLedger, EditTree, Reroute, state
  <2> QED  BY <2>1, <2>2 DEF Working
<1>8. CASE TreeEnds \/ UNCHANGED vars
  BY <1>8 DEF TreeEnds, vars, state, world, Working
<1> QED
  BY <1>1, <1>2, <1>3, <1>4, <1>5, <1>6, <1>7, <1>8 DEF Next, Command

LEMMA SessionWideDiagnostics ==
  Diagnostics \cap SessionWide =
    When(ledger # "sound", "ledger-integrity") \cup
    When(Consistent, "pending-log-transaction") \cup
    When(IsPending /\ ~Consistent, "pending-log-transaction-inconsistent") \cup
    When(marker = "failed", "process-integrity")
BY DEF Diagnostics, SessionWide, When

\* What may stand against a keep, without an edit and but for its receipt.
LEMMA KeepRestricted ==
  Restricting(Diagnostics, "authorize-keep") \subseteq
    When(ledger # "sound", "ledger-integrity") \cup
    When(Consistent, "pending-log-transaction") \cup
    When(IsPending /\ ~Consistent, "pending-log-transaction-inconsistent") \cup
    When(marker = "failed", "process-integrity") \cup
    When(contract = "none", "setup-required") \cup
    When(contract = "derivable", "legacy-contract-acceptance-required") \cup
    When(Conflict, "legacy-contract-conflict") \cup
    When(contract = "accepted" /\ drift, "evaluator-drift") \cup
    When(Fresh /\ ~packet.keep, "packet-keep-not-authorized") \cup
    When(dirty /\ ~Fresh, "dirty-source")
<1>1. ASSUME NEW c \in Restricting(Diagnostics, "authorize-keep")
      PROVE  /\ c \in Diagnostics
             /\ c \notin {"active-process", "pending-packet", "stale-packet", "packet-diagnostic"}
  <2>1. c \in Diagnostics /\ ("authorize-keep" \in Blocked(c) \/ "authorize-keep" \in RecoveryOnly(c))
    BY <1>1 DEF Restricting
  <2> QED
    BY <2>1 DEF Blocked, RecoveryOnly, Capabilities, SessionWide, ContractPending, OutcomeLeads, OutcomeHolds,
       BlocksPacketOnly, BlocksKeepOnly, BlocksPacketAndKeep
<1> QED  BY <1>1 DEF Diagnostics, When

\* An unedited session's receipt, if every commit of its keep is recorded and
\* nothing else is dirty, admits its own request.
LEMMA OwnerAdmitted ==
  ASSUME TypeOK, ProtocolInv, CleanInv, edits = 0, IsPending, ~Unrecorded, ~Littered
  PROVE  /\ Consistent /\ pending.request \in Commands
         /\ Readable(pending.request) /\ Admits(pending.request, Diagnostics, Owned)
<1>1. pending.request \in LogRequests /\ pending.stage \in {"prepared", "committed", "appended"}
  BY DEF TypeOK, IsPending, Receipts, NoReceipt
<1>2. Consistent /\ marker # "failed"
  BY DEF CleanInv, Consistent
<1>3. ledger # "sound" => "ledger-integrity" \in Owned
  BY <1>2 DEF CleanInv, Owned, When
<1>4. "pending-log-transaction" \in Recovers(pending.request)
  BY <1>1 DEF Recovers, LogRequests
<1>5. ASSUME NEW capability, capability \in {"mutate-session"} \cup Needs(pending.request)
      PROVE  Restricting(Diagnostics, capability) \subseteq Recovers(pending.request) \cup Owned
  <2>1. CASE capability = "mutate-session"
    BY <1>2, <1>3, <1>4, <2>1, SessionWideRestrict, SessionWideDiagnostics DEF When
  <2>2. CASE capability # "mutate-session"
    <3>1. pending.request = "log-keep" /\ capability = "authorize-keep"
      BY <1>1, <1>5, <2>2 DEF Needs, LogRequests
    <3>2. /\ contract = "accepted" /\ drift = FALSE /\ ~(dirty /\ ~Fresh)
          /\ Fresh => packet.keep = TRUE
      BY <3>1 DEF CleanInv, Littered
    <3>3. Conflict => "legacy-contract-conflict" \in Owned
      <4>1. head # "expected" => head = "kept"
        BY DEF CleanInv, TypeOK
      <4>2. Conflict => pending.stage # "prepared"
        BY <3>2, <4>1 DEF Conflict, Unrecorded
      <4> QED  BY <1>2, <3>1, <4>2 DEF Owned, When
    <3> QED  BY <1>2, <1>3, <1>4, <3>1, <3>2, <3>3, KeepRestricted DEF When
  <2> QED  BY <2>1, <2>2
<1>6. Admits(pending.request, Diagnostics, Owned)
  BY <1>1, <1>5 DEF Admits, Allowed, Covers
<1> QED  BY <1>1, <1>2, <1>6 DEF Readable, Tolerates, Commands

\* Commands and their deaths alone never lock a session: what keeps it from being
\* mutated is lifted by a command that is admitted, the pending request's own or
\* process-recover (compileCapabilities, receiptOwnedLogRecoveryCovers).
THEOREM NeverLockedOut == Spec => []NoLockOut
<1>1. Init => TypeOK /\ ProtocolInv /\ CleanInv
  BY InitType, InitInv, CleanInit
<1>2. TypeOK /\ ProtocolInv /\ CleanInv /\ [Next]_vars => (TypeOK /\ ProtocolInv /\ CleanInv)'
  BY InvStep, CleanStep, TypeParts, StateTypeStep, WorldTypeStep, CmdTypeStep
     DEF TypeOK, StateType, WorldType
<1>3. TypeOK /\ ProtocolInv /\ CleanInv => NoLockOut
  <2> SUFFICES ASSUME TypeOK, ProtocolInv, CleanInv, edits = 0, ~Unrecorded, ~Littered,
                      ~Allowed(Diagnostics, "mutate-session")
               PROVE  \E command \in Commands :
                        /\ Readable(command) /\ Admits(command, Diagnostics, Owned)
                        /\ \/ IsPending /\ Consistent /\ pending.request = command
                           \/ command = "process-recover" /\ marker = "failed"
    BY DEF NoLockOut
  <2>1. CASE IsPending
    BY <2>1, OwnerAdmitted
  <2>2. CASE ~IsPending
    <3>1. ledger = "sound" /\ ~Consistent
      BY <2>2 DEF CleanInv, Consistent
    <3>2. Restricting(Diagnostics, "mutate-session") = When(marker = "failed", "process-integrity")
      BY <2>2, <3>1, SessionWideRestrict, SessionWideDiagnostics DEF When
    <3>3. marker = "failed"
      BY <3>2 DEF Allowed, When
    <3>4. "process-integrity" \in Recovers("process-recover") /\ Needs("process-recover") = {}
      BY DEF Recovers, Needs, LogRequests
    <3>5. Admits("process-recover", Diagnostics, Owned)
      BY <3>2, <3>3, <3>4 DEF Admits, Allowed, Covers, When
    <3>6. Readable("process-recover") /\ "process-recover" \in Commands
      BY <3>1 DEF Readable, Unreadable, Commands
    <3> QED  BY <3>3, <3>5, <3>6
  <2> QED  BY <2>1, <2>2
<1> QED  BY <1>1, <1>2, <1>3, PTL DEF Spec
=============================================================================
