--------------------------- MODULE CommandProtocol ---------------------------
(***************************************************************************)
(* A mutating command under the session lock: it compiles the decision the *)
(* session is in, is admitted or refused by it, mutates, and answers with  *)
(* the decision it leaves behind (lib/command-decision-protocol.ts, with   *)
(* the diagnostics of lib/session-decision.ts and the handlers of          *)
(* scripts/autoresearch.ts).  The lock makes commands take turns           *)
(* (SessionMutationLock); a command dies between any two steps, and the    *)
(* user edits files at any time.  The stages of a log are the ones that    *)
(* change what the decision sees: LogTransaction has the others.           *)
(***************************************************************************)
EXTENDS DecisionCompiler, Naturals

CONSTANTS
  MaxEdits,   \* bound: edits of the user
  MaxDeaths   \* bound: deaths of a command

ASSUME ProtocolBounds == MaxEdits \in Nat /\ MaxDeaths \in Nat

VARIABLES
  ledger,    \* autoresearch.jsonl: sound, unsound, or with an unreadable row
  pending,   \* the log receipt: the request it belongs to and its last stage
  head,      \* HEAD: the one the ledger expects, the receipt's commit, another
  contract,  \* the contract of the current segment
  drift,     \* an accepted input differs from the contract
  packet,    \* the last-run packet
  dirty,     \* the source tree has edits
  marker,    \* the progress marker
  alive,     \* the process tree of the marker
  route,     \* the work directory the configuration routes to
  cmd,       \* the command that holds the lock
  answer,    \* what the last command to answer said
  edits, deaths

state == <<ledger, pending, head, contract, drift, packet, dirty, marker, alive>>
world == <<route, edits, deaths>>
vars == <<state, world, cmd, answer>>

NoPacket == [at |-> "none", keep |-> FALSE, flagged |-> FALSE]
NoReceipt == [request |-> "none", stage |-> "none"]
Idle == [kind |-> "none", phase |-> "idle", route |-> 1, touched |-> FALSE]
NoAnswer == [says |-> "nothing", receipt |-> FALSE, touched |-> FALSE]

Unreadable == {"torn", "torn-owned"}
Ledgers == {"sound", "duplicate", "gap"} \cup Unreadable
Packets == [at : {"fresh", "stale"}, keep : BOOLEAN, flagged : BOOLEAN] \cup {NoPacket}
Receipts == [request : LogRequests, stage : {"prepared", "committed", "appended"}] \cup {NoReceipt}
Phases == {"begun", "accept", "work", "running", "failed", "result"}
Held == [kind : Commands, phase : Phases, route : {1, 2}, touched : BOOLEAN]
Answers == [says : {"refused", "completed", "failed", "uncaptured"},
            receipt : BOOLEAN, touched : BOOLEAN]

TypeOK ==
  /\ ledger \in Ledgers /\ pending \in Receipts /\ head \in {"expected", "kept", "foreign"}
  /\ contract \in {"none", "derivable", "accepted"} /\ drift \in BOOLEAN
  /\ packet \in Packets /\ dirty \in BOOLEAN
  /\ marker \in {"none", "running", "failed"} /\ alive \in BOOLEAN
  /\ route \in {1, 2} /\ edits \in 0 .. MaxEdits /\ deaths \in 0 .. MaxDeaths
  /\ cmd \in Held \cup {Idle} /\ answer \in Answers \cup {NoAnswer}

-----------------------------------------------------------------------------
IsPending == pending # NoReceipt
\* A receipt agrees with a ledger that is what it was plus, at most, its event.
Consistent == IsPending /\ ledger \in {"sound", "torn-owned"}
\* acceptedContractConflicts: HEAD is not the expected one, or an input drifted.
Conflict == contract = "accepted" /\ (head # "expected" \/ drift)
Fresh == packet.at = "fresh"
Aged == [packet EXCEPT !.at = IF Fresh THEN "stale" ELSE @]

When(condition, code) == IF condition THEN {code} ELSE {}

\* diagnosticsFromSnapshot, contractDecisionDiagnostics and
\* decisionDiagnosticsForCollectedFacts on the session as it is.
Diagnostics ==
  When(ledger # "sound", "ledger-integrity") \cup
  When(Consistent, "pending-log-transaction") \cup
  When(IsPending /\ ~Consistent, "pending-log-transaction-inconsistent") \cup
  When(marker = "failed", "process-integrity") \cup
  When(marker = "running", "active-process") \cup
  When(contract = "none", "setup-required") \cup
  When(contract = "derivable", "legacy-contract-acceptance-required") \cup
  When(Conflict, "legacy-contract-conflict") \cup
  When(contract = "accepted" /\ drift, "evaluator-drift") \cup
  When(Fresh, "pending-packet") \cup
  When(Fresh /\ ~packet.keep, "packet-keep-not-authorized") \cup
  When(packet.at = "stale", "stale-packet") \cup
  When(packet.flagged, "packet-diagnostic") \cup
  When(dirty /\ ~Fresh, "dirty-source")

\* Mutant: a log does not recover the torn event of its own receipt.
OwnedConflictOnly ==
  When(/\ Consistent
       /\ pending.request = "log-keep" /\ pending.stage # "prepared",
       "legacy-contract-conflict")

\* receiptOwnedLogRecoveryCovers
Owned ==
  When(Consistent /\ ledger = "torn-owned", "ledger-integrity") \cup
  When(/\ Consistent
       /\ pending.request = "log-keep" /\ pending.stage # "prepared",
       "legacy-contract-conflict")

\* loadRequiredDecision: only these two commands read past an unreadable row.
Tolerates(command) == command \in LogRequests \cup {"ledger-doctor"}
Readable(command) == ledger \notin Unreadable \/ Tolerates(command)

-----------------------------------------------------------------------------
Init ==
  /\ ledger = "sound" /\ pending = NoReceipt /\ head = "expected"
  /\ contract \in {"none", "derivable"} /\ drift = FALSE
  /\ packet = NoPacket /\ dirty \in BOOLEAN /\ marker = "none" /\ alive = FALSE
  /\ route = 1 /\ edits = 0 /\ deaths = 0
  /\ cmd = Idle /\ answer = NoAnswer

Goto(phase) == cmd' = [cmd EXCEPT !.phase = phase]
Touch(phase) == cmd' = [cmd EXCEPT !.phase = phase, !.touched = TRUE]
Same == UNCHANGED <<world, answer>>

\* resolveInitialSessionMutationRoute, and the lock of the directory it names.
Begin(command) ==
  /\ cmd = Idle
  /\ cmd' = [Idle EXCEPT !.kind = command, !.phase = "begun", !.route = route]
  /\ UNCHANGED <<state, world, answer>>

\* assertExpectedRoute, assertMutationCapability and
\* assertAcceptedContractCommandCompatibility on the captured decision.
Accepted ==
  /\ Readable(cmd.kind)
  /\ cmd.route = route
  /\ Admits(cmd.kind, Diagnostics, Owned)
  /\ ~(cmd.kind = "next" /\ Conflict)

\* The acceptance of a legacy contract is derived again under its own reads,
\* and may throw before it writes.
Refuse ==
  /\ (cmd.phase = "begun" /\ ~Accepted) \/ cmd.phase = "accept"
  /\ answer' = [says |-> "refused", receipt |-> FALSE, touched |-> cmd.touched]
  /\ cmd' = Idle
  /\ UNCHANGED <<state, world>>

Load ==
  /\ cmd.phase = "begun" /\ Accepted
  /\ Goto(IF contract = "derivable" /\ Needs(cmd.kind) # {"transition-segment"}
            THEN "accept" ELSE "work")
  /\ UNCHANGED state /\ Same

\* acceptCompleteLegacyContract: one more ledger row, before the handler runs.
Accept ==
  /\ cmd.phase = "accept"
  /\ contract' = "accepted" /\ head' = "expected" /\ drift' = FALSE
  /\ Touch("work")
  /\ UNCHANGED <<ledger, pending, packet, dirty, marker, alive>> /\ Same

-----------------------------------------------------------------------------
(* The handlers.  A handler that throws leaves what it has done.           *)
Throws(condition) ==
  /\ condition /\ Goto("failed")
  /\ UNCHANGED state /\ Same

\* next: preflight, a process with its progress marker, and a packet.
Launch ==
  /\ cmd.phase = "work" /\ cmd.kind = "next"
  /\ \/ Throws(contract = "none" \/ Conflict)
     \/ /\ contract # "none" /\ ~Conflict
        /\ contract' = "accepted"
        /\ marker' = "running" /\ alive' = TRUE
        /\ Touch("running")
        /\ UNCHANGED <<ledger, pending, head, drift, packet, dirty>> /\ Same

\* The process has ended, or its tree could not be proven dead.
Measured ==
  /\ cmd.phase = "running" /\ cmd.kind = "next"
  /\ \E proven \in BOOLEAN, keep \in BOOLEAN, flagged \in BOOLEAN :
       /\ marker' = IF proven THEN "none" ELSE "failed"
       /\ alive' = (alive /\ ~proven)
       /\ packet' = [at |-> "fresh", keep |-> keep /\ proven, flagged |-> flagged]
  /\ Goto("result")
  /\ UNCHANGED <<ledger, pending, head, contract, drift, dirty>> /\ Same

IsLog == cmd.phase = "work" /\ cmd.kind \in LogRequests
FromLast == cmd.kind # "log-manual"
Keeps == cmd.kind = "log-keep"

\* logExperiment up to the receipt: a packet as it was evaluated, or none at all.
MayPrepare ==
  /\ FromLast => Fresh
  /\ Keeps => packet.keep /\ contract = "accepted" /\ ~Conflict

Prepare ==
  /\ IsLog /\ ~IsPending
  /\ \/ Throws(~MayPrepare)
     \/ /\ MayPrepare
        /\ pending' = [request |-> cmd.kind, stage |-> "prepared"]
        /\ Touch("work")
        /\ UNCHANGED <<ledger, head, contract, drift, packet, dirty, marker, alive>> /\ Same

\* resumePendingLogTransaction: only the very same request, on the same bytes.
Resumable == Consistent /\ pending.request = cmd.kind

Reject ==
  /\ IsLog /\ IsPending
  /\ Throws(~Resumable \/ (Keeps /\ head = "foreign"))

Stage == IsLog /\ Resumable /\ ~(Keeps /\ head = "foreign")

\* commit-applied-or-verified: the reference first, then the receipt.  What lies
\* outside the committed paths stays dirty.
Commit ==
  /\ Stage /\ Keeps /\ pending.stage = "prepared" /\ head = "expected"
  /\ head' = "kept" /\ dirty' \in {FALSE, dirty} /\ packet' = Aged
  /\ Touch("work")
  /\ UNCHANGED <<ledger, pending, contract, drift, marker, alive>> /\ Same

RecordCommit ==
  /\ Stage /\ Keeps /\ pending.stage = "prepared" /\ head = "kept"
  /\ pending' = [pending EXCEPT !.stage = "committed"]
  /\ Touch("work")
  /\ UNCHANGED <<ledger, head, contract, drift, packet, dirty, marker, alive>> /\ Same

\* ledger-event-present: a torn event of this receipt is completed, and the
\* ledger now expects the commit it names.
AppendsNow == pending.stage = IF Keeps THEN "committed" ELSE "prepared"
Append ==
  /\ Stage /\ AppendsNow
  /\ ledger' = "sound"
  /\ head' = IF Keeps THEN "expected" ELSE head
  /\ pending' = [pending EXCEPT !.stage = "appended"]
  /\ packet' = Aged
  /\ Touch("work")
  /\ UNCHANGED <<contract, drift, dirty, marker, alive>> /\ Same

\* The cleanups of a rejected candidate and of the packet, and the receipt's end.
CleanUp ==
  /\ Stage /\ pending.stage = "appended"
  /\ packet' = IF FromLast THEN NoPacket ELSE packet
  /\ dirty' \in (IF Keeps THEN {dirty} ELSE {FALSE, dirty})
  /\ pending' = NoReceipt
  /\ Touch("result")
  /\ UNCHANGED <<ledger, head, contract, drift, marker, alive>> /\ Same

\* ledgerDoctor --repair: duplicate run numbers only; it refuses unreadable rows
\* and finds nothing to repair in the others.
LedgerDoctor ==
  /\ cmd.phase = "work" /\ cmd.kind = "ledger-doctor"
  /\ ledger' = IF ledger = "duplicate" THEN "sound" ELSE ledger
  /\ cmd' = [cmd EXCEPT !.phase = "result", !.touched = @ \/ ledger = "duplicate"]
  /\ UNCHANGED <<pending, head, contract, drift, packet, dirty, marker, alive>> /\ Same

\* recoverTerminationFailedProgress
ProcessRecover ==
  /\ cmd.phase = "work" /\ cmd.kind = "process-recover"
  /\ \/ Throws(marker # "failed" \/ alive)
     \/ /\ marker = "failed" /\ ~alive
        /\ marker' = "none"
        /\ Touch("result")
        /\ UNCHANGED <<ledger, pending, head, contract, drift, packet, dirty, alive>> /\ Same

\* newSegment: the row of the segment, then the row that accepts its contract.
\* Without the second one the contract is derived, or lacks what was passed.
NewSegment ==
  /\ cmd.phase = "work" /\ cmd.kind = "new-segment"
  /\ \/ Throws(TRUE)
     \/ /\ contract' \in {"none", "derivable"}
        /\ head' = "expected" /\ drift' = FALSE /\ packet' = Aged
        /\ Touch("running")
        /\ UNCHANGED <<ledger, pending, dirty, marker, alive>> /\ Same

AcceptSegment ==
  /\ cmd.phase = "running" /\ cmd.kind = "new-segment"
  /\ contract' = "accepted" /\ head' = "expected" /\ drift' = FALSE
  /\ Touch("result")
  /\ UNCHANGED <<ledger, pending, packet, dirty, marker, alive>> /\ Same

\* setupSession: files, configuration and a configuration row.
Setup ==
  /\ cmd.phase = "work" /\ cmd.kind = "setup"
  /\ \/ Throws(TRUE)
     \/ /\ contract' \in (IF contract = "accepted" THEN {"accepted", "derivable"} ELSE {"derivable"})
        /\ packet' = Aged
        /\ Touch("result")
        /\ UNCHANGED <<ledger, pending, head, drift, dirty, marker, alive>> /\ Same

\* clearSession: every file of the session, the private ones included.
Clear ==
  /\ cmd.phase = "work" /\ cmd.kind = "clear"
  /\ \/ Throws(TRUE)
     \/ /\ ledger' = "sound" /\ pending' = NoReceipt /\ packet' = NoPacket
        /\ contract' \in {"none", "derivable"} /\ marker' = "none"
        /\ head' = "expected" /\ drift' = FALSE
        /\ Touch("result")
        /\ UNCHANGED <<dirty, alive>> /\ Same

\* A command that runs a process of its own: persistTerminationFailure keeps
\* what is left of it, whether the handler returned or threw.
RunProcess ==
  /\ cmd.phase = "work" /\ cmd.kind = "gap-candidates"
  /\ \/ Throws(TRUE)
     \/ Goto("result") /\ UNCHANGED state /\ Same
     \/ /\ marker' = "failed" /\ alive' = TRUE
        /\ Touch("failed")
        /\ UNCHANGED <<ledger, pending, head, contract, drift, packet, dirty>> /\ Same

\* Mutant: the error leaves the protocol as it is, without the receipt.
AnswerThrown ==
  /\ cmd.phase = "failed"
  /\ answer' = [says |-> "failed", receipt |-> FALSE, touched |-> cmd.touched]
  /\ cmd' = Idle
  /\ UNCHANGED <<state, world>>

\* A handler has thrown: captureResultingDecision may fail as well, the receipt
\* says "failed" all the same.
AnswerFailed ==
  /\ cmd.phase = "failed"
  /\ answer' = [says |-> "failed", receipt |-> TRUE, touched |-> cmd.touched]
  /\ cmd' = Idle
  /\ UNCHANGED <<state, world>>

AnswerResult ==
  /\ cmd.phase = "result"
  /\ answer' = [says |-> IF Readable(cmd.kind) /\ cmd.route = route
                           THEN "completed" ELSE "uncaptured",
                receipt |-> TRUE, touched |-> cmd.touched]
  /\ cmd' = Idle
  /\ UNCHANGED <<state, world>>

-----------------------------------------------------------------------------
\* The process of the command dies; an append of its event may be cut.
Dies ==
  /\ cmd # Idle /\ deaths < MaxDeaths
  /\ deaths' = deaths + 1 /\ cmd' = Idle
  /\ ledger' \in {ledger} \cup
       (IF Stage /\ AppendsNow THEN {"torn-owned"} ELSE {})
  /\ UNCHANGED <<pending, head, contract, drift, packet, dirty, marker, alive,
                 route, answer, edits>>

Edit == edits < MaxEdits /\ edits' = edits + 1 /\ UNCHANGED <<cmd, answer, deaths>>

EditLedger ==
  /\ Edit
  /\ ledger' \in {"duplicate", "gap", "torn"}
  /\ UNCHANGED <<pending, head, contract, drift, packet, dirty, marker, alive, route>>

\* The source, an input the contract protects, or a commit.
EditTree ==
  /\ Edit
  /\ packet' = Aged
  /\ \/ dirty' = TRUE /\ UNCHANGED <<drift, head>>
     \/ drift' = TRUE /\ UNCHANGED <<dirty, head>>
     \/ head' = "foreign" /\ dirty' = FALSE /\ UNCHANGED drift
  /\ UNCHANGED <<ledger, pending, contract, marker, alive, route>>

Reroute == Edit /\ route' = 3 - route /\ UNCHANGED state

\* A process tree ends, also one that could not be proven dead.
TreeEnds ==
  /\ alive /\ ~(cmd.phase = "running" /\ cmd.kind = "next")
  /\ alive' = FALSE
  /\ UNCHANGED <<ledger, pending, head, contract, drift, packet, dirty, marker,
                 world, cmd, answer>>

Handler ==
  \/ Launch \/ Measured
  \/ Prepare \/ Reject \/ Commit \/ RecordCommit \/ Append \/ CleanUp
  \/ LedgerDoctor \/ ProcessRecover \/ NewSegment \/ AcceptSegment
  \/ Setup \/ Clear \/ RunProcess

Command ==
  \/ \E command \in Commands : Begin(command)
  \/ Refuse \/ Load \/ Accept \/ Handler \/ AnswerFailed \/ AnswerResult

User == EditLedger \/ EditTree \/ Reroute

Next == Command \/ Dies \/ TreeEnds \/ User

Spec == Init /\ [][Next]_vars

-----------------------------------------------------------------------------
(* While a log receipt is pending, only the request it belongs to changes  *)
(* the session: a log with other arguments, any other command and the      *)
(* acceptance of a contract stay off (runCommandDecisionProtocol with      *)
(* resumePendingLogTransaction).  The user's edits and the end of a        *)
(* process tree are nobody's command.                                      *)
PendingIsOwned ==
  [][IsPending /\ cmd # Idle /\ state' # state
       => cmd.kind = pending.request \/ User \/ TreeEnds]_vars

(* A refused command has changed nothing, although the acceptance of a     *)
(* legacy contract writes to the ledger before the handler is called; and  *)
(* whatever changed the session answers with a receipt.                    *)
RefusedIsUntouched ==
  answer.touched => answer.receipt /\ answer.says # "refused"

\* A death between the commit of a keep and the receipt's record of it.
Unrecorded == pending.stage = "prepared" /\ head = "kept"

\* A keep died beside other changes, which no fresh packet accounts for any more
\* (dirty-source).
Littered == pending.request = "log-keep" /\ dirty /\ ~Fresh

(* Commands and their deaths alone never lock a session: whatever they     *)
(* leave, some command is admitted that lifts it - except for a keep that  *)
(* died between its commit and the record of it (InterruptedLogResumes),   *)
(* or after its commit beside changes it did not commit.                   *)
NoLockOut ==
  (/\ edits = 0 /\ cmd = Idle /\ ~Unrecorded /\ ~Littered
   /\ ~Allowed(Diagnostics, "mutate-session")) =>
    \E command \in Commands :
       /\ Readable(command) /\ Admits(command, Diagnostics, Owned)
       /\ \/ IsPending /\ Consistent /\ pending.request = command
          \/ command = "process-recover" /\ marker = "failed"

(* An interrupted log resumes when the same request is run again           *)
(* (docs/operate.md:68), if nobody edited anything meanwhile.              *)
InterruptedLogResumes ==
  edits = 0 /\ cmd = Idle /\ IsPending =>
    Readable(pending.request) /\ Admits(pending.request, Diagnostics, Owned)
=============================================================================
