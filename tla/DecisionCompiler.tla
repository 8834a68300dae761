-------------------------- MODULE DecisionCompiler --------------------------
(***************************************************************************)
(* What a mutating command may do, as a function of what is wrong with the *)
(* session: the diagnostic registry and the capability compiler of         *)
(* lib/decision-compiler.ts, the command table's capability and recovery   *)
(* entries (lib/command-table.ts) and the admission rule of                *)
(* lib/command-decision-protocol.ts.  Messages, priorities and the plan's  *)
(* wording are left out: no command is admitted by them.  The two codes of *)
(* a snapshot that could not be loaded are missing too: a command that     *)
(* needs a decision is refused before any is compiled.                     *)
(***************************************************************************)

Capabilities == {"mutate-session", "run-packet", "authorize-keep",
                 "transition-segment", "finalize", "parent-final-answer"}

\* Diagnostics under which the session may only be recovered.
SessionWide == {"pending-log-transaction-inconsistent", "pending-log-transaction",
                "ledger-integrity", "process-integrity", "termination-unproven",
                "runtime-integrity"}

ContractPending == {"legacy-contract-acceptance-required", "legacy-contract-conflict"}

\* A governed outcome decides what runs and what is kept.
OutcomeLeads == {"outcome-active", "outcome-delivery-ready"}
OutcomeHolds == {"outcome-satisfied", "outcome-ticket", "outcome-outstanding",
                 "outcome-stopped", "outcome-budget-exhausted", "outcome-input-drift"}
\* The states of an outcome that next itself takes further.
OutcomeResumes == {"outcome-ticket", "outcome-outstanding", "outcome-budget-exhausted"}

Codes == SessionWide \cup ContractPending \cup OutcomeLeads \cup OutcomeHolds \cup
         {"goal-mismatch", "approval-required", "resource-exhausted",
          "scaffold-invalid", "dirty-source", "evaluator-drift", "active-process",
          "pending-packet", "packet-status-authority-invalid",
          "packet-keep-not-authorized", "stale-packet", "packet-diagnostic",
          "setup-required", "benchmark-required", "checks-required",
          "quality-evidence-required", "needs-baseline", "packet-budget-exhausted",
          "same-layer-failure-pause", "no-learning-pause", "context-distillation",
          "segment-transition-available", "finalization-claim-blocked",
          "current-tree-finalization", "finalization-blocked", "finalization-ready",
          "completion-ready"}

BlocksPacketOnly == {"resource-exhausted", "active-process", "pending-packet",
                     "packet-diagnostic", "packet-budget-exhausted",
                     "same-layer-failure-pause", "no-learning-pause",
                     "context-distillation"}
BlocksKeepOnly   == ContractPending \cup
                    {"dirty-source", "packet-status-authority-invalid",
                     "packet-keep-not-authorized"}
BlocksPacketAndKeep == {"scaffold-invalid", "evaluator-drift", "setup-required",
                        "benchmark-required", "checks-required"}

\* The capabilities a diagnostic blocks, whatever else holds.
Blocked(code) ==
  CASE code \in SessionWide -> Capabilities \ {"mutate-session"}
    [] code \in OutcomeLeads -> {"authorize-keep", "finalize"}
    [] code \in OutcomeHolds \cup {"approval-required"} -> {"run-packet", "authorize-keep", "finalize"}
    [] code \in BlocksPacketOnly -> {"run-packet"}
    [] code \in BlocksKeepOnly -> {"authorize-keep"}
    [] code \in BlocksPacketAndKeep -> {"run-packet", "authorize-keep"}
    [] code = "goal-mismatch" ->
         {"run-packet", "authorize-keep", "finalize", "parent-final-answer"}
    [] code = "quality-evidence-required" ->
         {"authorize-keep", "finalize", "parent-final-answer"}
    [] code = "finalization-claim-blocked" -> {"finalize", "parent-final-answer"}
    [] code = "finalization-blocked" -> {"finalize"}
    [] OTHER -> {}

\* The capabilities a diagnostic leaves to its recovery command.
RecoveryOnly(code) ==
  CASE code \in SessionWide -> {"mutate-session"}
    [] code \in ContractPending \cup {"packet-status-authority-invalid", "stale-packet"} ->
         {"run-packet"}
    [] code = "current-tree-finalization" -> {"finalize"}
    [] OTHER -> {}

\* compileCapabilities: the diagnostics that give a capability its status.
\* When one of them blocks, those that only restrict are not listed.
Restricting(codes, capability) ==
  LET blocking == {c \in codes : capability \in Blocked(c)}
  IN  IF blocking # {} THEN blocking
      ELSE {c \in codes : capability \in RecoveryOnly(c)}

Allowed(codes, capability) == Restricting(codes, capability) = {}

\* `log` once for each request it can carry: keep or another status from the
\* last packet, and a run entered by hand.  A repeated request is the same one.
LogRequests == {"log-keep", "log", "log-manual"}
\* gap-candidates stands for the commands that run a process and need nothing.
Commands == LogRequests \cup
            {"next", "ledger-doctor", "process-recover", "new-segment", "setup",
             "clear", "gap-candidates"}

\* decisionCapabilityForCommand; {} when the command needs none.
Needs(command) ==
  CASE command = "next" -> {"run-packet"}
    [] command = "log-keep" -> {"authorize-keep"}
    [] command = "new-segment" -> {"transition-segment"}
    [] OTHER -> {}

\* Mutant: the ledger's recovery command also recovers a receipt at odds with it.
RecoversAnyLedger(command) ==
  CASE command = "next" -> ContractPending \cup OutcomeResumes \cup
                           {"stale-packet", "packet-status-authority-invalid"}
    [] command = "ledger-doctor" ->
         {"ledger-integrity", "pending-log-transaction-inconsistent"}
    [] command \in LogRequests ->
         {"pending-log-transaction", "pending-log-transaction-inconsistent"}
    [] command = "process-recover" -> {"process-integrity", "termination-unproven"}
    [] OTHER -> {}

\* recoveryDiagnosticsForCommand
Recovers(command) ==
  CASE command = "next" -> ContractPending \cup OutcomeResumes \cup
                           {"stale-packet", "packet-status-authority-invalid"}
    [] command \in LogRequests ->
         {"pending-log-transaction", "pending-log-transaction-inconsistent"}
    [] command = "ledger-doctor" -> {"ledger-integrity"}
    [] command = "process-recover" -> {"process-integrity", "termination-unproven"}
    [] OTHER -> {}

\* recoveryCoversCapabilityRestrictions; `owned` are the diagnostics that
\* receiptOwnedLogRecoveryCovers forgives the log of this snapshot.
Covers(command, codes, owned, capability) ==
  /\ Restricting(codes, capability) # {}
  /\ Restricting(codes, capability) \subseteq
       Recovers(command) \cup (IF command \in LogRequests THEN owned ELSE {})

\* assertMutationCapability
Admits(command, codes, owned) ==
  \A capability \in {"mutate-session"} \cup Needs(command) :
     \/ Allowed(codes, capability)
     \/ Covers(command, codes, owned, capability)
=============================================================================
