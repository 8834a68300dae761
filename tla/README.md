# Verification of Codex Autoresearch

TLA+ models of `plugins/codex-autoresearch`: the parts that decide whether the records of a
session stay true when commands race, are killed, time out or are retried, and when the user's
editor and Git work on the same files at the same time. TLC checks each model on small
instances; TLAPS proves their safety for every size.

Paths below are relative to `plugins/codex-autoresearch/`. `PROJECT.json` holds, for every
definition that models code, the lines it stands for.

## 1. The system

Autoresearch drives a measured improvement loop over a repository. `next` runs the accepted
benchmark and stores the result as the *last-run packet*; `log` decides about the packet: keep
(a Git commit), discard (the candidate's files are restored) or only record; each decision is
one row of the ledger `autoresearch.jsonl`. Every command is a process of its own. There is no
server and no database: the processes meet in files (the session's directory, the Git-private
directory, the repository), and any of them may be killed at any time.

```
          command (process)                      other programs
  lock -> snapshot -> decision -> mutation -> snapshot      editor, git, agent
    |        |                       |                          |
  lock     all session        next: packet, progress.json      worktree, index,
  files    sources            log: receipt, commit, ledger     refs, index.lock
```

### Inventory

| Part | State | Operations | What is hard | What makes it correct |
| --- | --- | --- | --- | --- |
| **Session mutation lock** `lib/session-mutation-lock.ts` | lock file, recovery claim files, each with pid and UUID | acquire, dead-owner recovery, release | no atomic "replace if still his"; several survivors; recoverers that die; I/O errors; reused pids | one command at a time; a live owner's lock is never taken; a dead owner's is reclaimed |
| **Exactly-once log** `lib/commands/log.ts`, `lib/pending-log-transaction-store.ts` | receipt, HEAD, index, worktree, ledger, packet | prepare, commit, ledger event, tracked and untracked cleanup, packet cleanup, clear; resume | death between any two effects, torn appends, Git's own locks, edits between check and use | one commit and one event for a run, nothing else committed or destroyed, a receipt that tells the truth |
| **Coherent snapshot** `lib/coherent-session-snapshot.ts` | two version vectors, captured bytes, attempt number | load | no lock, sources read one by one while commands write them | an accepted snapshot is one moment; retries are earned and bounded |
| **Packet processes** `lib/runner.ts`, `lib/commands/run.ts`, `lib/active-progress-*.ts`, `scripts/autoresearch.ts` | `progress.json`, process trees, packet, lifecycle rows | `next`, `benchmark-inspect`, `process-recover`, `log --from-last` | timeouts that cannot prove termination, killed commands, an asynchronous writer of the marker | what lives is on record and keeps the next packet out; what is recorded as dead is dead |
| **Command decision protocol** `lib/command-decision-protocol.ts` | route, precondition and resulting decision | run a mutation under lock | route or facts that change before the lock; a mutation that throws after its effect | a mutation acts on the decision it was admitted by; no diagnostic locks out its own remedy |
| **Decision compiler** `lib/decision-compiler.ts` and others | none | compile facts to one plan | the order of dozens of diagnostics and the capabilities they leave | every blocked state names an allowed action |
| **Outcome store** `lib/outcome-store.ts`, `lib/outcome-contract.ts` | revisions, budget, executions, settlements | nominate, prepare, settle, stop, amend | nested locks, an effect before its record | exposure never exceeds the budget; a settlement happens once |
| **GitHub confirmation** `lib/github-confirmation.ts` | attempt, dispatch, run, proof, verdict | nominate, dispatch, resume, cancel | an answer that is lost, a retry of what was sent, commands that race | one dispatch, one settlement; evidence counts as independent only if nobody saw the data |
| **Outcome worker** `lib/outcome-worker.ts` | launch record, worker and child identity, completion | launch, claim, heartbeat, cancel, complete, reconcile | two detached processes and a receipt; orphans, reused pids, late completions | one worker a launch; a terminal status is final; what is released has stopped |
| **Lanes** `lib/lane-lifecycle.ts`, `lib/commands/lane-runner.ts` | lane rows, worktree before and after | plan, run, record | writes by others between the two looks | the declared write scope is kept |
| **Directory swap, bootstrap** `scripts/directory-swap.mjs`, `scripts/bootstrap-runtime.mjs` | targets, stages, rollbacks, markers; installer's lock | swap, recover, install | a crash between any two renames | the old or the new tree is active and recoverable |
| **Dashboard server, registry** `lib/live-server.ts`, `lib/dashboard-server-registry.ts` | cached view model, server record | refresh, serve, register | refreshes that finish out of order, unlocked registry | an answer is the session at one moment since its request |
| **Finalization** `scripts/finalize-autoresearch.ts` | plan file, review and temporary branches, what is checked out, completion row | plan, build or reuse, verify, recover, record | a death or a failing command between two branch switches, clean-up that fails, what else lies in the work tree | a completion is backed by its branches; others' branches stay; what is left behind is named |
| **Contract, fit gate, recipes, research, forensics, memory, reports, read model, front end** | none of their own | pure functions of captured input | nothing concurrent | unit-tested computation |

How they interact: every mutating command takes the lock, loads a snapshot, compiles a
decision, and only then mutates; readers (and the live dashboard) load snapshots without the
lock. Finalization runs as such a command, but works with Git branches in the session's own work
tree. `next` and `log` share the packet; `log` and `process-recover` share the evidence of
processes whose termination was not proven. Outcome mutations take the outcome lock and then
session locks; the worker of an outcome and the command that resumes it meet only in the receipt
and in `completion.json`. The hazards each part has, at their lines, are in `PROJECT.json`; those
no property covers say why. Of lesser weight, and not listed there: a source that changes and
changes back between the two vectors of a snapshot (`lib/coherent-session-snapshot.ts:288`), the 256 identities the lifecycle projection keeps (`lib/process-governor.ts:116`),
the two copies a private record may have (`lib/git-private-state.ts:146`), a lane's look at the
worktree before and after its command (`lib/commands/lane-runner.ts:129`), and the installer's
lock, which follows the session lock's protocol (`scripts/bootstrap-runtime.mjs:442`).

## 2. The modules

| Module | Models | Role |
| --- | --- | --- |
| `SessionMutationLock` | the lock, every file-system call a step | specification |
| `SessionMutationLockProofs` | | theorems about it |
| `LogTransaction` | `log` for a packet, its stages and checkpoints | specification |
| `ExactlyOnceLog` | what `log` promises | abstract specification, implemented by `LogTransaction` |
| `LogTransactionProofs` | | theorems about it, the refinement of `ExactlyOnceLog` among them |
| `CoherentSnapshot` | the snapshot loader against any writers | specification |
| `PacketProcess` | `next`, probes, recovery, the progress writer and its store | specification |
| `DecisionCompiler` | diagnostics, capabilities, the commands' entries | operators only |
| `CommandProtocol` | one command after another: decision, admission, mutation, answer | specification, over `DecisionCompiler` |
| `CommandProtocolProofs` | | theorems about it |
| `OutcomeStore` | receipts of executions and the store's operations on them | shared by the next two |
| `OutcomeWorker` | launch, worker, evaluator and checks, reconciliation, cancellation | specification |
| `WorkerProofs` | | its theorems: the refinement of `OneExecution`, what a release means |
| `OutcomeConfirmation` | the confirmation of an execution by a GitHub run | specification |
| `ConfirmationProofs` | | its theorems: the refinement of `OneExecution`, unseen evidence |
| `OneExecution` | what an execution promises | abstract specification, implemented by `OutcomeWorker` and `OutcomeConfirmation` |
| `DirectorySwap` | the replacement of several directories and its recovery | specification |
| `RecoveryProofs` | | theorems about what the dead leave behind, `PacketProcess` and `DirectorySwap` |
| `Finalization` | plan, review branches, verification, recovery, completion | specification |
| `FinalizationProofs` | | theorems about it |
| `DashboardLive` | `view-model.json`: cache, shared refresh, read cache, against any writers | specification |
| `ReaderProofs` | | theorems about the two readers without the lock, `CoherentSnapshot` and `DashboardLive` |
| `MCLock`, `MCLog`, `MCSnapshot`, `MCPacket`, `MCProtocol`, `MCOutcome`, `MCConfirmation`, `MCSwap`, `MCFinal`, `MCDash` | | instances for TLC |

Each specification assumes of the others what their own modules establish: `LogTransaction`,
`PacketProcess`, `CommandProtocol` and `Finalization` run one command at a time, which is
`MutualExclusion` of the lock, and take a decision from one moment, which is `CoherentMoment` of
the snapshot. (A lock that is lost to an I/O error is therefore outside those models.)
Definitions named as mutants in a comment are the plausible bugs each property is known to
catch; no specification uses them.

### 2.1 SessionMutationLock

*State.* `lock` and `claim[<<owner, parent>>]` are the files: none, empty (opened with `wx`,
record not yet written) or written with pid and token. `pc[p]` is the next file-system call of
process `p`, and `tok`, `owner`, `claims`, `won` its local variables (`token`, `owner.token`,
the `RecoveryClaim[]`, and whether the file it holds was created by a recovery).

*Actions.* `Start`, `Open`, `WriteRecord`, `ReadOwner` are the fast path of `acquire`;
`CreateClaim`, `WriteClaim`, `ReadClaim` the loop of `acquireRecoveryAuthority`; `Confirm`,
`Unlink`, `Recreate`, `Rewrite` the recovery; `DropClaim`, `UnlinkClaim`, `Recovered` the
`finally` block with `releaseRecoveryClaims`; `Release`, `ReleaseUnlink` the end of
`withSessionMutationLock`. `Crash` kills a process anywhere. `FaultySpec` adds failed reads,
writes and unlinks and a pid that is used again.

*Abstraction.* A token stands for both UUIDs of an attempt (files are compared with one kind
or the other, never mixed) and may be drawn again once nothing holds it, which is what makes
the state space finite. The claim path's hash is the pair it hashes. `MAX_RECOVERY_DEPTH` is
the constant `MaxDepth`.

### 2.2 LogTransaction and ExactlyOnceLog

*State.* `history`, `index`, `work`, `extra` are HEAD's branch, the index, one tracked path that
stands for the candidate's, and one untracked path, a new file that a discard cleans and no keep
commits; contents are numbers (0 the original or no file, `e` the candidate of run `e`, one more for
anything else). `headLock` and `indexLock` tell who left Git's lock files. The
ledger is a sequence of chunks, so that an append can be torn. `receipt` is on disk, `mem` the
command's copy; `pc` its place in the stages.

*Actions.* One for every effect with the checks before it: `Log`, `Prepare`, `WriteReceipt`;
`CommitStage`, `Branch`, `Candidate`, `LockHead`, `Advance`, `UnlockHead`, `LockIndex`,
`Install`, `Record`, `VerifyCommit`; `LedgerStage`, `Truncate`, `AppendChunk`, `VerifyLedger`;
the tracked and untracked cleanups; `PacketStage` to `Clear`. `Throw` writes the receipt as
failed and returns. `Resume` takes a pending receipt up again, if the retry is `Admitted`: like any
`log` it first passes `assertMutationCapability`, where a torn event must be the receipt's own
(`Torn`), and a keep must not meet a HEAD the receipt does not explain (`HeadConflict`) or changes
that no fresh packet accounts for (`DirtySource`). `Crash` may come before any of them, and so may the user's `Edit`, `EditExtra`, `Stage`, `GitCommit` and a Git command that
holds a lock file.

*Abstraction.* A commit is its author, tree and place, since the code recognises its own by
parent, tree and message. The reads of one check are one step, and the write that uses them is
a later one where the code leaves a window (`late` marks an edit that falls between the last
digest of a path and its restore, the one edit the code cannot protect). Rows of other
commands are appended only between two commands, as the lock orders them. Of the decision `Admitted`
has the diagnostics an interrupted log can leave by itself; section 2.5 has the others. Left out: logs
without a packet, switches of branch, evidence artifacts and digests, session notes, a Git
child that dies alone.

*Refinement.* `ExactlyOnceLog` knows a pending run, its commits and its events: a run is
begun, gets its commit if it is kept, then its event, and only then stops being pending, each
at most once. `KeepsPromise` instantiates it with the receipt's run, the history and the
complete events of the ledger; torn appends, retries and refusals map to stutters.

### 2.3 CoherentSnapshot

*State.* `val` is what each source holds (the files, `git`, and `place`, the storage paths),
`facts` what an inspection of the worktree would find; `past`, `changes`, `atA`, `atStart` are
history variables. The loader's variables carry the code's names: `routing`, `vecA`, `cap`,
`vecB`, `version`, `failed`, `attempt`.

*Actions.* `CaptureRouting`, `ResolveA`, `ParseConfig`, `ReadVersionA`, `EndVectorA`,
`ReadSource`, `EndCapture`, `InspectA`, `ResolveB`, `ReadVersionB`, `Compare`, `InspectB` follow
the loop; `ReadFails` is any read that throws. The reads of one `Promise.all` are separate steps
in any order. `Write` and `TouchWorkTree` are all writers.

*Abstraction.* Equal hashes are equal contents. A content that parses is positive, one that
does not negative. A source gets an earlier content back only if it is `Restorable` (git
moves back; a file of the session carries times and identifiers), and is deleted only if it is
`Deletable`; that is the assumption under which equal vectors mean anything, and the code makes
it too. Git's identity is one source, and inspection errors are a choice.

### 2.4 PacketProcess

*State.* `marker` is `progress.json` with generation, exit state and the pids of its
termination evidence; `born`, `alive`, `killed` are processes, a tree being a root and one
helper it may fork; `unproven` and `closed` are the lifecycle rows that call a tree
termination-failed, or terminated with the operator's verification; `cmd` is the command
that holds the lock; `writer` the coalescing writer with its pending and active snapshot.

*Actions.* `NextBegins` to `NextEnds` are the steps of `next` through
`runWithRequiredCleanup`, `runExperiment` and `runPacketStage`, with every way a stage ends
(closed output, no spawn, rejection, timeout proven or not). `StartWrite`, `EndWrite`,
`WriteFails` are the writer's, and go on while the command does other things. `Probe*` is
`benchmark-inspect` and its `persistTerminationFailure`, `Recover*` `process-recover`, `Log`
the reconciliation of the packet's process.

*Abstraction.* The decision is reduced to the guards it puts on these commands (`MayMutate`,
`MayRun`). Timers are folded into "may happen"; a packet is fresh or stale; pids are not
reused; a process that leaves its process group is outside the model; `log` is one step here.
`unlisted` holds the trees whose termination handler failed before it had enumerated them: the
evidence then names the root alone, and the properties except their helpers (section 6).

### 2.5 CommandProtocol and DecisionCompiler

*State.* What a decision sees: `ledger`, `pending` (the receipt, by request and stage), `head`,
`contract`, `drift`, `packet`, `dirty` (also from the start), `marker`, `alive`; `route`, the work directory the
configuration names; `cmd`, the command that holds the lock, and `answer`, the last one's answer.

*Actions.* `Begin` resolves the route; `Refuse`, `Load`, `Accept` are `loadRequiredDecision`,
`assertMutationCapability` and the acceptance of a derivable contract, which may throw; the handlers follow
(`Launch`, `Measured`, `Prepare` to `CleanUp`, `LedgerDoctor`, `ProcessRecover`, `NewSegment`,
`Setup`, `Clear`, `RunProcess`); `AnswerFailed` and `AnswerResult` end the command. `Dies` may cut
an append; `EditLedger`, `EditTree`, `Reroute` are the user.

*Abstraction.* `DecisionCompiler` holds the registry: which diagnostic blocks which capability,
which leaves it to a recovery command, and who that command is. `Diagnostics` computes the codes
the state above can raise, 14 of some 40; the rest (budgets, quality, outcomes, finalization) stay
in the tables. A log's stages are those the decision can tell apart.

### 2.6 OutcomeStore, OutcomeWorker, OutcomeConfirmation, OneExecution

*State.* `receipt[e]` is an action's execution: mode, status, settlement of its reservation,
worker record; `lifecycle` the outcome's. `OutcomeWorker` adds the commands, the worker processes,
the process trees they start and `completion.json`; `lost` names the trees their worker lost sight
of. `OutcomeConfirmation` adds the attempt, the order of disclosures, and the provider's run.

*Actions.* `OutcomeStore` has what both share (nominate, prepare, settle a ticket, stop, amend).
The commands of `OutcomeWorker` go through `Launch`, `Spawn`, `Read`, `Inspect`, `StopOrphan`,
`SettleOrphan`, `Observe`, `MarkUnknown`, `ApplyFound`; a worker through `Claim`, `Admit`,
`RecordChild`, `Beat`, `Output`, `Close`, `Finish`, `ApplyOwn`. The commands of
`OutcomeConfirmation` go through `Nominate`, `Check`, `Admit`, `Post`, `Answer`, `Answered`,
`Caught`, and `Read`, `Find`, `Found`, `Observe`, `Proofless`, `Settle`, `Withdraw`. Each step that
mutates looks at the receipt again, each one between acts on what was read before. `Throws` is a
reconciliation inside the dispatch's `try`, whose errors are caught there.

*Abstraction.* A mutation under the outcome lock is one step; one that throws ends its command
as a death does. Amounts are not counted: a reservation is reserved, released as measured or
estimated, or unknown. Of a dataset there is one, so that independence is a matter of order.

*Refinement.* `OneExecution` knows for each action a stage, how often it was begun and a verdict.
Both modules implement it: the reservation's stage is the mapped settlement, `begun` counts the
evaluators started, or the dispatches sent.

### 2.7 DirectorySwap

*State.* For each target what is `active`, in `rollback` and in `stage`, each with the state of
its ownership marker (absent, cut short, complete); `origin` and `before` are history variables.

*Actions.* `RecoverRollback`, `RecoverMark`, `RecoverStage` are the recovery; `Stage`, `MarkStage`,
`Copy`, `Backup`, `Label`, `Install`, `Verify` the swap; `UndoInstall`, `UndoBackup`, `UndoLabel`,
`ClearStage` the error path; `Retire`, `RetireStage` the clean-up. One file-system call a step,
but for a copy; `Die` may also cut a marker or a removal short.

### 2.8 Finalization

*State.* The source branch is a sequence of commits, each with the files it touches; a file's
content is the number of the commit that wrote it. `branch`, `temporary`, `head`, `tree` and
`stray` are the repository; `accepted`, `plan` and `completion` what ledger and plan file say. The
names of the finalizer's variables are the code's: `review`, `created`, `failed`, `named`.

*Actions.* `Plan` writes any of the three plans (kept commits, collapsed overlaps, current tree).
`Apply` makes the checks of `executeFinalizer`; `NextBranch` to `Discard` build a review branch or
a temporary one to compare with; `ResetFailed` to `Drop` are the catch inside
`createBranchForGroup`, `Abort` and `Sweep` the one around it; `Leave`, `Untemp`, `Verdict` end a
verification; `Summarise`, `VerifyArtifacts`, `Fail`, `Report`, `Record` end the run. A failing
command and `Die` may come at every step. The operator commits (`Commits`), goes back and deletes
branches (`Restores`, `Deletes`); other commands relabel runs between two applications
(`Relabels`); a session artifact may land in the work tree (`Exports`).

*Abstraction.* A branch is the tree at its tip: that it was built on the base is so by
construction of the code's branches, and for a reused one the code compares trees, as the model
does. `job` tells apart who uses the build: a review branch, the comparison with an existing one,
the union. A failing Git command leaves the repository as it was. Left out: dry runs, the wording
of summaries, digests of evidence, product-grade proof (a completion is recorded or not).

### 2.9 DashboardLive

*State.* `history` is the sequence of contents the session's files had together, so that a
property can ask for the moment an answer is from; a file's version is the length of that history
when it was written. `current` and `pending` are the server's cache, `shared` the read cache with
its ledger stamp, `req` the requests, each at the await it stands at.

*Actions.* `Arrive` takes the cache entry the request will compare with; `Stat` and `Snapshot` are
the stamp and, if the entry does not answer it, the fingerprint, one file at a time in any order;
`Decide` answers from the cache, joins the pending refresh or starts one. `ReadPart`, `Share` and
`Plan` build the body in the code's order, `EndStamp` and `Complete` compare, retry once and give up
with 409, `Fail` is any error. `Rewrite` and `Drop` are the commands of other processes.

*Abstraction.* The ledger stands for the fingerprinted files that stay, the packet for those that
come and go. An entry's expiry is a choice made when the request comes, which is the time the code
compares with. Errors and 409 leave a request as if it had not asked. Left out are the parts of the
view model from outside the fingerprint (progress marker, Git), which the cache may serve until it
expires, and the caps of the research tree's fingerprint (200 entries, depth 2).

## 3. What is checked

Every constant called `Max...`, and `Chunks`, `Slots`, `N` and the sets of files and facts, are
bounds of the instances only.

| Run | Instance | Question |
| --- | --- | --- |
| `lock` | 3 processes, 4 tokens, depth 2; 2 deaths, or 1 death and 1 fault; fair | Do deaths and failed calls let two commands run? By deaths alone: is one recoverer elected, does a live owner's lock stay, is a dead one's reclaimed? |
| `log` | 2 runs, 2 chunks; 2 deaths with 1 user's change or 1 Git command, or the change and the command; fair | What do retries commit, append and destroy, what does the receipt claim, is `ExactlyOnceLog` implemented, does a pending log end? |
| `snapshot` | 2 files, git and place, 3 writers' steps; fair | Is an accepted snapshot one moment, is each retry earned, does a rejection stand, does the loader answer? |
| `packet` | 2 trees, 2 kills or 2 probes, 1 failed write, generation 3; fair | Is what lives on record, what is recorded dead dead, does every command end, is an unproven termination cleared? |
| `protocol` | 2 edits, 2 deaths | Is a pending receipt its owner's, is a refusal clean, do commands and deaths lock a session? |
| `protocol_interrupted` | 1 death, no edits | counterexample, section 5 |
| `outcome` | a process action and a managed one, 2 commands, 2 workers; 1 death or 1 fault | Does the evaluator start once, is the reservation released once and only when what ran has stopped? |
| `outcome_live` | the same, 1 command, 2 deaths, 1 fault, fair | Does a process action end, or become unknown? |
| `confirmation` | 2 actions, 2 commands, 2 faults, symmetric | Is a run dispatched once and settled once, and is independent evidence independent? |
| `swap` | 3 directories, 2 deaths, 2 failed calls | Is an original ever lost, a mixture taken for a release, an answer wrong? |
| `finalization` | 2 files, 4 histories of up to 3 commits, 2 applications, 2 failed commands, 1 change beside them, deaths at will | Is a completion backed by its branches, are others' branches kept, does a failure name what it leaves? |
| `dashboard` | 3 requests, 2 at a time, 2 changes of the files, symmetric | Is an answer ever older than its request, or of two moments? |

Why the bounds are enough for the question asked. *Lock:* the known ways to break such a protocol
need an owner, a recoverer and a survivor, two of which die; with depth 2 the walk along the claims
reaches its limit, and a process that was refused or is done starts again with another token, so
that old and new attempts meet. *Log:* two runs show that nothing of the first leaks into the
second; two chunks are a torn and a whole append; two deaths allow a resumption to be killed as
well; the change may be an edit, a staging, a commit or a row of another command, at every step.
*Snapshot:* three changes are the least that exhaust three attempts, and two files with `git` and
`place` have a member of each kind (deletable, restorable, moved). *Packet:* two trees are a
packet's benchmark and its checks, a packet and its successor, or a packet and a probe; why kills
and probes are not combined is in section 6. *Protocol:* the number of commands is unbounded; two
deaths and two edits reach every combination of two damages, and lock-outs come of two. *Outcome:*
a second worker and a second command are what can race; the managed action competes for the one
reservation. *Confirmation:* two actions are the least with an order of disclosure. *Swap:* three
targets have a first, a middle and a last; two deaths kill the recovery as well; two faults fail
the undo as well. *Finalization:* two files make groups that are disjoint, overlapping, undone or
empty; two applications are a failed one and its retry; two failing commands are an error and an
error of its clean-up. *Dashboard:* two requests at a time hold a refresh and one that crosses or
joins it, a third meets the cache they leave; two changes exhaust the retry.

The less obvious properties:

- `NoAbandonedClaim`: a live process's claim is one it is about to drop. A claim left by a live
  process would refuse every later recovery, for it is never found dead.
- `CommitAccounted`: a commit made for a run has its event, or a receipt from which `log` goes
  on. With `CheckpointHonest` (what the receipt calls complete is so) a death loses nothing.
- `DiscardsOnlyPrepared`: a cleanup overwrites only the content its receipt was prepared with.
- `LedgerKept`: only the torn end of the pending run's own event is ever cut off.
- `RetriesAreEarned`: an attempt of the loader is given up only for a change during it, so a
  quiet session is never "unavailable".
- `PacketLeavesTruth`: a reported packet leaves no marker, or one that names all it left alive,
  and nothing still queued in the writer can overwrite that, then or between later commands.
- `NoLockOut`: a session that no command may mutate freely has a command that is admitted and
  that lifts it: the pending request itself, or `process-recover`. It excepts the two states of
  section 5 in which the code does lock it: `Unrecorded` and `Littered`.
- `PendingSettles`: retries that are let in finish a pending log, through torn events, failed stages
  and further deaths; the same two states are the only ones in which none is let in though the user
  has done nothing.
- `IndependentIsUnseen`: evidence that counts as independent is of data no other run had seen,
  also when that other run failed or its answer was lost.
- `AnswerIsOneMoment`: the fingerprints are read before and after the body, file by file and without
  a lock, and a joined request took no part in either; that all of them bracket one moment since
  the request came is the claim.
- `FailsVisibly`: whatever the finalizer could not restore or delete is named by its error.

### Fairness

- `lock`: a process that runs takes its next step, and refused commands are run again (weak
  fairness of each process). Deaths are never forced or excluded by it. The retry is the user's,
  as the refusal's message asks.
- `log`: weak fairness of the command's steps with `Resume`, and of the end of a user's Git
  command. A `Resume` that is not `Admitted` is not enabled, so fairness does not assume it.
  `PendingSettles` promises nothing once the user has changed something or a death has abandoned a
  lock file (`Undisturbed`), and nothing where the admission refuses the retry for good: a keep that
  stopped, by a death or at an `index.lock` that was not free, after HEAD had moved and before the
  receipt recorded it (`Unrecorded`); and a keep interrupted beside a file outside the committed
  paths that was dirty when the contract was accepted (`Littered`). Section 5 has both.
- `snapshot`: weak fairness of the loader only. Writers may write for ever.
- `packet`: weak fairness of the writer, the commands and each process's end, and strong fairness
  of `process-recover` for `UnprovenClears`: the decision names it as the action, but it is the
  operator who runs it, between other commands. A stage's timeout always fires.
- `outcome_live`: weak fairness of the steps of commands and workers, and strong fairness of a
  `--resume` by somebody: the answer of every command asks for it, but other commands come between.

## 4. What is proved

TLAPS checks the following for every value of the constants, from the assumptions the
modules name.

**The lock** (`SessionMutationLockProofs`; assumptions `NoTokenAssumption`,
`BoundsAssumption`). `Spec` implies `[]TypeOK`, `[]HolderOwnsFile`, `[]MutualExclusion`,
`[]OneRecoverer`, `[]NoAbandonedClaim` and `LiveLockStays`, for any number of processes, deaths and recovery depth,
on a file system whose calls do not fail. None of the properties is inductive. `IInv` adds:

- `TokensDistinct`, `Alive`: a token names one attempt; who is not dead is alive.
- `OwnsFile`: who created the lock file finds it unchanged, also before its record is written.
- `OwnerGone`: whoever has left the recovery by its end no longer sees the owner's token in
  the lock: claims are dropped only when the lock they were made for is gone.
- `ChainOnDisk`, `OneChain`: as long as that lock is there, the claims a recoverer remembers
  are files on disk, written and of dead processes but for its own at the end; and two
  recoverers remember the same chain as far as both have walked.
- `UnlinksDead`, `WithinDepth`: what the last step relies on.
- `ClaimsOwned` (for `NoAbandonedClaim` only, over `IInv`): the claim file of a live process is the
  one it has just opened, or the last of the claims it still holds, so that its `finally` drops it.

The crux is `OneElected`: of two recoverers that both hold a claim for the lock on disk, the
one further down has walked past the other's claim as that of a dead process; but the other is
alive. `OwnerGone` is the conjunct a failed read breaks (section 6), so the theorems are about
`Spec`, not `FaultySpec`.

**The log** (`LogTransactionProofs`; assumption `BoundsAssumption`). `Spec` implies `[]TypeOK`,
`[]CommittedIsEvaluated`, `[]CommitAccounted`, `[]CheckpointHonest`, `ClearedWhole`, `LedgerKept`,
`DiscardsOnlyPrepared` and `KeepsPromise`, for any number of runs, deaths, changes by the user and
chunks of an append. What the properties say of past runs cannot be inductive without what the
receipt on disk and the command's copy say of the pending one:

- `PastInv`: the commit of a run that is over is its evaluated candidate and has its event, which
  names it; of a run that is only a packet there is nothing yet. It turns into the next conjunct
  when a receipt is written, and back when one is cleared.
- `ReceiptInv`: a receipt is `Good`, on disk and in the command. `Made` bounds what the run has
  done: at most one commit, as the child of the receipt's head, and a beginning of one event, behind
  the receipt's prefix of the ledger. `Honest` says that what is checkpointed has happened, in the
  order of the stages. A death drops the copy, a failing stage marks it failed, and neither takes
  anything away, which is why a retry may trust the file.
- `StageInv`: what a place in the stages says of them (`lockHead` is of a keep without its
  checkpoint, `append` has written as many chunks as lie behind the prefix).
- `WindowInv`: what is about to be overwritten is what was prepared, unless the user came in
  between (`late`).

The refinement maps the write of the receipt to `Begin`, the move of Git's reference to `Commit`,
the last chunk of the append to `Publish`, the removal of the receipt to `Close`. Torn appends,
their truncation, retries, deaths and everything the user does map to stutters.

**The snapshot** (`ReaderProofs`; assumptions on the constants `FilesAssumption`,
`NamesAssumption`, `FactsAssumption`, `KindsAssumption`). `Spec` implies `[]TypeOK`,
`[]CoherentMoment`, `[]RetriesAreEarned` and `[]RejectionStood`, for any set of sources and any
number of writers' steps. `IInv` adds `OldOrGone` (the content vector A read of a source that
is not restorable is still there or gone for good), `StillThere` and `FoundAgain` (if it is
still there, or vector B found it again, it was there when A was complete and when the bytes
were captured), `Inspected`, and `Quiet` (an attempt in which nobody wrote has read exactly what
is there, so its comparisons succeed).

**The decision and its protocol** (`CommandProtocolProofs`; assumption `ProtocolBounds`). About
the tables, for any set of diagnostics: `PendingAdmitsLogs` (while a receipt is pending only a log
is admitted) and `TwoDamagesAdmitNothing` (two session-wide damages whose remedies are different
commands admit neither). About the protocol, for any number of edits and deaths: `Spec` implies
`[]TypeOK`, `[]RefusedIsUntouched`, `[]NoLockOut` and `PendingIsOwned`. The inductive `ProtocolInv` links a
command's phase to what it was admitted by: a command that works on a pending receipt is a log; the
contract is not derivable while a receipt is pending, so the acceptance that runs before the
handler cannot touch such a session; a command that has not been admitted has touched nothing.
`PendingAdmitsLogs` is what carries the step `Load`. `NoLockOut` takes `CleanInv` beside it: no
receipt is pending, and no log at work, beside an unproven process; while nobody has edited, the
ledger is sound or torn by the pending append only and HEAD is not a stranger's; what a
pending keep was authorized by still holds. The diagnostics left are then ones whose remedy the
tables admit.

**Finalization** (`FinalizationProofs`; for the last of the three assumptions
`FinalizationBounds` and `HistoriesAssumption`). For any history, set of files, number of runs,
changes and failing commands: `Spec` implies `OthersKept`, `[]FailsVisibly` and
`[]CompletionIsBacked`. `OwnInv` says why branches of others stay: a review branch is made only
where there is none, so what is under construction is of this run, and what is swept (`created`)
is of this run or gone already. `NameInv` says for every place a run may stand at what it may
still have to restore or delete; the rest is named. A completion takes five more parts:

- `FactsInv`: the history only grows, and a plan takes for each file what an accepted commit has
  written. `ContentAccepted` carries it: the last accepted commit that touches a file is the last
  writer up to itself.
- `PhaseInv`: where a run stands tells whether it has met an error, so only a run without one is
  followed further.
- `BuildInv`: what the work tree of such a run holds at every step, so that what is committed is
  what was planned; an operator who commits on the source branch before the first switch leaves it
  clean.
- `GroupsInv`: every group that is done has a branch with the planned tree, its own or one found
  and compared, or nothing to hold. It is the conjunct the reuse of branches would break: with the
  names of the files and without `Equivalent`, a branch another run left passes.
- `DoneInv`: a completion is about commits that are still there, and `ContentKept` says that later
  commits do not change what a file held after them.

**Confirmations** (`ConfirmationProofs`; no assumption on the constants). Two theorems:
`KeepsItsPromise`, that `OutcomeConfirmation` implements `OneExecution`, and `EvidenceUnseen`, the
invariant `IndependentIsUnseen`. Commands act on what they read earlier, so the inductive invariant
has to say what a command may still rely on when it acts:

- `ReceiptInv`: a receipt is terminal exactly when its reservation is settled, so a release and its
  verdict are one step;
- `AttemptInv`: an attempt that is absent or `preparing` was never sent, a `preparing` one is still
  reserved, and an attempt has a run identity only if the provider has the run;
- `CommandInv`: a command under way holds an action that is present; past the dispatch that action
  was sent, and where it handles a run the provider has one;
- `PostInv`: the command that is about to dispatch is the only one, for a reservation that stands
  and was never sent. It holds because after the admission the attempt is no longer `preparing`, so that
  a withdrawal is refused, the catch only makes the execution unknown, and without a run no verdict
  can be settled;
- `DisclosedInv`: what was dispatched is open or disclosed. `EvidenceUnseen` follows from it, as the
  first disclosure is the evidence itself.

The refinement maps a nomination to `Reserve`, the dispatch to `Begin`, every step that writes a
terminal receipt to `Release`, and all others, those that make an execution unknown included, to a
stutter.

**The local worker** (`WorkerProofs`; assumption `WorkerBounds`). `Spec` implies `[]TypeOK`,
`[]ReleasedMeansStopped` and `KeepsPromise`, the refinement of `OneExecution`, for any number of
actions, modes, commands, worker processes, deaths and faults. `ExecutionInv` says for every action:

- `ReceiptInv`: released and terminal are one; before the launch nothing of the action exists; the
  worker that has claimed it does; checks are on record only after the evaluator ran; what lives on
  after the release is `Forgotten`.
- `OneWorker`: of all slots one is ever used. A command spawns only while the receipt names it as
  the observer of a launch nobody has claimed (`Spawnable`, in `CommandInv`), and a launch is
  recorded once. With it every other process of an action is this worker's.
- `WorkerInv`: where the worker is says how far its processes have come, and while it serves the
  action nobody closes that: every other way to a verdict needs a completion, which it has not
  written, or a claimant found dead.
- `CompletionInv`: a completion is its worker's last word, and a certain one accounts for every
  process (`Accounted`: it stopped, or is in `lost`).

For every command `CommandInv` says what of its earlier reading still holds: the pid it looks at
is the claimant's, a claimant found dead stays dead and its processes only end. `Keeps` names these
facts, and each step is shown to keep them for the one action it touches and to leave the others
alone; in that action it moves one slot or writes the receipt. The refinement maps a nomination to
`Reserve`, the admission of the evaluator to `Begin`, every write of a terminal receipt to `Release`,
and claims, checks, heartbeats, unknowns and deaths to stutters.

**The dashboard** (`ReaderProofs`; no assumption on the constants). `LiveSpec` implies
`[]AnswerIsOneMoment`, for any number of requests and changes of the files. The moment is not in the state: `RefreshInv` says of
every refresh that some time since its own request divides what it began with, seen before
(`BeganBy`), from what it has read, seen after (`ReadSince`). By `HistInv` no version of a file comes
back, so a file whose fingerprints agree stood still in between and had its version at that time
(`Matched`); who joins came before it or saw the files the attempt began with (`Joined`). `CacheInv`
carries the same fact in the cache entry, `MeetInv` and `ShareInv` tell which refreshes crossed in
the read cache, and `DoneInv` is the property for each request.

**The packet processes** (`RecoveryProofs`; assumption `BoundsAssumption`). `Spec` implies
`[]TypeOK`, `[]ClosedIsDead`, `PacketLeavesTruth` and `RecoveredIsDead`, for any number of trees,
kills, probes, failed writes and generations, kills and probes together. The writer works behind
the command's back, so `PacketInv` has to say what is on disk, under way and waiting:

- `GenInv`: these three are in the order of their generations, so the store's refusal of an older
  generation loses nothing.
- `StageInv`: at each step of a command the newest of the three (`Newest`) is the one that step has
  announced; where the command waits for the writer all is written (`Settled`, `Calm`), and a writer
  that failed has left the marker as it was. Between commands nothing is queued.
- `CmdInv`, `FamilyInv`: what a command remembers of its tree; trees are started one by one.
- `CoverInv`: ids that a termination has recorded, in the command, in the writer or on disk, name
  all that lives of what can be asked about. It is inductive since a tree that was sent SIGKILL does
  not fork, and of one that was never enumerated only the root is asked about.
- `UnprovenInv`: an unproven tree is dead, or the marker stands for it, which is what `log` relies on
  when it finds the marker gone.

`[]LivingIsBarred` and `StagesAlone` are proved under `[]Apart`: kills and failed writes may come in
any number, and so may probes, but not both in one behaviour. Without that they are false of the
code (section 6): a killed probe has written no marker, and one that fails takes the marker of a
killed packet. It is the restriction `MCPacket` makes. `BarInv` adds to `PacketInv` where a living
process is accounted for at each step of a command, and between commands by which marker.

**The directory swap** (`RecoveryProofs`; assumption `SwapBounds`). `SwapSpec` implies
`[]SwapTypeOK`, `[]OriginalKept`, `[]ReadyIsWhole` and `AnswersAreTrue`, for any number of
directories, deaths and failed calls, deaths of the recovery included. Of `SwapIInv` a death keeps
what is said of the disk, `Durable`: the release stands everywhere, or each original is at its target or in its
rollback, and a rollback is only cut short once the release stands everywhere. The rest says why the
process may take the next step:

- `RecoverInv`: targets before the one under recovery have neither rollback nor marker, so a swap
  begins without them.
- `TransactionInv`, `ForwardInv`: which of `before`, `active` and `rollback` a target holds follows
  from `backedUp` and `installed`, and up to where the swap has gone from its step.
- `UndoInv`, `RetireInv`: unless something was complained about, what was taken back is as before,
  and what was cleaned is gone. The answers rest on them.

**Only model-checked:** everything temporal that needs fairness (`PendingSettles`,
`StaleLockReclaimed`, `Answers`, `CommandsEnd`, `UnprovenClears`, `LaunchAnswered`), which is out of
TLAPS's reach. Every invariant and every action property of a passing run is proved.
**Not proved and not true:** the lock under faults (section 6).

## 5. Where the code and its description part

A run TLC finds violated; `PROJECT.json` quotes the lines. Two more are in section 6: a cancelled
outcome, and the setup plan of the live dashboard.

- `protocol_interrupted`. A keep that dies after Git's reference has moved and before the receipt
  records the commit (`lib/commands/log.ts:1950`): HEAD is not the one the contract expects, the
  receipt does not yet own that conflict, and the same `log` that would resume is refused, though
  nobody edited anything. The documentation (`docs/operate.md:68`, `docs/trust.md:67`) has it resume.
  In `LogTransaction` the same state is `Unrecorded`, reached also without a death, when the index
  cannot be locked. So the third case of `Branch`, which takes an unrecorded commit for the run's own
  by parent, tree and message, is code no retry reaches.

No run of its own has the second one, `Littered`: a file outside the committed paths that was dirty
when the contract was accepted does not bar the contract (`lib/experiment-contract.ts:2242`), and
while the packet is fresh it does not count as a dirty source either. Once the keep has moved HEAD or
written its event the packet is not fresh any more, `dirty-source` (`lib/session-decision.ts:670`)
blocks `authorize-keep`, and neither `log` nor any other command takes the receipt up.

## 6. Limits worth knowing

What the models reach or leave out, and no property promises:

- *Lock.* After two deaths one failed read during the confirmation lets a recoverer give up and
  drop the dead recoverer's claim with its own (`lib/session-mutation-lock.ts:142`): two survivors
  are then elected. `MCLock` therefore combines a fault with one death only. A death between
  `open("wx")` and the write of the record leaves a lock that names no owner and that nothing
  removes (`:183`); `StaleLockReclaimed` speaks of written records.
- *Log.* A death while `log` holds `HEAD.lock` or the ref's lock makes every retry find its own lock
  and throw (`lib/commands/log.ts:2010`). A keep whose index reconciliation failed once is finished
  by its retry with "Git: no commit created." (`:696`), though the ledger names the commit. An edit
  between the last look at a path and `git restore` is lost: `late` marks it and
  `DiscardsOnlyPrepared` excepts it.
- *Packet.* A probe's evidence overwrites the running marker of a packet that was killed
  (`scripts/autoresearch.ts:3684`); once both can happen `LivingIsBarred` is false, so the instance
  has kills or probes. A termination handler that fails before it enumerates a tree names only the
  root (`lib/runner.ts:842`, variable `unlisted`). A running marker left by a killed `next` is
  cleared by nobody (`lib/active-progress-store.ts:119`).
- *Protocol.* Two session-wide damages with different remedies, which takes the user's hand, admit
  no command. `ledger-doctor --repair` renumbers duplicates only: an unreadable row or a gap stays
  (`docs/trust.md:85`). A stale packet with a diagnostic of its own shuts out `next`. An error of
  the lock's release replaces the answer. `new-segment` writes two rows, and a death between them
  leaves a segment without its contract.
- *Outcome.* An error after the checks' termination failed hides that they live; a save that fails
  after the spawn leaves a failed receipt beside a running process (both in `lost`). A worker that dies after it started the checks and before it recorded them
  leaves the evaluator as the child on record (`lib/outcome-worker.ts:342`): a cancellation proves
  that one stopped and releases the reservation while the checks run, against
  `docs/investigations.md:71` ("only after every process within the observed native boundary is
  proven stopped"); `ReleasedMeansStopped` excepts it (`Forgotten`). A launch lost
  before the claim, or a completion of "unknown", stays unknown for ever. A completion written
  between the read and the inspection is passed over. The queued update of `onSpawn` runs in the
  lock context of the mutation that admitted it (`lib/outcome-store.ts:85`), which the model, where
  a mutation is one step, does not show.
- *Confirmation.* The run's identity is saved as "running" also over an attempt verified meanwhile
  (`lib/github-confirmation.ts:211`): it then no longer counts as independent. A death between
  "dispatching" and the request leaves an action that nothing closes.
- *Swap.* With a target that was missing at first, a death during the installs can leave old and new
  directories that count as ready and have no artifacts (`scripts/directory-swap.mjs:34`);
  `ReadyIsWhole` asks that all existed. A kill during the first staging, or in the clean-up of a
  complete install, leaves artifacts recovery refuses; a marker cut short stays in a restored
  original.
- *Finalization.* An error while the pending summary is written
  (`scripts/finalize-autoresearch.ts:1424`) is outside every catch: a review branch stays checked
  out and the created ones are not named (answer "unsummarised"). A file that is not a session
  artifact and lands in the work tree during a build is committed into a review branch by
  `git add -A`; the union check builds its own branch and does not see it. An artifact in an earlier
  commit of a reused branch passes, since the last look is at the tip (`docs/finish.md:22`). A Git
  command that fails after its effect (a hook) is outside the model.
- *Dashboard.* Two refreshes that overlap share one read cache. The older one writes its ledger
  state there after the newer one did (`scripts/autoresearch.ts:3314`), and the newer one's setup
  plan is made of it: an answer with a matching fingerprint, kept in the cache, mixes two ledgers.
  `AnswerIsOneMoment` vouches for the setup plan of a refresh nobody crossed only; without that
  exception TLC finds the case with two requests and one append. A refresh keeps the fingerprint it
  began with while it retries, so a request may join it for a file that came and went; files absent
  from a fingerprint are excepted.

## 7. Not modelled

The reasons are with each component in `PROJECT.json`. The dashboard's front end, recipes, reports,
forensics, memory and the read model are functions of captured state without a life of their own;
the experiment contract and the fit gate are statistics and schema checks over one input at a time,
better covered by tables of examples; GitHub and benchmarks are other systems. The registry of
dashboard servers is written without a lock (`lib/dashboard-server-registry.ts:102`), and a lost
record costs the reuse of a server, no more: the recorded server is asked for its identity first.
Lanes run as one command under the session lock; their two looks at the work tree, and the
lifecycle projection's limit of 256 identities, are left to tests. What would add most next: the
lane runner's two looks as a component of its own, and the read model the decision compiler takes
its facts from.
