---------------------------- MODULE Finalization ----------------------------
(***************************************************************************)
(* scripts/finalize-autoresearch.ts: a plan groups the accepted commits of *)
(* the source branch; its application builds one review branch per group   *)
(* in the session's own work tree, verifies that together they make the    *)
(* final tree, and records the completion in the ledger.  Every git        *)
(* command may fail without effect and the process may die between two.    *)
(* The session mutation lock keeps a second finalizer and the ledger's     *)
(* writers away; it does not keep the operator's own git away.             *)
(***************************************************************************)
EXTENDS Integers, Sequences, FiniteSets, FiniteSetsExt

CONSTANTS
  Files,      \* the files that are not session artifacts
  Histories,  \* the commits of the source branch, oldest first, when it starts:
              \* sequences of [files |-> those it touches, undo |-> BOOLEAN]
  MaxCommits, \* bound: commits on the source branch
  MaxRuns,    \* bound: applications of a plan
  MaxChanges, \* bound: what changes beside the finalizer
  MaxFaults   \* bound: commands that fail

ASSUME FinalizationBounds ==
  /\ MaxCommits \in Nat /\ MaxRuns \in Nat /\ MaxChanges \in Nat /\ MaxFaults \in Nat
  /\ \A h \in Histories : Len(h) <= MaxCommits

ASSUME HistoriesAssumption ==
  \A h \in Histories : h \in Seq([files : SUBSET Files, undo : BOOLEAN])

VARIABLES
  history,    \* the source branch
  accepted,   \* the commits the ledger holds as accepted and current
  plan,       \* the plan file
  branch,     \* the review branches
  temporary,  \* the verification branch of this run
  head,       \* what is checked out
  tree,       \* work tree and index: what each file holds
  stray,      \* a session artifact written into the work tree: untracked, staged
  pc, job, group, todo,  \* the step, what is being built, for which group, the files left
  review, created,       \* reviewBranches and createdBranches
  failed, named,          \* a command has failed; what the recovery failures name
  summary,                \* the status in the review summary
  answer,     \* how the last run ended
  completion, \* the finalization-completed row of the ledger
  fresh,      \* the branches this run has made and not deleted
  changes, runs, faults

repository == <<history, branch, temporary, head, tree, stray>>
progress == <<pc, job, group, todo, review, created, failed, named, summary>>
bounds == <<changes, runs, faults>>
vars == <<repository, progress, accepted, plan, answer, completion, fresh, bounds>>

\* Group i holds commit i; the last two are the collapsed and the current-tree group.
Collapsed == MaxCommits + 1
CurrentTree == MaxCommits + 2
Groups == 1 .. CurrentTree
\* What else may be checked out.
OnSource == 0
OnBase == -1
OnVerify == -2
Contents == 0 .. MaxCommits   \* the commit that wrote it, 0 as on the base
Trees == [Files -> Contents]
Snapshots == [tree : Trees, artifact : BOOLEAN]
None == "none"
NoBranch == [tree |-> [f \in Files |-> -1], artifact |-> FALSE]
NoCompletion == [length |-> 0, accepted |-> {}, branches |-> [g \in {} |-> NoBranch]]
Base == [tree |-> [f \in Files |-> 0], artifact |-> FALSE]
NoPlan == [groups |-> {}, files |-> [g \in Groups |-> {}], content |-> Base.tree,
           length |-> 0, accepted |-> {}, excluded |-> {}]

\* What the file holds after the first i commits.
Content(i, f) ==
  LET writers == {j \in 1 .. i : f \in history[j].files}
      last == Max(writers)
  IN  IF writers = {} \/ history[last].undo THEN 0 ELSE last

SourceAt(i) == [tree |-> [f \in Files |-> Content(i, f)], artifact |-> FALSE]
\* A branch on the base with commit i alone.
Own(i) == [tree |-> [f \in Files |-> IF f \in history[i].files THEN Content(i, f) ELSE 0],
           artifact |-> FALSE]
\* The commit that is checked out.
Checked == CASE head = OnSource -> SourceAt(Len(history))
             [] head = OnBase -> Base
             [] head = OnVerify -> temporary
             [] OTHER -> branch[head]
Dirty == tree # Checked.tree \/ stray # None

TypeOK ==
  /\ accepted \subseteq 1 .. Len(history) /\ Len(history) <= MaxCommits
  /\ branch \in [Groups -> Snapshots \cup {NoBranch}]
  /\ temporary \in Snapshots \cup {NoBranch}
  /\ head \in {OnSource, OnBase, OnVerify} \cup Groups /\ tree \in Trees
  /\ stray \in {None, "untracked", "staged"} /\ todo \subseteq Files
  /\ job \in {"review", "match", "union"} /\ group \in {0} \cup Groups
  /\ review \subseteq Groups /\ created \subseteq review
  /\ failed \in BOOLEAN /\ named \subseteq {OnSource, OnVerify} \cup Groups
  /\ summary \in {None, "pending", "verified", "failed"}
  /\ fresh \subseteq Groups

\* The ledger may accept any commit; reviewers may have branches of the same names.
Init ==
  /\ history \in Histories /\ accepted \in SUBSET (1 .. Len(history))
  /\ plan = NoPlan /\ temporary = NoBranch /\ head = OnSource /\ stray = None
  /\ tree = SourceAt(Len(history)).tree
  /\ \E hand \in {NoBranch, Base} \cup {SourceAt(i) : i \in 1 .. Len(history)}
                                  \cup {Own(i) : i \in accepted},
        g \in accepted \cup {CurrentTree} :
       branch = [n \in Groups |-> IF n = g THEN hand ELSE NoBranch]
  /\ fresh = {}
  /\ pc = "idle" /\ job = "review" /\ group = 0 /\ todo = {} /\ review = {} /\ created = {}
  /\ failed = FALSE /\ named = {} /\ summary = None /\ answer = None
  /\ completion = NoCompletion
  /\ changes = 0 /\ runs = 0 /\ faults = 0

-----------------------------------------------------------------------------
(* Planning, and what goes on beside the finalizer.                        *)
Quiet == UNCHANGED <<answer, completion, accepted, plan, fresh, bounds>>
Same == UNCHANGED repository

Change == changes < MaxChanges /\ changes' = changes + 1 /\ UNCHANGED <<runs, faults>>

\* writeDraftPlan, with and without --collapse-overlap, and finalizeCurrentTree.
Planned(groups, files, upTo, excluded) ==
  /\ plan' = [groups |-> groups, files |-> files,
              content |-> [f \in Files |-> IF \E g \in groups : f \in files[g]
                                           THEN Content(upTo[f], f) ELSE 0],
              length |-> Len(history), accepted |-> accepted, excluded |-> excluded]
  /\ answer' = None /\ Same
  /\ UNCHANGED <<progress, accepted, completion, fresh, bounds>>

Plan ==
  /\ pc = "idle" /\ head = OnSource
  /\ LET unkept == (1 .. Len(history)) \ accepted
         LastKept == [f \in Files |-> Max({0} \cup {i \in accepted : f \in history[i].files})]
         Whole == [f \in Files |-> Len(history)]
         changed == {f \in Files : Content(Len(history), f) # 0}
         kept == UNION {history[i].files : i \in accepted}
     IN  \/ Planned(accepted, [g \in Groups |-> IF g \in accepted THEN history[g].files ELSE {}],
                    LastKept, unkept)
         \/ /\ \E i, j \in accepted : i # j /\ history[i].files \cap history[j].files # {}
            /\ Planned({Collapsed}, [g \in Groups |-> IF g = Collapsed THEN kept ELSE {}],
                       LastKept, unkept)
         \/ /\ changed # {} /\ ~Dirty
            /\ Planned({CurrentTree}, [g \in Groups |-> IF g = CurrentTree THEN changed ELSE {}],
                       Whole, {})

\* The operator commits on the source branch, whether or not a finalizer runs.
Commits ==
  /\ head = OnSource /\ ~Dirty /\ Len(history) < MaxCommits /\ Change
  /\ \E f \in Files : history' = Append(history, [files |-> {f}, undo |-> FALSE])
  /\ tree' = [f \in Files |-> IF f \in history'[Len(history')].files
                              THEN Len(history') ELSE tree[f]]
  /\ answer' = IF pc = "idle" THEN None ELSE answer
  /\ UNCHANGED <<branch, temporary, head, stray, progress, accepted, plan, completion,
                 fresh>>

\* A log or a discard changes what is accepted; the lock keeps it out of a run.
Relabels ==
  /\ pc = "idle" /\ Change
  /\ \E i \in 1 .. Len(history) :
       accepted' = IF i \in accepted THEN accepted \ {i} ELSE accepted \cup {i}
  /\ answer' = None
  /\ UNCHANGED <<repository, progress, plan, completion, fresh>>

\* A dashboard export or the like lands in the work tree during a run.
Exports ==
  /\ pc # "idle" /\ stray = None /\ ~Checked.artifact /\ Change
  /\ stray' = "untracked"
  /\ UNCHANGED <<history, branch, temporary, head, tree, progress, accepted, plan, answer,
                 completion, fresh>>

\* After a failure the operator goes back to the source branch, or deletes a
\* review branch the finalizer names as conflicting.
Restores ==
  /\ pc = "idle" /\ (head # OnSource \/ Dirty)
  /\ head' = OnSource /\ tree' = SourceAt(Len(history)).tree /\ stray' = None
  /\ temporary' = NoBranch /\ answer' = None
  /\ UNCHANGED <<history, branch, progress, accepted, plan, completion, fresh, bounds>>

Deletes ==
  /\ pc = "idle"
  /\ \E g \in Groups \ {head} :
       /\ branch[g] # NoBranch /\ branch' = [branch EXCEPT ![g] = NoBranch]
       /\ fresh' = fresh \ {g}
  /\ answer' = None
  /\ UNCHANGED <<history, temporary, head, tree, stray, progress, accepted, plan, completion,
                 bounds>>

-----------------------------------------------------------------------------
(* The steps of a run.                                                     *)
Goto(step) == pc' = step /\ UNCHANGED <<job, group, todo, review, created, failed, named, summary>>
GotoFailed(step) ==
  pc' = step /\ failed' = TRUE /\ UNCHANGED <<job, group, todo, review, created, named, summary>>
Recovery(step, names) ==
  /\ pc' = step /\ named' = named \cup names /\ failed' = TRUE
  /\ UNCHANGED <<job, group, todo, review, created, summary>>

\* A command that fails leaves the repository as it is.
Fault ==
  /\ faults < MaxFaults /\ faults' = faults + 1 /\ Same
  /\ UNCHANGED <<answer, completion, accepted, plan, fresh, changes, runs>>

\* git switch keeps what the two commits have in common and refuses to lose
\* a change or to overwrite an untracked file.
Switchable(to) ==
  /\ \A f \in Files : \/ tree[f] \in {Checked.tree[f], to.tree[f]}
                      \/ Checked.tree[f] = to.tree[f]
  /\ stray = None \/ ~to.artifact
Switch(name, to) ==
  /\ Switchable(to) /\ head' = name
  /\ tree' = [f \in Files |-> IF tree[f] # Checked.tree[f] THEN tree[f] ELSE to.tree[f]]
  /\ UNCHANGED <<history, branch, temporary, stray>>
Source == SourceAt(Len(history))

\* The switch succeeds, or fails with the second step and what it names.
Switching(name, to, next, otherwise) ==
  \/ Switch(name, to) /\ Quiet /\ next
  \/ ~Switchable(to) /\ Same /\ Quiet /\ otherwise
  \/ Fault /\ otherwise

Reset(next, otherwise) ==
  \/ /\ tree' = Checked.tree /\ stray' = IF stray = "staged" THEN None ELSE stray
     /\ UNCHANGED <<history, branch, temporary, head>> /\ Quiet /\ next
  \/ Fault /\ otherwise

\* git branch -D refuses the branch that is checked out.
DeleteReview(g, next, otherwise) ==
  \/ /\ head # g /\ branch' = [branch EXCEPT ![g] = NoBranch] /\ fresh' = fresh \ {g}
     /\ UNCHANGED <<history, temporary, head, tree, stray>>
     /\ UNCHANGED <<answer, completion, accepted, plan, bounds>> /\ next
  \/ head = g /\ Same /\ Quiet /\ otherwise
  \/ Fault /\ otherwise
DeleteTemporary(next, otherwise) ==
  \/ /\ head # OnVerify /\ temporary' = NoBranch
     /\ UNCHANGED <<history, branch, head, tree, stray>> /\ Quiet /\ next
  \/ head = OnVerify /\ Same /\ Quiet /\ otherwise
  \/ Fault /\ otherwise

Answer(a) ==
  /\ pc' = "idle" /\ answer' = a
  /\ job' = "review" /\ group' = 0 /\ todo' = {} /\ review' = {} /\ created' = {}
  /\ failed' = FALSE /\ named' = named /\ summary' = summary

-----------------------------------------------------------------------------
(* executeFinalizer: the checks before anything is changed.                *)
Disjoint == \A g, k \in plan.groups : g # k => plan.files[g] \cap plan.files[k] = {}
NoExcludedConflict ==
  \A i \in plan.excluded \cap (1 .. Len(history)), g \in plan.groups :
    history[i].files \cap plan.files[g] = {}

Preflight ==
  /\ head = OnSource /\ ~Dirty /\ Len(history) = plan.length
  /\ Disjoint /\ NoExcludedConflict
  /\ accepted = plan.accepted

Apply ==
  /\ pc = "idle" /\ plan # NoPlan /\ runs < MaxRuns /\ runs' = runs + 1
  /\ temporary' = IF head = OnVerify THEN temporary ELSE NoBranch
  /\ UNCHANGED <<history, branch, head, tree, stray>>
  /\ UNCHANGED <<completion, accepted, plan, changes, faults>>
  /\ fresh' = {} /\ named' = {} /\ summary' = None
  /\ IF Preflight THEN pc' = "group" /\ answer' = None ELSE pc' = "idle" /\ answer' = "refused"
  /\ job' = "review" /\ group' = 0 /\ todo' = {} /\ review' = {} /\ created' = {} /\ failed' = FALSE

-----------------------------------------------------------------------------
(* Building a branch: a review branch, or a temporary one to compare with. *)
NextGroup(done) ==
  /\ pc' = "group" /\ job' = "review" /\ todo' = {} /\ review' = review \cup done
  /\ UNCHANGED <<group, failed, named, summary>>
Later == {g \in plan.groups : g > group}
Present(g) == {f \in Files : branch[g].tree[f] > 0}

\* createBranchForGroup up to the switch, and the first test of
\* reuseExistingBranchForGroup.
NextBranch ==
  /\ pc = "group" /\ Later # {} /\ Same /\ Quiet
  /\ LET g == Min(Later)
         files == plan.files[g]
     IN  /\ group' = g /\ UNCHANGED <<review, created, named, summary>>
         /\ \/ /\ files = {} /\ UNCHANGED <<pc, job, todo, failed>>
            \/ /\ files # {} /\ branch[g] = NoBranch
               /\ pc' = "detach" /\ job' = "review" /\ todo' = files /\ UNCHANGED failed
            \/ /\ files # {} /\ branch[g] # NoBranch /\ Present(g) = files
               /\ pc' = "detach" /\ job' = "match" /\ todo' = files /\ UNCHANGED failed
            \/ /\ files # {} /\ branch[g] # NoBranch /\ Present(g) # files
               /\ pc' = "abort" /\ failed' = TRUE /\ UNCHANGED <<job, todo>>

Detach ==
  /\ pc = "detach"
  /\ Switching(OnBase, Base, Goto("branch"),
               GotoFailed(IF job = "review" THEN "abort" ELSE "leave"))

MakeBranch ==
  /\ pc = "branch"
  /\ \/ /\ job = "review" /\ head' = group /\ branch' = [branch EXCEPT ![group] = Base]
        /\ fresh' = fresh \cup {group} /\ UNCHANGED temporary
        /\ Goto("apply")
     \/ /\ job # "review" /\ head' = OnVerify /\ temporary' = Base /\ UNCHANGED <<branch, fresh>>
        /\ Goto("apply")
  /\ UNCHANGED <<history, tree, stray, answer, completion, accepted, plan, bounds>>

MakeBranchFails ==
  pc = "branch" /\ Fault /\ GotoFailed(IF job = "review" THEN "abort" ELSE "leave")

\* applyGroupSources
ApplyFile ==
  /\ pc = "apply" /\ todo # {}
  /\ \E f \in todo :
       /\ tree' = [tree EXCEPT ![f] = plan.content[f]] /\ todo' = todo \ {f}
       /\ UNCHANGED <<history, branch, temporary, head, stray>> /\ Quiet
       /\ UNCHANGED <<pc, job, group, review, created, failed, named, summary>>

AddAll ==
  /\ pc = "apply" /\ todo = {}
  /\ stray' = IF stray = "untracked" THEN "staged" ELSE stray
  /\ UNCHANGED <<history, branch, temporary, head, tree>> /\ Quiet /\ Goto("commit")

Commit ==
  /\ pc = "commit"
  /\ LET made == [tree |-> tree, artifact |-> stray = "staged"]
     IN  \/ /\ job = "review" /\ made # Base
            /\ branch' = [branch EXCEPT ![group] = made] /\ UNCHANGED temporary
            /\ NextGroup({group}) /\ created' = created \cup {group}
         \/ /\ job # "review" /\ temporary' = made /\ UNCHANGED branch /\ Goto("leave")
  /\ stray' = IF stray = "staged" THEN None ELSE stray
  /\ UNCHANGED <<history, head, tree>> /\ Quiet

BuildFails == pc \in {"apply", "commit"} /\ Fault /\ GotoFailed("reset")

\* A group that changes nothing leaves no branch.
Empty ==
  /\ pc = "commit" /\ job = "review" /\ tree = Base.tree /\ stray # "staged"
  /\ Switching(OnBase, Base, Goto("discard"), GotoFailed("reset"))
Discard ==
  /\ pc = "discard"
  /\ DeleteReview(group, NextGroup({}) /\ UNCHANGED created, GotoFailed("reset"))

-----------------------------------------------------------------------------
(* The catch of createBranchForGroup, and of the loop around it.           *)
ResetFailed ==
  /\ pc = "reset"
  /\ LET next == IF job = "review" THEN "rebase" ELSE "leave"
     IN  Reset(Goto(next), Recovery(next, {}))
BaseRestored ==
  pc = "rebase" /\ Switching(OnBase, Base, Goto("drop"), Goto("drop"))
Drop ==
  pc = "drop" /\ DeleteReview(group, Goto("abort"), Recovery("abort", {group}))

\* Mutant of Swept: every review branch is deleted, the reused ones too.
SweptAll == review

\* Only what this run has created.
Swept == created

Abort ==
  /\ pc = "abort"
  /\ \/ head = OnSource /\ Same /\ Quiet /\ Goto("sweep")
     \/ /\ head # OnSource
        /\ Switching(OnSource, Source, Goto("sweep"), Recovery("sweep", {OnSource}))

Sweep ==
  /\ pc = "sweep"
  /\ \/ \E g \in Swept :
          DeleteReview(g,
            /\ created' = created \ {g} /\ review' = review \ {g}
            /\ UNCHANGED <<pc, job, group, todo, failed, named, summary>>,
            /\ created' = created \ {g} /\ review' = review \ {g} /\ named' = named \cup {g}
            /\ UNCHANGED <<pc, job, group, todo, failed, summary>>)
     \/ /\ Swept = {} /\ Same /\ Answer("error")
        /\ UNCHANGED <<completion, accepted, plan, fresh, bounds>>

-----------------------------------------------------------------------------
(* The end of withTemporaryVerificationBranch.                             *)
\* Mutant of AfterLeave: a run that has failed does not delete the branch.
AfterLeaveKept == IF temporary # NoBranch /\ ~failed THEN "untemp" ELSE "verdict"

AfterLeave == IF temporary # NoBranch THEN "untemp" ELSE "verdict"

Leave ==
  /\ pc = "leave"
  /\ \/ /\ job = "match"
        /\ Switching(OnBase, Base, Goto(AfterLeave), Recovery(AfterLeave, {}))
     \/ /\ job = "union"
        /\ Switching(OnSource, Source, Goto(AfterLeave), Recovery(AfterLeave, {OnSource}))
Untemp ==
  pc = "untemp" /\ DeleteTemporary(Goto("verdict"), Recovery("verdict", {OnVerify}))

\* Mutant of Equivalent: a branch with the planned files is taken for the planned branch.
EquivalentByNames == TRUE

\* existingBranchMatchesPlannedGroup
Equivalent == \A f \in plan.files[group] : branch[group].tree[f] = plan.content[f]

\* plan.content is what the groups make together; session artifacts do not count.
UnionIsFinal == plan.content = SourceAt(plan.length).tree

Verdict ==
  /\ pc = "verdict" /\ Same /\ Quiet
  /\ \/ job = "match" /\ ~failed /\ Equivalent /\ NextGroup({group}) /\ UNCHANGED created
     \/ job = "match" /\ (failed \/ ~Equivalent) /\ GotoFailed("abort")
     \/ job = "union" /\ ~failed /\ UnionIsFinal /\ Goto("artifacts")
     \/ job = "union" /\ (failed \/ ~UnionIsFinal) /\ GotoFailed("fail")

\* The pending summary is written outside every catch: an error leaves the last
\* review branch checked out.
Summarise ==
  /\ pc = "group" /\ Later = {}
  /\ \/ /\ Same /\ Quiet /\ pc' = "detach" /\ job' = "union"
        /\ todo' = UNION {plan.files[g] : g \in plan.groups} /\ summary' = "pending"
        /\ UNCHANGED <<group, review, created, failed, named>>
     \/ /\ faults < MaxFaults /\ faults' = faults + 1 /\ Same /\ Answer("unsummarised")
        /\ UNCHANGED <<completion, accepted, plan, fresh, changes, runs>>

\* verifyNoSessionArtifacts
VerifyArtifacts ==
  /\ pc = "artifacts" /\ Same
  /\ \/ /\ \A g \in review : ~branch[g].artifact
        /\ pc' = "record" /\ summary' = "verified" /\ Quiet
        /\ UNCHANGED <<job, group, todo, review, created, failed, named>>
     \/ (\E g \in review : branch[g].artifact) /\ GotoFailed("fail") /\ Quiet
     \/ Fault /\ GotoFailed("fail")

Fail ==
  /\ pc = "fail"
  /\ \/ head = OnSource /\ Same /\ Quiet /\ Goto("report")
     \/ /\ head # OnSource
        /\ Switching(OnSource, Source, Goto("report"), Recovery("report", {OnSource}))

Ended == UNCHANGED <<accepted, plan, fresh, changes, runs>>
Report ==
  /\ pc = "report" /\ Same /\ Ended /\ UNCHANGED <<completion, faults>>
  /\ pc' = "idle" /\ answer' = "failed" /\ summary' = "failed" /\ named' = named
  /\ job' = "review" /\ group' = 0 /\ todo' = {} /\ review' = {} /\ created' = {} /\ failed' = FALSE

\* persistFinalizationCompletionEvidence; without product-grade proof nothing is recorded.
Record ==
  /\ pc = "record" /\ Same /\ Ended
  /\ \/ /\ Len(history) = plan.length /\ UNCHANGED faults
        /\ completion' = [length |-> plan.length, accepted |-> accepted,
                          branches |-> [g \in review |-> branch[g]]]
        /\ Answer("verified")
     \/ Answer("verified") /\ UNCHANGED <<completion, faults>>
     \/ Len(history) # plan.length /\ Answer("unrecorded") /\ UNCHANGED <<completion, faults>>
     \/ faults < MaxFaults /\ faults' = faults + 1 /\ Answer("unrecorded") /\ UNCHANGED completion

\* The process dies: what it knew is lost, the work tree stays as it is.
Die ==
  /\ pc # "idle" /\ pc' = "idle" /\ answer' = "died"
  /\ job' = "review" /\ group' = 0 /\ todo' = {} /\ review' = {} /\ created' = {}
  /\ failed' = FALSE /\ named' = {} /\ UNCHANGED summary
  /\ Same /\ UNCHANGED <<completion, accepted, plan, fresh, bounds>>

Next ==
  \/ Plan \/ Commits \/ Relabels \/ Exports \/ Restores \/ Deletes
  \/ Apply \/ NextBranch \/ Detach \/ MakeBranch \/ MakeBranchFails
  \/ ApplyFile \/ AddAll \/ Commit \/ BuildFails \/ Empty \/ Discard
  \/ ResetFailed \/ BaseRestored \/ Drop \/ Abort \/ Sweep
  \/ Leave \/ Untemp \/ Verdict \/ Summarise \/ VerifyArtifacts \/ Fail \/ Report \/ Record
  \/ Die

Spec == Init /\ [][Next]_vars

-----------------------------------------------------------------------------
(* What finalization promises.                                             *)
\* A completion in the ledger names review branches that together make the
\* final tree file by file, hold no session artifact, and hold (but for the
\* current-tree route) only what the ledger accepts: through retries over the
\* branches of runs that failed or died, changed evidence and changed branches
\* (verifyUnion, existingBranchMatchesPlannedGroup, assertPlanAcceptedEvidenceCurrent).
CompletionIsBacked ==
  completion # NoCompletion =>
    LET made == completion.branches
        Holders(f) == {g \in DOMAIN made : made[g].tree[f] # 0}
    IN  /\ \A f \in Files :
             /\ Cardinality(Holders(f)) <= 1
             /\ \A g \in Holders(f) : made[g].tree[f] = Content(completion.length, f)
             /\ Holders(f) = {} => Content(completion.length, f) = 0
        /\ \A g \in DOMAIN made :
             /\ ~made[g].artifact
             /\ g = CurrentTree \/ \A f \in Files : made[g].tree[f] \in {0} \cup completion.accepted

\* A run never moves or deletes a review branch that was there before it, made
\* by hand or by an earlier run, whatever fails (CHANGELOG.md:112;
\* tests/finalize/review-branches.test.ts:232).
OthersKept ==
  [][pc # "idle" => \A g \in Groups \ fresh :
                      branch[g] # NoBranch => branch'[g] = branch[g]]_vars

\* A run that answers has gone back to the source branch and has deleted its
\* temporary branch, and when it gives up building, its review branches: or the
\* error names what it could not restore or delete (withRecoveryFailures).  An
\* error while the pending summary is written is the exception.
FailsVisibly ==
  answer \in {"error", "failed", "unrecorded", "verified"} =>
    /\ head = OnSource \/ OnSource \in named
    /\ temporary = NoBranch \/ OnVerify \in named
    /\ answer = "error" => fresh \subseteq named
=============================================================================
