------------------------- MODULE FinalizationProofs -------------------------
(***************************************************************************)
(* For any history, files, number of runs, changes and faults: a run       *)
(* leaves the branches it found alone; an answer names what the run could  *)
(* not restore or delete; and what the ledger records as complete is held  *)
(* by its review branches.  The last takes three parts: what commits leave *)
(* in a file; what a run that has met no error knows of its groups and of  *)
(* the branch it is building; what Record then writes, and why later       *)
(* commits do not change it.                                               *)
(***************************************************************************)
EXTENDS Finalization, FiniteSetTheorems, SequenceTheorems, WellFoundedInduction, TLAPS

\* The review branch under construction, from its creation to its end.
Building == job = "review" /\ pc \in {"apply", "commit", "discard", "reset", "rebase", "drop"}

\* Why no branch of others is touched: a branch is only made where there is
\* none, and what is built or swept is of this run, or already gone.
OwnInv ==
  /\ DOMAIN branch = Groups
  /\ pc \in {"discard", "rebase", "drop"} => job = "review"
  /\ job = "review" /\ pc \in {"detach", "branch"} => branch[group] = NoBranch
  /\ Building => group \in fresh
  /\ pc # "idle" => \A g \in created \cap Groups : g \in fresh \/ branch[g] = NoBranch

\* Why an answer is complete: where the run stands tells what it may still have
\* to restore or delete.
RestoresSource ==
  \/ pc \in {"sweep", "report", "artifacts", "record"}
  \/ job = "union" /\ pc \in {"untemp", "verdict"}
MayHaveTemporary == job # "review" /\ pc \in {"apply", "commit", "reset", "leave", "untemp"}
NameInv ==
  /\ pc # "idle" => answer = None
  /\ RestoresSource => head = OnSource \/ OnSource \in named
  /\ pc # "idle" => temporary = NoBranch \/ OnVerify \in named \/ MayHaveTemporary
  /\ pc # "idle" => \A g \in fresh : g \in created \cup named \/ (Building /\ g = group)

LEMMA InitInv == Init => OwnInv /\ NameInv /\ FailsVisibly
BY DEF Init, OwnInv, NameInv, FailsVisibly, Building, RestoresSource, None


(* What happens beside a run, and a run's own steps, keep the branches.    *)
LEMMA OwnStep == OwnInv /\ [Next]_vars => OwnInv'
<1> SUFFICES ASSUME OwnInv, [Next]_vars PROVE OwnInv'
  OBVIOUS
<1> USE DEF OwnInv, Building
<1>1. CASE Plan \/ Relabels \/ Commits \/ Exports \/ Restores
  BY <1>1 DEF Plan, Planned, Relabels, Commits, Exports, Restores, Same, progress, repository
<1>2. CASE Deletes
  BY <1>2 DEF Deletes, progress
<1>3. CASE Apply
  BY <1>3 DEF Apply
<1>4. CASE NextBranch
  BY <1>4 DEF NextBranch, Same, Quiet, repository
<1>5. CASE Detach
  BY <1>5 DEF Detach, Switching, Switch, Fault, Goto, GotoFailed, Same, Quiet, repository
<1>6. CASE MakeBranch
  BY <1>6 DEF MakeBranch, Goto
<1>7. CASE MakeBranchFails \/ BuildFails
  BY <1>7 DEF MakeBranchFails, BuildFails, Fault, GotoFailed, Same, repository
<1>8. CASE ApplyFile \/ AddAll
  BY <1>8 DEF ApplyFile, AddAll, Goto, Quiet
<1>9. CASE Commit
  BY <1>9 DEF Commit, Goto, NextGroup, Quiet
<1>10. CASE Empty
  BY <1>10 DEF Empty, Switching, Switch, Fault, Goto, GotoFailed, Same, Quiet, repository
<1>11. CASE Discard
  BY <1>11 DEF Discard, DeleteReview, NextGroup, Fault, GotoFailed, Same, Quiet, repository
<1>12. CASE ResetFailed
  BY <1>12 DEF ResetFailed, Reset, Recovery, Fault, Goto, Same, Quiet, repository
<1>13. CASE BaseRestored
  BY <1>13 DEF BaseRestored, Switching, Switch, Fault, Goto, Same, Quiet, repository
<1>14. CASE Drop
  BY <1>14 DEF Drop, DeleteReview, Recovery, Fault, Goto, Same, Quiet, repository
<1>15. CASE Abort
  BY <1>15 DEF Abort, Switching, Switch, Recovery, Fault, Goto, Same, Quiet, repository
<1>16. CASE Sweep
  BY <1>16 DEF Sweep, Swept, DeleteReview, Answer, Fault, Same, Quiet, repository
<1>17. CASE Leave
  BY <1>17 DEF Leave, AfterLeave, Switching, Switch, Recovery, Fault, Goto, Same, Quiet, repository
<1>18. CASE Untemp
  BY <1>18 DEF Untemp, DeleteTemporary, Recovery, Fault, Goto, Same, Quiet, repository
<1>19. CASE Verdict
  BY <1>19 DEF Verdict, NextGroup, Goto, GotoFailed, Same, Quiet, repository
<1>20. CASE Summarise \/ Report \/ Record \/ Die
  BY <1>20 DEF Summarise, Report, Record, Die, Ended, Answer, Same, Quiet, repository
<1>21. CASE VerifyArtifacts
  BY <1>21 DEF VerifyArtifacts, Fault, GotoFailed, Same, Quiet, repository
<1>22. CASE Fail
  BY <1>22 DEF Fail, Switching, Switch, Recovery, Fault, Goto, Same, Quiet, repository
<1>23. CASE UNCHANGED vars
  BY <1>23 DEF vars, repository, progress
<1> HIDE DEF OwnInv
<1> QED
  BY <1>1, <1>2, <1>3, <1>4, <1>5, <1>6, <1>7, <1>8, <1>9, <1>10, <1>11, <1>12, <1>13, <1>14,
     <1>15, <1>16, <1>17, <1>18, <1>19, <1>20, <1>21, <1>22, <1>23 DEF Next

(* A run leaves the branches it found alone (createBranchForGroup and the  *)
(* clean-up of executeFinalizer), whatever fails and whoever made them.    *)
THEOREM BranchesKept == Spec => OthersKept
<1>1. Init => OwnInv
  BY InitInv
<1>2. OwnInv /\ [Next]_vars => OwnInv'
  BY OwnStep
<1>3. OwnInv /\ [Next]_vars =>
        [pc # "idle" => \A g \in Groups \ fresh :
                          branch[g] # NoBranch => branch'[g] = branch[g]]_vars
  <2> SUFFICES ASSUME OwnInv, [Next]_vars, pc # "idle", NEW g \in Groups \ fresh,
                      branch[g] # NoBranch
               PROVE  branch'[g] = branch[g]
    OBVIOUS
  <2> USE DEF OwnInv, Building
  <2>1. CASE MakeBranch
    BY <2>1 DEF MakeBranch
  <2>2. CASE Commit
    BY <2>2 DEF Commit
  <2>3. CASE Discard
    BY <2>3 DEF Discard, DeleteReview, Fault, Same, repository
  <2>4. CASE Drop
    BY <2>4 DEF Drop, DeleteReview, Fault, Same, repository
  <2>5. CASE Sweep
    BY <2>5 DEF Sweep, Swept, DeleteReview, Fault, Same, repository
  <2>6. ~(Plan \/ Relabels \/ Restores \/ Deletes \/ Apply)
    BY DEF Plan, Relabels, Restores, Deletes, Apply
  <2>7. CASE \/ Commits \/ Exports \/ NextBranch \/ ApplyFile \/ AddAll \/ Verdict
             \/ Summarise \/ Report \/ Record \/ Die \/ UNCHANGED vars
    BY <2>7 DEF Commits, Exports, NextBranch, ApplyFile, AddAll, Verdict, Summarise,
                Report, Record, Die, Same, repository, vars
  <2>8. CASE \/ Detach \/ MakeBranchFails \/ BuildFails \/ Empty \/ ResetFailed \/ BaseRestored
             \/ Abort \/ Leave \/ Untemp \/ VerifyArtifacts \/ Fail
    BY <2>8 DEF Detach, MakeBranchFails, BuildFails, Empty, ResetFailed, BaseRestored, Abort,
                Leave, Untemp, VerifyArtifacts, Fail, Switching, Switch, Reset,
                DeleteTemporary, Fault, Same, repository
  <2> QED
    BY <2>1, <2>2, <2>3, <2>4, <2>5, <2>6, <2>7, <2>8 DEF Next
<1> QED  BY <1>1, <1>2, <1>3, PTL DEF Spec, OthersKept

(* A step of a run, or beside it, leaves nothing behind without its name.  *)
LEMMA NameStep == OwnInv /\ NameInv /\ FailsVisibly /\ [Next]_vars => (NameInv /\ FailsVisibly)'
<1> SUFFICES ASSUME OwnInv, NameInv, FailsVisibly, [Next]_vars
             PROVE  NameInv' /\ FailsVisibly'
  OBVIOUS
<1> USE DEF NameInv, FailsVisibly, Building, RestoresSource, MayHaveTemporary, None
<1>1. CASE Plan \/ Relabels \/ Restores \/ Deletes
  BY <1>1 DEF Plan, Planned, Relabels, Restores, Deletes, Same, progress, repository
<1>2. CASE Commits \/ Exports
  BY <1>2 DEF Commits, Exports, progress
<1>3. CASE Apply
  BY <1>3 DEF Apply, Preflight, OnVerify, OnSource
<1>4. CASE NextBranch
  BY <1>4 DEF NextBranch, Same, Quiet, repository
<1>5. CASE Detach
  BY <1>5 DEF Detach, Switching, Switch, Fault, Goto, GotoFailed, Same, Quiet, repository
<1>6. CASE MakeBranch
  BY <1>6 DEF MakeBranch, Goto
<1>7. CASE MakeBranchFails \/ BuildFails
  BY <1>7 DEF MakeBranchFails, BuildFails, Fault, GotoFailed, Same, repository
<1>8. CASE ApplyFile \/ AddAll
  BY <1>8 DEF ApplyFile, AddAll, Goto, Quiet
<1>9. CASE Commit
  BY <1>9 DEF Commit, Goto, NextGroup, Quiet
<1>10. CASE Empty
  BY <1>10 DEF Empty, Switching, Switch, Fault, Goto, GotoFailed, Same, Quiet, repository
<1>11. CASE Discard
  BY <1>11 DEF Discard, DeleteReview, NextGroup, Fault, GotoFailed, Same, Quiet, repository
<1>12. CASE ResetFailed
  BY <1>12 DEF ResetFailed, Reset, Recovery, Fault, Goto, Same, Quiet, repository
<1>13. CASE BaseRestored
  BY <1>13 DEF BaseRestored, Switching, Switch, Fault, Goto, Same, Quiet, repository
<1>14. CASE Drop
  BY <1>14 DEF OwnInv, Drop, DeleteReview, Recovery, Fault, Goto, Same, Quiet, repository
<1>15. CASE Abort
  BY <1>15 DEF Abort, Switching, Switch, Recovery, Fault, Goto, Same, Quiet, repository
<1>16. CASE Sweep
  BY <1>16 DEF Sweep, Swept, DeleteReview, Answer, Fault, Same, Quiet, repository
<1>17. CASE Leave
  BY <1>17 DEF Leave, AfterLeave, Switching, Switch, Recovery, Fault, Goto, Same, Quiet, repository
<1>18. CASE Untemp
  BY <1>18 DEF Untemp, DeleteTemporary, Recovery, Fault, Goto, Same, Quiet, repository
<1>19. CASE Verdict
  BY <1>19 DEF Verdict, NextGroup, Goto, GotoFailed, Same, Quiet, repository
<1>20. CASE Summarise \/ Die
  BY <1>20 DEF Summarise, Die, Answer, Same, Quiet, repository
<1>21. CASE VerifyArtifacts
  BY <1>21 DEF VerifyArtifacts, Fault, GotoFailed, Same, Quiet, repository
<1>22. CASE Fail
  BY <1>22 DEF Fail, Switching, Switch, Recovery, Fault, Goto, Same, Quiet, repository
<1>23. CASE Report \/ Record
  BY <1>23 DEF Report, Record, Ended, Answer, Same, repository
<1>24. CASE UNCHANGED vars
  BY <1>24 DEF vars, repository, progress
<1> HIDE DEF NameInv, FailsVisibly
<1> QED
  BY <1>1, <1>2, <1>3, <1>4, <1>5, <1>6, <1>7, <1>8, <1>9, <1>10, <1>11, <1>12, <1>13, <1>14,
     <1>15, <1>16, <1>17, <1>18, <1>19, <1>20, <1>21, <1>22, <1>23, <1>24 DEF Next

(* Whatever fails, and however often: a run that answers names what it has *)
(* not restored or deleted (withRecoveryFailures).                         *)
THEOREM AnswersName == Spec => []FailsVisibly
<1>1. Init => OwnInv /\ NameInv /\ FailsVisibly
  BY InitInv
<1>2. OwnInv /\ NameInv /\ FailsVisibly /\ [Next]_vars
        => (OwnInv /\ NameInv /\ FailsVisibly)'
  BY OwnStep, NameStep
<1> QED  BY <1>1, <1>2, PTL DEF Spec

-----------------------------------------------------------------------------
(* What commits leave in a file.                                           *)
CommitRecords == [files : SUBSET Files, undo : BOOLEAN]

\* The least and the greatest number of a set, as CHOOSE picks them.
LEMMA MinOf ==
  ASSUME NEW S, S \subseteq Nat, S # {}
  PROVE  Min(S) \in S /\ \A y \in S : Min(S) <= y
<1>1. PICK x \in S : \A y \in S : <<y, x>> \notin OpToRel(<, Nat)
  BY WFMin, NatLessThanWellFounded, Zenon
<1>2. \A y \in S : ~ (y < x)
  BY <1>1, Zenon DEF OpToRel
<1>3. \A y \in S : x <= y
  BY <1>2
<1> QED  BY <1>3 DEF Min

LEMMA MaxOf ==
  ASSUME NEW n \in Nat, NEW S, S \subseteq 0 .. n, S # {}
  PROVE  Max(S) \in S /\ \A y \in S : y <= Max(S)
<1> DEFINE T == {n - x : x \in S}
<1>1. PICK t \in T : \A y \in T : t <= y
  <2>1. \A x \in S : n - x \in Nat
    OBVIOUS
  <2>2. T \subseteq Nat /\ T # {}
    BY <2>1
  <2> HIDE DEF T
  <2> QED  BY <2>2, MinOf
<1>2. PICK x \in S : t = n - x
  OBVIOUS
<1>3. \A y \in S : x >= y
  BY <1>1, <1>2
<1> QED  BY <1>3 DEF Max


\* The commits up to i that touch a file.
Writers(i, f) == {j \in 1 .. i : f \in history[j].files}

\* The last of them is one of them, and the file holds what it left.
LEMMA WritersMax ==
  ASSUME NEW i \in Nat, NEW f, Writers(i, f) # {}
  PROVE  /\ Max(Writers(i, f)) \in Writers(i, f)
         /\ Max(Writers(i, f)) \in 1 .. i
         /\ \A j \in Writers(i, f) : j <= Max(Writers(i, f))
<1>1. Writers(i, f) \subseteq 1 .. i
  BY DEF Writers
<1>2. Writers(i, f) \subseteq 0 .. i
  BY <1>1
<1> QED  BY <1>1, <1>2, MaxOf

LEMMA ContentIs ==
  ASSUME NEW i, NEW f
  PROVE  Content(i, f) = IF Writers(i, f) = {} \/ history[Max(Writers(i, f))].undo
                         THEN 0 ELSE Max(Writers(i, f))
BY DEF Content, Writers

\* What a file holds after i commits is one of them or the base, and no later
\* commit changes it.
LEMMA ContentType ==
  ASSUME NEW i \in Nat, NEW f
  PROVE  Content(i, f) \in 0 .. i
<1>1. Writers(i, f) # {} => Max(Writers(i, f)) \in 1 .. i
  BY WritersMax
<1> QED  BY <1>1, ContentIs

LEMMA ContentKept ==
  ASSUME history \in Seq(CommitRecords), NEW e \in CommitRecords, history' = Append(history, e),
         NEW i \in 0 .. Len(history), NEW f
  PROVE  Content(i, f)' = Content(i, f)
<1>1. i \in Nat /\ \A j \in 1 .. i : history'[j] = history[j]
  BY AppendProperties, LenProperties
<1>2. Writers(i, f)' = Writers(i, f)
  BY <1>1 DEF Writers
<1>3. Writers(i, f) # {} => Max(Writers(i, f)) \in 1 .. i
  BY <1>1, WritersMax
<1>4. Content(i, f)' = IF Writers(i, f)' = {} \/ history'[Max(Writers(i, f)')].undo
                       THEN 0 ELSE Max(Writers(i, f)')
  BY DEF Content, Writers
<1> QED  BY <1>1, <1>2, <1>3, <1>4, ContentIs

\* An edit on top of the history is what the file holds then.
LEMMA ContentNew ==
  ASSUME history \in Seq(CommitRecords), NEW g \in SUBSET Files,
         history' = Append(history, [files |-> g, undo |-> FALSE]), NEW f,
         NEW n, n = Len(history)
  PROVE  Content(n + 1, f)' = IF f \in g THEN n + 1 ELSE Content(n, f)
<1>1. /\ n \in Nat /\ \A j \in 1 .. n : history'[j] = history[j]
      /\ history'[n + 1] = [files |-> g, undo |-> FALSE]
  BY AppendProperties, LenProperties DEF CommitRecords
<1>2. Writers(n + 1, f)' = Writers(n, f) \cup (IF f \in g THEN {n + 1} ELSE {})
  <2>1. 1 .. n + 1 = (1 .. n) \cup {n + 1}
    BY <1>1
  <2>2. \A j \in 1 .. n : f \in history'[j].files <=> f \in history[j].files
    BY <1>1
  <2>3. f \in history'[n + 1].files <=> f \in g
    BY <1>1
  <2> QED  BY <2>1, <2>2, <2>3 DEF Writers
<1>3. Content(n + 1, f)' = IF Writers(n + 1, f)' = {} \/ history'[Max(Writers(n + 1, f)')].undo
                           THEN 0 ELSE Max(Writers(n + 1, f)')
  BY DEF Content, Writers
<1>4. Writers(n, f) \subseteq 1 .. n
  BY DEF Writers
<1>5. CASE f \in g
  <2>1. n + 1 \in Nat /\ Writers(n + 1, f)' \subseteq 0 .. n + 1 /\ n + 1 \in Writers(n + 1, f)'
    BY <1>1, <1>2, <1>4, <1>5
  <2>2. Max(Writers(n + 1, f)') \in 0 .. n + 1 /\ n + 1 <= Max(Writers(n + 1, f)')
    BY <2>1, MaxOf
  <2>3. Max(Writers(n + 1, f)') = n + 1
    BY <2>2, <1>1
  <2> QED  BY <1>1, <1>3, <1>5, <2>1, <2>3
<1>6. CASE f \notin g
  <2>1. Writers(n, f) # {} => Max(Writers(n, f)) \in 1 .. n
    BY <1>1, WritersMax
  <2>2. Writers(n + 1, f)' = Writers(n, f)
    BY <1>2, <1>6
  <2> QED  BY <1>1, <1>3, <1>6, <2>1, <2>2, ContentIs
<1> QED  BY <1>5, <1>6

\* The last of the accepted commits that touch a file has written what the plan
\* takes: one of them, or the base.
LEMMA ContentAccepted ==
  ASSUME history \in Seq(CommitRecords), NEW A \in SUBSET (1 .. Len(history)), NEW f
  PROVE  LET last == Max({0} \cup {i \in A : f \in history[i].files})
         IN  last \in 0 .. Len(history) /\ Content(last, f) \in {0} \cup A
<1> DEFINE S == {0} \cup {i \in A : f \in history[i].files}
           last == Max(S)
<1>1. Len(history) \in Nat
  BY LenProperties
<1>2. S \subseteq 0 .. Len(history) /\ S # {}
  <2>1. \A x \in A : x \in 0 .. Len(history)
    BY <1>1
  <2>2. 0 \in 0 .. Len(history)
    BY <1>1
  <2> QED  BY <2>1, <2>2
<1>3. last \in S /\ last \in 0 .. Len(history)
  BY <1>1, <1>2, MaxOf
<1>4. Content(last, f) \in {0} \cup A
  <2> HIDE DEF last
  <2>1. CASE last \in A
    <3>1. last \in Nat /\ last >= 1
      BY <1>1, <1>3, <2>1
    <3>2. last = 0 \/ f \in history[last].files
      BY <1>3
    <3>3. last \in Writers(last, f)
      BY <3>1, <3>2 DEF Writers
    <3>4. Max(Writers(last, f)) \in 1 .. last /\ last <= Max(Writers(last, f))
      BY <3>1, <3>3, WritersMax
    <3>5. Max(Writers(last, f)) = last
      BY <3>1, <3>4
    <3> QED  BY <2>1, <3>5, ContentIs
  <2>2. CASE last = 0
    <3>1. Writers(0, f) = {}
      BY DEF Writers
    <3> QED  BY <2>2, <3>1, ContentIs
  <2> QED  BY <1>3, <2>1, <2>2
<1> QED  BY <1>3, <1>4

-----------------------------------------------------------------------------
(* A completion is backed by its branches.                                 *)
\* A run that has met no error so far.
Good == pc # "idle" /\ ~failed
\* The steps after an error, and those a run only reaches without one.
Failing == {"reset", "rebase", "drop", "abort", "sweep", "fail", "report"}
Forward == {"group", "detach", "branch", "apply", "commit", "discard", "artifacts", "record"}

\* What the branch of a group is to hold.
Expected(g) == [f \in Files |-> IF f \in plan.files[g] THEN plan.content[f] ELSE 0]

\* The history only grows; a plan takes, for the files of its groups, what
\* accepted commits have written.
FactsInv ==
  /\ history \in Seq(CommitRecords) /\ Len(history) <= MaxCommits
  /\ accepted \subseteq 1 .. Len(history)
  /\ branch \in [Groups -> Snapshots \cup {NoBranch}]
  /\ plan.groups \subseteq Groups /\ plan.files \in [Groups -> SUBSET Files]
  /\ plan.content \in [Files -> Contents] /\ plan.length \in 0 .. Len(history)
  /\ \A f \in Files : plan.content[f] # 0 => \E g \in plan.groups : f \in plan.files[g]
  /\ \A g \in plan.groups \ {CurrentTree} : \A f \in plan.files[g] :
       plan.content[f] \in {0} \cup plan.accepted

\* Where a run stands tells whether it has met an error.
PhaseInv ==
  /\ pc \in Failing => failed
  /\ pc \in Forward => ~failed
  /\ pc = "group" => job = "review"
  /\ pc \in {"artifacts", "record"} => job = "union"

\* The branch that is being built or compared with.
BuildInv ==
  Good /\ job # "union" =>
    /\ pc = "group" \/ (group \in plan.groups /\ plan.files[group] # {})
    /\ pc \in {"group", "detach", "discard", "leave", "untemp", "verdict"} => tree = Checked.tree
    /\ pc = "branch" => tree = Base.tree /\ head = OnBase
    /\ pc \in {"detach", "branch"} => todo = plan.files[group]
    /\ pc \in {"apply", "commit"} =>
         /\ tree = [f \in Files |-> IF f \in plan.files[group] \ todo THEN plan.content[f] ELSE 0]
         /\ head = (IF job = "review" THEN group ELSE OnVerify)
         /\ todo \subseteq plan.files[group]
    /\ pc = "commit" => todo = {}
    /\ pc \in {"apply", "commit"} /\ job = "review" => branch[group] = Base
    /\ pc \in {"apply", "commit", "discard"} /\ job = "review" => group \notin review
    /\ pc = "discard" => Expected(group) = Base.tree /\ head = OnBase
    /\ job = "match" => branch[group] \in Snapshots /\ Present(group) = plan.files[group]

\* The groups that are done: a branch that holds what was planned, or nothing to hold.
GroupsInv ==
  Good =>
    /\ Disjoint /\ plan.accepted = accepted /\ group \in {0} \cup Groups
    /\ job = "union" => Later = {}
    /\ \A g \in review : g \in plan.groups /\ plan.files[g] # {} /\ branch[g].tree = Expected(g)
    /\ \A g \in plan.groups :
         (IF pc = "group" \/ job = "union" THEN g <= group ELSE g < group)
           => g \in review \/ Expected(g) = Base.tree
    /\ pc \in {"artifacts", "record"} => UnionIsFinal
    /\ pc = "record" => \A g \in review : ~branch[g].artifact

\* A completion is about commits that are still there.
DoneInv ==
  completion # NoCompletion => completion.length \in 0 .. Len(history)

\* Nothing is planned, built or complete at first.
LEMMA BackedInit == Init => FactsInv /\ PhaseInv /\ BuildInv /\ GroupsInv /\ DoneInv /\ CompletionIsBacked
<1> SUFFICES ASSUME Init
             PROVE  FactsInv /\ PhaseInv /\ BuildInv /\ GroupsInv /\ DoneInv /\ CompletionIsBacked
  OBVIOUS
<1>1. history \in Seq(CommitRecords) /\ Len(history) \in Nat /\ Len(history) <= MaxCommits
  BY FinalizationBounds, HistoriesAssumption, LenProperties DEF Init, CommitRecords
<1>2. \A i \in 1 .. Len(history), f \in Files : Content(i, f) \in Contents
  BY <1>1, ContentType, FinalizationBounds DEF Contents
<1>3. Base \in Snapshots
  BY FinalizationBounds DEF Base, Snapshots, Trees, Contents
<1>4. \A i \in 1 .. Len(history) : SourceAt(i) \in Snapshots /\ Own(i) \in Snapshots
  BY <1>2, FinalizationBounds DEF SourceAt, Own, Snapshots, Trees, Contents
<1>5. branch \in [Groups -> Snapshots \cup {NoBranch}]
  BY <1>3, <1>4 DEF Init
<1>6. FactsInv
  BY <1>1, <1>5, FinalizationBounds DEF FactsInv, Init, NoPlan, Base, Contents, Groups
<1> QED
  BY <1>6 DEF Init, PhaseInv, BuildInv, GroupsInv, DoneInv, CompletionIsBacked, Good, Failing, Forward

\* A run that has failed goes on failing, and a run that has ended is no run.
LEMMA FailingStays ==
  PhaseInv /\ (\/ Plan \/ Relabels \/ Restores \/ Deletes \/ Die \/ MakeBranchFails \/ BuildFails
               \/ ResetFailed \/ BaseRestored \/ Drop \/ Abort \/ Sweep \/ Fail \/ Report)
    => ~Good'
<1> SUFFICES ASSUME PhaseInv,
                    \/ Plan \/ Relabels \/ Restores \/ Deletes \/ Die \/ MakeBranchFails \/ BuildFails
                    \/ ResetFailed \/ BaseRestored \/ Drop \/ Abort \/ Sweep \/ Fail \/ Report
             PROVE  ~Good'
  OBVIOUS
<1> USE DEF PhaseInv, Failing, Good
<1>1. CASE Plan \/ Relabels \/ Restores \/ Deletes \/ Die
  BY <1>1 DEF Plan, Planned, Relabels, Restores, Deletes, Die, progress
<1>2. CASE MakeBranchFails \/ BuildFails \/ ResetFailed \/ BaseRestored
  BY <1>2 DEF MakeBranchFails, BuildFails, ResetFailed, BaseRestored, Reset, Switching, Goto,
              GotoFailed, Recovery
<1>3. CASE Drop \/ Abort \/ Sweep \/ Fail \/ Report
  BY <1>3 DEF Drop, Abort, Sweep, Fail, Report, DeleteReview, Switching, Goto, Recovery, Answer
<1> QED  BY <1>1, <1>2, <1>3

\* Every step takes the run where its error says.
LEMMA PhaseStep == PhaseInv /\ [Next]_vars => PhaseInv'
<1> SUFFICES ASSUME PhaseInv, [Next]_vars PROVE PhaseInv'
  OBVIOUS
<1> USE DEF PhaseInv, Failing, Forward
<1>1. CASE Plan \/ Relabels \/ Commits \/ Exports \/ Restores \/ Deletes
  BY <1>1 DEF Plan, Planned, Relabels, Commits, Exports, Restores, Deletes, progress
<1>2. CASE Apply \/ Die \/ Report \/ Record \/ Summarise
  BY <1>2 DEF Apply, Die, Report, Record, Summarise, Answer
<1>3. CASE NextBranch
  BY <1>3 DEF NextBranch
<1>4. CASE Detach \/ MakeBranch \/ MakeBranchFails \/ BuildFails
  BY <1>4 DEF Detach, MakeBranch, MakeBranchFails, BuildFails, Switching, Goto, GotoFailed
<1>5. CASE ApplyFile \/ AddAll \/ Commit
  BY <1>5 DEF ApplyFile, AddAll, Commit, NextGroup, Goto
<1>6. CASE Empty \/ Discard
  BY <1>6 DEF Empty, Discard, Switching, DeleteReview, NextGroup, Goto, GotoFailed
<1>7. CASE ResetFailed \/ BaseRestored \/ Drop \/ Abort
  BY <1>7 DEF ResetFailed, BaseRestored, Drop, Abort, Reset, Switching, DeleteReview, Goto, Recovery
<1>8. CASE Sweep
  BY <1>8 DEF Sweep, DeleteReview, Answer
<1>9. CASE Leave \/ Untemp
  BY <1>9 DEF Leave, Untemp, AfterLeave, Switching, DeleteTemporary, Goto, Recovery
<1>10. CASE Verdict
  BY <1>10 DEF Verdict, NextGroup, Goto, GotoFailed
<1>11. CASE VerifyArtifacts \/ Fail
  BY <1>11 DEF VerifyArtifacts, Fail, Switching, Goto, GotoFailed, Recovery
<1>12. CASE UNCHANGED vars
  BY <1>12 DEF vars, progress
<1> HIDE DEF PhaseInv
<1> QED
  BY <1>1, <1>2, <1>3, <1>4, <1>5, <1>6, <1>7, <1>8, <1>9, <1>10, <1>11, <1>12 DEF Next

\* A plan of any of the three kinds takes what accepted commits have written.
LEMMA PlannedFacts ==
  ASSUME FactsInv, Plan
  PROVE  FactsInv'
<1>1. /\ history' = history /\ accepted' = accepted /\ branch' = branch
      /\ Len(history) \in Nat
  BY LenProperties DEF FactsInv, Plan, Planned, Same, repository
<1> DEFINE n == Len(history)
           unkept == (1 .. n) \ accepted
           LastKept == [f \in Files |-> Max({0} \cup {i \in accepted : f \in history[i].files})]
           Whole == [f \in Files |-> n]
           changed == {f \in Files : Content(n, f) # 0}
           kept == UNION {history[i].files : i \in accepted}
           single == [g \in Groups |-> IF g \in accepted THEN history[g].files ELSE {}]
           collapsed == [g \in Groups |-> IF g = Collapsed THEN kept ELSE {}]
           current == [g \in Groups |-> IF g = CurrentTree THEN changed ELSE {}]
<1>2. accepted \subseteq 1 .. MaxCommits /\ \A i \in accepted : history[i].files \in SUBSET Files
  <2>1. accepted \subseteq 1 .. n /\ n <= MaxCommits /\ MaxCommits \in Nat
    BY FinalizationBounds DEF FactsInv
  <2>2. \A i \in 1 .. n : history[i] \in CommitRecords
    BY ElementOfSeq DEF FactsInv
  <2>3. \A i \in 1 .. n : i \in 1 .. MaxCommits
    BY <1>1, <2>1
  <2>4. \A i \in 1 .. n : history[i].files \in SUBSET Files
    BY <2>2 DEF CommitRecords
  <2> HIDE DEF n
  <2> QED  BY <2>1, <2>3, <2>4
<1>3. \A f \in Files : LastKept[f] \in 0 .. n /\ Content(LastKept[f], f) \in {0} \cup accepted
  BY ContentAccepted DEF FactsInv
<1>4. ASSUME NEW upTo, \A f \in Files : upTo[f] \in 0 .. n, NEW f \in Files
      PROVE  Content(upTo[f], f) \in Contents
  <2>1. upTo[f] \in Nat /\ upTo[f] <= MaxCommits
    BY <1>1, <1>4, FinalizationBounds DEF FactsInv
  <2>2. Content(upTo[f], f) \in 0 .. upTo[f]
    BY <2>1, ContentType
  <2> QED  BY <2>1, <2>2, FinalizationBounds DEF Contents
<1>5. ASSUME NEW groups, NEW files, NEW upTo, NEW excluded, Planned(groups, files, upTo, excluded),
             groups \subseteq Groups, files \in [Groups -> SUBSET Files],
             \A f \in Files : upTo[f] \in 0 .. n,
             \A g \in groups \ {CurrentTree} : \A f \in files[g] :
               Content(upTo[f], f) \in {0} \cup accepted
      PROVE  FactsInv'
  <2>1. /\ plan'.groups = groups /\ plan'.files = files /\ plan'.length = n
        /\ plan'.accepted = accepted
        /\ plan'.content = [f \in Files |-> IF \E g \in groups : f \in files[g]
                                            THEN Content(upTo[f], f) ELSE 0]
    BY <1>5 DEF Planned
  <2>2. \A f \in Files : Content(upTo[f], f) \in Contents
    BY <1>4, <1>5
  <2>3. plan'.content \in [Files -> Contents]
    BY <2>1, <2>2, FinalizationBounds DEF Contents
  <2>4. \A f \in Files : plan'.content[f] # 0 => \E g \in groups : f \in files[g]
    BY <2>1
  <2>5. \A g \in groups \ {CurrentTree} : \A f \in files[g] :
          plan'.content[f] \in {0} \cup accepted
    BY <1>5, <2>1
  <2>6. n \in 0 .. n
    BY <1>1
  <2> HIDE DEF n
  <2>7. n = Len(history')
    BY <1>1 DEF n
  <2> QED  BY <1>1, <1>5, <2>1, <2>3, <2>4, <2>5, <2>6, <2>7 DEF FactsInv
<1>6. CASE Planned(accepted, single, LastKept, unkept)
  <2>1. accepted \subseteq Groups
    BY <1>2, FinalizationBounds DEF Groups, CurrentTree
  <2>2. single \in [Groups -> SUBSET Files]
    BY <1>2
  <2>3. \A g \in accepted \ {CurrentTree} : \A f \in single[g] :
          Content(LastKept[f], f) \in {0} \cup accepted
    <3> HIDE DEF LastKept
    <3> QED  BY <1>3, <2>1, <2>2
  <2> HIDE DEF LastKept, single, unkept, n
  <2> QED
    BY <1>3, <1>5, <1>6, <2>1, <2>2, <2>3
<1>7. CASE Planned({Collapsed}, collapsed, LastKept, unkept)
  <2>1. {Collapsed} \subseteq Groups
    BY FinalizationBounds DEF Groups, CurrentTree, Collapsed
  <2>2. collapsed \in [Groups -> SUBSET Files]
    BY <1>2
  <2>3. \A g \in {Collapsed} \ {CurrentTree} : \A f \in collapsed[g] :
          Content(LastKept[f], f) \in {0} \cup accepted
    <3> HIDE DEF LastKept
    <3> QED  BY <1>3, <2>1, <2>2
  <2> HIDE DEF LastKept, collapsed, unkept, n
  <2> QED
    BY <1>3, <1>5, <1>7, <2>1, <2>2, <2>3
<1>8. CASE Planned({CurrentTree}, current, Whole, {})
  <2>1. {CurrentTree} \subseteq Groups /\ current \in [Groups -> SUBSET Files]
    BY FinalizationBounds DEF Groups, CurrentTree
  <2>2. \A f \in Files : Whole[f] \in 0 .. n
    BY <1>1
  <2> HIDE DEF Whole, current, n
  <2> QED
    BY <1>5, <1>8, <2>1, <2>2
<1> QED
  BY <1>6, <1>7, <1>8 DEF Plan

\* No step rewrites the history, and a branch always holds a tree of the files.
LEMMA FactsStep == FactsInv /\ PhaseInv /\ BuildInv /\ [Next]_vars => FactsInv'
<1> SUFFICES ASSUME FactsInv, PhaseInv, BuildInv, [Next]_vars PROVE FactsInv'
  OBVIOUS
<1>1. CASE Plan
  BY <1>1, PlannedFacts
<1>2. CASE Commits
  <2>1. PICK f \in Files : history' = Append(history, [files |-> {f}, undo |-> FALSE])
    BY <1>2 DEF Commits
  <2>2. history' \in Seq(CommitRecords) /\ Len(history') = Len(history) + 1
    BY <2>1, AppendProperties DEF FactsInv, CommitRecords
  <2>3. Len(history) \in Nat /\ Len(history') <= MaxCommits
    BY <1>2, <2>2, LenProperties, FinalizationBounds DEF FactsInv, Commits
  <2>4. UNCHANGED <<accepted, branch, plan>>
    BY <1>2 DEF Commits
  <2>5. accepted \subseteq 1 .. Len(history') /\ plan.length \in 0 .. Len(history')
    BY <2>2, <2>3 DEF FactsInv
  <2> QED  BY <2>2, <2>3, <2>4, <2>5 DEF FactsInv
<1>3. CASE Relabels
  <2>1. accepted' \subseteq 1 .. Len(history)
    BY <1>3 DEF Relabels, FactsInv
  <2> QED  BY <1>3, <2>1 DEF Relabels, repository, FactsInv
<1> DEFINE Rest == UNCHANGED <<history, accepted, plan>>
<1>4. (\E g : branch' = [branch EXCEPT ![g] = NoBranch]) => branch' \in [Groups -> Snapshots \cup {NoBranch}]
  BY DEF FactsInv
<1>5. CASE Deletes
  <2>1. Rest /\ \E g : branch' = [branch EXCEPT ![g] = NoBranch]
    BY <1>5 DEF Deletes
  <2> QED  BY <2>1, <1>4 DEF FactsInv
<1>6. CASE Discard \/ Drop \/ Sweep
  <2>1. Rest /\ (UNCHANGED branch \/ \E g : branch' = [branch EXCEPT ![g] = NoBranch])
    BY <1>6 DEF Discard, Drop, Sweep, DeleteReview, Fault, Same, Quiet, repository
  <2> QED  BY <2>1, <1>4 DEF FactsInv
<1>7. CASE MakeBranch
  <2>1. Base \in Snapshots
    BY FinalizationBounds DEF Base, Snapshots, Trees, Contents
  <2>2. Rest /\ (UNCHANGED branch \/ branch' = [branch EXCEPT ![group] = Base])
    BY <1>7 DEF MakeBranch
  <2> QED  BY <2>1, <2>2 DEF FactsInv
<1>8. CASE Commit
  <2>1. Rest
    BY <1>8 DEF Commit, Quiet
  <2>2. CASE job = "review"
    <3>1. Good /\ tree = [f \in Files |-> IF f \in plan.files[group] \ todo THEN plan.content[f] ELSE 0]
      BY <1>8, <2>2 DEF Commit, Good, PhaseInv, Forward, BuildInv
    <3>2. tree \in Trees
      BY <3>1, FinalizationBounds DEF FactsInv, Trees, Contents
    <3>3. [tree |-> tree, artifact |-> stray = "staged"] \in Snapshots
      BY <3>2 DEF Snapshots
    <3>4. branch' = [branch EXCEPT ![group] = [tree |-> tree, artifact |-> stray = "staged"]]
      BY <1>8, <2>2 DEF Commit
    <3> QED  BY <2>1, <3>3, <3>4 DEF FactsInv
  <2>3. CASE job # "review"
    BY <1>8, <2>1, <2>3 DEF Commit, FactsInv
  <2> QED  BY <2>2, <2>3
<1>9. CASE \/ Exports \/ Restores \/ Apply \/ NextBranch \/ Detach \/ MakeBranchFails \/ ApplyFile
           \/ AddAll \/ BuildFails \/ Empty
  <2>1. UNCHANGED <<history, accepted, plan, branch>>
    BY <1>9 DEF Exports, Restores, Apply, NextBranch, Detach, MakeBranchFails, ApplyFile, AddAll,
                BuildFails, Empty, Switching, Switch, Fault, Same, Quiet, repository
  <2> QED  BY <2>1 DEF FactsInv
<1>10. CASE \/ ResetFailed \/ BaseRestored \/ Abort \/ Leave \/ Untemp \/ Verdict \/ Summarise
            \/ VerifyArtifacts \/ Fail \/ Report \/ Record \/ Die \/ UNCHANGED vars
  <2>1. UNCHANGED <<history, accepted, plan, branch>>
    BY <1>10 DEF ResetFailed, BaseRestored, Abort, Leave, Untemp, Verdict, Summarise, Fail, Report,
                 VerifyArtifacts, Record, Die, Reset, Switching, Switch, DeleteTemporary, Ended,
                 Fault, Same, Quiet, repository, vars
  <2> QED  BY <2>1 DEF FactsInv
<1> QED
  BY <1>1, <1>2, <1>3, <1>5, <1>6, <1>7, <1>8, <1>9, <1>10 DEF Next

\* A switch from a clean work tree leaves a clean work tree.
LEMMA CleanSwitch ==
  ASSUME NEW name, tree = Checked.tree, Switch(name, Base)
  PROVE  head' = name /\ tree' = Base.tree
BY DEF Switch, Base

\* What is checked out, by name.
LEMMA CheckedIs ==
  /\ head = OnSource => Checked.tree = [f \in Files |-> Content(Len(history), f)]
  /\ head = OnBase => Checked = Base
  /\ head = OnVerify => Checked = temporary
  /\ head \in Groups => Checked = branch[head]
<1>1. OnSource \notin Groups /\ OnBase \notin Groups /\ OnVerify \notin Groups
  BY FinalizationBounds DEF OnSource, OnVerify, OnBase, Groups, CurrentTree
<1>2. OnSource # OnVerify /\ OnSource # OnBase /\ OnBase # OnVerify
  BY DEF OnSource, OnVerify, OnBase
<1>3. head = OnSource => Checked = SourceAt(Len(history))
  BY <1>2 DEF Checked
<1>4. SourceAt(Len(history)).tree = [f \in Files |-> Content(Len(history), f)]
  BY DEF SourceAt
<1> QED  BY <1>1, <1>2, <1>3, <1>4 DEF Checked

LEMMA CheckedNext ==
  /\ head' = OnSource => Checked'.tree = [f \in Files |-> Content(Len(history), f)]'
  /\ head' = OnBase => Checked' = Base
  /\ head' = OnVerify => Checked' = temporary'
  /\ head' \in Groups => Checked' = branch'[head']
<1>1. OnSource \notin Groups /\ OnBase \notin Groups /\ OnVerify \notin Groups
  BY FinalizationBounds DEF OnSource, OnVerify, OnBase, Groups, CurrentTree
<1>2. OnSource # OnVerify /\ OnSource # OnBase /\ OnBase # OnVerify
  BY DEF OnSource, OnVerify, OnBase
<1>3. head' = OnSource => Checked' = SourceAt(Len(history))'
  BY <1>2 DEF Checked
<1>4. SourceAt(Len(history))'.tree = [f \in Files |-> Content(Len(history), f)]'
  BY DEF SourceAt
<1> QED  BY <1>1, <1>2, <1>3, <1>4 DEF Checked

\* The work tree of a run without error holds what its step has built so far.
LEMMA BuildStep ==
  FactsInv /\ PhaseInv /\ OwnInv /\ BuildInv /\ GroupsInv /\ PhaseInv' /\ [Next]_vars => BuildInv'
<1> SUFFICES ASSUME FactsInv, PhaseInv, OwnInv, BuildInv, GroupsInv, PhaseInv', [Next]_vars
             PROVE  BuildInv'
  OBVIOUS
<1>1. CASE \/ Plan \/ Relabels \/ Restores \/ Deletes \/ Die \/ MakeBranchFails \/ BuildFails
           \/ ResetFailed \/ BaseRestored \/ Drop \/ Abort \/ Sweep \/ Fail \/ Report
  BY <1>1, FailingStays DEF BuildInv
<1>2. CASE Commits
  <2>1. PICK e \in Files : history' = Append(history, [files |-> {e}, undo |-> FALSE])
    BY <1>2 DEF Commits
  <2>2. PICK n \in Nat : n = Len(history)
    BY LenProperties DEF FactsInv
  <2>3. Len(history') = n + 1 /\ history'[n + 1] = [files |-> {e}, undo |-> FALSE]
    BY <2>1, <2>2, AppendProperties DEF FactsInv, CommitRecords
  <2>4. \A f \in Files : Content(n + 1, f)' = IF f = e THEN n + 1 ELSE Content(n, f)
    <3> SUFFICES ASSUME NEW f \in Files
                 PROVE  Content(n + 1, f)' = IF f = e THEN n + 1 ELSE Content(n, f)
      OBVIOUS
    <3>1. {e} \in SUBSET Files
      OBVIOUS
    <3>2. Content(n + 1, f)' = IF f \in {e} THEN n + 1 ELSE Content(n, f)
      BY <2>1, <2>2, <3>1, ContentNew DEF FactsInv
    <3> QED  BY <3>2
  <2>5. /\ UNCHANGED <<branch, progress, plan>> /\ head = OnSource /\ head' = OnSource
    BY <1>2 DEF Commits
  <2>6. tree = [f \in Files |-> Content(n, f)]
    <3>1. tree = Checked.tree
      BY <1>2 DEF Commits, Dirty
    <3> QED  BY <2>2, <2>5, <3>1, CheckedIs
  <2>7. tree' = [f \in Files |-> IF f \in {e} THEN n + 1 ELSE tree[f]]
    <3>1. history'[Len(history')].files = {e}
      BY <2>3
    <3>2. tree' = [f \in Files |-> IF f \in history'[Len(history')].files THEN Len(history') ELSE tree[f]]
      BY <1>2 DEF Commits
    <3> QED  BY <2>3, <3>1, <3>2
  <2>9. Checked'.tree = [f \in Files |-> Content(n + 1, f)']
    <3>1. Checked'.tree = [f \in Files |-> Content(Len(history), f)]'
      BY <2>5, CheckedNext
    <3> QED  BY <2>3, <3>1
  <2>10. tree' = Checked'.tree
    BY <2>4, <2>6, <2>7, <2>9
  <2>11. OnSource \notin Groups /\ OnSource # OnVerify /\ OnSource # OnBase
    BY FinalizationBounds DEF OnSource, OnVerify, OnBase, Groups
  <2>12. pc \notin {"branch", "apply", "commit", "discard"} \/ ~Good \/ job = "union"
    BY <2>5, <2>11 DEF BuildInv, FactsInv
  <2> QED
    BY <2>5, <2>10, <2>12 DEF BuildInv, Good, progress, Expected, Present
<1>3. CASE Exports
  BY <1>3 DEF Exports, BuildInv, Good, progress, Expected, Present, Checked, SourceAt, Content
<1> USE DEF PhaseInv, Forward, Good
<1>4. UNCHANGED <<history, branch, head>> /\ (temporary' = temporary \/ head # OnVerify)
        => Checked' = Checked
  BY DEF Checked, SourceAt, Content
<1>5. Groups \subseteq Nat /\ group \in plan.groups => group \in Groups
  BY FinalizationBounds DEF Groups, CurrentTree, FactsInv
<1>6. CASE Apply
  <2>1. pc' = "group" => tree = Checked.tree /\ UNCHANGED <<history, branch, head, tree>> /\ head = OnSource
    BY <1>6 DEF Apply, Preflight, Dirty
  <2>2. OnSource # OnVerify
    BY DEF OnSource, OnVerify
  <2>3. job' = "review" /\ pc' \in {"idle", "group"}
    BY <1>6 DEF Apply
  <2> QED  BY <1>4, <2>1, <2>2, <2>3 DEF BuildInv
<1>7. CASE NextBranch
  <2>1. UNCHANGED <<plan, history, branch, temporary, head, tree, review>> /\ pc = "group"
    BY <1>7 DEF NextBranch, Same, Quiet, repository
  <2>2. Later \subseteq Nat /\ Later # {} /\ Later \subseteq plan.groups
    BY <1>7, FinalizationBounds DEF NextBranch, Later, FactsInv, Groups, CurrentTree
  <2>3. PICK g \in plan.groups : g = Min(Later)
    BY <2>2, MinOf
  <2>4. g \in Groups
    BY <2>3 DEF FactsInv
  <2>5. CASE pc' = "group" \/ failed' = TRUE
    BY <1>4, <1>7, <2>1, <2>5 DEF BuildInv, NextBranch
  <2>6. CASE pc' = "detach" /\ ~failed'
    <3>1. group' = g /\ plan.files[g] # {} /\ todo' = plan.files[g] /\ job \in {"review", "match"}'
      BY <1>7, <2>3, <2>6 DEF NextBranch
    <3>2. job' = "match" => branch[g] # NoBranch /\ Present(g) = plan.files[g]
      BY <1>7, <2>3, <2>6 DEF NextBranch
    <3>3. job' = "match" => branch[g] \in Snapshots
      BY <2>4, <3>2 DEF FactsInv
    <3>4. tree = Checked.tree
      BY <2>1, <2>6, <1>7 DEF BuildInv, NextBranch
    <3> QED  BY <1>4, <2>1, <2>3, <2>6, <3>1, <3>2, <3>3, <3>4 DEF BuildInv, Present
  <2> QED  BY <1>7, <2>5, <2>6 DEF NextBranch
<1>8. CASE Detach
  <2>1. CASE failed'
    BY <2>1 DEF BuildInv
  <2>2. CASE ~failed'
    <3>1. /\ Switch(OnBase, Base) /\ pc' = "branch" /\ pc = "detach"
          /\ UNCHANGED <<job, group, todo, review, failed, plan, branch>>
      BY <1>8, <2>2 DEF Detach, Switching, Switch, Goto, GotoFailed, Quiet
    <3>2. job # "union" => tree = Checked.tree
      BY <3>1 DEF BuildInv
    <3>3. job # "union" => head' = OnBase /\ tree' = Base.tree
      BY <3>1, <3>2, CleanSwitch
    <3> QED  BY <3>1, <3>3 DEF BuildInv, Present
  <2> QED  BY <2>1, <2>2
<1>9. CASE MakeBranch
  <2>1. /\ pc = "branch" /\ pc' = "apply"
        /\ UNCHANGED <<job, group, todo, review, failed, plan, tree, history>>
    BY <1>9 DEF MakeBranch, Goto
  <2> SUFFICES ASSUME job # "union" PROVE BuildInv'
    BY <2>1 DEF BuildInv
  <2>2. group \in plan.groups /\ group \in Groups /\ todo = plan.files[group] /\ tree = Base.tree
    BY <1>5, <2>1 DEF BuildInv, FactsInv
  <2>3. tree = [f \in Files |-> IF f \in plan.files[group] \ todo THEN plan.content[f] ELSE 0]
    BY <2>2 DEF Base
  <2>4. CASE job = "review"
    <3>1. head' = group /\ branch' = [branch EXCEPT ![group] = Base]
      BY <1>9, <2>4 DEF MakeBranch
    <3>2. branch'[group] = Base
      BY <2>2, <3>1 DEF FactsInv
    <3>3. group \notin review
      <4> SUFFICES ASSUME group \in review PROVE FALSE
        OBVIOUS
      <4>1. branch[group] = NoBranch /\ branch[group].tree = Expected(group) /\ plan.files[group] # {}
        BY <2>1, <2>4 DEF OwnInv, GroupsInv
      <4>2. PICK f \in Files : f \in plan.files[group]
        BY <2>2, <4>1 DEF FactsInv
      <4>3. NoBranch.tree[f] = -1 /\ Expected(group)[f] = plan.content[f] /\ plan.content[f] \in Nat
        BY <4>2, FinalizationBounds DEF NoBranch, Expected, FactsInv, Contents
      <4> QED  BY <4>1, <4>3
    <3> QED  BY <2>1, <2>2, <2>3, <2>4, <3>1, <3>2, <3>3 DEF BuildInv
  <2>5. CASE job # "review"
    <3>1. head' = OnVerify /\ branch' = branch
      BY <1>9, <2>5 DEF MakeBranch
    <3> QED  BY <2>1, <2>2, <2>3, <2>5, <3>1 DEF BuildInv, Present
  <2> QED  BY <2>4, <2>5
<1>10. CASE ApplyFile
  <2>1. PICK f \in todo : tree' = [tree EXCEPT ![f] = plan.content[f]] /\ todo' = todo \ {f}
    BY <1>10 DEF ApplyFile
  <2>2. /\ pc = "apply" /\ todo # {}
        /\ UNCHANGED <<history, branch, temporary, head, plan, pc, job, group, review, failed>>
    BY <1>10 DEF ApplyFile, Quiet
  <2> SUFFICES ASSUME job # "union" PROVE BuildInv'
    BY <2>2 DEF BuildInv
  <2>3. /\ tree = [x \in Files |-> IF x \in plan.files[group] \ todo THEN plan.content[x] ELSE 0]
        /\ todo \subseteq plan.files[group]
    BY <2>2 DEF BuildInv
  <2>4. tree' = [x \in Files |-> IF x \in plan.files[group] \ todo' THEN plan.content[x] ELSE 0]
    BY <2>1, <2>3
  <2>5. todo' \subseteq plan.files[group]
    BY <2>1, <2>3
  <2> QED  BY <2>2, <2>4, <2>5 DEF BuildInv, Present
<1>11. CASE AddAll
  BY <1>11 DEF AddAll, Quiet, Goto, BuildInv, Present
<1>12. CASE Commit
  <2>1. pc = "commit" /\ UNCHANGED <<history, head, tree, plan>>
    BY <1>12 DEF Commit, Quiet
  <2> SUFFICES ASSUME job # "union", Good PROVE BuildInv'
    BY <1>12 DEF BuildInv, Commit, Goto
  <2>2. group \in Groups /\ plan.files[group] # {} /\ group \in plan.groups
    BY <1>5, <2>1 DEF BuildInv, FactsInv
  <2>3. head = IF job = "review" THEN group ELSE OnVerify
    BY <2>1 DEF BuildInv
  <2>4. CASE job = "review"
    <3>1. /\ branch' = [branch EXCEPT ![group] = [tree |-> tree, artifact |-> stray = "staged"]]
          /\ pc' = "group" /\ job' = "review"
      BY <1>12, <2>4 DEF Commit, NextGroup
    <3>2. branch'[group].tree = tree
      BY <2>2, <3>1 DEF FactsInv
    <3>3. Checked' = branch'[group]
      BY <2>1, <2>2, <2>3, <2>4, CheckedNext
    <3> QED  BY <2>1, <3>1, <3>2, <3>3 DEF BuildInv
  <2>5. CASE job # "review"
    <3>1. /\ temporary' = [tree |-> tree, artifact |-> stray = "staged"] /\ branch' = branch
          /\ pc' = "leave" /\ UNCHANGED <<job, group>>
      BY <1>12, <2>5 DEF Commit, Goto
    <3>2. Checked' = temporary'
      BY <2>1, <2>3, <2>5, CheckedNext
    <3>3. tree' = Checked'.tree
      BY <2>1, <3>1, <3>2
    <3> QED  BY <2>1, <2>2, <2>5, <3>1, <3>3 DEF BuildInv, Present
  <2> QED  BY <2>4, <2>5
<1>13. CASE Empty
  <2>1. CASE failed'
    BY <2>1 DEF BuildInv
  <2>2. CASE ~failed'
    <3>1. /\ Switch(OnBase, Base) /\ pc' = "discard" /\ pc = "commit" /\ job = "review"
          /\ tree = Base.tree
          /\ UNCHANGED <<job, group, todo, review, failed, plan, branch>>
      BY <1>13, <2>2 DEF Empty, Switching, Switch, Goto, GotoFailed, Quiet
    <3>2. group \in Groups /\ head = group /\ branch[group] = Base
      BY <1>5, <3>1 DEF BuildInv, FactsInv
    <3>3. tree = Checked.tree
      BY <3>1, <3>2, CheckedIs
    <3>4. head' = OnBase /\ tree' = Base.tree
      BY <3>1, <3>3, CleanSwitch
    <3>5. Expected(group) = Base.tree
      BY <3>1 DEF BuildInv, Expected
    <3>6. tree' = Checked'.tree
      BY <3>4, CheckedNext
    <3> QED  BY <3>1, <3>4, <3>5, <3>6 DEF BuildInv, Expected
  <2> QED  BY <2>1, <2>2
<1>14. CASE Discard
  <2>1. CASE failed'
    BY <2>1 DEF BuildInv
  <2>2. CASE ~failed'
    <3>1. pc' = "group" /\ job' = "review" /\ pc = "discard" /\ UNCHANGED <<tree, head>>
      BY <1>14, <2>2 DEF Discard, DeleteReview, NextGroup, GotoFailed
    <3>2. tree = Checked.tree /\ head = OnBase
      BY <3>1 DEF BuildInv, OwnInv
    <3>3. tree' = Checked'.tree
      BY <3>1, <3>2, CheckedIs, CheckedNext
    <3> QED  BY <3>1, <3>3 DEF BuildInv
  <2> QED  BY <2>1, <2>2
<1>15. CASE Leave
  <2>1. CASE failed' \/ job = "union"
    BY <1>15, <2>1 DEF BuildInv, Leave, Switching, Goto, Recovery
  <2>2. CASE ~failed' /\ job # "union"
    <3>1. /\ Switch(OnBase, Base) /\ pc' \in {"untemp", "verdict"} /\ pc = "leave"
          /\ UNCHANGED <<job, group, todo, review, failed, plan, branch>>
      BY <1>15, <2>2 DEF Leave, AfterLeave, Switching, Switch, Goto, Recovery, Quiet
    <3>2. tree = Checked.tree
      BY <2>2, <3>1 DEF BuildInv
    <3>3. head' = OnBase /\ tree' = Base.tree
      BY <3>1, <3>2, CleanSwitch
    <3>4. tree' = Checked'.tree
      BY <3>3, CheckedNext
    <3> QED  BY <2>2, <3>1, <3>4 DEF BuildInv, Present
  <2> QED  BY <2>1, <2>2
<1>16. CASE Untemp
  <2>1. CASE failed' 
    BY <2>1 DEF BuildInv
  <2>2. CASE ~failed'
    <3>1. /\ head # OnVerify /\ UNCHANGED <<history, branch, head, tree, plan>>
          /\ pc = "untemp" /\ pc' = "verdict" /\ UNCHANGED <<job, group, todo, review, failed>>
      BY <1>16, <2>2 DEF Untemp, DeleteTemporary, Goto, Recovery, Quiet
    <3> QED  BY <1>4, <2>2, <3>1 DEF BuildInv, Present
  <2> QED  BY <2>1, <2>2
<1>17. CASE Verdict
  <2>1. UNCHANGED <<history, branch, temporary, head, tree, plan>> /\ pc = "verdict"
    BY <1>17 DEF Verdict, Same, Quiet, repository
  <2>2. failed' \/ job' = "union" \/ (pc' = "group" /\ job' = "review" /\ job = "match" /\ ~failed)
    BY <1>17 DEF Verdict, NextGroup, Goto, GotoFailed
  <2> QED  BY <1>4, <2>1, <2>2 DEF BuildInv
<1>18. CASE Summarise \/ VerifyArtifacts \/ Record
  BY <1>18 DEF Summarise, VerifyArtifacts, Record, Answer, Goto, GotoFailed, Quiet, BuildInv
<1>19. CASE UNCHANGED vars
  BY <1>4, <1>19 DEF vars, repository, progress, BuildInv, Expected, Present
<1> QED
  BY <1>1, <1>2, <1>3, <1>6, <1>7, <1>8, <1>9, <1>10, <1>11, <1>12, <1>13, <1>14, <1>15, <1>16,
     <1>17, <1>18, <1>19 DEF Next

\* A group that is done keeps its branch until the run ends.
LEMMA GroupsStep ==
  FactsInv /\ PhaseInv /\ OwnInv /\ BuildInv /\ GroupsInv /\ [Next]_vars
    /\ FactsInv' /\ PhaseInv' /\ BuildInv'
  => GroupsInv'
<1> SUFFICES ASSUME FactsInv, PhaseInv, OwnInv, BuildInv, GroupsInv, [Next]_vars,
                    FactsInv', PhaseInv', BuildInv'
             PROVE  GroupsInv'
  OBVIOUS
<1> USE DEF PhaseInv, Forward, Good
<1>1. CASE \/ Plan \/ Relabels \/ Restores \/ Deletes \/ Die \/ MakeBranchFails \/ BuildFails
           \/ ResetFailed \/ BaseRestored \/ Drop \/ Abort \/ Sweep \/ Fail \/ Report
  BY <1>1, FailingStays DEF GroupsInv
<1>2. /\ \A k \in Groups : k \in Nat /\ k > 0
      /\ plan.groups \subseteq Groups
      /\ \A k \in plan.groups : k \in Nat /\ k > 0
      /\ group \in {0} \cup Groups => group \in Nat
  <2>1. \A k \in Groups : k \in Nat /\ k > 0
    BY FinalizationBounds DEF Groups, CurrentTree
  <2>2. plan.groups \subseteq Groups
    BY DEF FactsInv
  <2> QED  BY <2>1, <2>2
\* Most steps change nothing the invariant speaks of.
<1> DEFINE Frame == UNCHANGED <<plan, accepted, branch, job, group, review, failed>>
<1>3. ASSUME Frame, UNCHANGED history, pc # "group", pc' \notin {"group", "artifacts", "record"}, pc # "idle"
      PROVE  GroupsInv'
  BY <1>3 DEF GroupsInv, Disjoint, Later, Expected
<1>4. CASE Commits \/ Exports \/ UNCHANGED vars
  <2>1. Frame /\ pc' = pc
    BY <1>4 DEF Commits, Exports, progress, vars, repository
  <2>2. UnionIsFinal => UnionIsFinal'
    <3>1. CASE UNCHANGED history
      BY <2>1, <3>1 DEF UnionIsFinal, SourceAt, Content
    <3>2. CASE Commits
      <4>1. PICK e \in Files : history' = Append(history, [files |-> {e}, undo |-> FALSE])
        BY <3>2 DEF Commits
      <4>2. [files |-> {e}, undo |-> FALSE] \in CommitRecords
        BY DEF CommitRecords
      <4>3. PICK n \in 0 .. Len(history) : n = plan.length
        BY DEF FactsInv
      <4>4. \A f \in Files : Content(n, f)' = Content(n, f)
        BY <4>1, <4>2, ContentKept DEF FactsInv
      <4>5. SourceAt(n)'.tree = SourceAt(n).tree
        BY <4>4 DEF SourceAt
      <4> QED  BY <2>1, <4>3, <4>5 DEF UnionIsFinal
    <3> QED  BY <1>4, <3>1, <3>2 DEF Exports, vars, repository
  <2> QED  BY <2>1, <2>2 DEF GroupsInv, Disjoint, Later, Expected
<1>5. CASE Apply
  <2>1. pc' = "group" => Preflight
    BY <1>5 DEF Apply
  <2>2. job' = "review" /\ group' = 0 /\ review' = {} /\ pc' \in {"idle", "group"}
        /\ UNCHANGED <<plan, accepted>>
    BY <1>5 DEF Apply
  <2>3. \A g \in plan.groups : ~ (g <= 0)
    BY <1>2
  <2> QED  BY <2>1, <2>2, <2>3 DEF GroupsInv, Preflight, Disjoint
<1>6. CASE NextBranch
  <2>1. UNCHANGED <<plan, accepted, branch, review>> /\ pc = "group" /\ Later # {}
    BY <1>6 DEF NextBranch, Same, Quiet, repository
  <2>2. Later \subseteq Nat /\ Later \subseteq plan.groups
    BY <1>2 DEF Later
  <2>3. PICK g \in Later : g = Min(Later) /\ \A k \in Later : g <= k
    BY <2>1, <2>2, MinOf
  <2>4. g \in plan.groups /\ g \in Nat /\ g \in Groups
    BY <1>2, <2>2
  <2>5. \A k \in plan.groups : k < g => k \in review \/ Expected(k) = Base.tree
    <3> SUFFICES ASSUME NEW k \in plan.groups, k < g, Good
                 PROVE  k \in review \/ Expected(k) = Base.tree
      BY <2>1, <1>6 DEF NextBranch
    <3>1. k \notin Later
      BY <1>2, <2>3, <2>4
    <3>2. k <= group
      BY <1>2, <3>1 DEF Later, GroupsInv
    <3> QED  BY <2>1, <3>2 DEF GroupsInv
  <2>6. group' = g /\ (failed' \/ pc' = "detach" \/ (pc' = "group" /\ plan.files[g] = {}))
        /\ pc' \in {"group", "detach", "abort"} /\ job' \in {"review", "match"}
        /\ (~failed' => ~failed)
    BY <1>6, <2>3 DEF NextBranch
  <2>7. plan.files[g] = {} => Expected(g) = Base.tree
    BY DEF Expected, Base
  <2>8. \A k \in plan.groups : k <= g => k < g \/ k = g
    BY <1>2, <2>4
  <2> QED  BY <2>1, <2>4, <2>5, <2>6, <2>7, <2>8 DEF GroupsInv, Disjoint, Expected
<1>7. CASE Detach
  BY <1>3, <1>7 DEF Detach, Switching, Switch, Goto, GotoFailed, Quiet, GroupsInv
<1>8. CASE MakeBranch
  <2>1. /\ pc = "branch" /\ pc' = "apply"
        /\ UNCHANGED <<job, group, review, failed, plan, accepted, history>>
    BY <1>8 DEF MakeBranch, Goto
  <2>2. CASE job # "review"
    BY <1>3, <1>8, <2>1, <2>2 DEF MakeBranch
  <2>3. CASE job = "review"
    <3>1. branch' = [branch EXCEPT ![group] = Base]
      BY <1>8, <2>3 DEF MakeBranch
    <3>2. group \notin review
      BY <2>1, <2>3 DEF BuildInv
    <3>3. \A g \in review : branch'[g] = branch[g]
      BY <2>1, <3>1, <3>2, <1>2 DEF GroupsInv, FactsInv
    <3> QED  BY <2>1, <2>3, <3>3 DEF GroupsInv, Disjoint, Later, Expected
  <2> QED  BY <2>2, <2>3
<1>9. CASE ApplyFile \/ AddAll
  BY <1>3, <1>9 DEF ApplyFile, AddAll, Goto, Quiet
<1>10. CASE Commit
  <2>1. pc = "commit" /\ UNCHANGED <<plan, accepted, history>>
    BY <1>10 DEF Commit, Quiet
  <2>2. CASE job # "review"
    BY <1>3, <1>10, <2>1, <2>2 DEF Commit, Goto
  <2>3. CASE job = "review"
    <3>1. /\ branch' = [branch EXCEPT ![group] = [tree |-> tree, artifact |-> stray = "staged"]]
          /\ pc' = "group" /\ job' = "review" /\ UNCHANGED <<group, failed>>
          /\ review' = review \cup {group}
      BY <1>10, <2>3 DEF Commit, NextGroup
    <3>2. group \in plan.groups /\ group \in Groups /\ plan.files[group] # {} /\ group \notin review
      BY <1>2, <2>1, <2>3 DEF BuildInv
    <3>3. tree = Expected(group)
      BY <2>1, <2>3 DEF BuildInv, Expected
    <3>4. branch'[group].tree = Expected(group) /\ \A g \in review : branch'[g] = branch[g]
      BY <1>2, <2>1, <3>1, <3>2, <3>3 DEF GroupsInv, FactsInv
    <3>5. \A k \in plan.groups : k <= group => k < group \/ k = group
      BY <1>2, <3>2
    <3> QED  BY <2>1, <2>3, <3>1, <3>2, <3>4, <3>5 DEF GroupsInv, Disjoint, Expected
  <2> QED  BY <2>2, <2>3
<1>11. CASE Empty
  BY <1>3, <1>11 DEF Empty, Switching, Switch, Goto, GotoFailed, Quiet, GroupsInv
<1>12. CASE Discard
  <2>1. CASE failed'
    BY <2>1 DEF GroupsInv
  <2>2. CASE ~failed'
    <3>1. /\ branch' = [branch EXCEPT ![group] = NoBranch] /\ pc = "discard"
          /\ pc' = "group" /\ job' = "review" /\ UNCHANGED <<group, review, failed, plan, accepted>>
      BY <1>12, <2>2 DEF Discard, DeleteReview, NextGroup, GotoFailed
    <3>2. group \in plan.groups /\ group \notin review /\ Expected(group) = Base.tree /\ job = "review"
      BY <3>1 DEF BuildInv, OwnInv
    <3>3. \A g \in review : branch'[g] = branch[g]
      BY <1>2, <3>1, <3>2 DEF GroupsInv, FactsInv
    <3>4. \A k \in plan.groups : k <= group => k < group \/ k = group
      BY <1>2, <3>2
    <3> QED  BY <3>1, <3>2, <3>3, <3>4 DEF GroupsInv, Disjoint, Expected
  <2> QED  BY <2>1, <2>2
<1>13. CASE Leave
  BY <1>3, <1>13 DEF Leave, AfterLeave, Switching, Switch, Goto, Recovery, Quiet, GroupsInv
<1>14. CASE Untemp
  BY <1>3, <1>14 DEF Untemp, DeleteTemporary, Goto, Recovery, Quiet, GroupsInv
<1>15. CASE Verdict
  <2>1. UNCHANGED <<plan, accepted, branch, history>> /\ pc = "verdict"
    BY <1>15 DEF Verdict, Same, Quiet, repository
  <2>2. CASE failed'
    BY <2>2 DEF GroupsInv
  <2>3. CASE ~failed' /\ job = "union"
    <3>1. UnionIsFinal /\ pc' = "artifacts" /\ UNCHANGED <<job, group, review, failed>>
      BY <1>15, <2>3 DEF Verdict, Goto, GotoFailed
    <3>2. UnionIsFinal'
      BY <2>1, <3>1 DEF UnionIsFinal, SourceAt, Content
    <3> QED  BY <2>1, <2>3, <3>1, <3>2 DEF GroupsInv, Disjoint, Later, Expected
  <2>4. CASE ~failed' /\ job # "union"
    <3>1. /\ Equivalent /\ pc' = "group" /\ job' = "review" /\ UNCHANGED <<group, failed>>
          /\ review' = review \cup {group} /\ job = "match"
      BY <1>15, <2>4 DEF Verdict, NextGroup, GotoFailed
    <3>2. /\ group \in plan.groups /\ plan.files[group] # {} /\ branch[group] \in Snapshots
          /\ Present(group) = plan.files[group]
      BY <2>1, <2>4, <3>1 DEF BuildInv
    <3>3. branch[group].tree = Expected(group)
      <4>1. branch[group].tree \in [Files -> Contents]
        BY <3>2 DEF Snapshots, Trees
      <4>2. \A f \in Files : branch[group].tree[f] = Expected(group)[f]
        <5>1. \A f \in plan.files[group] : branch[group].tree[f] = plan.content[f]
          BY <3>1 DEF Equivalent
        <5>2. \A f \in Files \ plan.files[group] : branch[group].tree[f] = 0
          <6>1. \A f \in Files : branch[group].tree[f] \in Nat
            BY <4>1, FinalizationBounds DEF Contents
          <6> QED  BY <3>2, <6>1 DEF Present
        <5> QED  BY <5>1, <5>2 DEF Expected
      <4> QED  BY <4>1, <4>2 DEF Expected
    <3>4. \A k \in plan.groups : k <= group => k < group \/ k = group
      BY <1>2, <3>2
    <3> QED  BY <2>1, <2>4, <3>1, <3>2, <3>3, <3>4 DEF GroupsInv, Disjoint, Expected
  <2> QED  BY <2>2, <2>3, <2>4
<1>16. CASE Summarise
  <2>1. CASE pc' = "idle"
    BY <2>1 DEF GroupsInv
  <2>2. CASE pc' # "idle"
    <3>1. /\ pc = "group" /\ pc' = "detach" /\ job' = "union" /\ Later = {}
          /\ UNCHANGED <<plan, accepted, branch, group, review, failed>>
      BY <1>16, <2>2 DEF Summarise, Answer, Same, Quiet, repository
    <3> QED  BY <3>1 DEF GroupsInv, Disjoint, Later, Expected
  <2> QED  BY <2>1, <2>2
<1>17. CASE VerifyArtifacts
  <2>1. CASE failed'
    BY <2>1 DEF GroupsInv
  <2>2. CASE ~failed'
    <3>1. /\ pc = "artifacts" /\ pc' = "record" /\ \A g \in review : ~branch[g].artifact
          /\ Frame /\ UNCHANGED history
      BY <1>17, <2>2 DEF VerifyArtifacts, GotoFailed, Same, Quiet, repository
    <3>2. UnionIsFinal /\ UnionIsFinal'
      BY <3>1 DEF GroupsInv, UnionIsFinal, SourceAt, Content
    <3> QED  BY <3>1, <3>2 DEF GroupsInv, Disjoint, Later, Expected
  <2> QED  BY <2>1, <2>2
<1>18. CASE Record
  BY <1>18 DEF Record, Answer, GroupsInv
<1> QED
  BY <1>1, <1>4, <1>5, <1>6, <1>7, <1>8, <1>9, <1>10, <1>11, <1>12, <1>13, <1>14, <1>15, <1>16,
     <1>17, <1>18 DEF Next

\* What is recorded is what the verification has just established.
LEMMA RecordedIsBacked ==
  ASSUME FactsInv, PhaseInv, GroupsInv, Record, completion' # completion
  PROVE  CompletionIsBacked' /\ DoneInv'
<1>1. /\ completion' = [length |-> plan.length, accepted |-> accepted,
                        branches |-> [g \in review |-> branch[g]]]
      /\ UNCHANGED history /\ pc = "record"
  BY DEF Record, Ended, Same, repository
<1>2. /\ Disjoint /\ plan.accepted = accepted /\ Later = {} /\ group \in {0} \cup Groups
      /\ \A g \in review : /\ g \in plan.groups /\ branch[g].tree = Expected(g)
                           /\ ~branch[g].artifact
      /\ \A g \in plan.groups : g <= group => g \in review \/ Expected(g) = Base.tree
      /\ UnionIsFinal
  BY <1>1 DEF GroupsInv, PhaseInv, Forward, Good
<1>3. \A g \in plan.groups : g \in review \/ Expected(g) = Base.tree
  <2>1. group \in Nat /\ plan.groups \subseteq Nat
    BY <1>2, FinalizationBounds DEF Groups, CurrentTree, FactsInv
  <2> QED  BY <1>2, <2>1 DEF Later
<1> DEFINE Holders(f) == {g \in review : branch[g].tree[f] # 0}
<1>4. \A f \in Files : plan.content[f] = Content(plan.length, f)
  BY <1>2 DEF UnionIsFinal, SourceAt
<1>5. \A f \in Files, g \in review :
        branch[g].tree[f] = IF f \in plan.files[g] THEN Content(plan.length, f) ELSE 0
  BY <1>2, <1>4 DEF Expected
<1>6. ASSUME NEW f \in Files
      PROVE  /\ Cardinality(Holders(f)) <= 1
             /\ \A g \in Holders(f) : branch[g].tree[f] = Content(plan.length, f)
             /\ Holders(f) = {} => Content(plan.length, f) = 0
  <2>1. \A g, k \in Holders(f) : g = k
    BY <1>2, <1>5 DEF Disjoint
  <2>2. Cardinality(Holders(f)) <= 1
    <3> HIDE DEF Holders
    <3>1. CASE Holders(f) = {}
      BY <3>1, FS_EmptySet
    <3>2. CASE Holders(f) # {}
      <4>1. PICK g \in Holders(f) : Holders(f) = {g}
        BY <2>1, <3>2
      <4> QED  BY <4>1, FS_Singleton
    <3> QED  BY <3>1, <3>2
  <2>3. ASSUME Content(plan.length, f) # 0 PROVE Holders(f) # {}
    <3>1. PICK g \in plan.groups : f \in plan.files[g]
      BY <1>4, <2>3 DEF FactsInv
    <3>2. Expected(g)[f] # 0 /\ Base.tree[f] = 0
      BY <1>4, <2>3, <3>1 DEF Expected, Base
    <3>3. g \in review
      BY <1>3, <3>2
    <3> QED  BY <1>2, <3>2, <3>3
  <2> QED  BY <1>5, <2>2, <2>3
<1>7. \A g \in review : g = CurrentTree \/ \A f \in Files : branch[g].tree[f] \in {0} \cup accepted
  BY <1>2, <1>4, <1>5 DEF FactsInv
<1> DEFINE made == completion'.branches
           Held(f) == {g \in DOMAIN made : made[g].tree[f] # 0}
<1>8. /\ completion'.length = plan.length /\ completion'.accepted = accepted
      /\ DOMAIN made = review /\ \A g \in review : made[g] = branch[g]
  BY <1>1
<1>9. \A f \in Files : Held(f) = Holders(f)
  BY <1>8
<1>10. \A f \in Files : Content(plan.length, f)' = Content(plan.length, f)
  BY <1>1 DEF Content, Record, Ended
<1> HIDE DEF made, Holders
<1>11. \A f \in Files : /\ Cardinality(Held(f)) <= 1
                        /\ \A g \in Held(f) : made[g].tree[f] = Content(plan.length, f)
                        /\ Held(f) = {} => Content(plan.length, f) = 0
  <2> HIDE DEF Held
  <2>1. \A f \in Files : \A g \in Held(f) : made[g] = branch[g]
    BY <1>8 DEF Held
  <2> QED  BY <1>6, <1>9, <2>1
<1>12. \A g \in DOMAIN made :
         ~made[g].artifact /\ (g = CurrentTree \/ \A f \in Files : made[g].tree[f] \in {0} \cup accepted)
  BY <1>2, <1>7, <1>8
<1>13. plan' = plan
  BY DEF Record, Ended
<1>14. \A f \in Files : Content(completion.length, f)' = Content(plan.length, f)
  BY <1>8, <1>10, <1>13
<1>15. CompletionIsBacked'
  BY <1>8, <1>11, <1>12, <1>14 DEF CompletionIsBacked, made
<1>16. DoneInv'
  BY <1>1, <1>8 DEF DoneInv, FactsInv
<1> QED  BY <1>15, <1>16

\* Later commits do not change what a completion is held against.
LEMMA DoneStep ==
  FactsInv /\ PhaseInv /\ GroupsInv /\ DoneInv /\ CompletionIsBacked /\ [Next]_vars
    => DoneInv' /\ CompletionIsBacked'
<1> SUFFICES ASSUME FactsInv, PhaseInv, GroupsInv, DoneInv, CompletionIsBacked, [Next]_vars
             PROVE  DoneInv' /\ CompletionIsBacked'
  OBVIOUS
<1>1. CASE completion' # completion
  <2>1. Record
    BY <1>1 DEF Next, vars, Plan, Planned, Commits, Relabels, Exports, Restores, Deletes, Apply,
                NextBranch, Detach, MakeBranch, MakeBranchFails, ApplyFile, AddAll, Commit,
                BuildFails, Empty, Discard, ResetFailed, BaseRestored, Drop, Abort, Sweep, Leave,
                Untemp, Verdict, Summarise, VerifyArtifacts, Fail, Report, Die, Switching, Reset,
                DeleteReview, DeleteTemporary, Fault, Quiet
  <2> QED  BY <1>1, <2>1, RecordedIsBacked
<1>2. CASE completion' = completion /\ completion = NoCompletion
  BY <1>2 DEF DoneInv, CompletionIsBacked
<1>3. CASE completion' = completion /\ completion # NoCompletion
  <2>1. PICK n \in 0 .. Len(history) : n = completion.length
    BY <1>3 DEF DoneInv
  <2>2. CASE Commits
    <3>1. PICK e \in Files : history' = Append(history, [files |-> {e}, undo |-> FALSE])
      BY <2>2 DEF Commits
    <3>2. [files |-> {e}, undo |-> FALSE] \in CommitRecords
      BY DEF CommitRecords
    <3>3. \A f \in Files : Content(n, f)' = Content(n, f)
      BY <3>1, <3>2, ContentKept DEF FactsInv
    <3>4. Len(history') = Len(history) + 1 /\ Len(history) \in Nat
      BY <3>1, <3>2, AppendProperties, LenProperties DEF FactsInv
    <3>5. n \in 0 .. Len(history')
      BY <3>4
    <3> QED  BY <1>3, <2>1, <3>3, <3>5 DEF DoneInv, CompletionIsBacked
  <2>3. CASE UNCHANGED history
    <3>1. \A f \in Files : Content(n, f)' = Content(n, f)
      BY <2>3 DEF Content
    <3> QED  BY <1>3, <2>1, <2>3, <3>1 DEF DoneInv, CompletionIsBacked
  <2>4. Commits \/ UNCHANGED history
    BY DEF Next, vars, repository, Plan, Planned, Relabels, Exports, Restores, Deletes, Apply,
           NextBranch, Detach, MakeBranch, MakeBranchFails, ApplyFile, AddAll, Commit, BuildFails,
           Empty, Discard, ResetFailed, BaseRestored, Drop, Abort, Sweep, Leave, Untemp, Verdict,
           Summarise, VerifyArtifacts, Fail, Report, Record, Die, Switching, Switch, Reset,
           DeleteReview, DeleteTemporary, Fault, Same
  <2> QED  BY <2>2, <2>3, <2>4
<1> QED  BY <1>1, <1>2, <1>3

(* Whatever fails or changes, and over the branches of however many runs:  *)
(* what the ledger records as complete is held, file by file, by its       *)
(* review branches (verifyUnion, existingBranchMatchesPlannedGroup,        *)
(* persistFinalizationCompletionEvidence).                                 *)
THEOREM CompletionsBacked == Spec => []CompletionIsBacked
<1> DEFINE IInv == /\ OwnInv /\ FactsInv /\ PhaseInv /\ BuildInv /\ GroupsInv /\ DoneInv
                   /\ CompletionIsBacked
<1>1. Init => IInv
  BY InitInv, BackedInit
<1>2. IInv /\ [Next]_vars => IInv'
  <2> SUFFICES ASSUME IInv, [Next]_vars PROVE IInv'
    OBVIOUS
  <2>1. OwnInv' /\ PhaseInv' /\ FactsInv'
    BY OwnStep, PhaseStep, FactsStep
  <2>2. BuildInv'
    BY <2>1, BuildStep
  <2>3. GroupsInv'
    BY <2>1, <2>2, GroupsStep
  <2>4. DoneInv' /\ CompletionIsBacked'
    BY DoneStep
  <2> QED  BY <2>1, <2>2, <2>3, <2>4
<1>3. IInv => CompletionIsBacked
  OBVIOUS
<1> QED  BY <1>1, <1>2, <1>3, PTL DEF Spec
=============================================================================
