---------------------------- MODULE ExactlyOnceLog ----------------------------
(***************************************************************************)
(* What the log command promises for the packet of a run (docs/            *)
(* architecture.md: "Repeated logging converges to at most one commit and  *)
(* one ledger event"): a run is pending, gets its commit if it is kept,    *)
(* then its ledger event, and only then stops being pending.  A commit or  *)
(* an event is the pair of the place it was written at and its run.        *)
(***************************************************************************)
EXTENDS Naturals

CONSTANTS Run, NoRun

VARIABLES
  pending,   \* the run whose receipt is pending
  keeps,     \* it is kept with a new commit
  commits,   \* the commits made for runs
  events     \* the ledger events of runs

avars == <<pending, keeps, commits, events>>

Of(pairs, r) == {x \in pairs : x[2] = r}

Init ==
  /\ pending = NoRun
  /\ keeps = FALSE
  /\ commits = {}
  /\ events = {}

\* A run that was logged, or that has a commit, is never begun again.
Begin(r) ==
  /\ pending = NoRun
  /\ Of(commits, r) = {}
  /\ Of(events, r) = {}
  /\ pending' = r
  /\ keeps' \in BOOLEAN
  /\ UNCHANGED <<commits, events>>

Commit(r) ==
  /\ pending = r
  /\ keeps
  /\ Of(commits, r) = {}
  /\ Of(events, r) = {}
  /\ \E x \in commits' : x[2] = r /\ commits' = commits \cup {x}
  /\ UNCHANGED <<pending, keeps, events>>

Publish(r) ==
  /\ pending = r
  /\ keeps => Of(commits, r) # {}
  /\ Of(events, r) = {}
  /\ \E x \in events' : x[2] = r /\ events' = events \cup {x}
  /\ UNCHANGED <<pending, keeps, commits>>

Close(r) ==
  /\ pending = r
  /\ Of(events, r) # {}
  /\ pending' = NoRun
  /\ keeps' = FALSE
  /\ UNCHANGED <<commits, events>>

Next == \E r \in Run : Begin(r) \/ Commit(r) \/ Publish(r) \/ Close(r)

Spec == Init /\ [][Next]_avars
=============================================================================
