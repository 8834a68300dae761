----------------------------- MODULE DashboardLive -----------------------------
(***************************************************************************)
(* The live dashboard's view-model.json (lib/live-server.ts): requests     *)
(* that overlap share one cached view model and one pending refresh, both  *)
(* under a fingerprint of the session files, while commands of other       *)
(* processes change those files.  Files are read and stat'ed one by one;   *)
(* a request runs alone between two awaits.  Parts of the view model from  *)
(* outside those files (progress marker, git) are left out: the cache may  *)
(* serve them until it expires.                                            *)
(*                                                                         *)
(* The ledger stands for the fingerprinted files that stay, the packet     *)
(* for those that come and go.  Every content has a size or an mtime of    *)
(* its own, so a stat tells its version; a file that is gone is Gone.      *)
(***************************************************************************)
EXTENDS Naturals, Sequences, FiniteSets

CONSTANTS Reqs,         \* the requests that may be served at once
          NoReq,
          MaxWrites,    \* bound on the changes of session files
          MaxRequests   \* bound on the requests of a behaviour

ASSUME NoReqAssumption == NoReq \notin Reqs

VARIABLES history,  \* the contents the session files had together, the last is now
          req,      \* the requests
          current,  \* cache.current
          pending,  \* cache.pending, by the request that refreshes
          shared,   \* liveReadCache: the state and the ledger's stamp
          served    \* requests so far

liveVars == <<history, req, current, pending, shared, served>>

Watched == {"ledger", "packet"}
Gone    == 0
Disk    == history[Len(history)]
Unread  == [f \in Watched |-> Gone]

LIVE_VIEW_MODEL_REFRESH_RETRY_LIMIT == 1

\* The parts of a view model and the files they are read from.
Parts        == {"fold", "state", "packet", "plan", "guide"}
Source(part) == IF part = "packet" THEN "packet" ELSE "ledger"
Blank        == [part \in Parts |-> Gone]

NoCache  == [held |-> FALSE, stamp |-> Unread, print |-> Unread, body |-> Blank, crossed |-> FALSE]
Idle     == [pc |-> "idle", since |-> 0, cached |-> NoCache, valid |-> FALSE, left |-> {}, of |-> NoReq,
             stamp |-> Unread, print |-> Unread, first |-> Unread, expected |-> Unread, attempt |-> 0,
             body |-> Blank, crossed |-> FALSE, answer |-> NoCache]

LiveInit == /\ history = <<[f \in Watched |-> IF f = "ledger" THEN 1 ELSE Gone]>>
            /\ req = [r \in Reqs |-> Idle]
            /\ current = NoCache /\ pending = NoReq
            /\ shared = [state |-> Gone, stamp |-> Gone]
            /\ served = 0

At(r, pc)     == req[r].pc = pc
Becomes(r, q) == req' = [req EXCEPT ![r] = q]
caches        == <<current, pending, shared>>

-----------------------------------------------------------------------------
(* Other processes change the session files.                               *)

Change(f, v) == /\ Len(history) <= MaxWrites /\ Disk[f] # v
                /\ history' = Append(history, [Disk EXCEPT ![f] = v])
                /\ UNCHANGED <<req, caches, served>>

Rewrite == \E f \in Watched : Change(f, Len(history) + 1)
Drop  == Change("packet", Gone)

-----------------------------------------------------------------------------
(* readCachedLiveViewModel                                                 *)

\* The cache entry is looked at before the stats, its expiry is judged by the
\* time the request came.
Arrive(r) ==
  /\ At(r, "idle") /\ served < MaxRequests /\ served' = served + 1
  /\ \E valid \in {FALSE, current.held} :
       Becomes(r, [Idle EXCEPT !.pc = "stamp", !.since = Len(history), !.cached = current,
                               !.valid = valid, !.left = Watched])
  /\ UNCHANGED <<history, caches>>

\* liveSessionStamp and the fingerprint: the files in any order.
Stat(r) ==
  /\ \E f \in req[r].left :
       \/ /\ req[r].pc \in {"stamp", "endStamp"}
          /\ Becomes(r, [req[r] EXCEPT !.stamp[f] = Disk[f], !.left = @ \ {f}])
       \/ /\ req[r].pc \in {"print", "endPrint"}
          /\ Becomes(r, [req[r] EXCEPT !.print[f] = Disk[f], !.left = @ \ {f}])
  /\ UNCHANGED <<history, caches, served>>

Over(r, pc) == At(r, pc) /\ req[r].left = {}

\* liveSessionSnapshot: an unexpired entry with this stamp gives its fingerprint.
Snapshot(r) ==
  /\ Over(r, "stamp")
  /\ IF req[r].valid /\ req[r].cached.stamp = req[r].stamp
     THEN Becomes(r, [req[r] EXCEPT !.pc = "print", !.print = req[r].cached.print, !.stamp = Unread])
     ELSE Becomes(r, [req[r] EXCEPT !.pc = "print", !.left = Watched, !.stamp = Unread])
  /\ UNCHANGED <<history, caches, served>>

Refreshing(r) == req[r].pc \in {"fold", "state", "share", "packet", "plan", "guide", "endStamp", "endPrint"}

\* What a request keeps of its fingerprint, and what an answer keeps of it.
Plain(r)       == [Idle EXCEPT !.since = req[r].since, !.first = req[r].print]
Answered(q, a) == [Idle EXCEPT !.pc = "done", !.since = q.since, !.first = q.first, !.answer = a]

\* Answered from the cache, joined to the refresh that is pending for this
\* fingerprint, or the start of a refresh of its own.
Hit(r) == req[r].valid /\ req[r].cached.print = req[r].print

\* Mutant of Join: any pending refresh will do.
JoinAny(r) == pending # NoReq

Join(r) == pending # NoReq /\ req[pending].first = req[r].print

Decide(r) ==
  /\ Over(r, "print") /\ UNCHANGED <<history, current, shared, served>>
  /\ IF Hit(r)
     THEN UNCHANGED pending /\ Becomes(r, Answered(Plain(r), req[r].cached))
     ELSE IF Join(r)
     THEN UNCHANGED pending /\ Becomes(r, [Plain(r) EXCEPT !.pc = "wait", !.of = pending])
     ELSE /\ pending' = r
          /\ req' = [q \in Reqs |->
               IF q = r THEN [Plain(r) EXCEPT !.pc = "fold", !.expected = req[r].print,
                                              !.crossed = \E p \in Reqs : Refreshing(p)]
               ELSE IF Refreshing(q) THEN [req[q] EXCEPT !.crossed = TRUE] ELSE req[q]]

-----------------------------------------------------------------------------
(* buildLiveViewModelBody: the ledger's fold, then dashboardViewModel.     *)

After(pc) == CASE pc = "fold" -> "state" [] pc = "state" -> "share" [] pc = "share" -> "packet"
               [] pc = "packet" -> "plan" [] pc = "plan" -> "guide" [] pc = "guide" -> "endStamp"

Put(r, v) == Becomes(r, [req[r] EXCEPT !.body[req[r].pc] = v, !.pc = After(@),
                                       !.left = IF At(r, "guide") THEN Watched ELSE {}])

ReadPart(r) == /\ req[r].pc \in {"fold", "state", "packet", "guide"}
               /\ Put(r, Disk[Source(req[r].pc)])
               /\ UNCHANGED <<history, caches, served>>

\* The fold becomes the state of the read cache all refreshes share.
Share(r) == /\ At(r, "share") /\ shared' = [shared EXCEPT !.state = req[r].body.fold]
            /\ Becomes(r, [req[r] EXCEPT !.pc = After(@)])
            /\ UNCHANGED <<history, current, pending, served>>

\* setupPlan, loadSessionState: a ledger stamp unlike the last one empties the
\* read cache, an empty one is filled.
Plan(r) ==
  /\ At(r, "plan")
  /\ LET stale == shared.stamp # Gone /\ shared.stamp # Disk["ledger"]
         state == IF stale \/ shared.state = Gone THEN Disk["ledger"] ELSE shared.state
     IN  shared' = [state |-> state, stamp |-> Disk["ledger"]] /\ Put(r, state)
  /\ UNCHANGED <<history, current, pending, served>>

\* The refresh and every request that joined it end together, with the view
\* model, or with an error the client asks again after.
Settle(r, answer) ==
  /\ req' = [q \in Reqs |-> IF q = r \/ (At(q, "wait") /\ req[q].of = r)
                            THEN IF answer.held THEN Answered(req[q], answer) ELSE Idle
                            ELSE req[q]]
  /\ pending' = IF pending = r THEN NoReq ELSE pending
  /\ UNCHANGED <<history, shared, served>>

\* The view model, or a stat, throws.
Fail(r) == req[r].pc \notin {"idle", "wait", "done"} /\ Settle(r, NoCache) /\ UNCHANGED current

EndStamp(r) == /\ Over(r, "endStamp") /\ Becomes(r, [req[r] EXCEPT !.pc = "endPrint", !.left = Watched])
               /\ UNCHANGED <<history, caches, served>>

\* buildLiveViewModelRefresh: good if the files are still those it began
\* with, else one more attempt from what they are now, else 409.
Complete(r) ==
  /\ Over(r, "endPrint")
  /\ IF req[r].print = req[r].expected
     THEN /\ current' = [held |-> TRUE, stamp |-> req[r].stamp, print |-> req[r].print,
                         body |-> req[r].body, crossed |-> req[r].crossed]
          /\ Settle(r, current')
     ELSE IF req[r].attempt >= LIVE_VIEW_MODEL_REFRESH_RETRY_LIMIT
     THEN Settle(r, NoCache) /\ UNCHANGED current
     ELSE /\ Becomes(r, [req[r] EXCEPT !.pc = "fold", !.attempt = @ + 1, !.expected = req[r].print,
                                       !.stamp = Unread, !.print = Unread, !.body = Blank])
          /\ UNCHANGED <<history, caches, served>>

Leave(r) == At(r, "done") /\ Becomes(r, Idle) /\ UNCHANGED <<history, caches, served>>

Serve(r) == \/ Stat(r) \/ Snapshot(r) \/ Decide(r) \/ ReadPart(r) \/ Share(r) \/ Plan(r)
            \/ Fail(r) \/ EndStamp(r) \/ Complete(r)

LiveNext == Rewrite \/ Drop \/ \E r \in Reqs : Arrive(r) \/ Serve(r) \/ Leave(r)

LiveSpec == LiveInit /\ [][LiveNext]_liveVars

-----------------------------------------------------------------------------
(* Properties                                                              *)

\* The parts an answer vouches for: not those of a file that was absent from a
\* fingerprint, which may have come and gone, nor the setup plan of a refresh
\* that another one crossed, which may stand in the other's read cache.
Vouched(r) ==
  LET a == req[r].answer IN
  {part \in Parts : /\ a.print[Source(part)] # Gone /\ req[r].first[Source(part)] # Gone
                    /\ part = "plan" => ~a.crossed}

\* A successful answer is one moment of the session, no earlier than the
\* request: neither the cache, nor a refresh it joined or one that ended out of
\* order, nor a write in between gives it older or mixed files
\* (readCachedLiveViewModel, buildLiveViewModelRefresh).
AnswerIsOneMoment ==
  \A r \in Reqs : At(r, "done") =>
    \E k \in req[r].since..Len(history) :
      \A part \in Vouched(r) : req[r].answer.body[part] = history[k][Source(part)]
===============================================================================
