-------------------------- MODULE CoherentSnapshot --------------------------
(***************************************************************************)
(* loadCoherentSessionSnapshot (lib/coherent-session-snapshot.ts) and its  *)
(* one caller, loadCanonicalSessionDecision (lib/session-decision.ts).     *)
(*                                                                         *)
(* The loader holds no lock.  It brackets its reads with two version       *)
(* vectors, A and B, and accepts the bytes read in between only if the two *)
(* vectors are equal; the other side of the race is every process that     *)
(* writes a session source.  A read of one source is one step; the reads   *)
(* of one Promise.all happen in any order.                                 *)
(*                                                                         *)
(* The content of a source is a number: 0 when the file is missing, n when *)
(* it holds its n-th content and that content parses, -n when it does not. *)
(* Equal hashes mean equal contents.  "place" stands for the storage paths *)
(* resolveLocations returns (negative: a copy in both stores, which        *)
(* resolving refuses), "git" for HEAD, index tree, status and the branch   *)
(* heads behind the completion audit.                                      *)
(***************************************************************************)
EXTENDS Integers, FiniteSets

CONSTANTS Files,       \* the sources whose bytes are captured
          Deletable,   \* the sources a command deletes: packet, receipt, process
          Restorable,  \* the sources that may get an earlier content back
          Outside,     \* the configs whose workingDir is outside --cwd
          Facts,       \* what the live inspection of the work tree may find
          MaxChanges   \* bound on the writers' steps

Sources == Files \cup {"git", "place"}

ASSUME FilesAssumption == {"config", "packet"} \subseteq Files
ASSUME NamesAssumption == {"git", "place"} \cap Files = {}
ASSUME FactsAssumption == Facts # {}
ASSUME KindsAssumption == Deletable \subseteq Files

MAX_COHERENCE_ATTEMPTS == 3

VARIABLES val,       \* the content of each source now
          facts,     \* what an inspection of the work tree would find now
          past,      \* history: the contents each source had before
          changes,   \* history: how many writers' steps there have been
          pc, attempt,
          todo,      \* the sources the current Promise.all has still to read
          routing,   \* routingConfigBytes
          vecA, cap, vecB,
          version,   \* inspectionVersionA
          failed,    \* inspectionError: "no", "source" or "other"
          atA,       \* history: every source when vector A was complete
          atStart,   \* history: changes when the attempt began
          result     \* "invalid" and "rejected" are both coherent-snapshot-source-invalid:
                     \* a read that failed, captured bytes that do not parse

world == <<val, facts, past, changes>>
load  == <<pc, attempt, todo, routing, vecA, cap, vecB, version, failed, atA, atStart, result>>
vars  == <<val, facts, past, changes, pc, attempt, todo, routing, vecA, cap, vecB,
           version, failed, atA, atStart, result>>

Missing   == 0
Parses(v) == v >= Missing

InitialContent(s) == IF s \in Deletable THEN Missing ELSE 1

\* The variables of the loop's body, new in every attempt.
Locals(r, a, c, b, f, m) == /\ r = Missing /\ f = "no"
                            /\ a = [s \in Sources |-> Missing]
                            /\ b = [s \in Sources |-> Missing]
                            /\ m = [s \in Sources |-> Missing]
                            /\ c = [s \in Files |-> Missing]

Init == /\ val = [s \in Sources |-> InitialContent(s)]
        /\ facts \in Facts
        /\ past = [s \in Sources |-> {}]
        /\ changes = 0
        /\ pc = "routing" /\ attempt = 1 /\ todo = {}
        /\ Locals(routing, vecA, cap, vecB, failed, atA)
        /\ version \in Facts
        /\ atStart = 0
        /\ result = "none"

-----------------------------------------------------------------------------
(* The writers: commands under the mutation lock, the runner's progress    *)
(* writer, git, an editor.                                                 *)

\* A content no earlier write of s produced: packets, receipts and progress
\* records carry an identifier or a time, ledger versions size and mtime.
New(s) == {n \in {changes + 2, -(changes + 2)} : n \notin past[s] \cup {val[s]}}

Contents(s) == New(s)
               \cup (IF s \in Deletable THEN {Missing} ELSE {})
               \cup (IF s \in Restorable THEN past[s] ELSE {})

Write(s) == /\ changes < MaxChanges
            /\ \E v \in Contents(s) \ {val[s]} :
                 /\ val' = [val EXCEPT ![s] = v]
                 /\ past' = [past EXCEPT ![s] = @ \cup {val[s]}]
            /\ changes' = changes + 1
            /\ UNCHANGED facts /\ UNCHANGED load

TouchWorkTree == /\ changes < MaxChanges
                 /\ facts' \in Facts \ {facts}
                 /\ changes' = changes + 1
                 /\ UNCHANGED <<val, past>> /\ UNCHANGED load

-----------------------------------------------------------------------------
(* One attempt of the loader.                                              *)

Finish(r) == /\ result' = r
             /\ pc' = "done"
             /\ UNCHANGED world
             /\ UNCHANGED <<attempt, todo, routing, vecA, cap, vecB, version, failed, atA, atStart>>

Retry == /\ IF attempt < MAX_COHERENCE_ATTEMPTS
            THEN /\ attempt' = attempt + 1
                 /\ atStart' = changes
                 /\ pc' = "routing"
                 /\ Locals(routing', vecA', cap', vecB', failed', atA')
                 /\ UNCHANGED result
            ELSE /\ result' = "unavailable"
                 /\ pc' = "done"
                 /\ UNCHANGED <<attempt, routing, vecA, cap, vecB, failed, atA, atStart>>
         /\ UNCHANGED world
         /\ UNCHANGED <<todo, version>>

CaptureRouting ==
  /\ pc = "routing"
  /\ \/ /\ ~Parses(val["config"])
        /\ Finish("invalid")
     \/ /\ Parses(val["config"]) /\ val["config"] \in Outside
        /\ Finish("thrown")
     \/ /\ Parses(val["config"]) /\ val["config"] \notin Outside
        /\ routing' = val["config"]
        /\ pc' = "placeA"
        /\ UNCHANGED world
        /\ UNCHANGED <<attempt, todo, vecA, cap, vecB, version, failed, atA, atStart, result>>

\* The first resolveLocations is outside the try: its error is not a diagnostic.
ResolveA ==
  /\ pc = "placeA"
  /\ \/ Finish("thrown")
     \/ /\ Parses(val["place"])
        /\ vecA' = [vecA EXCEPT !["place"] = val["place"]]
        /\ pc' = "parseA"
        /\ UNCHANGED world
        /\ UNCHANGED <<attempt, todo, routing, cap, vecB, version, failed, atA, atStart, result>>

\* A vector parses the config it read ahead of the hashes.
ParseConfig ==
  /\ pc \in {"parseA", "parseB"}
  /\ IF Parses(val["config"])
     THEN /\ todo' = Sources \ {"place"}
          /\ pc' = IF pc = "parseA" THEN "vectorA" ELSE "vectorB"
          /\ UNCHANGED world
          /\ UNCHANGED <<attempt, routing, vecA, cap, vecB, version, failed, atA, atStart, result>>
     ELSE Finish("invalid")

ReadVersionA(s) ==
  /\ pc = "vectorA" /\ s \in todo
  /\ vecA' = [vecA EXCEPT ![s] = val[s]]
  /\ todo' = todo \ {s}
  /\ UNCHANGED world
  /\ UNCHANGED <<pc, attempt, routing, cap, vecB, version, failed, atA, atStart, result>>

EndVectorA ==
  /\ pc = "vectorA" /\ todo = {}
  /\ atA' = val
  /\ todo' = Files
  /\ pc' = "capture"
  /\ UNCHANGED world
  /\ UNCHANGED <<attempt, routing, vecA, cap, vecB, version, failed, atStart, result>>

ReadSource(s) ==
  /\ pc = "capture" /\ s \in todo
  /\ cap' = [cap EXCEPT ![s] = val[s]]
  /\ todo' = todo \ {s}
  /\ UNCHANGED world
  /\ UNCHANGED <<pc, attempt, routing, vecA, vecB, version, failed, atA, atStart, result>>

\* gitTrust parses the captured config when there is a packet.
EndCapture ==
  /\ pc = "capture" /\ todo = {}
  /\ IF cap["packet"] # Missing /\ ~Parses(cap["config"])
     THEN Finish("invalid")
     ELSE /\ pc' = "inspectA"
          /\ UNCHANGED world
          /\ UNCHANGED <<attempt, todo, routing, vecA, cap, vecB, version, failed, atA,
                         atStart, result>>

\* An error of the inspection is kept until the vectors have been compared.
InspectA ==
  /\ pc = "inspectA"
  /\ pc' = "placeB"
  /\ IF \A s \in Files : Parses(cap[s])
     THEN \/ version' = facts /\ UNCHANGED failed
          \/ failed' = "other" /\ UNCHANGED version
     ELSE failed' = "source" /\ UNCHANGED version
  /\ UNCHANGED world
  /\ UNCHANGED <<attempt, todo, routing, vecA, cap, vecB, atA, atStart, result>>

ResolveB ==
  /\ pc = "placeB"
  /\ IF Parses(val["place"])
     THEN /\ vecB' = [vecB EXCEPT !["place"] = val["place"]]
          /\ pc' = "parseB"
          /\ UNCHANGED world
          /\ UNCHANGED <<attempt, todo, routing, vecA, cap, version, failed, atA, atStart, result>>
     ELSE Finish("invalid")

ReadVersionB(s) ==
  /\ pc = "vectorB" /\ s \in todo
  /\ vecB' = [vecB EXCEPT ![s] = val[s]]
  /\ todo' = todo \ {s}
  /\ UNCHANGED world
  /\ UNCHANGED <<pc, attempt, routing, vecA, cap, version, failed, atA, atStart, result>>

\* A read, a git command or a resolution that fails inside the try.
ReadFails ==
  /\ \/ pc \in {"vectorA", "capture", "vectorB"} /\ todo # {}
     \/ pc \in {"parseA", "placeB", "parseB"}
  /\ Finish("invalid")

\* Mutants of Unchanged: only the files are compared; an attempt whose inspection
\* failed counts as a race.
UnchangedFiles == (\A s \in Files : vecA[s] = vecB[s]) /\ routing = cap["config"]
UnchangedUninspected == vecA = vecB /\ routing = cap["config"] /\ failed = "no"

\* vectorsEqual, snapshotLocationsEqual and optionalBytesEqual.
Unchanged == vecA = vecB /\ routing = cap["config"]

\* Mutants of Compare: the inspection's error is thrown before the vectors are
\* compared; a source that does not parse is read again and again.
CompareLate ==
  /\ pc = "vectorB" /\ todo = {}
  /\ \/ failed = "no" /\ ~Unchanged /\ Retry
     \/ failed = "source" /\ Finish("rejected")
     \/ failed = "other" /\ Finish("thrown")
     \/ /\ Unchanged /\ failed = "no"
        /\ pc' = "inspectB"
        /\ UNCHANGED world
        /\ UNCHANGED <<attempt, todo, routing, vecA, cap, vecB, version, failed, atA,
                       atStart, result>>

CompareForever ==
  /\ pc = "vectorB" /\ todo = {}
  /\ \/ ~Unchanged /\ Retry
     \/ /\ Unchanged /\ failed # "no"
        /\ pc' = "routing"
        /\ Locals(routing', vecA', cap', vecB', failed', atA')
        /\ UNCHANGED world /\ UNCHANGED <<attempt, todo, version, atStart, result>>
     \/ /\ Unchanged /\ failed = "no"
        /\ pc' = "inspectB"
        /\ UNCHANGED world
        /\ UNCHANGED <<attempt, todo, routing, vecA, cap, vecB, version, failed, atA,
                       atStart, result>>

Compare ==
  /\ pc = "vectorB" /\ todo = {}
  /\ \/ ~Unchanged /\ Retry
     \/ Unchanged /\ failed = "source" /\ Finish("rejected")
     \/ Unchanged /\ failed = "other" /\ Finish("thrown")
     \/ /\ Unchanged /\ failed = "no"
        /\ pc' = "inspectB"
        /\ UNCHANGED world
        /\ UNCHANGED <<attempt, todo, routing, vecA, cap, vecB, version, failed, atA,
                       atStart, result>>

\* The captured bytes parsed in InspectA, so the last parse cannot fail.
InspectB ==
  /\ pc = "inspectB"
  /\ \/ facts = version /\ Finish("ok")
     \/ facts # version /\ Retry
     \/ Finish("thrown")

Load == \/ CaptureRouting \/ ResolveA \/ ParseConfig \/ EndVectorA \/ EndCapture
        \/ InspectA \/ ResolveB \/ Compare \/ InspectB \/ ReadFails
        \/ \E s \in Sources : ReadVersionA(s) \/ ReadSource(s) \/ ReadVersionB(s)

Next == Load \/ TouchWorkTree \/ \E s \in Sources : Write(s)

Spec == Init /\ [][Next]_vars

\* The process that loads keeps running; nothing is assumed of the writers.
FairSpec == Spec /\ WF_vars(Load)

-----------------------------------------------------------------------------
(* Properties.                                                             *)

Phases == {"routing", "placeA", "parseA", "vectorA", "capture", "inspectA", "placeB",
           "parseB", "vectorB", "inspectB", "done"}

\* Every variable has its type, and the history of a source is finite.
TypeOK == /\ val \in [Sources -> Int] /\ facts \in Facts
          /\ past \in [Sources -> SUBSET Int]
          /\ changes \in Nat /\ atStart \in Nat
          /\ pc \in Phases
          /\ attempt \in 1..MAX_COHERENCE_ATTEMPTS
          /\ todo \subseteq Sources /\ (pc = "capture" => todo \subseteq Files)
          /\ routing \in Int
          /\ vecA \in [Sources -> Int] /\ vecB \in [Sources -> Int]
          /\ cap \in [Files -> Int]
          /\ version \in Facts
          /\ failed \in {"no", "source", "other"}
          /\ atA \in [Sources -> Int]
          /\ result \in {"none", "ok", "unavailable", "invalid", "rejected", "thrown"}

\* The sources whose accepted version no other content can stand behind.
Pinned == {s \in Sources \ Restorable : vecB[s] # Missing}

\* An accepted snapshot is one moment of the session: when vector A was complete every
\* source the vector names as present held, all at once, the bytes the snapshot returns.
\* The loader holds no lock, reads each source at another time, and trusts A = B for it.
CoherentMoment ==
  result = "ok" => \A s \in Pinned : /\ atA[s] = vecB[s]
                                     /\ s \in Files => cap[s] = vecB[s]

\* Every retry has a writer of its own: an attempt is given up only for a change made
\* during that attempt, so "unavailable" means three changes while the loader read.
RetriesAreEarned == /\ attempt - 1 <= changes
                    /\ result = "unavailable" => changes >= MAX_COHERENCE_ATTEMPTS

\* A source that does not parse fails the load only if it stood: when the inspection
\* rejected the captured bytes and the load ended there, the session did hold a content
\* that does not parse at the moment of the vector, unless the file was in between
\* created and deleted again.  A file being replaced must cost a retry instead.
RejectionStood ==
  result = "rejected" =>
    \E s \in Files : /\ ~Parses(cap[s])
                     /\ s \in Pinned => ~Parses(atA[s])

\* The loader answers, whatever the writers do: at most three attempts, each of
\* finitely many reads.
Answers == <>(result # "none")
=============================================================================
