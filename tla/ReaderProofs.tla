---------------------------- MODULE ReaderProofs ----------------------------
(***************************************************************************)
(* What the two readers that work without the lock are worth: the snapshot *)
(* a command judges by, and the live dashboard.  Both bracket their reads  *)
(* with two looks at the files and accept what they read if the two agree. *)
(*                                                                         *)
(* The snapshot, for any set of files, any number of writers' steps and    *)
(* any interleaving of them with the loader's reads.  The argument: a      *)
(* source that is not restorable never gets a present content back.  So    *)
(* the version vector A read is still there, or it is gone for good; if    *)
(* vector B finds it, it was there all the time, at the moment vector A    *)
(* was complete and when the bytes were captured.                          *)
(*                                                                         *)
(* The dashboard (the second half), for any number of requests and of      *)
(* changes: every answer is one moment of the session, although requests   *)
(* share a cache, a pending refresh and a read cache.                      *)
(***************************************************************************)
EXTENDS CoherentSnapshot, DashboardLive, TLAPS

-----------------------------------------------------------------------------
(* The inductive invariant.                                                *)

AfterA == {"capture", "inspectA", "placeB", "parseB", "vectorB", "inspectB"}
AfterCapture == AfterA \ {"capture"}

\* The entries of vector A, of the captured bytes and of vector B that the current
\* attempt has read.
HaveA(s) == \/ pc = "parseA" /\ s = "place"
            \/ pc = "vectorA" /\ s \notin todo
            \/ pc \in AfterA
HaveBytes(s) == \/ pc = "capture" /\ s \notin todo
                \/ pc \in AfterCapture
HaveB(s) == \/ pc = "parseB" /\ s = "place"
            \/ pc = "vectorB" /\ s \notin todo
            \/ pc = "inspectB"

\* The sources whose version in vector A no later content can stand behind.
Fixed == {s \in Sources \ Restorable : vecA[s] # Missing}

\* The content that vector A read is still there or is gone for good.
OldOrGone == \A s \in Fixed : HaveA(s) => vecA[s] = val[s] \/ vecA[s] \in past[s]

\* While it is still there, it was there when vector A was complete and when the
\* bytes were captured.
StillThere == \A s \in Fixed : vecA[s] = val[s] =>
                /\ pc \in AfterA => atA[s] = vecA[s]
                /\ s \in Files /\ HaveBytes(s) => cap[s] = vecA[s]

\* What vector B has found again was there all the time.
FoundAgain == \A s \in Fixed : HaveB(s) /\ vecB[s] = vecA[s] =>
                /\ atA[s] = vecA[s]
                /\ s \in Files => cap[s] = vecA[s]

\* The inspection rejected bytes that do not parse, and only an attempt whose vectors
\* are equal gets to the second inspection.
Inspected == /\ failed = "source" => /\ \E s \in Files : ~Parses(cap[s])
                                     /\ pc \in AfterCapture \cup {"done"}
             /\ pc = "inspectB" => vecA = vecB /\ failed = "no"

\* The changes are counted, and an attempt without a change has read what is there.
Quiet == /\ attempt - 1 <= atStart /\ atStart <= changes
         /\ changes = atStart =>
              /\ pc \notin {"routing", "done"} => routing = val["config"]
              /\ \A s \in Sources : HaveA(s) => vecA[s] = val[s]
              /\ \A s \in Files : HaveBytes(s) => cap[s] = val[s]
              /\ \A s \in Sources : HaveB(s) => vecB[s] = val[s]
              /\ pc \in AfterCapture \ {"inspectA"} /\ failed = "no" => version = facts

\* What is claimed of the result.
Results == CoherentMoment /\ RejectionStood
           /\ (result = "unavailable" => changes >= MAX_COHERENCE_ATTEMPTS)
           /\ (result # "none" => pc = "done")

IInv == TypeOK /\ OldOrGone /\ StillThere /\ FoundAgain /\ Inspected /\ Quiet /\ Results

USE DEF Missing, MAX_COHERENCE_ATTEMPTS

LEMMA InitIInv == Init => IInv
<1>. SUFFICES ASSUME Init  PROVE IInv
  OBVIOUS
<1>. USE DEF Init, Locals
<1>1. "config" \in Files /\ "packet" \in Files
  BY FilesAssumption
<1>2. TypeOK
  BY DEF TypeOK, Phases, InitialContent
<1>3. OldOrGone /\ StillThere /\ FoundAgain
  BY DEF OldOrGone, StillThere, FoundAgain, Fixed
<1>4. Inspected /\ Quiet
  BY DEF Inspected, Quiet, HaveA, HaveB, HaveBytes, AfterA, AfterCapture
<1>5. Results
  BY DEF Results, CoherentMoment, RejectionStood
<1>. QED  BY <1>2, <1>3, <1>4, <1>5 DEF IInv

\* A writer's step: a new content is none of the earlier ones.
LEMMA WriteStep == IInv /\ (\E s \in Sources : Write(s)) => IInv'
<1>. SUFFICES ASSUME IInv, NEW w \in Sources, Write(w)  PROVE IInv'
  OBVIOUS
<1>. USE DEF IInv, load
<1>1. PICK v \in Contents(w) \ {val[w]} : /\ val' = [val EXCEPT ![w] = v]
                                          /\ past' = [past EXCEPT ![w] = @ \cup {val[w]}]
  BY DEF Write
<1>2. v \in Int /\ (w \notin Restorable /\ v # Missing => v \notin past[w] \cup {val[w]})
  BY <1>1 DEF Contents, New, TypeOK
<1>3. /\ UNCHANGED <<facts, pc, attempt, todo, routing, vecA, cap, vecB, version, failed, atA,
                     atStart, result>>
      /\ changes' = changes + 1
  BY DEF Write
<1>4. TypeOK'
  BY <1>1, <1>2, <1>3 DEF TypeOK
<1>5. /\ Fixed' = Fixed /\ Fixed \subseteq Sources
      /\ \A s \in Sources : /\ HaveA(s)' <=> HaveA(s)
                            /\ HaveB(s)' <=> HaveB(s)
                            /\ HaveBytes(s)' <=> HaveBytes(s)
  BY <1>3 DEF Fixed, HaveA, HaveB, HaveBytes
<1>6. OldOrGone'
  BY <1>1, <1>2, <1>3, <1>5 DEF OldOrGone, TypeOK, Fixed
<1>7. StillThere'
  <2>. SUFFICES ASSUME NEW s \in Fixed, vecA[s] = val'[s]
                PROVE  /\ pc \in AfterA => atA[s] = vecA[s]
                       /\ s \in Files /\ HaveBytes(s) => cap[s] = vecA[s]
    BY <1>3, <1>5 DEF StillThere
  <2>1. CASE vecA[s] = val[s]
    BY <2>1 DEF StillThere
  <2>2. CASE vecA[s] # val[s] /\ ~HaveA(s)
    BY <2>2 DEF HaveA, HaveBytes, AfterA, AfterCapture
  <2>3. CASE vecA[s] # val[s] /\ HaveA(s)
    BY <1>1, <1>2, <2>3 DEF OldOrGone, Fixed, TypeOK
  <2>. QED  BY <2>1, <2>2, <2>3
<1>8. FoundAgain' /\ Inspected'
  BY <1>3, <1>5 DEF FoundAgain, Inspected
<1>9. Quiet'
  BY <1>3 DEF Quiet, TypeOK
<1>10. Results'
  BY <1>3 DEF Results, CoherentMoment, RejectionStood, Pinned, TypeOK
<1>. QED  BY <1>4, <1>6, <1>7, <1>8, <1>9, <1>10

LEMMA TouchStep == IInv /\ TouchWorkTree => IInv'
<1>. SUFFICES ASSUME IInv, TouchWorkTree  PROVE IInv'
  OBVIOUS
<1>. USE DEF IInv, TouchWorkTree, load
<1>1. TypeOK'
  BY DEF TypeOK
<1>2. OldOrGone' /\ StillThere' /\ FoundAgain' /\ Inspected'
  BY DEF OldOrGone, StillThere, FoundAgain, Inspected, Fixed, HaveA, HaveB, HaveBytes
<1>3. Quiet'
  BY DEF Quiet, TypeOK
<1>4. Results'
  BY DEF Results, CoherentMoment, RejectionStood, Pinned, TypeOK
<1>. QED  BY <1>1, <1>2, <1>3, <1>4

\* The loader ends, with a result that claims nothing of the captured bytes or with one
\* whose claim holds.
LEMMA FinishStep ==
  ASSUME IInv, NEW r \in {"ok", "invalid", "rejected", "thrown"}, Finish(r),
         r = "ok" => \A s \in Pinned : /\ atA[s] = vecB[s]
                                       /\ s \in Files => cap[s] = vecB[s],
         r = "rejected" => \E s \in Files : ~Parses(cap[s]) /\ (s \in Pinned => ~Parses(atA[s]))
  PROVE  IInv'
<1>. USE DEF IInv, Finish, world
<1>1. TypeOK'
  BY DEF TypeOK, Phases
<1>2. \A s \in Sources : ~HaveA(s)' /\ ~HaveB(s)' /\ ~HaveBytes(s)'
  BY DEF HaveA, HaveB, HaveBytes, AfterA, AfterCapture
<1>3. OldOrGone' /\ StillThere' /\ FoundAgain'
  BY <1>2 DEF OldOrGone, StillThere, FoundAgain, Fixed, HaveA
<1>4. Inspected'
  BY DEF Inspected
<1>5. Quiet'
  BY <1>2 DEF Quiet, AfterA, AfterCapture, Sources
<1>6. Pinned' = Pinned /\ UNCHANGED <<cap, vecB, atA>> /\ result' = r /\ pc' = "done"
  BY DEF Pinned
<1>7. CoherentMoment'
  BY <1>6 DEF CoherentMoment
<1>8. RejectionStood'
  BY <1>6 DEF RejectionStood, Parses
<1>9. Results'
  BY <1>6, <1>7, <1>8 DEF Results
<1>. QED  BY <1>1, <1>3, <1>4, <1>5, <1>9

\* An attempt during which something changed is given up.
LEMMA RetryStep ==
  ASSUME IInv, Retry, changes # atStart, result = "none"
  PROVE  IInv'
<1>. USE DEF IInv, Retry, world
<1>1. attempt <= changes /\ attempt' \in 1 .. 3 /\ changes' = changes
  BY DEF Quiet, TypeOK
<1>2. CASE attempt < MAX_COHERENCE_ATTEMPTS
  <2>. USE <1>2 DEF Locals
  <2>1. TypeOK'
    BY <1>1 DEF TypeOK, Phases
  <2>2. \A s \in Sources : ~HaveA(s)' /\ ~HaveB(s)' /\ ~HaveBytes(s)'
    BY DEF HaveA, HaveB, HaveBytes, AfterA, AfterCapture
  <2>3. OldOrGone' /\ StillThere' /\ FoundAgain'
    BY <2>2 DEF OldOrGone, StillThere, FoundAgain, Fixed
  <2>4. Inspected'
    BY DEF Inspected
  <2>5. Quiet'
    BY <1>1, <2>2 DEF Quiet, AfterA, AfterCapture, TypeOK, Sources
  <2>6. Results'
    BY DEF Results, CoherentMoment, RejectionStood
  <2>. QED  BY <2>1, <2>3, <2>4, <2>5, <2>6
<1>3. CASE ~(attempt < MAX_COHERENCE_ATTEMPTS)
  <2>. USE <1>3
  <2>1. TypeOK'
    BY DEF TypeOK, Phases
  <2>2. \A s \in Sources : ~HaveA(s)' /\ ~HaveB(s)' /\ ~HaveBytes(s)'
    BY DEF HaveA, HaveB, HaveBytes, AfterA, AfterCapture
  <2>3. OldOrGone' /\ StillThere' /\ FoundAgain'
    BY <2>2 DEF OldOrGone, StillThere, FoundAgain, Fixed, HaveA
  <2>4. Inspected'
    BY DEF Inspected
  <2>5. Quiet'
    BY <2>2 DEF Quiet, AfterA, AfterCapture, Sources
  <2>6. Results'
    BY <1>1 DEF Results, CoherentMoment, RejectionStood, TypeOK
  <2>. QED  BY <2>1, <2>3, <2>4, <2>5, <2>6
<1>. QED  BY <1>2, <1>3

\* The steps of an attempt that neither end the load nor give the attempt up.
Going == /\ pc' # "done" /\ UNCHANGED <<val, facts, past, changes, attempt, atStart, result>>
         /\ result = "none"

LEMMA ResultsGoing == IInv /\ Going => Results'
BY DEF IInv, Going, Results, CoherentMoment, RejectionStood

LEMMA RoutingStep == IInv /\ result = "none" /\ CaptureRouting => IInv'
<1>. SUFFICES ASSUME IInv, result = "none", CaptureRouting, pc' # "done"  PROVE IInv'
  BY FinishStep DEF CaptureRouting, Finish
<1>. USE DEF IInv, CaptureRouting, Finish, world
<1>1. TypeOK'
  BY FilesAssumption DEF TypeOK, Phases, Sources
<1>2. \A s \in Sources : ~HaveA(s)' /\ ~HaveB(s)' /\ ~HaveBytes(s)'
  BY DEF HaveA, HaveB, HaveBytes, AfterA, AfterCapture
<1>3. OldOrGone' /\ StillThere' /\ FoundAgain'
  BY <1>2 DEF OldOrGone, StillThere, FoundAgain, Fixed, HaveA
<1>4. Inspected'
  BY DEF Inspected, AfterA, AfterCapture
<1>5. Quiet'
  BY <1>2 DEF Quiet, AfterA, AfterCapture, Sources
<1>6. Results'
  BY ResultsGoing DEF Going
<1>. QED  BY <1>1, <1>3, <1>4, <1>5, <1>6

LEMMA ResolveAStep == IInv /\ result = "none" /\ ResolveA => IInv'
<1>. SUFFICES ASSUME IInv, result = "none", ResolveA, pc' # "done"  PROVE IInv'
  BY FinishStep DEF ResolveA, Finish
<1>. USE DEF IInv, ResolveA, Finish, world
<1>1. TypeOK'
  BY DEF TypeOK, Phases, Sources
<1>2. \A s \in Sources : /\ HaveA(s)' <=> s = "place"
                         /\ ~HaveB(s)' /\ ~HaveBytes(s)'
  BY DEF HaveA, HaveB, HaveBytes, AfterA, AfterCapture
<1>3. vecA'["place"] = val["place"]
  BY DEF TypeOK, Sources
<1>4. OldOrGone' /\ StillThere' /\ FoundAgain'
  BY <1>2, <1>3 DEF OldOrGone, StillThere, FoundAgain, Fixed, AfterA
<1>5. Inspected'
  BY DEF Inspected, AfterA, AfterCapture
<1>6. Quiet'
  BY <1>2, <1>3 DEF Quiet, AfterA, AfterCapture, Sources
<1>7. Results'
  BY ResultsGoing DEF Going
<1>. QED  BY <1>1, <1>4, <1>5, <1>6, <1>7

LEMMA ParseConfigStep == IInv /\ result = "none" /\ ParseConfig => IInv'
<1>. SUFFICES ASSUME IInv, result = "none", ParseConfig, pc' # "done"  PROVE IInv'
  BY FinishStep DEF ParseConfig, Finish
<1>. USE DEF IInv, ParseConfig, Finish, world
<1>1. TypeOK'
  BY DEF TypeOK, Phases
<1>2. \A s \in Sources : /\ HaveA(s)' <=> HaveA(s)
                         /\ HaveB(s)' <=> HaveB(s)
                         /\ HaveBytes(s)' <=> HaveBytes(s)
  BY DEF HaveA, HaveB, HaveBytes, AfterA, AfterCapture
<1>3. pc' \in AfterA <=> pc \in AfterA
  BY DEF AfterA
<1>4. OldOrGone' /\ StillThere' /\ FoundAgain'
  BY <1>2, <1>3 DEF OldOrGone, StillThere, FoundAgain, Fixed
<1>5. Inspected'
  BY DEF Inspected, AfterA, AfterCapture
<1>6. Quiet'
  BY <1>2 DEF Quiet, AfterA, AfterCapture, Sources
<1>7. Results'
  BY ResultsGoing DEF Going
<1>. QED  BY <1>1, <1>4, <1>5, <1>6, <1>7

LEMMA ReadAStep == ASSUME NEW r \in Sources  PROVE IInv /\ result = "none" /\ ReadVersionA(r) => IInv'
<1>. SUFFICES ASSUME IInv, result = "none", ReadVersionA(r)  PROVE IInv'
  OBVIOUS
<1>. USE DEF IInv, ReadVersionA, world
<1>1. TypeOK'
  BY DEF TypeOK, Phases
<1>2. \A s \in Sources : /\ HaveA(s)' <=> HaveA(s) \/ s = r
                         /\ ~HaveB(s)' /\ ~HaveBytes(s)'
  BY DEF HaveA, HaveB, HaveBytes, AfterA, AfterCapture
<1>3. vecA'[r] = val[r] /\ \A s \in Sources \ {r} : vecA'[s] = vecA[s]
  BY DEF TypeOK
<1>4. OldOrGone' /\ StillThere' /\ FoundAgain'
  BY <1>2, <1>3 DEF OldOrGone, StillThere, FoundAgain, Fixed, AfterA
<1>5. Inspected'
  BY DEF Inspected, AfterA, AfterCapture
<1>6. Quiet'
  BY <1>2, <1>3 DEF Quiet, AfterA, AfterCapture, Sources
<1>7. Results'
  BY ResultsGoing DEF Going
<1>. QED  BY <1>1, <1>4, <1>5, <1>6, <1>7

LEMMA EndVectorAStep == IInv /\ result = "none" /\ EndVectorA => IInv'
<1>. SUFFICES ASSUME IInv, result = "none", EndVectorA  PROVE IInv'
  OBVIOUS
<1>. USE DEF IInv, EndVectorA, world
<1>1. TypeOK'
  BY DEF TypeOK, Phases, Sources
<1>2. \A s \in Sources : /\ HaveA(s)' /\ HaveA(s) /\ ~HaveB(s)'
                         /\ s \in Files => ~HaveBytes(s)'
  BY DEF HaveA, HaveB, HaveBytes, AfterA, AfterCapture
<1>3. OldOrGone' /\ StillThere' /\ FoundAgain'
  BY <1>2 DEF OldOrGone, StillThere, FoundAgain, Fixed
<1>4. Inspected'
  BY DEF Inspected, AfterA, AfterCapture
<1>5. Quiet'
  BY <1>2 DEF Quiet, AfterA, AfterCapture, Sources
<1>6. Results'
  BY ResultsGoing DEF Going
<1>. QED  BY <1>1, <1>3, <1>4, <1>5, <1>6

LEMMA ReadSourceStep == ASSUME NEW r \in Sources  PROVE IInv /\ result = "none" /\ ReadSource(r) => IInv'
<1>. SUFFICES ASSUME IInv, result = "none", ReadSource(r)  PROVE IInv'
  OBVIOUS
<1>. USE DEF IInv, ReadSource, world
<1>1. TypeOK'
  BY DEF TypeOK, Phases
<1>2. r \in Files
  BY DEF TypeOK
<1>3. \A s \in Sources : /\ HaveA(s)' /\ HaveA(s) /\ ~HaveB(s)'
                         /\ HaveBytes(s)' <=> HaveBytes(s) \/ s = r
  BY DEF HaveA, HaveB, HaveBytes, AfterA, AfterCapture
<1>4. cap'[r] = val[r] /\ \A s \in Files \ {r} : cap'[s] = cap[s]
  BY <1>2 DEF TypeOK
<1>5. OldOrGone' /\ StillThere' /\ FoundAgain'
  BY <1>3, <1>4 DEF OldOrGone, StillThere, FoundAgain, Fixed
<1>6. Inspected'
  BY DEF Inspected, AfterA, AfterCapture
<1>7. Quiet'
  BY <1>3, <1>4 DEF Quiet, AfterA, AfterCapture, Sources
<1>8. Results'
  BY ResultsGoing DEF Going
<1>. QED  BY <1>1, <1>5, <1>6, <1>7, <1>8

LEMMA EndCaptureStep == IInv /\ result = "none" /\ EndCapture => IInv'
<1>. SUFFICES ASSUME IInv, result = "none", EndCapture, pc' # "done"  PROVE IInv'
  BY FinishStep DEF EndCapture, Finish
<1>. USE DEF IInv, EndCapture, Finish, world
<1>1. TypeOK'
  BY DEF TypeOK, Phases
<1>2. \A s \in Sources : /\ HaveA(s)' /\ HaveA(s) /\ ~HaveB(s)'
                         /\ HaveBytes(s)' /\ HaveBytes(s)
  BY DEF HaveA, HaveB, HaveBytes, AfterA, AfterCapture
<1>3. OldOrGone' /\ StillThere' /\ FoundAgain'
  BY <1>2 DEF OldOrGone, StillThere, FoundAgain, Fixed, AfterA
<1>4. Inspected'
  BY DEF Inspected, AfterA, AfterCapture
<1>5. Quiet'
  BY <1>2 DEF Quiet, AfterA, AfterCapture, Sources
<1>6. Results'
  BY ResultsGoing DEF Going
<1>. QED  BY <1>1, <1>3, <1>4, <1>5, <1>6

LEMMA InspectAStep == IInv /\ result = "none" /\ InspectA => IInv'
<1>. SUFFICES ASSUME IInv, result = "none", InspectA  PROVE IInv'
  OBVIOUS
<1>. USE DEF IInv, InspectA, world
<1>1. TypeOK'
  BY DEF TypeOK, Phases
<1>2. \A s \in Sources : /\ HaveA(s)' /\ HaveA(s) /\ ~HaveB(s)'
                         /\ HaveBytes(s)' /\ HaveBytes(s)
  BY DEF HaveA, HaveB, HaveBytes, AfterA, AfterCapture
<1>3. OldOrGone' /\ StillThere' /\ FoundAgain'
  BY <1>2 DEF OldOrGone, StillThere, FoundAgain, Fixed, AfterA
<1>4. failed = "no" => failed' # "no" \/ version' = facts
  OBVIOUS
<1>5. failed' = "source" => \E s \in Files : ~Parses(cap[s])
  BY DEF Inspected
<1>6. Inspected'
  BY <1>5 DEF Inspected, AfterA, AfterCapture, Parses
<1>7. Quiet'
  BY <1>2, <1>4 DEF Quiet, AfterA, AfterCapture, Sources, Inspected
<1>8. Results'
  BY ResultsGoing DEF Going
<1>. QED  BY <1>1, <1>3, <1>6, <1>7, <1>8

LEMMA ResolveBStep == IInv /\ result = "none" /\ ResolveB => IInv'
<1>. SUFFICES ASSUME IInv, result = "none", ResolveB, pc' # "done"  PROVE IInv'
  BY FinishStep DEF ResolveB, Finish
<1>. USE DEF IInv, ResolveB, Finish, world
<1>1. TypeOK'
  BY DEF TypeOK, Phases
<1>2. \A s \in Sources : /\ HaveA(s)' /\ HaveA(s) /\ (HaveB(s)' <=> s = "place")
                         /\ HaveBytes(s)' /\ HaveBytes(s)
  BY DEF HaveA, HaveB, HaveBytes, AfterA, AfterCapture
<1>3. vecB'["place"] = val["place"]
  BY DEF TypeOK, Sources
<1>4. OldOrGone' /\ StillThere' /\ FoundAgain'
  BY <1>2, <1>3, NamesAssumption DEF OldOrGone, StillThere, FoundAgain, Fixed, AfterA
<1>5. Inspected'
  BY DEF Inspected, AfterA, AfterCapture
<1>6. Quiet'
  BY <1>2, <1>3 DEF Quiet, AfterA, AfterCapture, Sources
<1>7. Results'
  BY ResultsGoing DEF Going
<1>. QED  BY <1>1, <1>4, <1>5, <1>6, <1>7

LEMMA ReadBStep == ASSUME NEW r \in Sources  PROVE IInv /\ result = "none" /\ ReadVersionB(r) => IInv'
<1>. SUFFICES ASSUME IInv, result = "none", ReadVersionB(r)  PROVE IInv'
  OBVIOUS
<1>. USE DEF IInv, ReadVersionB, world
<1>1. TypeOK'
  BY DEF TypeOK, Phases
<1>2. \A s \in Sources : /\ HaveA(s)' /\ HaveA(s)
                         /\ HaveB(s)' <=> HaveB(s) \/ s = r
                         /\ HaveBytes(s)' /\ HaveBytes(s)
  BY DEF HaveA, HaveB, HaveBytes, AfterA, AfterCapture
<1>3. vecB'[r] = val[r] /\ \A s \in Sources \ {r} : vecB'[s] = vecB[s]
  BY DEF TypeOK
<1>4. OldOrGone' /\ StillThere'
  BY <1>2 DEF OldOrGone, StillThere, Fixed, AfterA
<1>5. FoundAgain'
  BY <1>2, <1>3 DEF FoundAgain, StillThere, Fixed, AfterA
<1>6. Inspected'
  BY DEF Inspected, AfterA, AfterCapture
<1>7. Quiet'
  BY <1>2, <1>3 DEF Quiet, AfterA, AfterCapture, Sources
<1>8. Results'
  BY ResultsGoing DEF Going
<1>. QED  BY <1>1, <1>4, <1>5, <1>6, <1>7, <1>8

\* An attempt that ends with equal vectors has the moment of vector A.
LEMMA EqualVectors ==
  ASSUME IInv, (pc = "vectorB" /\ todo = {}) \/ pc = "inspectB", vecA = vecB
  PROVE  \A s \in Pinned : /\ atA[s] = vecB[s]
                           /\ s \in Files => cap[s] = vecB[s]
BY DEF IInv, FoundAgain, Fixed, Pinned, HaveB

\* An attempt without a change has equal vectors.
LEMMA UnequalVectors ==
  ASSUME IInv, pc = "vectorB", todo = {}, ~Unchanged
  PROVE  changes # atStart
<1>. SUFFICES ASSUME changes = atStart  PROVE FALSE
  OBVIOUS
<1>1. \A s \in Sources : HaveA(s) /\ HaveB(s) /\ HaveBytes(s)
  BY DEF HaveA, HaveB, HaveBytes, AfterA, AfterCapture
<1>2. vecA = vecB
  BY <1>1 DEF IInv, Quiet, TypeOK
<1>3. routing = cap["config"]
  BY <1>1, FilesAssumption DEF IInv, Quiet, Sources
<1>. QED  BY <1>2, <1>3 DEF Unchanged

LEMMA CompareStep == IInv /\ result = "none" /\ Compare => IInv'
<1>. SUFFICES ASSUME IInv, result = "none", Compare  PROVE IInv'
  OBVIOUS
<1>1. CASE ~Unchanged /\ Retry
  BY <1>1, UnequalVectors, RetryStep DEF Compare
<1>2. CASE Unchanged /\ failed = "source" /\ Finish("rejected")
  <2>1. PICK s \in Files : ~Parses(cap[s])
    BY <1>2 DEF IInv, Inspected
  <2>2. s \in Pinned => ~Parses(atA[s])
    BY <1>2, <2>1, EqualVectors DEF Compare, Unchanged
  <2>. QED  BY <1>2, <2>1, <2>2, FinishStep
<1>3. CASE Unchanged /\ failed = "other" /\ Finish("thrown")
  BY <1>3, FinishStep
<1>4. CASE Unchanged /\ failed = "no" /\ pc' = "inspectB" /\ pc = "vectorB" /\ todo = {}
           /\ UNCHANGED world
           /\ UNCHANGED <<attempt, todo, routing, vecA, cap, vecB, version, failed, atA, atStart, result>>
  <2>. USE <1>4 DEF IInv, world
  <2>1. TypeOK'
    BY DEF TypeOK, Phases
  <2>2. \A s \in Sources : /\ HaveA(s)' /\ HaveA(s) /\ HaveB(s)' /\ HaveB(s)
                           /\ HaveBytes(s)' /\ HaveBytes(s)
    BY DEF HaveA, HaveB, HaveBytes, AfterA, AfterCapture
  <2>3. OldOrGone' /\ StillThere' /\ FoundAgain'
    BY <2>2 DEF OldOrGone, StillThere, FoundAgain, Fixed, AfterA
  <2>4. Inspected'
    BY DEF Inspected, Unchanged
  <2>5. Quiet'
    BY <2>2 DEF Quiet, AfterA, AfterCapture, Sources
  <2>6. Results'
    BY ResultsGoing DEF Going
  <2>. QED  BY <2>1, <2>3, <2>4, <2>5, <2>6
<1>. QED  BY <1>1, <1>2, <1>3, <1>4 DEF Compare

LEMMA InspectBStep == IInv /\ result = "none" /\ InspectB => IInv'
<1>. SUFFICES ASSUME IInv, result = "none", InspectB  PROVE IInv'
  OBVIOUS
<1>1. CASE facts = version /\ Finish("ok")
  <2>1. vecA = vecB
    BY DEF IInv, Inspected, InspectB
  <2>. QED  BY <1>1, <2>1, EqualVectors, FinishStep DEF InspectB
<1>2. CASE facts # version /\ Retry
  <2>1. failed = "no"
    BY <1>2 DEF IInv, Inspected, InspectB
  <2>2. changes # atStart
    BY <1>2, <2>1 DEF IInv, Quiet, InspectB, AfterA, AfterCapture
  <2>. QED  BY <1>2, <2>2, RetryStep
<1>3. CASE Finish("thrown")
  BY <1>3, FinishStep
<1>. QED  BY <1>1, <1>2, <1>3 DEF InspectB

LEMMA IInvStep == IInv /\ [Next]_vars => IInv'
<1>. SUFFICES ASSUME IInv, [Next]_vars  PROVE IInv'
  OBVIOUS
<1>1. CASE UNCHANGED vars
  <2>. USE <1>1 DEF vars
  <2>1. TypeOK' /\ Inspected' /\ Results'
    BY DEF IInv, TypeOK, Inspected, Results, CoherentMoment, RejectionStood, Pinned
  <2>2. OldOrGone' /\ StillThere' /\ FoundAgain' /\ Quiet'
    BY DEF IInv, OldOrGone, StillThere, FoundAgain, Quiet, Fixed, HaveA, HaveB, HaveBytes
  <2>. QED  BY <2>1, <2>2 DEF IInv
<1>2. CASE Load
  <2>1. result = "none"
    BY <1>2 DEF IInv, Results, Load, CaptureRouting, ResolveA, ParseConfig, EndVectorA, EndCapture,
      InspectA, ResolveB, Compare, InspectB, ReadFails, ReadVersionA, ReadSource, ReadVersionB
  <2>2. CASE ReadFails
    BY <2>2, FinishStep DEF ReadFails
  <2>. QED
    BY <1>2, <2>1, <2>2, RoutingStep, ResolveAStep, ParseConfigStep, EndVectorAStep, EndCaptureStep,
      InspectAStep, ResolveBStep, CompareStep, InspectBStep, ReadAStep, ReadSourceStep, ReadBStep DEF Load
<1>. QED  BY <1>1, <1>2, WriteStep, TouchStep DEF Next

\* The loader's variables keep their types and the attempts stay within three.
THEOREM TypeCorrect == Spec => []TypeOK
<1>1. IInv => TypeOK
  BY DEF IInv
<1>. QED  BY <1>1, InitIInv, IInvStep, PTL DEF Spec

\* An accepted snapshot is one moment of the session.
THEOREM SnapshotIsMoment == Spec => []CoherentMoment
<1>1. IInv => CoherentMoment
  BY DEF IInv, Results
<1>. QED  BY <1>1, InitIInv, IInvStep, PTL DEF Spec

\* An attempt is given up only for a change made during it.
THEOREM RetriesEarned == Spec => []RetriesAreEarned
<1>1. IInv => RetriesAreEarned
  BY DEF IInv, Results, Quiet, RetriesAreEarned, TypeOK
<1>. QED  BY <1>1, InitIInv, IInvStep, PTL DEF Spec

\* A load ends on a source that does not parse only if that content stood.
THEOREM RejectionsStand == Spec => []RejectionStood
<1>1. IInv => RejectionStood
  BY DEF IInv, Results
<1>. QED  BY <1>1, InitIInv, IInvStep, PTL DEF Spec

-----------------------------------------------------------------------------
(* The live dashboard: what its variables and its answers are made of.     *)

Vector   == [Watched -> Nat]
Bodies   == [Parts -> Nat]
Cache    == [held : BOOLEAN, stamp : Vector, print : Vector, body : Bodies, crossed : BOOLEAN]
RequestPhases == {"idle", "stamp", "print", "wait", "fold", "state", "share", "packet", "plan",
                  "guide", "endStamp", "endPrint", "done"}
Request  == [pc : RequestPhases, since : Nat, cached : Cache, valid : BOOLEAN, left : SUBSET Watched,
             of : Reqs \cup {NoReq}, stamp : Vector, print : Vector, first : Vector, expected : Vector,
             attempt : Nat, body : Bodies, crossed : BOOLEAN, answer : Cache]

\* Every variable has its type, and there is always a present.
LiveTypeOK == /\ history \in Seq(Vector) /\ Len(history) >= 1
              /\ req \in [Reqs -> Request]
              /\ current \in Cache
              /\ pending \in Reqs \cup {NoReq}
              /\ shared \in [state : Nat, stamp : Nat]
              /\ served \in Nat

Now == Len(history)

\* History h had file f in version v at some time from a to b.
Seen(h, f, v, a, b) == \E k \in a..b : h[k][f] = v

\* Versions are as old as the change that made them, and none comes back.
HistInv(h) ==
  /\ \A f \in Watched : \A k \in 1..Len(h) : h[k][f] <= k
  /\ \A f \in Watched : \A i \in 1..Len(h) : \A k \in i..Len(h) :
       h[i][f] = h[k][f] /\ h[i][f] # Gone => \A j \in i..k : h[j][f] = h[i][f]

\* The parts of file f that a body vouches for are version v.
Agrees(body, crossed, f, v) ==
  \A part \in Parts : Source(part) = f /\ (part = "plan" => ~crossed) => body[part] = v

\* A cache entry made by time t is about a moment before t.
CacheInv(h, c, t) ==
  \A f \in Watched : c.print[f] # Gone =>
    /\ c.stamp[f] = c.print[f]
    /\ Seen(h, f, c.print[f], 1, t)
    /\ Agrees(c.body, c.crossed, f, c.print[f])

\* A request's own stats are no older than the request.
StatInv(h, q) ==
  /\ q.pc # "idle" => q.since \in 1..Len(h)
  /\ q.valid => q.since \in 1..Len(h) /\ CacheInv(h, q.cached, q.since)
  /\ q.pc = "stamp" => \A f \in Watched \ q.left : Seen(h, f, q.stamp[f], q.since, Len(h))
  /\ q.pc = "print" => \A f \in Watched \ q.left :
       q.print[f] # Gone => Seen(h, f, q.print[f], q.since, Len(h))

\* The phases after a part was read.
ReadIn(part) ==
  CASE part = "fold"   -> {"state", "share", "packet", "plan", "guide", "endStamp", "endPrint"}
    [] part = "state"  -> {"share", "packet", "plan", "guide", "endStamp", "endPrint"}
    [] part = "packet" -> {"plan", "guide", "endStamp", "endPrint"}
    [] part = "plan"   -> {"guide", "endStamp", "endPrint"}
    [] part = "guide"  -> {"endStamp", "endPrint"}

\* What the attempt began with was there by time t, and no earlier than what
\* the refresh began with.
BeganBy(h, q, t) ==
  \A f \in Watched :
    /\ q.expected[f] # Gone => Seen(h, f, q.expected[f], 1, t)
    /\ q.first[f] # Gone => \E k \in 1..t : \E l \in k..t : h[k][f] = q.first[f] /\ h[l][f] = q.expected[f]

\* What it has read was there after time t.
ReadSince(h, q, t) ==
  /\ \A part \in Parts : q.pc \in ReadIn(part) /\ (part = "plan" => ~q.crossed)
       => Seen(h, Source(part), q.body[part], t, Len(h))
  /\ q.pc = "endStamp" => \A f \in Watched \ q.left : Seen(h, f, q.stamp[f], t, Len(h))
  /\ q.pc = "endPrint" => \A f \in Watched : Seen(h, f, q.stamp[f], t, Len(h))

\* A file whose two fingerprints agree stood still from time t.
Matched(h, q, t) ==
  q.pc = "endPrint" => \A f \in Watched \ q.left :
    /\ Seen(h, f, q.print[f], t, Len(h))
    /\ q.print[f] = q.expected[f] /\ q.print[f] # Gone =>
         /\ h[t][f] = q.print[f] /\ q.stamp[f] = q.print[f]
         /\ Agrees(q.body, q.crossed, f, q.print[f])

Attempt(h, q, t) == BeganBy(h, q, t) /\ ReadSince(h, q, t) /\ Matched(h, q, t)

\* A request that joined came before the attempt, or saw the files it began with.
Joined(h, j, q, t) ==
  \/ j.since <= t
  \/ \A f \in Watched : j.first[f] # Gone =>
       q.expected[f] = j.first[f] /\ h[j.since][f] = j.first[f]

WaitsFor(j, r) == At(j, "wait") /\ req[j].of = r

RefreshInv(r) ==
  Refreshing(r) => \E t \in req[r].since..Now :
    /\ Attempt(history, req[r], t)
    /\ \A j \in Reqs : WaitsFor(j, r) => Joined(history, req[j], req[r], t)

\* What the read cache holds for a refresh no other has crossed.
ShareInv(r) ==
  At(r, "packet") \/ At(r, "plan") => req[r].crossed \/ shared.state = req[r].body["fold"]

\* Who waits, waits for a refresh; refreshes that meet know of it.
MeetInv ==
  /\ pending # NoReq => Refreshing(pending)
  /\ \A j \in Reqs : At(j, "wait") => req[j].of \in Reqs /\ Refreshing(req[j].of)
  /\ \A p, q \in Reqs : p # q /\ Refreshing(p) /\ Refreshing(q) => req[p].crossed

\* An answer is one moment no older than its request.
DoneInv(h, q) ==
  q.pc = "done" => \E k \in q.since..Len(h) : \A f \in Watched :
    q.answer.print[f] # Gone /\ q.first[f] # Gone
      => Agrees(q.answer.body, q.answer.crossed, f, h[k][f])

LiveIInv == /\ LiveTypeOK /\ HistInv(history) /\ MeetInv
            /\ current.held => CacheInv(history, current, Now)
            /\ \A r \in Reqs : StatInv(history, req[r]) /\ DoneInv(history, req[r])
            /\ \A r \in Reqs : RefreshInv(r) /\ ShareInv(r)

-----------------------------------------------------------------------------
(* Types.                                                                  *)

LEMMA PartsAndFiles ==
  /\ \A part \in Parts : Source(part) \in Watched
  /\ Unread \in Vector /\ Blank \in Bodies /\ NoCache \in Cache
  /\ Idle \in Request
<1>1. \A part \in Parts : Source(part) \in Watched
  BY DEF Parts, Source, Watched
<1>2. Unread \in Vector /\ Blank \in Bodies
  BY DEF Unread, Vector, Blank, Bodies, Gone
<1>3. NoCache \in Cache
  BY <1>2 DEF NoCache, Cache
<1>4. Idle \in Request
  BY <1>2, <1>3 DEF Idle, Request, RequestPhases
<1> QED
  BY <1>1, <1>2, <1>3, <1>4

LEMMA DiskType == LiveTypeOK => Disk \in Vector
  BY DEF LiveTypeOK, Disk

LEMMA InitType == LiveInit => LiveTypeOK
<1> SUFFICES ASSUME LiveInit PROVE LiveTypeOK
  OBVIOUS
<1>1. [f \in Watched |-> IF f = "ledger" THEN 1 ELSE Gone] \in Vector
  BY DEF Vector, Gone
<1>2. history \in Seq(Vector) /\ Len(history) >= 1
  BY <1>1 DEF LiveInit
<1>3. req \in [Reqs -> Request] /\ current \in Cache
  BY PartsAndFiles DEF LiveInit
<1> QED
  BY <1>2, <1>3 DEF LiveInit, LiveTypeOK, Gone

LEMMA TypeStep == LiveTypeOK /\ [LiveNext]_liveVars => LiveTypeOK'
<1> SUFFICES ASSUME LiveTypeOK, [LiveNext]_liveVars PROVE LiveTypeOK'
  OBVIOUS
<1>t. /\ history \in Seq(Vector) /\ Len(history) >= 1 /\ req \in [Reqs -> Request]
      /\ current \in Cache /\ pending \in Reqs \cup {NoReq}
      /\ shared \in [state : Nat, stamp : Nat] /\ served \in Nat
      /\ Disk \in Vector
  BY DiskType DEF LiveTypeOK
<1>f. Watched \in SUBSET Watched
  OBVIOUS
<1>p. {"stamp", "print", "fold", "endPrint"} \subseteq RequestPhases
  BY DEF RequestPhases
<1>b. ASSUME NEW r \in Reqs, NEW q \in Request, Becomes(r, q) PROVE req' \in [Reqs -> Request]
  BY <1>b, <1>t DEF Becomes
<1>1. ASSUME NEW f \in Watched, NEW v \in Nat, Change(f, v) PROVE LiveTypeOK'
  <2>1. [Disk EXCEPT ![f] = v] \in Vector
    BY <1>t DEF Vector
  <2>2. history' \in Seq(Vector) /\ Len(history') >= 1
    BY <1>1, <1>t, <2>1 DEF Change
  <2> QED
    BY <1>1, <1>t, <2>2 DEF Change, caches, LiveTypeOK
<1>2. ASSUME NEW r \in Reqs, Arrive(r) PROVE LiveTypeOK'
  <2>1. PICK valid \in BOOLEAN :
          Becomes(r, [Idle EXCEPT !.pc = "stamp", !.since = Len(history), !.cached = current,
                                  !.valid = valid, !.left = Watched])
    BY <1>2, <1>t DEF Arrive, Cache
  <2>2. [Idle EXCEPT !.pc = "stamp", !.since = Len(history), !.cached = current,
                     !.valid = valid, !.left = Watched] \in Request
    <3>1. Len(history) \in Nat
      BY <1>t
    <3> QED
      BY <3>1, <1>f, <1>p, <1>t, PartsAndFiles DEF Request
  <2> QED
    BY <1>2, <1>b, <1>t, <2>1, <2>2 DEF Arrive, caches, LiveTypeOK
<1>3. ASSUME NEW r \in Reqs, Stat(r) PROVE LiveTypeOK'
  <2>1. PICK f \in req[r].left :
          \/ Becomes(r, [req[r] EXCEPT !.stamp[f] = Disk[f], !.left = @ \ {f}])
          \/ Becomes(r, [req[r] EXCEPT !.print[f] = Disk[f], !.left = @ \ {f}])
    BY <1>3 DEF Stat
  <2>2. f \in Watched /\ Disk[f] \in Nat /\ req[r].left \ {f} \in SUBSET Watched
    BY <1>t DEF Request, Vector
  <2>3. /\ [req[r].stamp EXCEPT ![f] = Disk[f]] \in Vector
        /\ [req[r].print EXCEPT ![f] = Disk[f]] \in Vector
    BY <2>2, <1>t DEF Request, Vector
  <2>4. [req[r] EXCEPT !.stamp[f] = Disk[f], !.left = @ \ {f}] \in Request
    BY <2>2, <2>3, <1>t DEF Request
  <2>5. [req[r] EXCEPT !.print[f] = Disk[f], !.left = @ \ {f}] \in Request
    BY <2>2, <2>3, <1>t DEF Request
  <2> QED
    BY <1>3, <1>b, <1>t, <2>1, <2>4, <2>5 DEF Stat, caches, LiveTypeOK
<1>4. ASSUME NEW r \in Reqs, Snapshot(r) PROVE LiveTypeOK'
  <2>1. /\ [req[r] EXCEPT !.pc = "print", !.print = req[r].cached.print, !.stamp = Unread] \in Request
        /\ [req[r] EXCEPT !.pc = "print", !.left = Watched, !.stamp = Unread] \in Request
    BY <1>f, <1>p, <1>t, PartsAndFiles DEF Request, Cache
  <2> QED
    BY <1>4, <1>b, <1>t, <2>1 DEF Snapshot, caches, LiveTypeOK
<1>5. ASSUME NEW r \in Reqs, Decide(r) PROVE LiveTypeOK'
  <2>1. Plain(r) \in Request
    BY <1>t, PartsAndFiles DEF Plain, Request, Idle, RequestPhases
  <2>2. CASE Hit(r)
    <3>1. Answered(Plain(r), req[r].cached) \in Request
      BY <1>t, <2>1, PartsAndFiles DEF Answered, Request, Idle, RequestPhases
    <3> QED
      BY <1>5, <1>b, <1>t, <2>2, <3>1 DEF Decide, LiveTypeOK
  <2>3. CASE ~Hit(r) /\ Join(r)
    <3>1. [Plain(r) EXCEPT !.pc = "wait", !.of = pending] \in Request
      BY <1>t, <2>1 DEF Request, RequestPhases
    <3> QED
      BY <1>5, <1>b, <1>t, <2>3, <3>1 DEF Decide, LiveTypeOK
  <2>4. CASE ~Hit(r) /\ ~Join(r)
    <3>1. [Plain(r) EXCEPT !.pc = "fold", !.expected = req[r].print,
                           !.crossed = \E p \in Reqs : Refreshing(p)] \in Request
      BY <1>t, <2>1 DEF Request, RequestPhases
    <3>2. \A q \in Reqs : [req[q] EXCEPT !.crossed = TRUE] \in Request
      BY <1>t DEF Request
    <3>3. req' \in [Reqs -> Request]
      BY <1>5, <1>t, <2>4, <3>1, <3>2 DEF Decide
    <3> QED
      BY <1>5, <1>t, <2>4, <3>3 DEF Decide, LiveTypeOK
  <2> QED
    BY <2>2, <2>3, <2>4
<1>6. ASSUME NEW r \in Reqs, NEW v \in Nat, Put(r, v), req[r].pc \in Parts PROVE req' \in [Reqs -> Request]
  <2>1. After(req[r].pc) \in RequestPhases
    BY <1>6 DEF After, RequestPhases, Parts
  <2>2. [req[r] EXCEPT !.body[req[r].pc] = v, !.pc = After(@),
                       !.left = IF At(r, "guide") THEN Watched ELSE {}] \in Request
    BY <1>6, <1>t, <2>1 DEF Request, Bodies
  <2> QED
    BY <1>6, <1>b, <2>2 DEF Put
<1>7. ASSUME NEW r \in Reqs, ReadPart(r) PROVE LiveTypeOK'
  <2>1. req[r].pc \in Parts /\ Disk[Source(req[r].pc)] \in Nat
    BY <1>7, <1>t, PartsAndFiles DEF ReadPart, Parts, Vector
  <2> QED
    BY <1>6, <1>7, <1>t, <2>1 DEF ReadPart, caches, LiveTypeOK
<1>8. ASSUME NEW r \in Reqs, Share(r) PROVE LiveTypeOK'
  <2>1. After(req[r].pc) \in RequestPhases
    BY <1>8 DEF Share, At, After, RequestPhases
  <2>2. [req[r] EXCEPT !.pc = After(@)] \in Request
    BY <1>8, <1>t, <2>1 DEF Request
  <2>3. [shared EXCEPT !.state = req[r].body.fold] \in [state : Nat, stamp : Nat]
    BY <1>t DEF Request, Bodies, Parts
  <2> QED
    BY <1>8, <1>b, <1>t, <2>2, <2>3 DEF Share, LiveTypeOK
<1>9. ASSUME NEW r \in Reqs, Plan(r) PROVE LiveTypeOK'
  <2> DEFINE stale == shared.stamp # Gone /\ shared.stamp # Disk["ledger"]
             state == IF stale \/ shared.state = Gone THEN Disk["ledger"] ELSE shared.state
  <2>1. state \in Nat /\ Disk["ledger"] \in Nat /\ req[r].pc \in Parts
    BY <1>9, <1>t DEF Plan, At, Parts, Vector, Watched
  <2>2. shared' = [state |-> state, stamp |-> Disk["ledger"]] /\ Put(r, state)
    BY <1>9 DEF Plan
  <2>3. req' \in [Reqs -> Request]
    BY <1>6, <2>1, <2>2
  <2> QED
    BY <1>9, <1>t, <2>1, <2>2, <2>3 DEF Plan, LiveTypeOK
<1>10. ASSUME NEW r \in Reqs, NEW answer \in Cache, Settle(r, answer)
       PROVE  req' \in [Reqs -> Request] /\ pending' \in Reqs \cup {NoReq}
  <2>1. \A q \in Reqs : Answered(req[q], answer) \in Request
    BY <1>t, PartsAndFiles DEF Answered, Request, Idle, RequestPhases
  <2> QED
    BY <1>10, <1>t, <2>1, PartsAndFiles DEF Settle
<1>11. ASSUME NEW r \in Reqs, Fail(r) PROVE LiveTypeOK'
  BY <1>10, <1>11, <1>t, PartsAndFiles DEF Fail, Settle, LiveTypeOK
<1>12. ASSUME NEW r \in Reqs, EndStamp(r) PROVE LiveTypeOK'
  <2>1. [req[r] EXCEPT !.pc = "endPrint", !.left = Watched] \in Request
    BY <1>f, <1>p, <1>t DEF Request
  <2> QED
    BY <1>12, <1>b, <1>t, <2>1 DEF EndStamp, caches, LiveTypeOK
<1>13. ASSUME NEW r \in Reqs, Complete(r) PROVE LiveTypeOK'
  <2>1. CASE req[r].print = req[r].expected
    <3>1. current' = [held |-> TRUE, stamp |-> req[r].stamp, print |-> req[r].print,
                      body |-> req[r].body, crossed |-> req[r].crossed] /\ Settle(r, current')
      BY <1>13, <2>1 DEF Complete
    <3>2. current' \in Cache
      BY <1>t, <3>1 DEF Request, Cache
    <3> QED
      BY <1>10, <1>t, <3>1, <3>2 DEF Settle, LiveTypeOK
  <2>2. CASE req[r].print # req[r].expected /\ req[r].attempt >= LIVE_VIEW_MODEL_REFRESH_RETRY_LIMIT
    <3>1. Settle(r, NoCache) /\ UNCHANGED current
      BY <1>13, <2>2 DEF Complete
    <3> QED
      BY <1>10, <1>t, <3>1, PartsAndFiles DEF Settle, LiveTypeOK
  <2>3. CASE req[r].print # req[r].expected /\ ~(req[r].attempt >= LIVE_VIEW_MODEL_REFRESH_RETRY_LIMIT)
    <3>1. [req[r] EXCEPT !.pc = "fold", !.attempt = @ + 1, !.expected = req[r].print,
                         !.stamp = Unread, !.print = Unread, !.body = Blank] \in Request
      <4>1. req[r] \in Request /\ req[r].attempt + 1 \in Nat /\ req[r].print \in Vector
        BY <1>t DEF Request
      <4> QED
        BY <4>1, <1>p, PartsAndFiles DEF Request
    <3> QED
      BY <1>13, <1>b, <1>t, <2>3, <3>1 DEF Complete, caches, LiveTypeOK
  <2> QED
    BY <2>1, <2>2, <2>3
<1>14. ASSUME NEW r \in Reqs, Leave(r) PROVE LiveTypeOK'
  BY <1>14, <1>b, <1>t, PartsAndFiles DEF Leave, caches, LiveTypeOK
<1>15. CASE Rewrite
  <2>1. Len(history) + 1 \in Nat
    BY <1>t
  <2> QED
    BY <1>1, <1>15, <2>1 DEF Rewrite
<1>16. CASE Drop
  BY <1>1, <1>16 DEF Drop, Gone, Watched
<1>17. CASE UNCHANGED liveVars
  BY <1>17, <1>t DEF liveVars, LiveTypeOK
<1> QED
  BY <1>2, <1>3, <1>4, <1>5, <1>7, <1>8, <1>9, <1>11, <1>12, <1>13, <1>14, <1>15, <1>16, <1>17
     DEF LiveNext, Serve

-----------------------------------------------------------------------------
(* Histories grow.                                                         *)

Grown(h, g) == /\ Len(h) \in Nat /\ Len(g) \in Nat /\ Len(h) <= Len(g)
               /\ \A k \in 1..Len(h) : g[k] = h[k]

LEMMA SeenLater ==
  ASSUME NEW h, NEW g, Grown(h, g), NEW f, NEW v, NEW a \in Nat \ {0}, NEW b \in Nat, NEW c \in Nat,
         b <= Len(h), b <= c, Seen(h, f, v, a, b)
  PROVE  Seen(g, f, v, a, c)
<1>1. PICK k \in a..b : h[k][f] = v
  BY DEF Seen
<1>2. k \in a..c /\ k \in 1..Len(h)
  BY DEF Grown
<1>3. g[k][f] = v
  BY <1>1, <1>2 DEF Grown
<1> QED
  BY <1>2, <1>3 DEF Seen

LEMMA CacheLater ==
  ASSUME NEW h, NEW g, Grown(h, g), NEW c, NEW b \in Nat, NEW d \in Nat,
         b <= Len(h), b <= d, CacheInv(h, c, b)
  PROVE  CacheInv(g, c, d)
<1>1. \A f \in Watched : c.print[f] # Gone => Seen(g, f, c.print[f], 1, d)
  BY SeenLater DEF CacheInv
<1> QED
  BY <1>1 DEF CacheInv

LEMMA StatLater ==
  ASSUME NEW h, NEW g, Grown(h, g), NEW q, StatInv(h, q)
  PROVE  StatInv(g, q)
<1>1. q.pc # "idle" => q.since \in 1..Len(g)
  BY DEF StatInv, Grown
<1>2. q.valid => q.since \in 1..Len(g) /\ CacheInv(g, q.cached, q.since)
  BY CacheLater DEF StatInv, Grown
<1>3. ASSUME q.pc # "idle", NEW f, NEW v, Seen(h, f, v, q.since, Len(h)) PROVE Seen(g, f, v, q.since, Len(g))
  <2>1. q.since \in Nat \ {0}
    BY <1>3 DEF StatInv, Grown
  <2> QED
    BY <1>3, <2>1, SeenLater DEF Grown
<1>4. q.pc = "stamp" => \A f \in Watched \ q.left : Seen(g, f, q.stamp[f], q.since, Len(g))
  BY <1>3 DEF StatInv
<1>5. q.pc = "print" => \A f \in Watched \ q.left :
        q.print[f] # Gone => Seen(g, f, q.print[f], q.since, Len(g))
  BY <1>3 DEF StatInv
<1> QED
  BY <1>1, <1>2, <1>4, <1>5 DEF StatInv

LEMMA DoneLater ==
  ASSUME NEW h, NEW g, Grown(h, g), NEW q, q.pc = "done" => q.since \in 1..Len(h), DoneInv(h, q)
  PROVE  DoneInv(g, q)
<1> SUFFICES ASSUME q.pc = "done"
             PROVE \E k \in q.since..Len(g) : \A f \in Watched :
                     q.answer.print[f] # Gone /\ q.first[f] # Gone
                       => Agrees(q.answer.body, q.answer.crossed, f, g[k][f])
  BY DEF DoneInv
<1>1. PICK k \in q.since..Len(h) : \A f \in Watched :
        q.answer.print[f] # Gone /\ q.first[f] # Gone
          => Agrees(q.answer.body, q.answer.crossed, f, h[k][f])
  BY DEF DoneInv
<1>2. k \in 1..Len(h) /\ k \in q.since..Len(g)
  BY DEF Grown
<1>3. g[k] = h[k]
  BY <1>2 DEF Grown
<1> QED
  BY <1>1, <1>2, <1>3

LEMMA AttemptLater ==
  ASSUME NEW h, NEW g, Grown(h, g), NEW q, NEW t \in 1..Len(h), Attempt(h, q, t)
  PROVE  Attempt(g, q, t)
<1>1. t \in Nat \ {0} /\ t <= Len(h) /\ g[t] = h[t]
  BY DEF Grown
<1>2. ASSUME NEW f, NEW v, Seen(h, f, v, t, Len(h)) PROVE Seen(g, f, v, t, Len(g))
  BY <1>1, <1>2, SeenLater DEF Grown
<1>3. BeganBy(g, q, t)
  <2>1. ASSUME NEW f \in Watched, q.expected[f] # Gone PROVE Seen(g, f, q.expected[f], 1, t)
    BY <1>1, <2>1, SeenLater DEF Attempt, BeganBy
  <2>2. ASSUME NEW f \in Watched, q.first[f] # Gone
        PROVE \E k \in 1..t : \E l \in k..t : g[k][f] = q.first[f] /\ g[l][f] = q.expected[f]
    <3>1. PICK k \in 1..t : \E l \in k..t : h[k][f] = q.first[f] /\ h[l][f] = q.expected[f]
      BY <2>2 DEF Attempt, BeganBy
    <3>2. PICK l \in k..t : h[k][f] = q.first[f] /\ h[l][f] = q.expected[f]
      BY <3>1
    <3>3. g[k] = h[k] /\ g[l] = h[l]
      BY <1>1 DEF Grown
    <3> QED
      BY <3>2, <3>3
  <2> QED
    BY <2>1, <2>2 DEF BeganBy
<1>4. ReadSince(g, q, t)
  BY <1>2 DEF Attempt, ReadSince
<1>5. Matched(g, q, t)
  BY <1>1, <1>2 DEF Attempt, Matched
<1> QED
  BY <1>3, <1>4, <1>5 DEF Attempt

LEMMA JoinedLater ==
  ASSUME NEW h, NEW g, Grown(h, g), NEW j, NEW q, NEW t, j.since \in 1..Len(h), Joined(h, j, q, t)
  PROVE  Joined(g, j, q, t)
BY DEF Joined, Grown

LEMMA Still ==
  ASSUME NEW h, Len(h) \in Nat, HistInv(h), NEW f \in Watched,
         NEW i \in 1..Len(h), NEW j \in i..Len(h), NEW k \in j..Len(h),
         h[i][f] = h[k][f], h[i][f] # Gone
  PROVE  h[j][f] = h[i][f]
<1>1. k \in i..Len(h) /\ j \in i..k
  OBVIOUS
<1> QED
  BY <1>1 DEF HistInv

LEMMA Appended ==
  ASSUME NEW h \in Seq(Vector), Len(h) >= 1, HistInv(h), NEW n, n = Len(h),
         NEW f \in Watched, NEW v \in {Gone, n + 1}, NEW g, g = Append(h, [h[Len(h)] EXCEPT ![f] = v])
  PROVE  HistInv(g) /\ Grown(h, g)
<1>1. n \in Nat \ {0} /\ h[n] \in Vector /\ v \in {Gone, n + 1}
  OBVIOUS
<1>2. Len(g) = n + 1 /\ (\A k \in 1..n : g[k] = h[k]) /\ g[n + 1] = [h[n] EXCEPT ![f] = v]
  OBVIOUS
<1>3. Grown(h, g)
  BY <1>1, <1>2 DEF Grown
<1>4. \A e \in Watched : g[n + 1][e] = IF e = f THEN v ELSE h[n][e]
  BY <1>1, <1>2 DEF Vector
<1>5. \A e \in Watched : \A k \in 1..n : h[k][e] \in Nat /\ h[k][e] <= k
  <2>1. \A k \in 1..n : h[k] \in Vector
    OBVIOUS
  <2> QED
    BY <2>1 DEF HistInv, Vector
<1>6. ASSUME NEW e \in Watched, NEW k \in 1..n + 1 PROVE g[k][e] <= k
  <2>1. CASE k \in 1..n
    BY <1>2, <1>5, <2>1
  <2>2. CASE k = n + 1
    <3>1. h[n][e] \in Nat /\ h[n][e] <= n
      BY <1>1, <1>5
    <3> QED
      BY <1>1, <1>4, <2>2, <3>1 DEF Gone
  <2> QED
    BY <1>1, <2>1, <2>2
<1>7. ASSUME NEW e \in Watched, NEW i \in 1..n + 1, NEW k \in i..n + 1, NEW j \in i..k,
             g[i][e] = g[k][e], g[i][e] # Gone
      PROVE  g[j][e] = g[i][e]
  <2>1. CASE k \in 1..n
    <3>1. i \in 1..n /\ j \in i..n /\ k \in j..n /\ j \in 1..n
      BY <1>1, <2>1
    <3> QED
      BY <1>1, <1>2, <1>7, <2>1, <3>1, Still
  <2>2. CASE k = n + 1 /\ i = n + 1
    BY <1>1, <2>2
  <2>3. CASE k = n + 1 /\ i \in 1..n
    <3>1. e # f
      <4>1. h[i][e] \in Nat /\ h[i][e] <= n
        BY <1>1, <1>5, <2>3
      <4> QED
        BY <1>1, <1>2, <1>4, <1>7, <2>3, <4>1
    <3>2. g[n + 1][e] = h[n][e] /\ h[i][e] = h[n][e] /\ h[i][e] # Gone
      BY <1>2, <1>4, <1>7, <2>3, <3>1
    <3>3. CASE j = n + 1
      BY <1>2, <1>7, <2>3, <3>3
    <3>4. CASE j \in 1..n
      <4>1. j \in i..n /\ n \in j..n
        BY <1>1, <2>3, <3>4
      <4> QED
        BY <1>1, <1>2, <2>3, <3>2, <3>4, <4>1, Still
    <3> QED
      BY <1>1, <2>3, <3>3, <3>4
  <2> QED
    BY <1>1, <2>1, <2>2, <2>3
<1>8. HistInv(g)
  BY <1>2, <1>6, <1>7 DEF HistInv
<1> QED
  BY <1>3, <1>8

LEMMA ChangeStep ==
  ASSUME LiveIInv, LiveTypeOK', NEW f \in Watched, NEW v, v = Gone \/ v = Now + 1, Change(f, v)
  PROVE  LiveIInv'
<1>1. HistInv(history') /\ Grown(history, history')
  BY Appended DEF LiveIInv, LiveTypeOK, Change, Disk, Now
<1>2. UNCHANGED <<req, current, pending, shared>>
  BY DEF Change, caches
<1>3. current.held => CacheInv(history', current, Now')
  <2>1. Now \in Nat /\ Now' \in Nat /\ Now <= Now'
    BY <1>1 DEF Grown, Now
  <2> QED
    BY <1>1, <2>1, CacheLater DEF LiveIInv, Now
<1>4. \A r \in Reqs : StatInv(history', req[r]) /\ DoneInv(history', req[r])
  <2>1. \A r \in Reqs : req[r].pc # "idle" => req[r].since \in 1..Len(history)
    BY DEF LiveIInv, StatInv
  <2> QED
    BY <1>1, <2>1, StatLater, DoneLater DEF LiveIInv
<1>5. ASSUME NEW r \in Reqs, Refreshing(r) PROVE
        \E t \in req[r].since..Now' :
          /\ Attempt(history', req[r], t)
          /\ \A j \in Reqs : WaitsFor(j, r) => Joined(history', req[j], req[r], t)
  <2>1. PICK t \in req[r].since..Now :
          /\ Attempt(history, req[r], t)
          /\ \A j \in Reqs : WaitsFor(j, r) => Joined(history, req[j], req[r], t)
    BY <1>5 DEF LiveIInv, RefreshInv
  <2>2. req[r].since \in 1..Now
    BY <1>5 DEF LiveIInv, StatInv, Refreshing, Now
  <2>3. t \in 1..Len(history) /\ t \in req[r].since..Now'
    BY <1>1, <2>2 DEF Now, Grown
  <2>4. Attempt(history', req[r], t)
    BY <1>1, <2>1, <2>3, AttemptLater
  <2>5. ASSUME NEW j \in Reqs, WaitsFor(j, r) PROVE Joined(history', req[j], req[r], t)
    <3>1. req[j].since \in 1..Len(history)
      BY <2>5 DEF WaitsFor, At, LiveIInv, StatInv
    <3> QED
      BY <1>1, <2>1, <2>5, <3>1, JoinedLater
  <2> QED
    BY <2>3, <2>4, <2>5
<1>6. \A r \in Reqs : RefreshInv(r)' /\ ShareInv(r)'
  BY <1>2, <1>5 DEF LiveIInv, RefreshInv, ShareInv, WaitsFor, At, Refreshing
<1>7. MeetInv'
  BY <1>2 DEF LiveIInv, MeetInv, At, Refreshing
<1> QED
  BY <1>1, <1>2, <1>3, <1>4, <1>6, <1>7 DEF LiveIInv

-----------------------------------------------------------------------------
(* One request moves: what the others keep.                                *)

RefreshPhases == {"fold", "state", "share", "packet", "plan", "guide", "endStamp", "endPrint"}

LEMMA Became ==
  ASSUME LiveTypeOK, NEW r \in Reqs, NEW q \in Request, Becomes(r, q)
  PROVE  req'[r] = q /\ \A p \in Reqs \ {r} : req'[p] = req[p]
BY DEF LiveTypeOK, Becomes

\* r stays out of a refresh, or goes on with its own.
LEMMA Frame ==
  ASSUME LiveIInv, LiveTypeOK', NEW r \in Reqs, NEW q \in Request, Becomes(r, q), UNCHANGED <<history, pending>>,
         ~At(r, "wait"), q.pc # "wait", q.pc \in RefreshPhases <=> Refreshing(r),
         Refreshing(r) => q.crossed = req[r].crossed,
         StatInv(history, q), DoneInv(history, q),
         Refreshing(r) => \E t \in q.since..Now :
           /\ Attempt(history, q, t)
           /\ \A j \in Reqs : WaitsFor(j, r) => Joined(history, req[j], q, t),
         current'.held => CacheInv(history, current', Now),
         UNCHANGED shared \/ Refreshing(r),
         q.pc \in {"packet", "plan"} => q.crossed \/ shared'.state = q.body["fold"]
  PROVE  LiveIInv'
<1>1. req'[r] = q /\ \A p \in Reqs \ {r} : req'[p] = req[p]
  BY Became DEF LiveIInv
<1>2. \A p \in Reqs : Refreshing(p)' <=> Refreshing(p)
  BY <1>1 DEF Refreshing, RefreshPhases
<1>3. \A j \in Reqs : At(j, "wait")' => j # r /\ At(j, "wait") /\ req'[j] = req[j]
  BY <1>1 DEF At
<1>4. HistInv(history') /\ (current'.held => CacheInv(history', current', Now'))
  BY DEF LiveIInv, Now
<1>5. \A p \in Reqs : StatInv(history', req'[p]) /\ DoneInv(history', req'[p])
  BY <1>1 DEF LiveIInv
<1>6. MeetInv'
  <2>1. pending' # NoReq => Refreshing(pending)'
    <3>1. pending \in Reqs \cup {NoReq}
      BY DEF LiveIInv, LiveTypeOK
    <3> QED
      BY <1>2, <3>1 DEF LiveIInv, MeetInv
  <2>2. \A j \in Reqs : (At(j, "wait") => req[j].of \in Reqs /\ Refreshing(req[j].of))'
    <3> SUFFICES ASSUME NEW j \in Reqs, At(j, "wait")'
                 PROVE  (req[j].of \in Reqs)' /\ Refreshing(req[j].of)'
      OBVIOUS
    <3>1. At(j, "wait") /\ req'[j] = req[j]
      BY <1>3
    <3>2. req[j].of \in Reqs /\ Refreshing(req[j].of)
      BY <3>1 DEF LiveIInv, MeetInv
    <3>3. req'[req'[j].of].pc \in RefreshPhases
      BY <1>2, <3>1, <3>2 DEF Refreshing, RefreshPhases
    <3> QED
      BY <3>1, <3>2, <3>3 DEF Refreshing, RefreshPhases
  <2>3. \A p, s \in Reqs : p # s /\ Refreshing(p)' /\ Refreshing(s)' => req'[p].crossed
    BY <1>1, <1>2 DEF LiveIInv, MeetInv
  <2> QED
    BY <2>1, <2>2, <2>3 DEF MeetInv
<1>7. ASSUME NEW p \in Reqs PROVE RefreshInv(p)'
  <2>1. \A j \in Reqs : WaitsFor(j, p)' => WaitsFor(j, p) /\ req'[j] = req[j]
    BY <1>3 DEF WaitsFor, At
  <2> SUFFICES ASSUME Refreshing(p)
               PROVE  \E t \in req'[p].since..Now :
                        /\ Attempt(history, req'[p], t)
                        /\ \A j \in Reqs : WaitsFor(j, p)' => Joined(history, req'[j], req'[p], t)
    BY <1>2 DEF RefreshInv, Now
  <2>2. CASE p = r
    BY <1>1, <2>1, <2>2
  <2>3. CASE p # r
    <3>1. \E t \in req[p].since..Now :
            /\ Attempt(history, req[p], t)
            /\ \A j \in Reqs : WaitsFor(j, p) => Joined(history, req[j], req[p], t)
      BY DEF LiveIInv, RefreshInv
    <3> QED
      BY <1>1, <2>1, <2>3, <3>1
  <2> QED
    BY <2>2, <2>3
<1>8. ASSUME NEW p \in Reqs PROVE ShareInv(p)'
  <2>1. CASE p = r
    BY <1>1, <2>1 DEF ShareInv, At
  <2>2. CASE p # r /\ UNCHANGED shared
    BY <1>1, <2>2 DEF LiveIInv, ShareInv, At
  <2>3. CASE p # r /\ Refreshing(r)
    BY <1>1, <2>3 DEF LiveIInv, MeetInv, ShareInv, At, Refreshing
  <2> QED
    BY <2>1, <2>2, <2>3
<1> QED
  BY <1>4, <1>5, <1>6, <1>7, <1>8 DEF LiveIInv

LEMMA ArriveStep == ASSUME LiveIInv, LiveTypeOK', NEW r \in Reqs, Arrive(r) PROVE LiveIInv'
<1>1. PICK valid \in {FALSE, current.held} :
        Becomes(r, [Idle EXCEPT !.pc = "stamp", !.since = Len(history), !.cached = current,
                                !.valid = valid, !.left = Watched])
  BY DEF Arrive
<1> DEFINE q == [Idle EXCEPT !.pc = "stamp", !.since = Len(history), !.cached = current,
                             !.valid = valid, !.left = Watched]
<1>2. /\ q.pc = "stamp" /\ q.since = Len(history) /\ q.cached = current /\ q.valid = valid
      /\ q.left = Watched
  BY DEF Idle
<1>3. q \in Request
  BY <1>1 DEF Becomes, LiveTypeOK, LiveIInv
<1>4. Len(history) \in Nat \ {0}
  BY DEF LiveIInv, LiveTypeOK
<1>6. ~At(r, "wait") /\ ~Refreshing(r) /\ q.pc \notin RefreshPhases
  BY <1>2 DEF Arrive, At, Refreshing, RefreshPhases
<1> HIDE DEF q
<1>5. StatInv(history, q) /\ DoneInv(history, q)
  <2>1. q.valid => CacheInv(history, current, Len(history))
    BY <1>1, <1>2 DEF LiveIInv, Now
  <2> QED
    BY <1>2, <1>4, <2>1 DEF StatInv, DoneInv
<1> QED
  BY <1>1, <1>2, <1>3, <1>5, <1>6, Frame DEF Arrive, caches, LiveIInv, Now, q

LEMMA LeaveStep == ASSUME LiveIInv, LiveTypeOK', NEW r \in Reqs, Leave(r) PROVE LiveIInv'
<1>1. Idle.pc = "idle" /\ Idle.valid = FALSE
  BY DEF Idle
<1>2. StatInv(history, Idle) /\ DoneInv(history, Idle)
  BY <1>1 DEF StatInv, DoneInv
<1>3. ~At(r, "wait") /\ ~Refreshing(r) /\ Idle.pc \notin RefreshPhases
  BY <1>1 DEF Leave, At, Refreshing, RefreshPhases
<1> QED
  BY <1>1, <1>2, <1>3, Frame, PartsAndFiles DEF Leave, caches, LiveIInv, Now

-----------------------------------------------------------------------------
(* A request looks at the session.                                         *)

\* What the disk holds now was seen now, and since any time.
LEMMA SeenNow ==
  ASSUME LiveTypeOK
  PROVE  \A f \in Watched : \A a \in 1..Now : Seen(history, f, Disk[f], a, Now)
<1>1. Now \in Nat \ {0}
  BY DEF LiveTypeOK, Now
<1> QED
  BY <1>1 DEF Seen, Disk, Now

\* A version that was there before t and is there after t was there at t, and
\* nothing else is seen after t.
LEMMA Stood ==
  ASSUME LiveTypeOK, HistInv(history), NEW f \in Watched, NEW v, v # Gone, NEW t \in 1..Now,
         Seen(history, f, v, 1, t), history[Now][f] = v
  PROVE  history[t][f] = v /\ \A w : Seen(history, f, w, t, Now) => w = v
<1>1. Len(history) \in Nat /\ t \in Nat /\ t <= Len(history) /\ t >= 1
  BY DEF LiveTypeOK, Now
<1>2. PICK k \in 1..t : history[k][f] = v
  BY DEF Seen
<1>3. \A m \in k..Len(history) : history[m][f] = v
  <2> TAKE m \in k..Len(history)
  <2>1. k \in 1..Len(history) /\ Len(history) \in m..Len(history)
    BY <1>1
  <2> QED
    BY <1>1, <1>2, <2>1, Still DEF Now
<1>4. \A m \in t..Len(history) : m \in k..Len(history)
  BY <1>1
<1> QED
  BY <1>1, <1>3, <1>4 DEF Seen, Now

LEMMA StampStep ==
  ASSUME LiveTypeOK, NEW r \in Reqs, StatInv(history, req[r]), NEW f \in req[r].left,
         req[r].pc \in {"stamp", "endStamp"},
         NEW q \in Request, q = [req[r] EXCEPT !.stamp[f] = Disk[f], !.left = @ \ {f}]
  PROVE  /\ StatInv(history, q)
         /\ \A t \in 1..Now : At(r, "endStamp") /\ Attempt(history, req[r], t) => Attempt(history, q, t)
<1>1. req[r] \in Request /\ f \in Watched
  BY DEF LiveTypeOK, Request
<1>2. /\ q.pc = req[r].pc /\ q.since = req[r].since /\ q.valid = req[r].valid /\ q.cached = req[r].cached
      /\ q.print = req[r].print /\ q.body = req[r].body /\ q.crossed = req[r].crossed
      /\ q.first = req[r].first /\ q.expected = req[r].expected
      /\ q.left = req[r].left \ {f}
  BY <1>1 DEF Request
<1>3. q.stamp = [req[r].stamp EXCEPT ![f] = Disk[f]]
  BY <1>1 DEF Request
<1>4. q.stamp[f] = Disk[f] /\ \A e \in Watched \ {f} : q.stamp[e] = req[r].stamp[e]
  BY <1>1, <1>3 DEF Request, Vector
<1>5. StatInv(history, q)
  <2>1. q.pc # "idle" => q.since \in 1..Now
    BY <1>2 DEF StatInv, Now
  <2> QED
    BY <1>2, <1>4, <2>1, SeenNow DEF StatInv, Now
<1>6. ASSUME NEW t \in 1..Now, At(r, "endStamp"), Attempt(history, req[r], t) PROVE Attempt(history, q, t)
  <2>1. BeganBy(history, q, t) /\ Matched(history, q, t)
    BY <1>2, <1>6 DEF Attempt, BeganBy, Matched, At
  <2>2. ReadSince(history, q, t)
    BY <1>2, <1>4, <1>6, SeenNow DEF Attempt, ReadSince, At, Now
  <2> QED
    BY <2>1, <2>2 DEF Attempt
<1> QED
  BY <1>5, <1>6

LEMMA PrintStep ==
  ASSUME LiveTypeOK, HistInv(history), NEW r \in Reqs, StatInv(history, req[r]), NEW f \in req[r].left,
         req[r].pc \in {"print", "endPrint"},
         NEW q \in Request, q = [req[r] EXCEPT !.print[f] = Disk[f], !.left = @ \ {f}]
  PROVE  /\ StatInv(history, q)
         /\ \A t \in 1..Now : At(r, "endPrint") /\ Attempt(history, req[r], t) => Attempt(history, q, t)
<1>1. req[r] \in Request /\ f \in Watched
  BY DEF LiveTypeOK, Request
<1>2. /\ q.pc = req[r].pc /\ q.since = req[r].since /\ q.valid = req[r].valid /\ q.cached = req[r].cached
      /\ q.stamp = req[r].stamp /\ q.body = req[r].body /\ q.crossed = req[r].crossed
      /\ q.first = req[r].first /\ q.expected = req[r].expected
      /\ q.left = req[r].left \ {f}
  BY <1>1 DEF Request
<1>3. q.print = [req[r].print EXCEPT ![f] = Disk[f]]
  BY <1>1 DEF Request
<1>4. q.print[f] = Disk[f] /\ \A e \in Watched \ {f} : q.print[e] = req[r].print[e]
  BY <1>1, <1>3 DEF Request, Vector
<1>5. StatInv(history, q)
  <2>1. q.pc # "idle" => q.since \in 1..Now
    BY <1>2 DEF StatInv, Now
  <2> QED
    BY <1>2, <1>4, <2>1, SeenNow DEF StatInv, Now
<1>6. ASSUME NEW t \in 1..Now, At(r, "endPrint"), Attempt(history, req[r], t) PROVE Attempt(history, q, t)
  <2>1. BeganBy(history, q, t) /\ ReadSince(history, q, t)
    BY <1>2, <1>6 DEF Attempt, BeganBy, ReadSince, At
  <2>2. Seen(history, f, q.print[f], t, Now)
    BY <1>1, <1>4, SeenNow
  <2>3. ASSUME q.print[f] = q.expected[f], q.print[f] # Gone
        PROVE  /\ history[t][f] = q.print[f] /\ q.stamp[f] = q.print[f]
               /\ Agrees(q.body, q.crossed, f, q.print[f])
    <3>1. Seen(history, f, q.print[f], 1, t) /\ history[Now][f] = q.print[f]
      BY <1>1, <1>4, <2>1, <2>3 DEF BeganBy, Disk, Now
    <3>2. history[t][f] = q.print[f] /\ \A w : Seen(history, f, w, t, Now) => w = q.print[f]
      BY <1>1, <2>3, <3>1, Stood
    <3>3. q.stamp[f] = q.print[f]
      BY <1>1, <1>2, <1>6, <2>1, <3>2 DEF ReadSince, At, Now
    <3>4. \A part \in Parts : "endPrint" \in ReadIn(part)
      BY DEF Parts, ReadIn
    <3>5. Agrees(q.body, q.crossed, f, q.print[f])
      BY <1>2, <1>6, <2>1, <3>2, <3>4 DEF Agrees, ReadSince, At, Now
    <3> QED
      BY <3>2, <3>3, <3>5
  <2>4. Matched(history, q, t)
    <3>1. \A e \in (Watched \ q.left) \ {f} : e \in Watched \ req[r].left /\ q.print[e] = req[r].print[e]
      BY <1>2, <1>4
    <3> QED
      BY <1>1, <1>2, <1>6, <2>2, <2>3, <3>1 DEF Attempt, Matched, At, Now
  <2> QED
    BY <2>1, <2>4 DEF Attempt
<1> QED
  BY <1>5, <1>6

LEMMA StatStep == ASSUME LiveIInv, LiveTypeOK', NEW r \in Reqs, Stat(r) PROVE LiveIInv'
<1>1. PICK f, q :
        /\ f \in req[r].left /\ Becomes(r, q)
        /\ \/ /\ req[r].pc \in {"stamp", "endStamp"}
              /\ q = [req[r] EXCEPT !.stamp[f] = Disk[f], !.left = @ \ {f}]
           \/ /\ req[r].pc \in {"print", "endPrint"}
              /\ q = [req[r] EXCEPT !.print[f] = Disk[f], !.left = @ \ {f}]
  BY DEF Stat
<1>2. q \in Request /\ req[r] \in Request
  BY <1>1 DEF Becomes, LiveTypeOK, LiveIInv
<1>3. /\ q.pc = req[r].pc /\ q.since = req[r].since /\ q.crossed = req[r].crossed
      /\ q.expected = req[r].expected
  BY <1>1, <1>2 DEF Request
<1>4. /\ StatInv(history, q)
      /\ \A t \in 1..Now : Refreshing(r) /\ Attempt(history, req[r], t) => Attempt(history, q, t)
  BY <1>1, <1>2, StampStep, PrintStep DEF LiveIInv, Refreshing, At
<1>5. Refreshing(r) => \E t \in q.since..Now :
        /\ Attempt(history, q, t)
        /\ \A j \in Reqs : WaitsFor(j, r) => Joined(history, req[j], q, t)
  <2>1. req[r].pc # "idle" /\ req[r].since \in 1..Now
    BY <1>1 DEF LiveIInv, StatInv, Now
  <2> SUFFICES ASSUME Refreshing(r), NEW t \in req[r].since..Now, Attempt(history, req[r], t),
                      \A j \in Reqs : WaitsFor(j, r) => Joined(history, req[j], req[r], t)
               PROVE  /\ Attempt(history, q, t)
                      /\ \A j \in Reqs : WaitsFor(j, r) => Joined(history, req[j], q, t)
    BY <1>3 DEF LiveIInv, RefreshInv
  <2>2. t \in 1..Now
    BY <2>1
  <2> QED
    BY <1>3, <1>4, <2>2 DEF Joined
<1>6. DoneInv(history, q) /\ q.pc \notin {"wait", "packet", "plan"} /\ ~At(r, "wait")
  BY <1>1, <1>3 DEF DoneInv, At
<1>7. q.pc \in RefreshPhases <=> Refreshing(r)
  BY <1>3 DEF RefreshPhases, Refreshing
<1> QED
  BY <1>1, <1>2, <1>3, <1>4, <1>5, <1>6, <1>7, Frame DEF Stat, caches, LiveIInv, Now

LEMMA SnapshotStep == ASSUME LiveIInv, LiveTypeOK', NEW r \in Reqs, Snapshot(r) PROVE LiveIInv'
<1>1. PICK q : /\ Becomes(r, q)
               /\ IF req[r].valid /\ req[r].cached.stamp = req[r].stamp
                  THEN q = [req[r] EXCEPT !.pc = "print", !.print = req[r].cached.print, !.stamp = Unread]
                  ELSE q = [req[r] EXCEPT !.pc = "print", !.left = Watched, !.stamp = Unread]
  BY DEF Snapshot
<1>2. q \in Request /\ req[r] \in Request
  BY <1>1 DEF Becomes, LiveTypeOK, LiveIInv
<1>3. q.pc = "print" /\ q.since = req[r].since /\ q.valid = req[r].valid /\ q.cached = req[r].cached
  BY <1>1, <1>2 DEF Request
<1>4. req[r].pc = "stamp" /\ req[r].left = {} /\ StatInv(history, req[r])
  BY DEF Snapshot, Over, At, LiveIInv
<1>5. \A f \in Watched \ q.left : q.print[f] # Gone => Seen(history, f, q.print[f], q.since, Now)
  <2>1. CASE req[r].valid /\ req[r].cached.stamp = req[r].stamp
    <3>1. q.print = req[r].cached.print
      BY <1>1, <1>2, <2>1 DEF Request
    <3>2. \A f \in Watched : q.print[f] # Gone => req[r].stamp[f] = q.print[f]
      BY <1>4, <2>1, <3>1 DEF StatInv, CacheInv
    <3> QED
      BY <1>3, <1>4, <3>2 DEF StatInv, Now
  <2>2. CASE ~(req[r].valid /\ req[r].cached.stamp = req[r].stamp)
    BY <1>1, <1>2, <2>2 DEF Request
  <2> QED
    BY <2>1, <2>2
<1>6. StatInv(history, q) /\ DoneInv(history, q)
  BY <1>3, <1>4, <1>5 DEF StatInv, DoneInv, Now
<1>7. ~At(r, "wait") /\ ~Refreshing(r) /\ q.pc \notin RefreshPhases
  BY <1>3, <1>4 DEF At, Refreshing, RefreshPhases
<1> QED
  BY <1>1, <1>2, <1>3, <1>6, <1>7, Frame DEF Snapshot, caches, LiveIInv, Now

-----------------------------------------------------------------------------
(* A refresh reads its parts.                                              *)

\* The actor's own attempt goes on: what is left to show is the attempt.
LEMMA Onward ==
  ASSUME LiveIInv, LiveTypeOK', NEW r \in Reqs, Refreshing(r), NEW q \in Request, Becomes(r, q),
         UNCHANGED <<history, current, pending>>,
         q.pc \in RefreshPhases, q.since = req[r].since, q.crossed = req[r].crossed,
         q.valid = req[r].valid, q.cached = req[r].cached, q.expected = req[r].expected,
         \A t \in 1..Now : Attempt(history, req[r], t) => Attempt(history, q, t),
         q.pc \in {"packet", "plan"} => q.crossed \/ shared'.state = q.body["fold"]
  PROVE  LiveIInv'
<1>1. req[r].since \in 1..Now /\ req[r].pc # "idle" /\ ~At(r, "wait")
  BY DEF LiveIInv, StatInv, Refreshing, At, Now
<1>2. q.pc \notin {"idle", "stamp", "print", "wait", "done"}
  BY DEF RefreshPhases
<1>3. StatInv(history, q) /\ DoneInv(history, q)
  BY <1>1, <1>2 DEF LiveIInv, StatInv, DoneInv, Now
<1>4. \E t \in q.since..Now :
        /\ Attempt(history, q, t)
        /\ \A j \in Reqs : WaitsFor(j, r) => Joined(history, req[j], q, t)
  <2>1. PICK t \in req[r].since..Now :
          /\ Attempt(history, req[r], t)
          /\ \A j \in Reqs : WaitsFor(j, r) => Joined(history, req[j], req[r], t)
    BY DEF LiveIInv, RefreshInv
  <2>2. t \in 1..Now
    BY <1>1
  <2> QED
    BY <2>1, <2>2 DEF Joined
<1> QED
  BY <1>1, <1>2, <1>3, <1>4, Frame DEF LiveIInv, Now

LEMMA PutStep ==
  ASSUME LiveIInv, NEW r \in Reqs, req[r].pc \in Parts, NEW v,
         NEW t \in 1..Now,
         (req[r].pc = "plan" /\ req[r].crossed) \/ Seen(history, Source(req[r].pc), v, t, Now),
         Attempt(history, req[r], t), NEW q \in Request,
         q = [req[r] EXCEPT !.body[req[r].pc] = v, !.pc = After(@),
                            !.left = IF At(r, "guide") THEN Watched ELSE {}]
  PROVE  Attempt(history, q, t)
<1>1. req[r] \in Request
  BY DEF LiveIInv, LiveTypeOK
<1>2. /\ q.pc = After(req[r].pc) /\ q.first = req[r].first /\ q.expected = req[r].expected
      /\ q.crossed = req[r].crossed
      /\ q.left = IF req[r].pc = "guide" THEN Watched ELSE {}
  BY <1>1 DEF Request, At
<1>3. \A part \in Parts : q.body[part] = IF part = req[r].pc THEN v ELSE req[r].body[part]
  BY <1>1 DEF Request, Bodies
<1>4. q.pc # "endPrint" /\ (q.pc = "endStamp" => q.left = Watched)
  BY <1>2 DEF Parts, After
<1>5. \A part \in Parts : q.pc \in ReadIn(part) => part = req[r].pc \/ req[r].pc \in ReadIn(part)
  BY <1>2 DEF Parts, After, ReadIn
<1>6. \A part \in Parts : q.pc \in ReadIn(part) /\ (part = "plan" => ~q.crossed)
        => Seen(history, Source(part), q.body[part], t, Now)
  BY <1>2, <1>3, <1>5 DEF Attempt, ReadSince, Now
<1>7. ReadSince(history, q, t) /\ Matched(history, q, t)
  BY <1>4, <1>6 DEF ReadSince, Matched, Now
<1>8. BeganBy(history, q, t)
  BY <1>2 DEF Attempt, BeganBy
<1> QED
  BY <1>7, <1>8 DEF Attempt

LEMMA ReadPartStep == ASSUME LiveIInv, LiveTypeOK', NEW r \in Reqs, ReadPart(r) PROVE LiveIInv'
<1> DEFINE v == Disk[Source(req[r].pc)]
<1>1. PICK q : Becomes(r, q) /\ q = [req[r] EXCEPT !.body[req[r].pc] = v, !.pc = After(@),
                                                   !.left = IF At(r, "guide") THEN Watched ELSE {}]
  BY DEF ReadPart, Put
<1>2. q \in Request /\ req[r] \in Request
  BY <1>1 DEF Becomes, LiveTypeOK, LiveIInv
<1>3. /\ q.pc = After(req[r].pc) /\ q.since = req[r].since /\ q.valid = req[r].valid
      /\ q.cached = req[r].cached /\ q.expected = req[r].expected /\ q.crossed = req[r].crossed
  BY <1>1, <1>2 DEF Request
<1>4. req[r].pc \in {"fold", "state", "packet", "guide"} /\ req[r].pc \in Parts /\ Source(req[r].pc) \in Watched
  BY PartsAndFiles DEF ReadPart, Parts
<1>5. \A t \in 1..Now : Attempt(history, req[r], t) => Attempt(history, q, t)
  BY <1>1, <1>2, <1>4, SeenNow, PutStep DEF LiveIInv
<1>6. Refreshing(r) /\ q.pc \in RefreshPhases /\ q.pc # "packet"
  BY <1>3, <1>4 DEF Refreshing, RefreshPhases, After
<1>7. q.pc = "plan" => q.crossed \/ shared.state = q.body["fold"]
  <2> SUFFICES ASSUME q.pc = "plan" PROVE q.crossed \/ shared.state = q.body["fold"]
    OBVIOUS
  <2>1. req[r].pc = "packet"
    BY <1>3, <1>4 DEF After
  <2>2. q.body["fold"] = req[r].body["fold"]
    BY <1>1, <1>2, <2>1 DEF Request, Bodies, Parts
  <2> QED
    BY <1>3, <2>1, <2>2 DEF LiveIInv, ShareInv, At
<1> QED
  BY <1>1, <1>2, <1>3, <1>5, <1>6, <1>7, Onward DEF ReadPart, caches

LEMMA ShareStep == ASSUME LiveIInv, LiveTypeOK', NEW r \in Reqs, Share(r) PROVE LiveIInv'
<1>1. PICK q : Becomes(r, q) /\ q = [req[r] EXCEPT !.pc = After(@)]
  BY DEF Share
<1>2. q \in Request /\ req[r] \in Request
  BY <1>1 DEF Becomes, LiveTypeOK, LiveIInv
<1>3. req[r].pc = "share" /\ After("share") = "packet"
  BY DEF Share, At, After
<1>4. /\ q.pc = "packet" /\ q.since = req[r].since /\ q.valid = req[r].valid /\ q.left = req[r].left
      /\ q.cached = req[r].cached /\ q.expected = req[r].expected /\ q.crossed = req[r].crossed
      /\ q.body = req[r].body /\ q.first = req[r].first
  BY <1>1, <1>2, <1>3 DEF Request
<1>5. ASSUME NEW t \in 1..Now, Attempt(history, req[r], t) PROVE Attempt(history, q, t)
  <2>1. \A part \in Parts : "packet" \in ReadIn(part) => "share" \in ReadIn(part)
    BY DEF Parts, ReadIn
  <2>2. ReadSince(history, q, t) /\ Matched(history, q, t)
    BY <1>3, <1>4, <1>5, <2>1 DEF Attempt, ReadSince, Matched
  <2> QED
    BY <1>4, <1>5, <2>2 DEF Attempt, BeganBy
<1>6. Refreshing(r) /\ q.pc \in RefreshPhases
  BY <1>3, <1>4 DEF Refreshing, RefreshPhases
<1>7. shared'.state = q.body["fold"]
  BY <1>4 DEF Share, LiveIInv, LiveTypeOK
<1> QED
  BY <1>1, <1>2, <1>4, <1>5, <1>6, <1>7, Onward DEF Share

LEMMA PlanStep == ASSUME LiveIInv, LiveTypeOK', NEW r \in Reqs, Plan(r) PROVE LiveIInv'
<1> DEFINE stale == shared.stamp # Gone /\ shared.stamp # Disk["ledger"]
           v     == IF stale \/ shared.state = Gone THEN Disk["ledger"] ELSE shared.state
<1>1. PICK q : Becomes(r, q) /\ q = [req[r] EXCEPT !.body[req[r].pc] = v, !.pc = After(@),
                                                   !.left = IF At(r, "guide") THEN Watched ELSE {}]
  BY DEF Plan, Put
<1>2. q \in Request /\ req[r] \in Request
  BY <1>1 DEF Becomes, LiveTypeOK, LiveIInv
<1>3. req[r].pc = "plan" /\ "plan" \in Parts /\ Source("plan") = "ledger" /\ "ledger" \in Watched
  BY DEF Plan, At, Parts, Source, Watched
<1>4. /\ q.pc = "guide" /\ q.since = req[r].since /\ q.valid = req[r].valid
      /\ q.cached = req[r].cached /\ q.expected = req[r].expected /\ q.crossed = req[r].crossed
  BY <1>1, <1>2, <1>3 DEF Request, After
<1>5. ASSUME NEW t \in 1..Now, Attempt(history, req[r], t) PROVE Attempt(history, q, t)
  <2>1. req[r].crossed \/ Seen(history, "ledger", v, t, Now)
    <3>1. CASE v = Disk["ledger"]
      BY <1>3, <3>1, SeenNow DEF LiveIInv
    <3>2. CASE v # Disk["ledger"] /\ ~req[r].crossed
      <4>1. v = req[r].body["fold"]
        BY <1>3, <3>2 DEF LiveIInv, ShareInv, At
      <4>2. "fold" \in Parts /\ Source("fold") = "ledger" /\ "plan" \in ReadIn("fold")
        BY DEF Parts, Source, ReadIn
      <4> QED
        BY <1>3, <1>5, <4>1, <4>2 DEF Attempt, ReadSince, Now
    <3> QED
      BY <3>1, <3>2
  <2> HIDE DEF v
  <2> QED
    BY <1>1, <1>2, <1>3, <1>5, <2>1, PutStep
<1>6. Refreshing(r) /\ q.pc \in RefreshPhases
  BY <1>3, <1>4 DEF Refreshing, RefreshPhases
<1> QED
  BY <1>1, <1>2, <1>4, <1>5, <1>6, Onward DEF Plan

LEMMA EndStampStep == ASSUME LiveIInv, LiveTypeOK', NEW r \in Reqs, EndStamp(r) PROVE LiveIInv'
<1>1. PICK q : Becomes(r, q) /\ q = [req[r] EXCEPT !.pc = "endPrint", !.left = Watched]
  BY DEF EndStamp
<1>2. q \in Request /\ req[r] \in Request
  BY <1>1 DEF Becomes, LiveTypeOK, LiveIInv
<1>3. /\ q.pc = "endPrint" /\ q.since = req[r].since /\ q.valid = req[r].valid /\ q.left = Watched
      /\ q.cached = req[r].cached /\ q.expected = req[r].expected /\ q.crossed = req[r].crossed
      /\ q.body = req[r].body /\ q.first = req[r].first /\ q.stamp = req[r].stamp
  BY <1>1, <1>2 DEF Request
<1>4. req[r].pc = "endStamp" /\ req[r].left = {}
  BY DEF EndStamp, Over, At
<1>5. ASSUME NEW t \in 1..Now, Attempt(history, req[r], t) PROVE Attempt(history, q, t)
  <2>1. \A part \in Parts : "endPrint" \in ReadIn(part) => "endStamp" \in ReadIn(part)
    BY DEF Parts, ReadIn
  <2>2. ReadSince(history, q, t) /\ Matched(history, q, t)
    BY <1>3, <1>4, <1>5, <2>1 DEF Attempt, ReadSince, Matched
  <2> QED
    BY <1>3, <1>5, <2>2 DEF Attempt, BeganBy
<1>6. Refreshing(r) /\ q.pc \in RefreshPhases
  BY <1>3, <1>4 DEF Refreshing, RefreshPhases
<1> QED
  BY <1>1, <1>2, <1>3, <1>5, <1>6, Onward DEF EndStamp, caches

\* A second attempt begins with what the first one ended with.
LEMMA RefreshRetryStep ==
  ASSUME LiveIInv, LiveTypeOK', NEW r \in Reqs, Over(r, "endPrint"), NEW q, Becomes(r, q),
         q = [req[r] EXCEPT !.pc = "fold", !.attempt = @ + 1, !.expected = req[r].print,
                            !.stamp = Unread, !.print = Unread, !.body = Blank],
         UNCHANGED <<history, caches, served>>
  PROVE  LiveIInv'
<1>1. q \in Request /\ req[r] \in Request
  BY DEF Becomes, LiveTypeOK, LiveIInv
<1>2. /\ q.pc = "fold" /\ q.since = req[r].since /\ q.valid = req[r].valid /\ q.cached = req[r].cached
      /\ q.expected = req[r].print /\ q.crossed = req[r].crossed /\ q.first = req[r].first
  BY <1>1 DEF Request
<1>3. req[r].pc = "endPrint" /\ req[r].left = {} /\ Refreshing(r) /\ ~At(r, "wait")
  BY DEF Over, At, Refreshing
<1>4. req[r].since \in 1..Now /\ Now \in Nat \ {0} /\ Now = Len(history)
  BY <1>3 DEF LiveIInv, LiveTypeOK, StatInv, Now
<1>5. PICK t \in req[r].since..Now : Attempt(history, req[r], t)
  BY <1>3 DEF LiveIInv, RefreshInv
<1>6. t \in 1..Now
  BY <1>4
<1>7. BeganBy(history, q, Now)
  <2> SUFFICES ASSUME NEW f \in Watched
               PROVE  /\ Seen(history, f, q.expected[f], 1, Now)
                      /\ q.first[f] # Gone => \E k \in 1..Now : \E l \in k..Now :
                           history[k][f] = q.first[f] /\ history[l][f] = q.expected[f]
    BY DEF BeganBy
  <2>1. PICK l \in t..Now : history[l][f] = q.expected[f]
    BY <1>2, <1>3, <1>4, <1>5 DEF Attempt, Matched, Seen
  <2>2. Seen(history, f, q.expected[f], 1, Now)
    BY <1>4, <1>6, <2>1 DEF Seen
  <2>3. ASSUME q.first[f] # Gone
        PROVE \E k \in 1..Now : \E m \in k..Now : history[k][f] = q.first[f] /\ history[m][f] = q.expected[f]
    <3>1. PICK k \in 1..t : history[k][f] = q.first[f]
      BY <1>2, <1>5, <2>3 DEF Attempt, BeganBy
    <3>2. k \in 1..Now /\ l \in k..Now
      BY <1>4, <1>6, <2>1
    <3> QED
      BY <2>1, <3>1, <3>2
  <2> QED
    BY <2>2, <2>3
<1>8. Attempt(history, q, Now)
  <2>1. \A part \in Parts : "fold" \notin ReadIn(part)
    BY DEF Parts, ReadIn
  <2> QED
    BY <1>2, <1>7, <2>1 DEF Attempt, ReadSince, Matched
<1>9. \A j \in Reqs : WaitsFor(j, r) => Joined(history, req[j], q, Now)
  BY <1>4 DEF WaitsFor, At, LiveIInv, StatInv, Joined
<1>10. q.pc \in RefreshPhases /\ Now \in q.since..Now
  BY <1>2, <1>4 DEF RefreshPhases
<1>11. StatInv(history, q) /\ DoneInv(history, q)
  BY <1>2, <1>4 DEF LiveIInv, StatInv, DoneInv
<1> QED
  BY <1>1, <1>2, <1>3, <1>8, <1>9, <1>10, <1>11, Frame DEF caches, LiveIInv, Now

-----------------------------------------------------------------------------
(* A request is answered, joins a refresh, or starts one.                  *)

\* A cached answer was looked up by stats no older than the request, and made
\* by the time it came: it is about the moment the request came.
LEMMA HitStep ==
  ASSUME LiveIInv, LiveTypeOK', NEW r \in Reqs, Over(r, "print"), Hit(r),
         Becomes(r, Answered(Plain(r), req[r].cached)), UNCHANGED <<history, current, pending, shared>>
  PROVE  LiveIInv'
<1> DEFINE q == Answered(Plain(r), req[r].cached)
<1>1. /\ q.pc = "done" /\ q.since = req[r].since /\ q.first = req[r].print
      /\ q.answer = req[r].cached /\ q.valid = FALSE
  BY DEF Answered, Plain, Idle
<1>2. q \in Request
  BY DEF Becomes, LiveTypeOK, LiveIInv
<1>3. req[r].pc = "print" /\ req[r].left = {} /\ req[r].valid /\ req[r].cached.print = req[r].print
  BY DEF Over, At, Hit
<1>4. req[r].since \in 1..Now /\ Now \in Nat \ {0} /\ Now = Len(history)
  BY <1>3 DEF LiveIInv, LiveTypeOK, StatInv, Now
<1> HIDE DEF q
<1>5. ASSUME NEW f \in Watched, req[r].print[f] # Gone
      PROVE  Agrees(req[r].cached.body, req[r].cached.crossed, f, history[req[r].since][f])
  <2>1. /\ Seen(history, f, req[r].print[f], req[r].since, Now)
        /\ Seen(history, f, req[r].print[f], 1, req[r].since)
        /\ Agrees(req[r].cached.body, req[r].cached.crossed, f, req[r].print[f])
    BY <1>3, <1>4, <1>5 DEF LiveIInv, StatInv, CacheInv
  <2>2. PICK i \in 1..req[r].since : history[i][f] = req[r].print[f]
    BY <2>1 DEF Seen
  <2>3. PICK k \in req[r].since..Now : history[k][f] = req[r].print[f]
    BY <2>1 DEF Seen
  <2>4. i \in 1..Now /\ req[r].since \in i..Now /\ k \in req[r].since..Now
    BY <1>4
  <2>5. history[req[r].since][f] = req[r].print[f]
    <3>1. HistInv(history) /\ Len(history) \in Nat
      BY <1>4 DEF LiveIInv
    <3>2. /\ i \in 1..Len(history) /\ req[r].since \in i..Len(history)
          /\ k \in req[r].since..Len(history)
      BY <1>4, <2>4
    <3>3. history[i][f] = history[k][f] /\ history[i][f] # Gone
      BY <1>5, <2>2, <2>3
    <3> QED
      BY <2>2, <3>1, <3>2, <3>3, Still
  <2> QED
    BY <2>1, <2>5
<1>6. DoneInv(history, q)
  <2>1. req[r].since \in req[r].since..Now
    BY <1>4
  <2> QED
    BY <1>1, <1>3, <1>4, <1>5, <2>1 DEF DoneInv
<1>7. StatInv(history, q)
  BY <1>1, <1>4 DEF StatInv
<1>8. ~At(r, "wait") /\ ~Refreshing(r) /\ q.pc \notin RefreshPhases
  BY <1>1, <1>3 DEF At, Refreshing, RefreshPhases
<1>9. Becomes(r, q)
  BY DEF q
<1> QED
  BY <1>1, <1>2, <1>6, <1>7, <1>8, <1>9, Frame DEF LiveIInv, Now

\* The refresh began with the files this request has seen: they stood still
\* until the request came, unless its attempt began later still.
LEMMA JoinStep ==
  ASSUME LiveIInv, LiveTypeOK', NEW r \in Reqs, Over(r, "print"), Join(r),
         Becomes(r, [Plain(r) EXCEPT !.pc = "wait", !.of = pending]),
         UNCHANGED <<history, current, pending, shared>>
  PROVE  LiveIInv'
<1> DEFINE q == [Plain(r) EXCEPT !.pc = "wait", !.of = pending]
<1>1. /\ q.pc = "wait" /\ q.of = pending /\ q.since = req[r].since /\ q.first = req[r].print
      /\ q.valid = FALSE
  BY DEF Plain, Idle
<1>2. q \in Request
  BY DEF Becomes, LiveTypeOK, LiveIInv
<1>3. req[r].pc = "print" /\ req[r].left = {}
  BY DEF Over, At
<1>4. req[r].since \in 1..Now /\ Now \in Nat \ {0} /\ Now = Len(history)
  BY <1>3 DEF LiveIInv, LiveTypeOK, StatInv, Now
<1>5. pending \in Reqs /\ Refreshing(pending) /\ req[pending].first = req[r].print /\ pending # r
  BY <1>3 DEF Join, LiveIInv, LiveTypeOK, MeetInv, Refreshing
<1> HIDE DEF q
<1>6. Becomes(r, q)
  BY DEF q
<1>7. req'[r] = q /\ \A p \in Reqs \ {r} : req'[p] = req[p]
  BY <1>2, <1>6, Became DEF LiveIInv
<1>8. \A p \in Reqs : Refreshing(p)' <=> p # r /\ Refreshing(p)
  BY <1>1, <1>7 DEF Refreshing
<1>9. ~Refreshing(r)
  BY <1>3 DEF Refreshing
<1>10. HistInv(history') /\ (current'.held => CacheInv(history', current', Now'))
  BY DEF LiveIInv, Now
<1>11. \A p \in Reqs : StatInv(history', req'[p]) /\ DoneInv(history', req'[p])
  <2>1. StatInv(history, q) /\ DoneInv(history, q)
    BY <1>1, <1>4 DEF StatInv, DoneInv
  <2> QED
    BY <1>7, <2>1 DEF LiveIInv
<1>12. MeetInv'
  <2>1. pending' # NoReq => Refreshing(pending)'
    BY <1>5, <1>8
  <2>2. ASSUME NEW j \in Reqs, At(j, "wait")' PROVE (req[j].of \in Reqs)' /\ Refreshing(req[j].of)'
    <3>1. CASE j = r
      BY <1>1, <1>5, <1>7, <3>1 DEF Refreshing
    <3>2. CASE j # r
      <4>1. req[j].of \in Reqs /\ Refreshing(req[j].of) /\ req'[j] = req[j]
        BY <1>7, <2>2, <3>2 DEF LiveIInv, MeetInv, At
      <4> QED
        BY <1>7, <1>9, <4>1 DEF Refreshing
    <3> QED
      BY <3>1, <3>2
  <2>3. \A p, s \in Reqs : p # s /\ Refreshing(p)' /\ Refreshing(s)' => req'[p].crossed
    BY <1>7, <1>8 DEF LiveIInv, MeetInv
  <2> QED
    BY <2>1, <2>2, <2>3 DEF MeetInv
<1>13. ASSUME NEW t \in 1..Now, Attempt(history, req[pending], t) PROVE Joined(history, q, req[pending], t)
  <2> SUFFICES ASSUME ~(q.since <= t), NEW f \in Watched, q.first[f] # Gone
               PROVE  req[pending].expected[f] = q.first[f] /\ history[q.since][f] = q.first[f]
    BY DEF Joined
  <2>1. PICK k \in 1..t : \E l \in k..t :
          history[k][f] = q.first[f] /\ history[l][f] = req[pending].expected[f]
    BY <1>1, <1>5, <1>13 DEF Attempt, BeganBy
  <2>2. PICK l \in k..t : history[k][f] = q.first[f] /\ history[l][f] = req[pending].expected[f]
    BY <2>1
  <2>3. PICK m \in q.since..Now : history[m][f] = q.first[f]
    BY <1>1, <1>3, <1>4 DEF LiveIInv, StatInv, Seen
  <2>4. k \in 1..Now /\ l \in k..Now /\ m \in l..Now /\ q.since \in k..Now
    BY <1>1, <1>4
  <2>5. history[l][f] = q.first[f] /\ history[q.since][f] = q.first[f]
    BY <1>4, <2>2, <2>3, <2>4, Still DEF LiveIInv
  <2> QED
    BY <2>2, <2>5
<1>14. ASSUME NEW p \in Reqs PROVE RefreshInv(p)'
  <2> SUFFICES ASSUME p # r, Refreshing(p)
               PROVE  \E t \in req[p].since..Now :
                        /\ Attempt(history, req[p], t)
                        /\ \A j \in Reqs : WaitsFor(j, p)' => Joined(history, req'[j], req[p], t)
    BY <1>7, <1>8 DEF RefreshInv, Now
  <2>1. PICK t \in req[p].since..Now :
          /\ Attempt(history, req[p], t)
          /\ \A j \in Reqs : WaitsFor(j, p) => Joined(history, req[j], req[p], t)
    BY DEF LiveIInv, RefreshInv
  <2>2. t \in 1..Now
    <3>1. req[p].since \in 1..Now
      BY DEF Refreshing, LiveIInv, StatInv, Now
    <3> QED
      BY <1>4, <3>1
  <2>3. ASSUME NEW j \in Reqs, WaitsFor(j, p)' PROVE Joined(history, req'[j], req[p], t)
    <3>1. CASE j = r
      BY <1>1, <1>7, <1>13, <2>1, <2>2, <2>3, <3>1 DEF WaitsFor, At
    <3>2. CASE j # r
      BY <1>7, <2>1, <2>3, <3>2 DEF WaitsFor, At
    <3> QED
      BY <3>1, <3>2
  <2> QED
    BY <2>1, <2>3
<1>15. \A p \in Reqs : ShareInv(p)'
  BY <1>1, <1>7 DEF LiveIInv, ShareInv, At
<1> QED
  BY <1>10, <1>11, <1>12, <1>14, <1>15 DEF LiveIInv

\* A refresh that another one crosses vouches for less.
LEMMA Crossed ==
  ASSUME NEW h, NEW t, NEW q, Attempt(h, q, t), NEW p, p.crossed = TRUE, p.pc = q.pc, p.first = q.first,
         p.expected = q.expected, p.stamp = q.stamp, p.print = q.print, p.left = q.left, p.body = q.body
  PROVE  Attempt(h, p, t)
<1>1. BeganBy(h, p, t)
  BY DEF Attempt, BeganBy
<1>2. ReadSince(h, p, t)
  BY DEF Attempt, ReadSince
<1>3. Matched(h, p, t)
  BY DEF Attempt, Matched, Agrees
<1> QED
  BY <1>1, <1>2, <1>3 DEF Attempt

\* A refresh begins with fingerprints no older than its request; it crosses
\* every refresh that is on its way.
LEMMA StartStep ==
  ASSUME LiveIInv, LiveTypeOK', NEW r \in Reqs, Over(r, "print"), ~Hit(r), ~Join(r), Decide(r)
  PROVE  LiveIInv'
<1> DEFINE q == [Plain(r) EXCEPT !.pc = "fold", !.expected = req[r].print,
                                 !.crossed = \E p \in Reqs : Refreshing(p)]
<1>1. /\ q.pc = "fold" /\ q.since = req[r].since /\ q.first = req[r].print /\ q.expected = req[r].print
      /\ q.valid = FALSE /\ q.crossed = (\E p \in Reqs : Refreshing(p))
  BY DEF Plain, Idle
<1>2. /\ pending' = r /\ UNCHANGED <<history, current, shared>>
      /\ req' = [p \in Reqs |-> IF p = r THEN q
                                ELSE IF Refreshing(p) THEN [req[p] EXCEPT !.crossed = TRUE] ELSE req[p]]
  BY DEF Decide
<1> HIDE DEF q
<1>3. req[r].pc = "print" /\ req[r].left = {} /\ ~Refreshing(r)
  BY DEF Over, At, Refreshing
<1>4. req[r].since \in 1..Now /\ Now \in Nat \ {0} /\ Now = Len(history)
  BY <1>3 DEF LiveIInv, LiveTypeOK, StatInv, Now
<1>5. /\ req'[r] = q
      /\ \A p \in Reqs \ {r} : ~Refreshing(p) => req'[p] = req[p]
      /\ \A p \in Reqs \ {r} : Refreshing(p) => req'[p] = [req[p] EXCEPT !.crossed = TRUE]
  BY <1>2
<1>6. ASSUME NEW p \in Reqs \ {r}, Refreshing(p)
      PROVE  /\ req'[p].crossed = TRUE /\ req'[p].pc = req[p].pc /\ req'[p].since = req[p].since
             /\ req'[p].valid = req[p].valid /\ req'[p].cached = req[p].cached
             /\ req'[p].first = req[p].first /\ req'[p].expected = req[p].expected
             /\ req'[p].stamp = req[p].stamp /\ req'[p].print = req[p].print
             /\ req'[p].left = req[p].left /\ req'[p].body = req[p].body
  <2>1. req[p] \in Request
    BY DEF LiveIInv, LiveTypeOK
  <2> QED
    BY <1>5, <1>6, <2>1 DEF Request
<1>7. \A p \in Reqs : Refreshing(p)' <=> p = r \/ Refreshing(p)
  BY <1>1, <1>5, <1>6 DEF Refreshing
<1>8. \A j \in Reqs : At(j, "wait")' => j # r /\ At(j, "wait") /\ req'[j] = req[j]
  <2>1. \A j \in Reqs \ {r} : Refreshing(j) => req'[j].pc = req[j].pc /\ req[j].pc # "wait"
    BY <1>6 DEF Refreshing
  <2> QED
    BY <1>1, <1>5, <2>1 DEF At
<1>9. HistInv(history') /\ (current'.held => CacheInv(history', current', Now'))
  BY <1>2 DEF LiveIInv, Now
<1>10. ASSUME NEW p \in Reqs PROVE StatInv(history, req'[p]) /\ DoneInv(history, req'[p])
  <2>1. CASE p = r
    BY <1>1, <1>4, <1>5, <2>1 DEF StatInv, DoneInv
  <2>2. CASE p # r /\ ~Refreshing(p)
    BY <1>5, <2>2 DEF LiveIInv
  <2>3. CASE p # r /\ Refreshing(p)
    <3>1. StatInv(history, req[p]) /\ req[p].pc \notin {"idle", "stamp", "print", "done"}
      BY <2>3 DEF LiveIInv, Refreshing
    <3> QED
      BY <1>6, <2>3, <3>1 DEF StatInv, DoneInv
  <2> QED
    BY <2>1, <2>2, <2>3
<1>11. MeetInv'
  <2>1. pending' # NoReq => Refreshing(pending)'
    BY <1>2, <1>7
  <2>2. ASSUME NEW j \in Reqs, At(j, "wait")' PROVE (req[j].of \in Reqs)' /\ Refreshing(req[j].of)'
    <3>1. req'[j] = req[j] /\ req[j].of \in Reqs /\ Refreshing(req[j].of)
      BY <1>8, <2>2 DEF LiveIInv, MeetInv
    <3>2. req'[req[j].of].pc \in RefreshPhases
      BY <1>7, <3>1 DEF Refreshing, RefreshPhases
    <3> QED
      BY <3>1, <3>2 DEF Refreshing, RefreshPhases
  <2>3. \A p, s \in Reqs : p # s /\ Refreshing(p)' /\ Refreshing(s)' => req'[p].crossed
    <3> SUFFICES ASSUME NEW p \in Reqs, NEW s \in Reqs, p # s, p = r \/ Refreshing(p), s = r \/ Refreshing(s)
                 PROVE  req'[p].crossed
      BY <1>7
    <3>1. CASE p = r
      BY <1>1, <1>5, <3>1
    <3>2. CASE p # r
      BY <1>6, <3>2
    <3> QED
      BY <3>1, <3>2
  <2> QED
    BY <2>1, <2>2, <2>3 DEF MeetInv
<1>12. Attempt(history, q, Now)
  <2>1. \A part \in Parts : "fold" \notin ReadIn(part)
    BY DEF Parts, ReadIn
  <2>2. BeganBy(history, q, Now)
    <3> SUFFICES ASSUME NEW f \in Watched, req[r].print[f] # Gone
                 PROVE  \E k \in 1..Now : history[k][f] = req[r].print[f]
      BY <1>1, <1>4 DEF BeganBy, Seen
    <3> QED
      BY <1>3, <1>4 DEF LiveIInv, StatInv, Seen
  <2> QED
    BY <1>1, <2>1, <2>2 DEF Attempt, ReadSince, Matched
<1>13. ASSUME NEW p \in Reqs PROVE RefreshInv(p)'
  <2>1. \A j \in Reqs : WaitsFor(j, p)' => WaitsFor(j, p) /\ req'[j] = req[j]
    BY <1>8 DEF WaitsFor, At
  <2> SUFFICES ASSUME p = r \/ Refreshing(p)
               PROVE  \E t \in req'[p].since..Now :
                        /\ Attempt(history, req'[p], t)
                        /\ \A j \in Reqs : WaitsFor(j, p)' => Joined(history, req'[j], req'[p], t)
    BY <1>2, <1>7 DEF RefreshInv, Now
  <2>2. CASE p = r
    <3>1. \A j \in Reqs : ~WaitsFor(j, r)'
      BY <1>3, <2>1, <2>2 DEF WaitsFor, LiveIInv, MeetInv
    <3>2. Now \in req'[r].since..Now
      BY <1>1, <1>4, <1>5
    <3> QED
      BY <1>5, <1>12, <2>2, <3>1, <3>2
  <2>3. CASE p # r
    <3>1. PICK t \in req[p].since..Now :
            /\ Attempt(history, req[p], t)
            /\ \A j \in Reqs : WaitsFor(j, p) => Joined(history, req[j], req[p], t)
      BY <2>3 DEF LiveIInv, RefreshInv
    <3>2. req'[p].since = req[p].since /\ req'[p].expected = req[p].expected
      BY <1>6, <2>3
    <3>3. Attempt(history, req'[p], t)
      BY <1>6, <2>3, <3>1, Crossed
    <3>4. \A j \in Reqs : WaitsFor(j, p)' => Joined(history, req'[j], req'[p], t)
      BY <2>1, <3>1, <3>2 DEF Joined
    <3> QED
      BY <3>1, <3>2, <3>3, <3>4
  <2> QED
    BY <2>2, <2>3
<1>14. ASSUME NEW p \in Reqs PROVE ShareInv(p)'
  <2>1. CASE p = r
    BY <1>1, <1>5, <2>1 DEF ShareInv, At
  <2>2. CASE p # r /\ ~Refreshing(p)
    BY <1>2, <1>5, <2>2 DEF ShareInv, At, Refreshing
  <2>3. CASE p # r /\ Refreshing(p)
    BY <1>6, <2>3 DEF ShareInv
  <2> QED
    BY <2>1, <2>2, <2>3
<1> QED
  BY <1>2, <1>9, <1>10, <1>11, <1>13, <1>14 DEF LiveIInv

-----------------------------------------------------------------------------
(* A refresh ends.                                                         *)

LEMMA SettleStep ==
  ASSUME LiveIInv, LiveTypeOK', NEW r \in Reqs, req[r].pc \notin {"idle", "wait", "done"},
         NEW answer, Settle(r, answer),
         answer.held => \A q \in Reqs : q = r \/ WaitsFor(q, r) => DoneInv(history, Answered(req[q], answer)),
         current'.held => CacheInv(history, current', Now)
  PROVE  LiveIInv'
<1> DEFINE Ends(q) == q = r \/ WaitsFor(q, r)
<1>1. /\ \A q \in Reqs : Ends(q) /\ answer.held => req'[q] = Answered(req[q], answer)
      /\ \A q \in Reqs : Ends(q) /\ ~answer.held => req'[q] = Idle
      /\ \A q \in Reqs : ~Ends(q) => req'[q] = req[q]
      /\ pending' = IF pending = r THEN NoReq ELSE pending
      /\ UNCHANGED <<history, shared>>
  BY DEF Settle, WaitsFor
<1>2. /\ Idle.pc = "idle" /\ Idle.valid = FALSE
      /\ \A q : /\ Answered(q, answer).pc = "done" /\ Answered(q, answer).since = q.since
                /\ Answered(q, answer).valid = FALSE
  BY DEF Idle, Answered
<1>3. \A q \in Reqs : Ends(q) => req'[q].pc \in {"idle", "done"} /\ req[q].pc # "idle"
  BY <1>1, <1>2 DEF WaitsFor, At
<1>4. \A q \in Reqs : Ends(q) /\ Refreshing(q) => q = r
  BY DEF WaitsFor, At, Refreshing
<1>5. \A q \in Reqs : Refreshing(q)' <=> Refreshing(q) /\ q # r
  BY <1>1, <1>3, <1>4 DEF Refreshing
<1>6. \A q \in Reqs : At(q, "wait")' => ~Ends(q) /\ At(q, "wait") /\ req'[q] = req[q]
  BY <1>1, <1>3 DEF At
<1>7. HistInv(history') /\ (current'.held => CacheInv(history', current', Now'))
  BY <1>1 DEF LiveIInv, Now
<1>8. ASSUME NEW q \in Reqs PROVE StatInv(history, req'[q]) /\ DoneInv(history, req'[q])
  <2>1. CASE ~Ends(q)
    BY <1>1, <2>1 DEF LiveIInv
  <2>2. CASE Ends(q) /\ answer.held
    <3>1. req[q].since \in 1..Len(history)
      BY <1>3, <2>2 DEF LiveIInv, StatInv
    <3> QED
      BY <1>1, <1>2, <2>2, <3>1 DEF StatInv
  <2>3. CASE Ends(q) /\ ~answer.held
    BY <1>1, <1>2, <2>3 DEF StatInv, DoneInv
  <2> QED
    BY <2>1, <2>2, <2>3
<1>9. MeetInv'
  <2>1. pending' # NoReq => Refreshing(pending)'
    <3>1. pending \in Reqs \cup {NoReq}
      BY DEF LiveIInv, LiveTypeOK
    <3> QED
      BY <1>1, <1>5, <3>1 DEF LiveIInv, MeetInv
  <2>2. ASSUME NEW j \in Reqs, At(j, "wait")' PROVE (req[j].of \in Reqs)' /\ Refreshing(req[j].of)'
    <3>1. req'[j] = req[j] /\ req[j].of \in Reqs /\ Refreshing(req[j].of) /\ req[j].of # r
      BY <1>6, <2>2 DEF LiveIInv, MeetInv, WaitsFor
    <3>2. req'[req[j].of].pc \in RefreshPhases
      BY <1>5, <3>1 DEF Refreshing, RefreshPhases
    <3> QED
      BY <3>1, <3>2 DEF Refreshing, RefreshPhases
  <2>3. \A p, s \in Reqs : p # s /\ Refreshing(p)' /\ Refreshing(s)' => req'[p].crossed
    BY <1>1, <1>4, <1>5 DEF LiveIInv, MeetInv
  <2> QED
    BY <2>1, <2>2, <2>3 DEF MeetInv
<1>10. ASSUME NEW p \in Reqs PROVE RefreshInv(p)'
  <2>1. \A j \in Reqs : WaitsFor(j, p)' => WaitsFor(j, p) /\ req'[j] = req[j]
    BY <1>6 DEF WaitsFor, At
  <2> SUFFICES ASSUME Refreshing(p), p # r
               PROVE  \E t \in req'[p].since..Now :
                        /\ Attempt(history, req'[p], t)
                        /\ \A j \in Reqs : WaitsFor(j, p)' => Joined(history, req'[j], req'[p], t)
    BY <1>1, <1>5 DEF RefreshInv, Now
  <2>2. req'[p] = req[p]
    BY <1>1, <1>4
  <2> QED
    BY <2>1, <2>2 DEF LiveIInv, RefreshInv
<1>11. ASSUME NEW p \in Reqs PROVE ShareInv(p)'
  <2>1. CASE Ends(p)
    BY <1>3, <2>1 DEF ShareInv, At
  <2>2. CASE ~Ends(p)
    BY <1>1, <2>2 DEF LiveIInv, ShareInv, At
  <2> QED
    BY <2>1, <2>2
<1> QED
  BY <1>1, <1>7, <1>8, <1>9, <1>10, <1>11 DEF LiveIInv

LEMMA FailStep == ASSUME LiveIInv, LiveTypeOK', NEW r \in Reqs, Fail(r) PROVE LiveIInv'
<1>1. NoCache.held = FALSE
  BY DEF NoCache
<1> QED
  BY <1>1, SettleStep DEF Fail, LiveIInv

\* The files stood still from the time the attempt began with: the view model
\* is that moment, or the one a later request saw them at.
LEMMA SuccessStep ==
  ASSUME LiveIInv, LiveTypeOK', NEW r \in Reqs, Over(r, "endPrint"), req[r].print = req[r].expected,
         current' = [held |-> TRUE, stamp |-> req[r].stamp, print |-> req[r].print,
                     body |-> req[r].body, crossed |-> req[r].crossed],
         Settle(r, current')
  PROVE  LiveIInv'
<1>1. req[r].pc = "endPrint" /\ req[r].left = {} /\ Refreshing(r)
  BY DEF Over, At, Refreshing
<1>2. req[r].since \in 1..Now /\ Now \in Nat \ {0} /\ Now = Len(history)
  BY <1>1 DEF LiveIInv, LiveTypeOK, StatInv, Now
<1>3. PICK t \in req[r].since..Now :
        /\ Attempt(history, req[r], t)
        /\ \A j \in Reqs : WaitsFor(j, r) => Joined(history, req[j], req[r], t)
  BY <1>1 DEF LiveIInv, RefreshInv
<1>4. t \in 1..Now
  BY <1>2
<1>5. /\ current'.held /\ current'.stamp = req[r].stamp /\ current'.print = req[r].print
      /\ current'.body = req[r].body /\ current'.crossed = req[r].crossed
  OBVIOUS
<1>6. \A f \in Watched : req[r].print[f] # Gone =>
        /\ history[t][f] = req[r].print[f] /\ req[r].stamp[f] = req[r].print[f]
        /\ Agrees(req[r].body, req[r].crossed, f, req[r].print[f])
  BY <1>1, <1>3 DEF Attempt, Matched
<1>7. CacheInv(history, current', Now)
  BY <1>2, <1>4, <1>5, <1>6 DEF CacheInv, Seen
<1>8. ASSUME NEW q \in Reqs, q = r \/ WaitsFor(q, r) PROVE DoneInv(history, Answered(req[q], current'))
  <2>1. /\ Answered(req[q], current').since = req[q].since /\ Answered(req[q], current').first = req[q].first
        /\ Answered(req[q], current').answer = current'
    BY DEF Answered, Idle
  <2>2. req[q].since \in 1..Now
    BY <1>2, <1>8 DEF WaitsFor, At, LiveIInv, StatInv
  <2>3. CASE req[q].since <= t
    <3>1. t \in req[q].since..Now
      BY <1>2, <1>4, <2>2, <2>3
    <3>2. \A f \in Watched : current'.print[f] # Gone =>
            Agrees(current'.body, current'.crossed, f, history[t][f])
      BY <1>5, <1>6
    <3> QED
      BY <1>2, <2>1, <3>1, <3>2 DEF DoneInv
  <2>4. CASE ~(req[q].since <= t)
    <3>1. \A f \in Watched : req[q].first[f] # Gone =>
            req[r].expected[f] = req[q].first[f] /\ history[req[q].since][f] = req[q].first[f]
      BY <1>3, <1>8, <2>4 DEF Joined
    <3>2. \A f \in Watched : current'.print[f] # Gone /\ req[q].first[f] # Gone
            => Agrees(current'.body, current'.crossed, f, history[req[q].since][f])
      BY <1>5, <1>6, <3>1
    <3>3. req[q].since \in req[q].since..Now
      BY <1>2, <2>2
    <3> QED
      BY <1>2, <2>1, <3>2, <3>3 DEF DoneInv
  <2> QED
    BY <2>3, <2>4
<1> QED
  BY <1>1, <1>7, <1>8, SettleStep

LEMMA CompleteStep == ASSUME LiveIInv, LiveTypeOK', NEW r \in Reqs, Complete(r) PROVE LiveIInv'
<1>1. CASE req[r].print = req[r].expected
  BY <1>1, SuccessStep DEF Complete
<1>2. CASE req[r].print # req[r].expected /\ req[r].attempt >= LIVE_VIEW_MODEL_REFRESH_RETRY_LIMIT
  <2>1. NoCache.held = FALSE
    BY DEF NoCache
  <2>2. Settle(r, NoCache) /\ UNCHANGED current /\ req[r].pc \notin {"idle", "wait", "done"}
    BY <1>2 DEF Complete, Over, At
  <2>3. UNCHANGED history
    BY <2>2 DEF Settle
  <2> QED
    BY <2>1, <2>2, <2>3, SettleStep DEF LiveIInv
<1>3. CASE req[r].print # req[r].expected /\ ~(req[r].attempt >= LIVE_VIEW_MODEL_REFRESH_RETRY_LIMIT)
  BY <1>3, RefreshRetryStep DEF Complete
<1> QED
  BY <1>1, <1>2, <1>3

LEMMA DecideStep == ASSUME LiveIInv, LiveTypeOK', NEW r \in Reqs, Decide(r) PROVE LiveIInv'
<1>1. Over(r, "print") /\ UNCHANGED <<history, current, shared>>
  BY DEF Decide
<1>2. CASE Hit(r)
  BY <1>1, <1>2, HitStep DEF Decide
<1>3. CASE ~Hit(r) /\ Join(r)
  BY <1>1, <1>3, JoinStep DEF Decide
<1>4. CASE ~Hit(r) /\ ~Join(r)
  BY <1>1, <1>4, StartStep
<1> QED
  BY <1>2, <1>3, <1>4

-----------------------------------------------------------------------------
(* The invariant holds, and with it the promise of an answer.              *)

LEMMA InitInv == LiveInit => LiveIInv
<1> SUFFICES ASSUME LiveInit PROVE LiveIInv
  OBVIOUS
<1>1. LiveTypeOK
  BY InitType
<1>2. Idle.pc = "idle" /\ Idle.valid = FALSE /\ NoCache.held = FALSE
  BY DEF Idle, NoCache
<1>3. \A r \in Reqs : req[r] = Idle
  BY DEF LiveInit
<1>4. Len(history) = 1 /\ \A f \in Watched : history[1][f] \in {0, 1}
  BY DEF LiveInit, Gone
<1>5. HistInv(history)
  BY <1>4 DEF HistInv
<1>6. MeetInv
  BY <1>2, <1>3 DEF LiveInit, MeetInv, At, Refreshing
<1>7. \A r \in Reqs : StatInv(history, req[r]) /\ DoneInv(history, req[r])
  BY <1>2, <1>3 DEF StatInv, DoneInv
<1>8. \A r \in Reqs : RefreshInv(r) /\ ShareInv(r)
  BY <1>2, <1>3 DEF RefreshInv, ShareInv, Refreshing, At
<1> QED
  BY <1>1, <1>2, <1>5, <1>6, <1>7, <1>8 DEF LiveIInv, LiveInit

LEMMA StepInv == LiveIInv /\ [LiveNext]_liveVars => LiveIInv'
<1> SUFFICES ASSUME LiveIInv, [LiveNext]_liveVars PROVE LiveIInv'
  OBVIOUS
<1>1. LiveTypeOK'
  BY TypeStep DEF LiveIInv
<1>2. CASE Rewrite
  BY <1>1, <1>2, ChangeStep DEF Rewrite, Now
<1>3. CASE Drop
  BY <1>1, <1>3, ChangeStep DEF Drop, Watched
<1>4. ASSUME NEW r \in Reqs, Arrive(r) \/ Serve(r) \/ Leave(r) PROVE LiveIInv'
  BY <1>1, <1>4, ArriveStep, StatStep, SnapshotStep, DecideStep, ReadPartStep, ShareStep, PlanStep,
     FailStep, EndStampStep, CompleteStep, LeaveStep DEF Serve
<1>5. CASE UNCHANGED liveVars
  BY <1>5 DEF liveVars, LiveIInv, LiveTypeOK, MeetInv, RefreshInv, ShareInv, WaitsFor, At, Refreshing, Now
<1> QED
  BY <1>2, <1>3, <1>4, <1>5 DEF LiveNext

\* What the served view model vouches for is one moment of the session no older
\* than the request, whatever overlaps it and however the files change
\* (readCachedLiveViewModel, buildLiveViewModelRefresh).
THEOREM AnswersAreMoments == LiveSpec => []AnswerIsOneMoment
<1>1. LiveIInv => AnswerIsOneMoment
  <2> SUFFICES ASSUME LiveIInv, NEW r \in Reqs, At(r, "done")
               PROVE  \E k \in req[r].since..Now :
                        \A part \in Vouched(r) : req[r].answer.body[part] = history[k][Source(part)]
    BY DEF AnswerIsOneMoment, Now
  <2>1. PICK k \in req[r].since..Now : \A f \in Watched :
          req[r].answer.print[f] # Gone /\ req[r].first[f] # Gone
            => Agrees(req[r].answer.body, req[r].answer.crossed, f, history[k][f])
    BY DEF LiveIInv, DoneInv, At, Now
  <2>2. \A part \in Vouched(r) : req[r].answer.body[part] = history[k][Source(part)]
    BY <2>1, PartsAndFiles DEF Vouched, Agrees
  <2> QED
    BY <2>2
<1> QED
  BY <1>1, InitInv, StepInv, PTL DEF LiveSpec
=============================================================================
