---------------------- MODULE SessionMutationLockProofs ----------------------
(***************************************************************************)
(* Mutual exclusion of the session mutation lock for any number of         *)
(* processes, tokens, deaths and recovery depth, on a file system whose    *)
(* calls do not fail (Spec).                                               *)
(*                                                                         *)
(* The argument: while a dead owner's file is on disk nobody drops a claim *)
(* made for it, so all its recoverers walk ONE chain of claims, each as    *)
(* far as the first claim of a live process.  Of two recoverers that had   *)
(* both created a claim, the one further down would have walked past a     *)
(* claim of a dead process, and the other is alive.  And the claim a live  *)
(* recoverer created is the last it remembers until it has dropped it.     *)
(***************************************************************************)
EXTENDS SessionMutationLock, SequenceTheorems, TLAPS

-----------------------------------------------------------------------------
(* The inductive invariant.                                                 *)

Idle(p) == pc[p] \in {"idle", "dead"}
Creating(p) == pc[p] \in {"write", "rewrite"}
Owns(p) == Holds(p) \/ (pc[p] \in {"drop", "unlinkClaim"} /\ won[p])
Walking(p) == pc[p] \in {"claim", "writeClaim", "readClaim", "confirm", "unlink"}
Elected(p) == pc[p] \in {"confirm", "unlink"}
Ending(p) == pc[p] \in {"recreate", "rewrite", "drop", "unlinkClaim"}

\* Attempts hold distinct tokens, and a file or a process that remembers one of
\* them remembers it of the right process.
TokensDistinct ==
  /\ \A p \in Proc : Idle(p) <=> tok[p] = NoToken
  /\ \A p, q \in Proc : tok[p] = tok[q] /\ tok[p] # NoToken => p = q
  /\ \A p \in Proc : tok[p] = lock.token /\ tok[p] # NoToken => lock.pid = p
  /\ \A p, q \in Proc : owner[p] = tok[q] => owner[p] = NoToken
  /\ lock = NoFile \/ lock.token \in Token
  /\ \A p \in Proc : Walking(p) \/ Ending(p) => owner[p] \in Token

\* A process that is not dead is alive (no pid is reused under Spec).
Alive == \A p \in Proc : p \in alive <=> pc[p] # "dead"

\* Who has created the lock file finds it unchanged.
OwnsFile ==
  /\ \A p \in Proc : Creating(p) => lock = Unwritten(p)
  /\ \A p \in Proc : Owns(p) => lock = Record(p)
  /\ \A p \in Proc : won[p] => Owns(p)

\* The lock p is about to unlink is the dead owner's.
UnlinksDead ==
  \A p \in Proc : pc[p] = "unlink" => lock.token = owner[p]

\* The claims of a recoverer whose owner's lock is still on disk: a chain of
\* claim files on disk, all of dead processes but for its own at the end.
Target(p) == Walking(p) /\ owner[p] = lock.token
Chain(q) ==
  /\ ReadableDead(lock)
  /\ pc[q] = "writeClaim" => claim[ClaimPath(q)] = Unwritten(q)
  /\ Elected(q) => claims[q] # <<>> /\ claim[LastPath(q)] = Record(q)
  /\ \A i \in 1 .. Len(claims[q]) :
       LET file == claim[<<owner[q], claims[q][i].parent>>] IN
         /\ claims[q][i].parent = IF i = 1 THEN NoToken ELSE claims[q][i - 1].token
         /\ file.written
         /\ file.token = claims[q][i].token
         /\ i < Len(claims[q]) \/ ~Elected(q) => IsDead(file.pid)

ChainOnDisk == \A q \in Proc : Target(q) => Chain(q)

\* Two recoverers of the lock on disk have walked the same chain.
OneChain ==
  \A p, q \in Proc : Target(p) /\ Target(q) =>
    \A i \in 1 .. Len(claims[p]) : i <= Len(claims[q]) => claims[p][i] = claims[q][i]

\* Claims are dropped only once the dead owner's lock is gone.
OwnerGone == \A p \in Proc : Ending(p) => owner[p] # lock.token

\* What the code's indices rely on.
WithinDepth ==
  \A p \in Proc :
    /\ pc[p] \in {"writeClaim", "readClaim"} => Len(claims[p]) < MaxDepth
    /\ pc[p] = "unlinkClaim" => claims[p] # <<>>
    /\ pc[p] \in {"idle", "open", "read"} => claims[p] = <<>>

IInv ==
  /\ TypeOK
  /\ TokensDistinct
  /\ Alive
  /\ OwnsFile
  /\ UnlinksDead
  /\ ChainOnDisk
  /\ OneChain
  /\ OwnerGone
  /\ WithinDepth

-----------------------------------------------------------------------------
(* Every step keeps the shape of the state.                                 *)

LEMMA FrontType ==
  ASSUME NEW S, NEW cs \in Seq(S), cs # <<>>
  PROVE  /\ Len(cs) \in Nat \ {0}
         /\ Last(cs) \in S
         /\ Front(cs) \in Seq(S)
         /\ Len(Front(cs)) = Len(cs) - 1
<1>1. Len(cs) \in Nat /\ Len(cs) >= 1
  BY EmptySeq
<1>2. \A i \in 1 .. Len(cs) : cs[i] \in S
  BY ElementOfSeq
<1>3. 1 \in Int /\ Len(cs) - 1 \in Int /\ \A i \in 1 .. Len(cs) - 1 : cs[i] \in S
  BY <1>1, <1>2
<1>4. /\ SubSeq(cs, 1, Len(cs) - 1) \in Seq(S)
      /\ Len(SubSeq(cs, 1, Len(cs) - 1)) = IF 1 <= Len(cs) - 1 THEN (Len(cs) - 1) - 1 + 1 ELSE 0
  BY ONLY <1>3, SubSeqProperties
<1>5. Front(cs) = SubSeq(cs, 1, Len(cs) - 1) /\ Last(cs) = cs[Len(cs)]
  BY DEF Front, Last
<1>6. Len(SubSeq(cs, 1, Len(cs) - 1)) = Len(cs) - 1
  <2>1. \A n \in Nat : n >= 1 => (IF 1 <= n - 1 THEN (n - 1) - 1 + 1 ELSE 0) = n - 1
    OBVIOUS
  <2>. QED  BY ONLY <1>1, <1>4, <2>1, Zenon
<1>7. Last(cs) \in S
  BY <1>1, <1>2, <1>5
<1>. QED  BY <1>1, <1>4, <1>5, <1>6, <1>7

LEMMA TypeInit == Init => TypeOK
BY BoundsAssumption DEF Init, TypeOK, Labels, File, NoFile

LEMMA TypeStep ==
  ASSUME IInv, NEW p \in Proc, Step(p) \/ Crash(p)
  PROVE  TypeOK'
<1>. DEFINE ClaimsOK(f) == f \in [Proc -> Seq(Claim)] /\ \A q \in Proc : Len(f[q]) <= MaxDepth
<1>. USE DEF TypeOK, Labels, Leave, Goto, locals, env
<1>1. TypeOK /\ TokensDistinct /\ WithinDepth
  BY DEF IInv
<1>2. ~Idle(p) => tok[p] \in Token
  BY <1>1 DEF TokensDistinct
<1>3. ~Idle(p) => Unwritten(p) \in File /\ Record(p) \in File
  BY <1>2 DEF Unwritten, Record, File
<1>4. NoFile \in File
  BY DEF File
<1>5. \A file \in File : ~Idle(p) => Write(file, p) \in File
  BY <1>3 DEF Write
<1>6. \A file \in File : ReadableDead(file) => file.token \in Token
  BY DEF File, NoFile, ReadableDead
<1>7. \A path : \A file \in File :
         [claim EXCEPT ![path] = file] \in [Token \X (Token \cup {NoToken}) -> File]
  BY <1>1
<1>8. /\ claims[p] \in Seq(Claim)
      /\ Len(claims[p]) \in Nat
      /\ claims[p] # <<>> => Front(claims[p]) \in Seq(Claim) /\ Len(Front(claims[p])) = Len(claims[p]) - 1
      /\ claims[p] # <<>> => Last(claims[p]).token \in Token /\ Last(claims[p]).parent \in Token \cup {NoToken}
  <2>1. claims[p] \in Seq(Claim)
    BY <1>1
  <2>2. Len(claims[p]) \in Nat
    BY <2>1, LenProperties
  <2>3. claims[p] # <<>> => /\ Last(claims[p]) \in Claim
                            /\ Front(claims[p]) \in Seq(Claim)
                            /\ Len(Front(claims[p])) = Len(claims[p]) - 1
    BY <2>1, FrontType
  <2>. QED  BY <2>1, <2>2, <2>3 DEF Claim
<1>9. Parent(claims[p]) \in Token \cup {NoToken}
  BY <1>8 DEF Parent
<1>10. \A cs \in Seq(Claim) : Len(cs) <= MaxDepth => ClaimsOK([claims EXCEPT ![p] = cs])
  <2>. SUFFICES ASSUME NEW cs \in Seq(Claim), Len(cs) <= MaxDepth
                PROVE  ClaimsOK([claims EXCEPT ![p] = cs])
    OBVIOUS
  <2>. DEFINE f == [claims EXCEPT ![p] = cs]
  <2>1. f \in [Proc -> Seq(Claim)] /\ f[p] = cs /\ \A q \in Proc \ {p} : f[q] = claims[q]
    BY <1>1
  <2>2. \A q \in Proc : Len(claims[q]) <= MaxDepth
    BY <1>1
  <2>. HIDE DEF f
  <2>3. ClaimsOK(f)
    BY <2>1, <2>2
  <2>. QED  BY <2>3 DEF f
<1>11. ClaimsOK([claims EXCEPT ![p] = <<>>])
  <2>1. <<>> \in Seq(Claim) /\ Len(<<>>) = 0 /\ 0 <= MaxDepth
    BY BoundsAssumption
  <2>. HIDE DEF ClaimsOK
  <2>. QED  BY <1>10, <2>1
<1>12. claims[p] # <<>> => ClaimsOK([claims EXCEPT ![p] = Front(@)])
  <2>1. Len(claims[p]) <= MaxDepth
    BY <1>1
  <2>2. claims[p] # <<>> => Len(Front(claims[p])) <= MaxDepth
    BY <1>8, <2>1, BoundsAssumption
  <2>3. claims[p] # <<>> => ClaimsOK([claims EXCEPT ![p] = Front(claims[p])])
    <3>. HIDE DEF ClaimsOK
    <3>. QED  BY <1>8, <1>10, <2>2
  <2>. QED  BY <2>3
<1>13. \A t \in Token : Len(claims[p]) < MaxDepth /\ Push(p, t) => ClaimsOK(claims')
  <2>. SUFFICES ASSUME NEW t \in Token, Len(claims[p]) < MaxDepth, Push(p, t)
                PROVE  ClaimsOK(claims')
    OBVIOUS
  <2>1. [parent |-> Parent(claims[p]), token |-> t] \in Claim
    BY <1>9 DEF Claim
  <2>. QED  BY <2>1, <1>8, <1>10, AppendProperties, BoundsAssumption DEF Push
<1>14. CASE Start(p)
  BY <1>1, <1>14 DEF Start
<1>15. CASE Open(p)
  BY <1>1, <1>3, <1>15 DEF Open, Idle
<1>16. CASE WriteRecord(p)
  BY <1>1, <1>5, <1>16 DEF WriteRecord, Idle
<1>17. CASE ReadOwner(p)
  BY <1>1, <1>6, <1>11, <1>17 DEF ReadOwner
<1>18. CASE CreateClaim(p)
  <2>1. CASE Len(claims[p]) = MaxDepth
    <3>1. ~(Len(claims[p]) < MaxDepth)
      BY <2>1, BoundsAssumption
    <3>2. Leave(p) /\ UNCHANGED <<lock, claim, alive, crashes, faults>>
      BY ONLY <1>18, <3>1 DEF CreateClaim, env
    <3>. QED  BY <1>1, <1>11, <3>2
  <2>2. CASE Len(claims[p]) # MaxDepth
    <3>1. pc[p] = "claim" /\ UNCHANGED <<lock, tok, owner, claims, won, alive, crashes, faults>>
      BY <1>18, <2>2, <1>8, BoundsAssumption DEF CreateClaim
    <3>2. claim' \in [Token \X (Token \cup {NoToken}) -> File]
      BY <1>1, <1>3, <1>7, <1>18, <2>2 DEF CreateClaim, Idle
    <3>3. pc' \in [Proc -> Labels]
      BY <1>1, <1>18, <2>2 DEF CreateClaim
    <3>. QED  BY <1>1, <3>1, <3>2, <3>3
  <2>. QED  BY <2>1, <2>2
<1>19. CASE WriteClaim(p)
  <2>1. claim[ClaimPath(p)] \in File
    BY <1>1, <1>9, <1>19 DEF WriteClaim, ClaimPath, TokensDistinct, Walking
  <2>. QED  BY <1>1, <1>2, <1>5, <1>7, <1>13, <1>19, <2>1 DEF WriteClaim, Idle, WithinDepth
<1>20. CASE ReadClaim(p)
  <2>1. claim[ClaimPath(p)] \in File
    BY <1>1, <1>9, <1>20 DEF ReadClaim, ClaimPath, TokensDistinct, Walking
  <2>. QED  BY <1>1, <1>6, <1>11, <1>13, <1>20, <2>1 DEF ReadClaim, WithinDepth
<1>21. CASE Confirm(p)
  BY <1>1, <1>21 DEF Confirm
<1>22. CASE Unlink(p)
  BY <1>1, <1>4, <1>22 DEF Unlink
<1>23. CASE Recreate(p)
  BY <1>1, <1>3, <1>23 DEF Recreate, Idle
<1>24. CASE Rewrite(p)
  BY <1>1, <1>5, <1>24 DEF Rewrite, Idle
<1>25. CASE DropClaim(p)
  BY <1>1, <1>12, <1>25 DEF DropClaim
<1>26. CASE UnlinkClaim(p)
  BY <1>1, <1>4, <1>7, <1>12, <1>26 DEF UnlinkClaim, WithinDepth
<1>27. CASE Recovered(p)
  BY <1>1, <1>11, <1>27 DEF Recovered
<1>28. CASE Release(p)
  BY <1>1, <1>11, <1>28 DEF Release
<1>29. CASE ReleaseUnlink(p)
  BY <1>1, <1>4, <1>11, <1>29 DEF ReleaseUnlink
<1>30. CASE Crash(p)
  BY <1>1, <1>11, <1>30, BoundsAssumption DEF Crash
<1>. QED
  BY <1>14, <1>15, <1>16, <1>17, <1>18, <1>19, <1>20, <1>21, <1>22, <1>23, <1>24, <1>25,
     <1>26, <1>27, <1>28, <1>29, <1>30 DEF Step

-----------------------------------------------------------------------------
(* A step of one process leaves the variables of the others alone.          *)

LEMMA OthersUntouched ==
  ASSUME TypeOK, NEW p \in Proc, Step(p) \/ Crash(p), NEW q \in Proc \ {p}
  PROVE  /\ pc'[q] = pc[q] /\ tok'[q] = tok[q] /\ owner'[q] = owner[q]
         /\ claims'[q] = claims[q] /\ won'[q] = won[q]
<1>. USE DEF TypeOK, Leave, Goto, Push, locals
<1>10. CASE Start(p)
  BY <1>10 DEF Start
<1>11. CASE Open(p)
  BY <1>11 DEF Open
<1>12. CASE WriteRecord(p)
  BY <1>12 DEF WriteRecord
<1>13. CASE ReadOwner(p)
  BY <1>13 DEF ReadOwner
<1>14. CASE CreateClaim(p)
  BY <1>14 DEF CreateClaim
<1>15. CASE WriteClaim(p)
  BY <1>15 DEF WriteClaim
<1>16. CASE ReadClaim(p)
  BY <1>16 DEF ReadClaim
<1>17. CASE Confirm(p)
  BY <1>17 DEF Confirm
<1>18. CASE Unlink(p)
  BY <1>18 DEF Unlink
<1>19. CASE Recreate(p)
  BY <1>19 DEF Recreate
<1>20. CASE Rewrite(p)
  BY <1>20 DEF Rewrite
<1>21. CASE DropClaim(p)
  BY <1>21 DEF DropClaim
<1>22. CASE UnlinkClaim(p)
  BY <1>22 DEF UnlinkClaim
<1>23. CASE Recovered(p)
  BY <1>23 DEF Recovered
<1>24. CASE Release(p)
  BY <1>24 DEF Release
<1>25. CASE ReleaseUnlink(p)
  BY <1>25 DEF ReleaseUnlink
<1>26. CASE Crash(p)
  BY <1>26 DEF Crash
<1>. QED
  BY <1>10, <1>11, <1>12, <1>13, <1>14, <1>15, <1>16, <1>17, <1>18, <1>19, <1>20, <1>21, <1>22, <1>23, <1>24, <1>25, <1>26 DEF Step

LEMMA AliveStep ==
  ASSUME IInv, NEW p \in Proc, Step(p) \/ Crash(p)
  PROVE  Alive'
<1>. USE DEF Leave, Goto, Push, env
<1>1. TypeOK /\ Alive
  BY DEF IInv
<1>. USE <1>1 DEF TypeOK, Alive, Labels
<1>10. CASE Start(p)
  BY <1>10 DEF Start
<1>11. CASE Open(p)
  BY <1>11 DEF Open
<1>12. CASE WriteRecord(p)
  BY <1>12 DEF WriteRecord
<1>13. CASE ReadOwner(p)
  BY <1>13 DEF ReadOwner
<1>14. CASE CreateClaim(p)
  BY <1>14 DEF CreateClaim
<1>15. CASE WriteClaim(p)
  BY <1>15 DEF WriteClaim
<1>16. CASE ReadClaim(p)
  BY <1>16 DEF ReadClaim
<1>17. CASE Confirm(p)
  BY <1>17 DEF Confirm
<1>18. CASE Unlink(p)
  BY <1>18 DEF Unlink
<1>19. CASE Recreate(p)
  BY <1>19 DEF Recreate
<1>20. CASE Rewrite(p)
  BY <1>20 DEF Rewrite
<1>21. CASE DropClaim(p)
  BY <1>21 DEF DropClaim
<1>22. CASE UnlinkClaim(p)
  BY <1>22 DEF UnlinkClaim
<1>23. CASE Recovered(p)
  BY <1>23 DEF Recovered
<1>24. CASE Release(p)
  BY <1>24 DEF Release
<1>25. CASE ReleaseUnlink(p)
  BY <1>25 DEF ReleaseUnlink
<1>26. CASE Crash(p)
  BY <1>26 DEF Crash
<1>. QED
  BY <1>10, <1>11, <1>12, <1>13, <1>14, <1>15, <1>16, <1>17, <1>18, <1>19, <1>20, <1>21, <1>22, <1>23, <1>24, <1>25, <1>26 DEF Step

-----------------------------------------------------------------------------
(* Tokens.                                                                  *)

LEMMA LeaveKeepsTokens ==
  ASSUME TypeOK, TokensDistinct, NEW p \in Proc, Leave(p), UNCHANGED lock
  PROVE  TokensDistinct'
<1>. USE NoTokenAssumption DEF Leave, Goto, Idle, Walking, Ending, TypeOK, Labels
<1>1. \A q \in Proc : tok'[q] # NoToken => q # p /\ tok'[q] = tok[q]
  OBVIOUS
<1>2. \A q \in Proc : owner'[q] # NoToken => q # p /\ owner'[q] = owner[q]
  OBVIOUS
<1>3. \A q \in Proc : pc'[q] = IF q = p THEN "idle" ELSE pc[q]
  OBVIOUS
<1>4. \A q \in Proc : Idle(q)' <=> tok'[q] = NoToken
  BY <1>3 DEF TokensDistinct
<1>5. \A q, r \in Proc : tok'[q] = tok'[r] /\ tok'[q] # NoToken => q = r
  BY <1>1 DEF TokensDistinct
<1>6. \A q \in Proc : tok'[q] = lock'.token /\ tok'[q] # NoToken => lock'.pid = q
  BY <1>1 DEF TokensDistinct
<1>7. \A q, r \in Proc : owner'[q] = tok'[r] => owner'[q] = NoToken
  BY <1>1, <1>2 DEF TokensDistinct
<1>8. lock' = NoFile \/ lock'.token \in Token
  BY DEF TokensDistinct
<1>9. \A q \in Proc : Walking(q)' \/ Ending(q)' => owner'[q] \in Token
  BY <1>2, <1>3 DEF TokensDistinct
<1>. QED  BY <1>4, <1>5, <1>6, <1>7, <1>8, <1>9 DEF TokensDistinct, NoFile

LEMMA HeldInMemory == \A q \in Proc : HeldBy(q) \subseteq InMemory
BY Zenon DEF InMemory

LEMMA TokensDistinctStep ==
  ASSUME IInv, NEW p \in Proc, Step(p) \/ Crash(p)
  PROVE  TokensDistinct'
<1>. USE DEF Goto, Push, locals, Idle, Walking, Ending
<1>1. TypeOK /\ TokensDistinct /\ Alive
  BY DEF IInv
<1>. USE <1>1, NoTokenAssumption DEF TypeOK, TokensDistinct, Labels
<1>10. CASE Start(p)
  <2>1. PICK t \in Token \ (OnDisk \cup InMemory) : tok' = [tok EXCEPT ![p] = t]
    BY <1>10 DEF Start
  <2>2. t # lock.token /\ \A q \in Proc : t # tok[q] /\ t # owner[q]
    <3>1. lock.token \in OnDisk
      BY DEF OnDisk
    <3>2. \A q \in Proc : {tok[q], owner[q]} \cup TokensOf(claims[q]) \subseteq InMemory
      BY HeldInMemory DEF HeldBy
    <3>. QED  BY <2>1, <3>1, <3>2
  <2>3. /\ pc[p] = "idle" /\ pc' = [pc EXCEPT ![p] = "open"]
        /\ UNCHANGED <<lock, owner>>
    BY <1>10 DEF Start
  <2>4. \A q \in Proc : tok'[q] = IF q = p THEN t ELSE tok[q]
    BY <2>1
  <2>. QED  BY <2>1, <2>2, <2>3, <2>4 DEF NoFile
<1>11. CASE Open(p)
  <2>1. pc[p] = "open" /\ UNCHANGED <<tok, owner>> /\ tok[p] \in Token
    BY <1>11 DEF Open
  <2>2. CASE lock = NoFile
    <3>1. /\ lock' = [token |-> tok[p], pid |-> p, written |-> FALSE]
          /\ pc' = [pc EXCEPT ![p] = "write"]
      BY <1>11, <2>2 DEF Open, Unwritten
    <3>. QED  BY <2>1, <3>1 DEF NoFile
  <2>3. CASE lock # NoFile
    <3>1. UNCHANGED lock /\ pc' = [pc EXCEPT ![p] = "read"]
      BY <1>11, <2>3 DEF Open
    <3>. QED  BY <2>1, <3>1 DEF NoFile
  <2>. QED  BY <2>2, <2>3
<1>12. CASE WriteRecord(p)
  BY <1>12 DEF WriteRecord, Write, Unwritten, Record
<1>13. CASE ReadOwner(p)
  <2>1. CASE ReadableDead(lock)
    <3>1. /\ pc[p] = "read" /\ pc' = [pc EXCEPT ![p] = "claim"]
          /\ owner' = [owner EXCEPT ![p] = lock.token]
          /\ UNCHANGED <<lock, tok>>
      BY <1>13, <2>1 DEF ReadOwner
    <3>2. lock.token \in Token /\ lock.pid \notin alive
      BY <2>1 DEF ReadableDead, IsDead, NoFile
    <3>3. \A q \in Proc : lock.token # tok[q]
      <4>. SUFFICES ASSUME NEW q \in Proc, lock.token = tok[q]  PROVE FALSE
        OBVIOUS
      <4>1. lock.pid = q /\ ~Idle(q)
        BY <3>2
      <4>. QED  BY <3>2, <4>1 DEF Alive
    <3>. QED  BY <3>1, <3>2, <3>3 DEF NoFile
  <2>2. CASE ~ReadableDead(lock)
    BY <1>13, <2>2, LeaveKeepsTokens DEF ReadOwner
  <2>. QED  BY <2>1, <2>2
<1>14. CASE CreateClaim(p)
  <2>1. CASE Leave(p)
    BY <1>14, <2>1, LeaveKeepsTokens DEF CreateClaim
  <2>2. CASE ~Leave(p)
    <3>1. /\ pc[p] = "claim" /\ UNCHANGED <<lock, tok, owner>>
          /\ pc' \in {[pc EXCEPT ![p] = "writeClaim"], [pc EXCEPT ![p] = "readClaim"]}
      BY <1>14, <2>2 DEF CreateClaim
    <3>. QED  BY <3>1 DEF NoFile
  <2>. QED  BY <2>1, <2>2
<1>15. CASE WriteClaim(p)
  BY <1>15 DEF WriteClaim
<1>16. CASE ReadClaim(p)
  <2>1. CASE Leave(p)
    BY <1>16, <2>1, LeaveKeepsTokens DEF ReadClaim
  <2>2. CASE ~Leave(p)
    <3>1. /\ pc[p] = "readClaim" /\ UNCHANGED <<lock, tok, owner>>
          /\ pc' = [pc EXCEPT ![p] = "claim"]
      BY <1>16, <2>2 DEF ReadClaim
    <3>. QED  BY <3>1 DEF NoFile
  <2>. QED  BY <2>1, <2>2
<1>17. CASE Confirm(p)
  BY <1>17 DEF Confirm
<1>18. CASE Unlink(p)
  BY <1>18 DEF Unlink, NoFile
<1>19. CASE Recreate(p)
  BY <1>19 DEF Recreate, Unwritten, NoFile
<1>20. CASE Rewrite(p)
  BY <1>20 DEF Rewrite, Write, Unwritten, Record
<1>21. CASE DropClaim(p)
  BY <1>21 DEF DropClaim, NoFile
<1>22. CASE UnlinkClaim(p)
  BY <1>22 DEF UnlinkClaim
<1>23. CASE Recovered(p)
  <2>1. CASE won[p]
    <3>1. /\ pc[p] = "drop" /\ UNCHANGED <<lock, tok, owner>>
          /\ pc' = [pc EXCEPT ![p] = "critical"]
      BY <1>23, <2>1 DEF Recovered
    <3>. QED  BY <3>1 DEF NoFile
  <2>2. CASE ~won[p]
    BY <1>23, <2>2, LeaveKeepsTokens DEF Recovered
  <2>. QED  BY <2>1, <2>2
<1>24. CASE Release(p)
  <2>1. CASE lock.written /\ lock.token = tok[p]
    <3>1. /\ pc[p] = "critical" /\ UNCHANGED <<lock, tok, owner>>
          /\ pc' = [pc EXCEPT ![p] = "release"]
      BY <1>24, <2>1 DEF Release
    <3>. QED  BY <3>1 DEF NoFile
  <2>2. CASE ~(lock.written /\ lock.token = tok[p])
    BY <1>24, <2>2, LeaveKeepsTokens DEF Release
  <2>. QED  BY <2>1, <2>2
<1>25. CASE ReleaseUnlink(p)
  BY <1>25 DEF ReleaseUnlink, NoFile, Leave
<1>26. CASE Crash(p)
  BY <1>26 DEF Crash
<1>. QED
  BY <1>10, <1>11, <1>12, <1>13, <1>14, <1>15, <1>16, <1>17, <1>18, <1>19, <1>20, <1>21, <1>22, <1>23, <1>24, <1>25, <1>26 DEF Step

-----------------------------------------------------------------------------
(* The owner's file.                                                        *)

\* A file has one creator, and NoFile none.
LEMMA OneCreator ==
  ASSUME TypeOK, TokensDistinct, NEW q \in Proc, Creating(q) \/ Owns(q)
  PROVE  /\ Unwritten(q) # NoFile /\ Record(q) # NoFile
         /\ \A r \in Proc : Unwritten(q) = Unwritten(r) => q = r
         /\ \A r \in Proc : Record(q) = Record(r) => q = r
         /\ \A r \in Proc : Record(q) # Unwritten(r)
<1>1. tok[q] # NoToken
  BY DEF TokensDistinct, Creating, Owns, Holds, Idle
<1>2. /\ Unwritten(q).token = tok[q] /\ Record(q).token = tok[q] /\ NoFile.token = NoToken
      /\ \A r \in Proc : /\ Unwritten(r).pid = r /\ Record(r).pid = r
                         /\ Unwritten(r).written = FALSE /\ Record(r).written = TRUE
  BY DEF Unwritten, Record, NoFile
<1>. QED  BY <1>1, <1>2

\* No other process touches the file of a live owner.
LEMMA OthersKeepFile ==
  ASSUME IInv, NEW p \in Proc, Step(p) \/ Crash(p),
         NEW q \in Proc \ {p}, Creating(q) \/ Owns(q)
  PROVE  lock' = lock
<1>1. TypeOK /\ TokensDistinct /\ Alive /\ OwnsFile /\ UnlinksDead /\ ChainOnDisk
  BY DEF IInv
<1>2. /\ lock # NoFile
      /\ lock = Unwritten(p) => FALSE
      /\ lock = Record(p) => FALSE
      /\ lock \in {Unwritten(q), Record(q)}
  <2>1. lock \in {Unwritten(q), Record(q)}
    BY <1>1 DEF OwnsFile
  <2>2. /\ Unwritten(q) # NoFile /\ Record(q) # NoFile
        /\ Unwritten(q).pid = q /\ Record(q).pid = q
        /\ Unwritten(p).pid = p /\ Record(p).pid = p
    BY <1>1, OneCreator DEF Unwritten, Record
  <2>. QED  BY <2>1, <2>2
<1>3. lock.pid = q /\ q \in alive
  <2>1. Unwritten(q).pid = q /\ Record(q).pid = q
    BY DEF Unwritten, Record
  <2>. QED  BY <1>1, <1>2, <2>1 DEF Alive, Creating, Owns, Holds
<1>10. CASE Start(p)
  BY <1>10 DEF Start
<1>11. CASE Open(p)
  BY <1>2, <1>11 DEF Open
<1>12. CASE WriteRecord(p)
  BY <1>2, <1>12 DEF WriteRecord, Write
<1>13. CASE ReadOwner(p)
  BY <1>13 DEF ReadOwner
<1>14. CASE CreateClaim(p)
  BY <1>14 DEF CreateClaim
<1>15. CASE WriteClaim(p)
  BY <1>15 DEF WriteClaim
<1>16. CASE ReadClaim(p)
  BY <1>16 DEF ReadClaim
<1>17. CASE Confirm(p)
  BY <1>17 DEF Confirm
<1>18. CASE Unlink(p)
  <2>1. pc[p] = "unlink"
    BY <1>18 DEF Unlink
  <2>2. Target(p)
    BY <1>1, <2>1 DEF UnlinksDead, Target, Walking
  <2>3. ReadableDead(lock)
    BY <1>1, <2>2 DEF ChainOnDisk, Chain
  <2>. QED  BY <1>3, <2>3 DEF ReadableDead, IsDead
<1>19. CASE Recreate(p)
  BY <1>2, <1>19 DEF Recreate
<1>20. CASE Rewrite(p)
  BY <1>2, <1>20 DEF Rewrite, Write
<1>21. CASE DropClaim(p)
  BY <1>21 DEF DropClaim
<1>22. CASE UnlinkClaim(p)
  BY <1>22 DEF UnlinkClaim
<1>23. CASE Recovered(p)
  BY <1>23 DEF Recovered
<1>24. CASE Release(p)
  BY <1>24 DEF Release
<1>25. CASE ReleaseUnlink(p)
  BY <1>1, <1>2, <1>25 DEF ReleaseUnlink, OwnsFile, Owns, Holds
<1>26. CASE Crash(p)
  BY <1>26 DEF Crash
<1>. QED
  BY <1>10, <1>11, <1>12, <1>13, <1>14, <1>15, <1>16, <1>17, <1>18, <1>19, <1>20, <1>21, <1>22, <1>23, <1>24, <1>25, <1>26 DEF Step

LEMMA OwnsFileStep ==
  ASSUME IInv, NEW p \in Proc, Step(p) \/ Crash(p)
  PROVE  OwnsFile'
<1>1. TypeOK /\ TokensDistinct /\ OwnsFile /\ OwnerGone
  BY DEF IInv
<1>2. ASSUME NEW q \in Proc \ {p}
      PROVE  /\ Creating(q)' => lock' = Unwritten(q)'
             /\ Owns(q)' => lock' = Record(q)'
             /\ won'[q] => Owns(q)'
  <2>1. /\ pc'[q] = pc[q] /\ tok'[q] = tok[q] /\ won'[q] = won[q]
    BY <1>1, OthersUntouched
  <2>2. /\ Creating(q)' <=> Creating(q)
        /\ Owns(q)' <=> Owns(q)
        /\ Unwritten(q)' = Unwritten(q)
        /\ Record(q)' = Record(q)
    BY <2>1 DEF Creating, Owns, Holds, Unwritten, Record
  <2>3. Creating(q) \/ Owns(q) => lock' = lock
    BY OthersKeepFile
  <2>. QED  BY <1>1, <2>1, <2>2, <2>3 DEF OwnsFile
<1>. DEFINE Good ==
  /\ Creating(p)' => lock' = Unwritten(p)'
  /\ Owns(p)' => lock' = Record(p)'
  /\ won'[p] => Owns(p)'
<1>3. Good
  <2>. USE <1>1 DEF TypeOK, OwnsFile, Creating, Owns, Holds, Unwritten, Record, Goto, Leave, Push, locals
  <2>10. CASE Start(p)
    BY <2>10 DEF Start
  <2>11. CASE Open(p)
    BY <2>11 DEF Open
  <2>12. CASE WriteRecord(p)
    BY <2>12 DEF WriteRecord, Write
  <2>13. CASE ReadOwner(p)
    BY <2>13 DEF ReadOwner
  <2>14. CASE CreateClaim(p)
    BY <2>14 DEF CreateClaim
  <2>15. CASE WriteClaim(p)
    BY <2>15 DEF WriteClaim
  <2>16. CASE ReadClaim(p)
    BY <2>16 DEF ReadClaim
  <2>17. CASE Confirm(p)
    BY <2>17 DEF Confirm
  <2>18. CASE Unlink(p)
    BY <2>18 DEF Unlink
  <2>19. CASE Recreate(p)
    BY <2>19 DEF Recreate
  <2>20. CASE Rewrite(p)
    BY <2>20 DEF Rewrite, Write
  <2>21. CASE DropClaim(p)
    BY <2>21 DEF DropClaim
  <2>22. CASE UnlinkClaim(p)
    BY <2>22 DEF UnlinkClaim
  <2>23. CASE Recovered(p)
    BY <2>23 DEF Recovered
  <2>24. CASE Release(p)
    BY <2>24 DEF Release
  <2>25. CASE ReleaseUnlink(p)
    BY <2>25 DEF ReleaseUnlink
  <2>26. CASE Crash(p)
    BY <2>26 DEF Crash
  <2>. QED
    BY <2>10, <2>11, <2>12, <2>13, <2>14, <2>15, <2>16, <2>17, <2>18, <2>19, <2>20, <2>21, <2>22, <2>23, <2>24, <2>25, <2>26 DEF Step
<1>. QED  BY <1>2, <1>3 DEF OwnsFile

-----------------------------------------------------------------------------
(* The lock of a dead owner and its recoverers.                             *)

LEMMA WithinDepthStep ==
  ASSUME IInv, NEW p \in Proc, Step(p) \/ Crash(p)
  PROVE  WithinDepth'
<1>1. TypeOK /\ WithinDepth
  BY DEF IInv
<1>2. \A q \in Proc \ {p} : pc'[q] = pc[q] /\ claims'[q] = claims[q]
  BY <1>1, OthersUntouched
<1>. DEFINE Good ==
  /\ pc'[p] \in {"writeClaim", "readClaim"} => Len(claims'[p]) < MaxDepth
  /\ pc'[p] = "unlinkClaim" => claims'[p] # <<>>
  /\ pc'[p] \in {"idle", "open", "read"} => claims'[p] = <<>>
<1>3. Good
  <2>. USE <1>1 DEF TypeOK, WithinDepth, Goto, Leave, Push, locals
  <2>10. CASE Start(p)
    BY <2>10 DEF Start
  <2>11. CASE Open(p)
    BY <2>11 DEF Open
  <2>12. CASE WriteRecord(p)
    BY <2>12 DEF WriteRecord
  <2>13. CASE ReadOwner(p)
    BY <2>13 DEF ReadOwner
  <2>14. CASE CreateClaim(p)
    BY <2>14 DEF CreateClaim
  <2>15. CASE WriteClaim(p)
    BY <2>15 DEF WriteClaim
  <2>16. CASE ReadClaim(p)
    BY <2>16 DEF ReadClaim
  <2>17. CASE Confirm(p)
    BY <2>17 DEF Confirm
  <2>18. CASE Unlink(p)
    BY <2>18 DEF Unlink
  <2>19. CASE Recreate(p)
    BY <2>19 DEF Recreate
  <2>20. CASE Rewrite(p)
    BY <2>20 DEF Rewrite
  <2>21. CASE DropClaim(p)
    BY <2>21 DEF DropClaim
  <2>22. CASE UnlinkClaim(p)
    BY <2>22 DEF UnlinkClaim
  <2>23. CASE Recovered(p)
    BY <2>23 DEF Recovered
  <2>24. CASE Release(p)
    BY <2>24 DEF Release
  <2>25. CASE ReleaseUnlink(p)
    BY <2>25 DEF ReleaseUnlink
  <2>26. CASE Crash(p)
    BY <2>26 DEF Crash
  <2>. QED
    BY <2>10, <2>11, <2>12, <2>13, <2>14, <2>15, <2>16, <2>17, <2>18, <2>19, <2>20, <2>21, <2>22, <2>23, <2>24, <2>25, <2>26 DEF Step
<1>. QED  BY <1>1, <1>2, <1>3 DEF WithinDepth

\* Two processes never both hold a claim for the lock on disk: the one that
\* walked further found the other dead.
LEMMA OneElected ==
  ASSUME IInv, NEW p \in Proc, NEW q \in Proc,
         Target(p), Target(q), Elected(p), Elected(q),
         Len(claims[p]) <= Len(claims[q])
  PROVE  p = q
<1>1. TypeOK /\ Alive /\ ChainOnDisk /\ OneChain
  BY DEF IInv
<1>. DEFINE n == Len(claims[p])
<1>2. n \in Nat \ {0} /\ n \in 1 .. Len(claims[p]) /\ n \in 1 .. Len(claims[q])
  <2>1. claims[p] \in Seq(Claim) /\ claims[p] # <<>> /\ claims[q] \in Seq(Claim)
    BY <1>1 DEF ChainOnDisk, Chain, TypeOK
  <2>2. Len(claims[p]) \in Nat \ {0} /\ Len(claims[q]) \in Nat
    BY <2>1, FrontType, LenProperties
  <2>. QED  BY <2>2
<1>3. claims[p][n] = claims[q][n]
  BY <1>1, <1>2 DEF OneChain
<1>4. LastPath(p) = <<owner[p], claims[p][n].parent>>
  BY DEF LastPath, LastClaim, Last
<1>5. claim[<<owner[p], claims[p][n].parent>>] = Record(p)
  BY <1>1, <1>4 DEF ChainOnDisk, Chain
<1>6. Record(p).pid = p /\ Record(q).pid = q /\ p \in alive
  BY <1>1 DEF Record, Unwritten, Alive, Elected
<1>7. owner[q] = owner[p]
  BY DEF Target
<1>8. CASE n < Len(claims[q])
  <2>1. IsDead(claim[<<owner[q], claims[q][n].parent>>].pid)
    BY <1>1, <1>2, <1>8 DEF ChainOnDisk, Chain
  <2>. QED  BY <2>1, <1>3, <1>5, <1>6, <1>7 DEF IsDead
<1>9. CASE n = Len(claims[q])
  <2>1. LastPath(q) = <<owner[q], claims[q][n].parent>>
    BY <1>9 DEF LastPath, LastClaim, Last
  <2>2. claim[<<owner[q], claims[q][n].parent>>] = Record(q)
    BY <1>1, <2>1 DEF ChainOnDisk, Chain
  <2>. QED  BY <2>2, <1>3, <1>5, <1>6, <1>7
<1>. QED  BY <1>2, <1>8, <1>9

\* Only an elected recoverer removes a dead owner's lock.
LEMMA DeadLockStays ==
  ASSUME IInv, NEW p \in Proc, Step(p) \/ Crash(p), NEW q \in Proc, Target(q)
  PROVE  lock' = lock \/ (pc[p] = "unlink" /\ Target(p) /\ lock' = NoFile)
<1>1. TypeOK /\ TokensDistinct /\ Alive /\ OwnsFile /\ UnlinksDead /\ ChainOnDisk
  BY DEF IInv
<1>2. ReadableDead(lock) /\ lock # NoFile
  BY <1>1 DEF ChainOnDisk, Chain, ReadableDead, NoFile
<1>3. ~Idle(p) => lock # Unwritten(p) /\ lock # Record(p)
  BY <1>1, <1>2 DEF ReadableDead, IsDead, Unwritten, Record, Alive, Idle
<1>10. CASE Start(p)
  BY <1>10 DEF Start
<1>11. CASE Open(p)
  BY <1>2, <1>11 DEF Open
<1>12. CASE WriteRecord(p)
  BY <1>3, <1>12 DEF WriteRecord, Write, Idle
<1>13. CASE ReadOwner(p)
  BY <1>13 DEF ReadOwner
<1>14. CASE CreateClaim(p)
  BY <1>14 DEF CreateClaim
<1>15. CASE WriteClaim(p)
  BY <1>15 DEF WriteClaim
<1>16. CASE ReadClaim(p)
  BY <1>16 DEF ReadClaim
<1>17. CASE Confirm(p)
  BY <1>17 DEF Confirm
<1>18. CASE Unlink(p)
  BY <1>1, <1>18 DEF Unlink, UnlinksDead, Target, Walking
<1>19. CASE Recreate(p)
  BY <1>2, <1>19 DEF Recreate
<1>20. CASE Rewrite(p)
  BY <1>3, <1>20 DEF Rewrite, Write, Idle
<1>21. CASE DropClaim(p)
  BY <1>21 DEF DropClaim
<1>22. CASE UnlinkClaim(p)
  BY <1>22 DEF UnlinkClaim
<1>23. CASE Recovered(p)
  BY <1>23 DEF Recovered
<1>24. CASE Release(p)
  BY <1>24 DEF Release
<1>25. CASE ReleaseUnlink(p)
  BY <1>1, <1>3, <1>25 DEF ReleaseUnlink, OwnsFile, Owns, Holds, Idle
<1>26. CASE Crash(p)
  BY <1>26 DEF Crash
<1>. QED
  BY <1>10, <1>11, <1>12, <1>13, <1>14, <1>15, <1>16, <1>17, <1>18, <1>19, <1>20, <1>21, <1>22, <1>23, <1>24, <1>25, <1>26 DEF Step

\* The token in the lock file changes to that of the process that moves, or to none.
LEMMA LockToken ==
  ASSUME TypeOK, NEW p \in Proc, Step(p) \/ Crash(p)
  PROVE  lock'.token \in {lock.token, NoToken, tok[p]} /\ (lock'.token = tok[p] => ~Idle(p) \/ lock' = lock)
<1>. USE DEF Idle, Unwritten, Record, NoFile
<1>10. CASE Start(p)
  BY <1>10 DEF Start
<1>11. CASE Open(p)
  BY <1>11 DEF Open
<1>12. CASE WriteRecord(p)
  BY <1>12 DEF WriteRecord, Write
<1>13. CASE ReadOwner(p)
  BY <1>13 DEF ReadOwner
<1>14. CASE CreateClaim(p)
  BY <1>14 DEF CreateClaim
<1>15. CASE WriteClaim(p)
  BY <1>15 DEF WriteClaim
<1>16. CASE ReadClaim(p)
  BY <1>16 DEF ReadClaim
<1>17. CASE Confirm(p)
  BY <1>17 DEF Confirm
<1>18. CASE Unlink(p)
  BY <1>18 DEF Unlink
<1>19. CASE Recreate(p)
  BY <1>19 DEF Recreate
<1>20. CASE Rewrite(p)
  BY <1>20 DEF Rewrite, Write
<1>21. CASE DropClaim(p)
  BY <1>21 DEF DropClaim
<1>22. CASE UnlinkClaim(p)
  BY <1>22 DEF UnlinkClaim
<1>23. CASE Recovered(p)
  BY <1>23 DEF Recovered
<1>24. CASE Release(p)
  BY <1>24 DEF Release
<1>25. CASE ReleaseUnlink(p)
  BY <1>25 DEF ReleaseUnlink
<1>26. CASE Crash(p)
  BY <1>26 DEF Crash
<1>. QED
  BY <1>10, <1>11, <1>12, <1>13, <1>14, <1>15, <1>16, <1>17, <1>18, <1>19, <1>20, <1>21, <1>22, <1>23, <1>24, <1>25, <1>26 DEF Step

\* A recoverer of the lock after another process's step was one before it.
LEMMA TargetKept ==
  ASSUME IInv, NEW p \in Proc, Step(p) \/ Crash(p), NEW q \in Proc \ {p}, Target(q)'
  PROVE  /\ Target(q) /\ lock' = lock
         /\ pc'[q] = pc[q] /\ tok'[q] = tok[q] /\ owner'[q] = owner[q] /\ claims'[q] = claims[q]
<1>1. TypeOK /\ TokensDistinct
  BY DEF IInv
<1>2. pc'[q] = pc[q] /\ tok'[q] = tok[q] /\ owner'[q] = owner[q] /\ claims'[q] = claims[q]
  BY <1>1, OthersUntouched
<1>3. Walking(q) /\ owner[q] = lock'.token
  BY <1>2 DEF Target, Walking
<1>4. owner[q] \in Token /\ owner[q] # NoToken /\ owner[q] # tok[p]
  BY <1>1, <1>3, NoTokenAssumption DEF TokensDistinct
<1>5. Target(q)
  BY <1>1, <1>3, <1>4, LockToken DEF Target
<1>6. lock' = lock
  BY <1>3, <1>4, <1>5, DeadLockStays DEF NoFile
<1>. QED  BY <1>2, <1>5, <1>6

LEMMA UnlinksDeadStep ==
  ASSUME IInv, NEW p \in Proc, Step(p) \/ Crash(p)
  PROVE  UnlinksDead'
<1>1. TypeOK /\ TokensDistinct /\ UnlinksDead /\ ChainOnDisk
  BY DEF IInv
<1>2. ASSUME NEW q \in Proc \ {p}, pc'[q] = "unlink"
      PROVE  lock'.token = owner'[q]
  <2>1. pc[q] = "unlink" /\ owner'[q] = owner[q]
    BY <1>1, <1>2, OthersUntouched
  <2>2. Target(q) /\ Elected(q)
    BY <1>1, <2>1 DEF UnlinksDead, Target, Walking, Elected
  <2>3. lock' = lock
    <3>1. SUFFICES ASSUME pc[p] = "unlink", Target(p)  PROVE FALSE
      BY <2>2, DeadLockStays
    <3>2. Elected(p)
      BY <3>1 DEF Elected
    <3>3. Len(claims[p]) \in Nat /\ Len(claims[q]) \in Nat
      BY <1>1, LenProperties DEF TypeOK
    <3>4. Len(claims[p]) <= Len(claims[q]) \/ Len(claims[q]) <= Len(claims[p])
      BY <3>3
    <3>. QED  BY <2>2, <3>1, <3>2, <3>4, OneElected
  <2>. QED  BY <1>1, <2>1, <2>3 DEF UnlinksDead
<1>3. pc'[p] = "unlink" => lock'.token = owner'[p]
  <2>. USE <1>1 DEF TypeOK, Goto, Leave, Push, locals
  <2>10. CASE Start(p)
    BY <2>10 DEF Start
  <2>11. CASE Open(p)
    BY <2>11 DEF Open
  <2>12. CASE WriteRecord(p)
    BY <2>12 DEF WriteRecord
  <2>13. CASE ReadOwner(p)
    BY <2>13 DEF ReadOwner
  <2>14. CASE CreateClaim(p)
    BY <2>14 DEF CreateClaim
  <2>15. CASE WriteClaim(p)
    BY <2>15 DEF WriteClaim
  <2>16. CASE ReadClaim(p)
    BY <2>16 DEF ReadClaim
  <2>17. CASE Confirm(p)
    BY <2>17 DEF Confirm
  <2>18. CASE Unlink(p)
    BY <2>18 DEF Unlink
  <2>19. CASE Recreate(p)
    BY <2>19 DEF Recreate
  <2>20. CASE Rewrite(p)
    BY <2>20 DEF Rewrite
  <2>21. CASE DropClaim(p)
    BY <2>21 DEF DropClaim
  <2>22. CASE UnlinkClaim(p)
    BY <2>22 DEF UnlinkClaim
  <2>23. CASE Recovered(p)
    BY <2>23 DEF Recovered
  <2>24. CASE Release(p)
    BY <2>24 DEF Release
  <2>25. CASE ReleaseUnlink(p)
    BY <2>25 DEF ReleaseUnlink
  <2>26. CASE Crash(p)
    BY <2>26 DEF Crash
  <2>. QED
    BY <2>10, <2>11, <2>12, <2>13, <2>14, <2>15, <2>16, <2>17, <2>18, <2>19, <2>20, <2>21, <2>22, <2>23, <2>24, <2>25, <2>26 DEF Step
<1>. QED  BY <1>1, <1>2, <1>3 DEF UnlinksDead

LEMMA OwnerGoneStep ==
  ASSUME IInv, NEW p \in Proc, Step(p) \/ Crash(p)
  PROVE  OwnerGone'
<1>1. TypeOK /\ TokensDistinct /\ OwnsFile /\ OwnerGone /\ ChainOnDisk /\ UnlinksDead
  BY DEF IInv
<1>2. ASSUME NEW q \in Proc \ {p}, Ending(q)'
      PROVE  owner'[q] # lock'.token
  <2>1. Ending(q) /\ owner'[q] = owner[q]
    BY <1>1, <1>2, OthersUntouched DEF Ending
  <2>2. owner[q] # lock.token /\ owner[q] # NoToken /\ owner[q] # tok[p]
    BY <1>1, <2>1, NoTokenAssumption DEF OwnerGone, TokensDistinct
  <2>. QED  BY <1>1, <2>1, <2>2, LockToken
<1>3. ASSUME Ending(p)'  PROVE  owner'[p] # lock'.token
  <2>. USE DEF TypeOK, Goto, Leave, Push, locals, Ending, Labels
  <2>1. Confirm(p) => owner[p] # lock.token
    <3>. SUFFICES ASSUME Confirm(p), owner[p] = lock.token, pc'[p] = "drop"  PROVE FALSE
      BY <1>1, <1>3 DEF Confirm
    <3>1. Target(p)
      BY DEF Confirm, Target, Walking
    <3>2. ReadableDead(lock)
      BY <1>1, <3>1 DEF ChainOnDisk, Chain
    <3>. QED  BY <1>1, <3>2 DEF Confirm
  <2>2. Ending(p) => owner[p] \in Token /\ owner[p] # NoToken /\ owner[p] # tok[p] /\ owner[p] # lock.token
    BY <1>1, NoTokenAssumption DEF TokensDistinct, OwnerGone
  <2>. USE <1>1, <1>3, <2>2
  <2>10. CASE Start(p)
    BY <2>10 DEF Start
  <2>11. CASE Open(p)
    BY <2>11 DEF Open
  <2>12. CASE WriteRecord(p)
    BY <2>12 DEF WriteRecord
  <2>13. CASE ReadOwner(p)
    BY <2>13 DEF ReadOwner
  <2>14. CASE CreateClaim(p)
    BY <2>14 DEF CreateClaim
  <2>15. CASE WriteClaim(p)
    BY <2>15 DEF WriteClaim
  <2>16. CASE ReadClaim(p)
    BY <2>16 DEF ReadClaim
  <2>17. CASE Confirm(p)
      BY <2>1, <2>17 DEF Confirm
  <2>18. CASE Unlink(p)
      BY <2>18, NoTokenAssumption DEF Unlink, NoFile, TokensDistinct, Walking
  <2>19. CASE Recreate(p)
      BY <2>19 DEF Recreate, Unwritten
  <2>20. CASE Rewrite(p)
      BY <2>20 DEF Rewrite, Write, Unwritten, Record
  <2>21. CASE DropClaim(p)
    BY <2>21 DEF DropClaim
  <2>22. CASE UnlinkClaim(p)
    BY <2>22 DEF UnlinkClaim
  <2>23. CASE Recovered(p)
    BY <2>23 DEF Recovered
  <2>24. CASE Release(p)
    BY <2>24 DEF Release
  <2>25. CASE ReleaseUnlink(p)
    BY <2>25 DEF ReleaseUnlink
  <2>26. CASE Crash(p)
    BY <2>26 DEF Crash
  <2>. QED
    BY <2>10, <2>11, <2>12, <2>13, <2>14, <2>15, <2>16, <2>17, <2>18, <2>19, <2>20, <2>21, <2>22, <2>23, <2>24, <2>25, <2>26 DEF Step
<1>. QED  BY <1>1, <1>2, <1>3 DEF OwnerGone

-----------------------------------------------------------------------------
(* The chain of claims.                                                     *)

\* While its owner's lock is on disk, a claim file is changed only by the
\* process that is writing it.
LEMMA ClaimsKept ==
  ASSUME IInv, NEW p \in Proc, Step(p) \/ Crash(p),
         NEW path \in Token \X (Token \cup {NoToken}), path[1] = lock.token,
         claim[path] # NoFile, claim[path] # Unwritten(p)
  PROVE  claim'[path] = claim[path]
<1>1. TypeOK /\ OwnerGone /\ TokensDistinct
  BY DEF IInv
<1>. USE <1>1 DEF TypeOK
<1>10. CASE Start(p)
  BY <1>10 DEF Start
<1>11. CASE Open(p)
  BY <1>11 DEF Open
<1>12. CASE WriteRecord(p)
  BY <1>12 DEF WriteRecord
<1>13. CASE ReadOwner(p)
  BY <1>13 DEF ReadOwner
<1>14. CASE CreateClaim(p)
  BY <1>14 DEF CreateClaim
<1>15. CASE WriteClaim(p)
  BY <1>15 DEF WriteClaim, Write
<1>16. CASE ReadClaim(p)
  BY <1>16 DEF ReadClaim
<1>17. CASE Confirm(p)
  BY <1>17 DEF Confirm
<1>18. CASE Unlink(p)
  BY <1>18 DEF Unlink
<1>19. CASE Recreate(p)
  BY <1>19 DEF Recreate
<1>20. CASE Rewrite(p)
  BY <1>20 DEF Rewrite
<1>21. CASE DropClaim(p)
  BY <1>21 DEF DropClaim
<1>22. CASE UnlinkClaim(p)
  <2>1. owner[p] # lock.token
    BY <1>22 DEF UnlinkClaim, OwnerGone, Ending
  <2>2. path # LastPath(p)
    BY <2>1 DEF LastPath
  <2>. QED  BY <1>22, <2>2 DEF UnlinkClaim
<1>23. CASE Recovered(p)
  BY <1>23 DEF Recovered
<1>24. CASE Release(p)
  BY <1>24 DEF Release
<1>25. CASE ReleaseUnlink(p)
  BY <1>25 DEF ReleaseUnlink
<1>26. CASE Crash(p)
  BY <1>26 DEF Crash
<1>. QED
  BY <1>10, <1>11, <1>12, <1>13, <1>14, <1>15, <1>16, <1>17, <1>18, <1>19, <1>20, <1>21, <1>22, <1>23, <1>24, <1>25, <1>26 DEF Step

\* Every claim a recoverer has walked names a path on which a claim may be.
LEMMA ChainPath ==
  ASSUME TypeOK, TokensDistinct, NEW q \in Proc, Walking(q)
  PROVE  /\ owner[q] \in Token
         /\ ClaimPath(q) \in Token \X (Token \cup {NoToken})
         /\ Len(claims[q]) \in Nat
         /\ \A i \in 1 .. Len(claims[q]) :
              /\ claims[q][i] \in Claim
              /\ <<owner[q], claims[q][i].parent>> \in Token \X (Token \cup {NoToken})
         /\ claims[q] # <<>> =>
              /\ Len(claims[q]) \in 1 .. Len(claims[q])
              /\ LastClaim(q) = claims[q][Len(claims[q])]
<1>1. owner[q] \in Token /\ claims[q] \in Seq(Claim)
  BY DEF TokensDistinct, TypeOK
<1>2. Len(claims[q]) \in Nat /\ \A i \in 1 .. Len(claims[q]) : claims[q][i] \in Claim
  BY <1>1, LenProperties, ElementOfSeq
<1>3. claims[q] # <<>> => /\ Len(claims[q]) \in 1 .. Len(claims[q]) /\ Last(claims[q]) \in Claim
                          /\ Last(claims[q]) = claims[q][Len(claims[q])]
  BY <1>1, <1>2, FrontType DEF Last
<1>4. Parent(claims[q]) \in Token \cup {NoToken}
  BY <1>3 DEF Parent, Claim
<1>. QED  BY <1>1, <1>2, <1>3, <1>4 DEF ClaimPath, LastClaim, Claim

LEMMA ChainOfAnother ==
  ASSUME IInv, NEW p \in Proc, Step(p) \/ Crash(p), NEW q \in Proc \ {p}, Target(q)'
  PROVE  Chain(q)'
<1>1. TypeOK /\ TokensDistinct /\ ChainOnDisk
  BY DEF IInv
<1>2. /\ Target(q) /\ lock' = lock /\ pc'[q] = pc[q] /\ tok'[q] = tok[q]
      /\ owner'[q] = owner[q] /\ claims'[q] = claims[q]
  BY TargetKept
<1>3. Chain(q)
  BY <1>1, <1>2 DEF ChainOnDisk, Chain
<1>4. alive' \subseteq alive
  <2>1. CASE Crash(p)
    BY <2>1 DEF Crash
  <2>2. CASE Step(p)
    BY <2>2 DEF Step, Start, Open, WriteRecord, ReadOwner, CreateClaim, WriteClaim, ReadClaim, Confirm,
      Unlink, Recreate, Rewrite, DropClaim, UnlinkClaim, Recovered, Release, ReleaseUnlink, env
  <2>. QED  BY <2>1, <2>2
<1>5. Walking(q) /\ owner[q] = lock.token
  BY <1>2 DEF Target
<1>6. Unwritten(p).pid = p /\ Unwritten(p).written = FALSE /\ Unwritten(q).pid = q /\ Record(q).pid = q
      /\ Record(q).written = TRUE /\ NoFile.written = FALSE /\ Unwritten(q) # NoFile /\ Record(q) # NoFile
  <2>1. tok[q] # NoToken
    BY <1>1, <1>5 DEF TokensDistinct, Idle, Walking
  <2>. QED  BY <2>1 DEF Unwritten, Record, NoFile
<1>7. \A path \in Token \X (Token \cup {NoToken}) :
        path[1] = owner[q] /\ (claim[path].written \/ claim[path] = Unwritten(q)) => claim'[path] = claim[path]
  BY <1>5, <1>6, ClaimsKept
<1>8. pc'[q] = "writeClaim" => claim'[ClaimPath(q)'] = Unwritten(q)'
  <2>1. ClaimPath(q)' = ClaimPath(q) /\ ClaimPath(q)[1] = owner[q] /\ Unwritten(q)' = Unwritten(q)
    BY <1>2 DEF ClaimPath, Unwritten
  <2>. QED  BY <1>1, <1>2, <1>3, <1>5, <1>7, <2>1, ChainPath DEF Chain
<1>9. Elected(q)' => claims'[q] # <<>> /\ claim'[LastPath(q)'] = Record(q)'
  <2>1. (Elected(q)' <=> Elected(q)) /\ LastPath(q)' = LastPath(q) /\ Record(q)' = Record(q)
    BY <1>2 DEF Elected, LastPath, LastClaim, Record, Unwritten
  <2>2. claims[q] # <<>> => LastPath(q) \in Token \X (Token \cup {NoToken}) /\ LastPath(q)[1] = owner[q]
    BY <1>1, <1>5, ChainPath DEF LastPath
  <2>. QED  BY <1>2, <1>3, <1>6, <1>7, <2>1, <2>2 DEF Chain
<1>10. ASSUME NEW i \in 1 .. Len(claims[q])
       PROVE  LET file == claim'[<<owner[q], claims[q][i].parent>>] IN
                /\ file.written
                /\ file.token = claims[q][i].token
                /\ i < Len(claims[q]) \/ ~Elected(q) => file.pid \notin alive'
  <2>. DEFINE path == <<owner[q], claims[q][i].parent>>
  <2>1. path \in Token \X (Token \cup {NoToken}) /\ path[1] = owner[q]
    BY <1>1, <1>5, ChainPath
  <2>2. /\ claim[path].written /\ claim[path].token = claims[q][i].token
        /\ i < Len(claims[q]) \/ ~Elected(q) => claim[path].pid \notin alive
    BY <1>3 DEF Chain, IsDead
  <2>3. claim'[path] = claim[path]
    BY <1>7, <2>1, <2>2
  <2>. QED  BY <1>4, <2>2, <2>3
<1>11. Elected(q)' <=> Elected(q)
  BY <1>2 DEF Elected
<1>12. ReadableDead(lock)'
  BY <1>2, <1>3, <1>4 DEF Chain, ReadableDead, IsDead
<1>. QED  BY <1>2, <1>3, <1>8, <1>9, <1>10, <1>11, <1>12 DEF Chain, IsDead

\* A recoverer that has just found, or is about to create, a claim.
LEMMA Extend ==
  ASSUME IInv, NEW p \in Proc, NEW q \in Proc, Target(p), Target(q),
         Len(claims[p]) < Len(claims[q])
  PROVE  LET n == Len(claims[p]) + 1 IN
           /\ claims[q][n].parent = Parent(claims[p])
           /\ claim[ClaimPath(p)].written
           /\ claim[ClaimPath(p)].token = claims[q][n].token
<1>1. TypeOK /\ TokensDistinct /\ ChainOnDisk /\ OneChain
  BY DEF IInv
<1>2. Walking(p) /\ Walking(q) /\ owner[p] = owner[q]
  BY DEF Target
<1>. DEFINE n == Len(claims[p])
<1>3. n \in Nat /\ Len(claims[q]) \in Nat /\ n + 1 \in 1 .. Len(claims[q])
  BY <1>1, <1>2, ChainPath
<1>4. /\ claims[q][n + 1].parent = IF n + 1 = 1 THEN NoToken ELSE claims[q][n + 1 - 1].token
      /\ claim[<<owner[q], claims[q][n + 1].parent>>].written
      /\ claim[<<owner[q], claims[q][n + 1].parent>>].token = claims[q][n + 1].token
  <2>1. Chain(q)
    BY <1>1 DEF ChainOnDisk
  <2>2. \A i \in 1 .. Len(claims[q]) :
           /\ claims[q][i].parent = IF i = 1 THEN NoToken ELSE claims[q][i - 1].token
           /\ claim[<<owner[q], claims[q][i].parent>>].written
           /\ claim[<<owner[q], claims[q][i].parent>>].token = claims[q][i].token
    BY ONLY <2>1 DEF Chain
  <2>. HIDE DEF n
  <2>. QED  BY ONLY <1>3, <2>2
<1>5. claims[q][n + 1].parent = Parent(claims[p])
  <2>1. CASE claims[p] = <<>>
    BY <1>3, <1>4, <2>1 DEF Parent
  <2>2. CASE claims[p] # <<>>
    <3>1. n \in 1 .. n /\ Last(claims[p]) = claims[p][n] /\ n # 0
      BY <1>1, <1>2, <2>2, ChainPath DEF LastClaim
    <3>2. claims[p][n] = claims[q][n]
      BY <1>1, <1>3, <3>1 DEF OneChain
    <3>3. n + 1 - 1 = n /\ n + 1 # 1
      BY <1>3, <3>1
    <3>. QED  BY <1>4, <2>2, <3>1, <3>2, <3>3 DEF Parent
  <2>. QED  BY <2>1, <2>2
<1>. QED  BY <1>2, <1>4, <1>5 DEF ClaimPath

\* The claim a recoverer appends: its place and what stands before it.
LEMMA PushChain ==
  ASSUME TypeOK, TokensDistinct, NEW p \in Proc, Walking(p), NEW t \in Token, Push(p, t)
  PROVE  LET n == Len(claims[p]) + 1 IN
           /\ Len(claims'[p]) = n
           /\ claims'[p] # <<>>
           /\ claims'[p][n] = [parent |-> Parent(claims[p]), token |-> t]
           /\ Last(claims'[p]) = [parent |-> Parent(claims[p]), token |-> t]
           /\ \A i \in 1 .. Len(claims[p]) : claims'[p][i] = claims[p][i]
           /\ Parent(claims[p]) = IF n = 1 THEN NoToken ELSE claims[p][n - 1].token
<1>. DEFINE c == [parent |-> Parent(claims[p]), token |-> t]
<1>1. claims[p] \in Seq(Claim) /\ Len(claims[p]) \in Nat /\ claims'[p] = Append(claims[p], c)
  BY ChainPath DEF TypeOK, Push
<1>2. c \in Claim
  BY ChainPath DEF Claim, ClaimPath
<1>. HIDE DEF c
<1>3. /\ Append(claims[p], c) # <<>>
      /\ Len(Append(claims[p], c)) = Len(claims[p]) + 1
      /\ \A i \in 1 .. Len(claims[p]) : Append(claims[p], c)[i] = claims[p][i]
      /\ Append(claims[p], c)[Len(claims[p]) + 1] = c
  BY <1>1, <1>2, AppendProperties
<1>4. Last(claims'[p]) = c
  BY <1>1, <1>3 DEF Last
<1>5. Parent(claims[p]) = IF Len(claims[p]) + 1 = 1 THEN NoToken ELSE claims[p][Len(claims[p]) + 1 - 1].token
  <2>1. CASE claims[p] = <<>>
    BY <2>1 DEF Parent
  <2>2. CASE claims[p] # <<>>
    <3>1. Len(claims[p]) # 0 /\ Len(claims[p]) + 1 # 1 /\ Len(claims[p]) + 1 - 1 = Len(claims[p])
      BY <1>1, <2>2, EmptySeq
    <3>. QED  BY <2>2, <3>1 DEF Parent, Last
  <2>. QED  BY <2>1, <2>2
<1>. QED  BY <1>1, <1>3, <1>4, <1>5 DEF c

LEMMA ChainOfMover ==
  ASSUME IInv, NEW p \in Proc, Step(p) \/ Crash(p), Target(p)'
  PROVE  Chain(p)'
<1>1. TypeOK /\ TokensDistinct /\ Alive /\ ChainOnDisk /\ WithinDepth
  BY DEF IInv
<1>. USE DEF TypeOK, Labels, Goto, locals, env
<1>2. Walking(p)' /\ owner'[p] = lock'.token
  BY DEF Target
<1>3. CASE ReadOwner(p)
  <2>1. /\ ReadableDead(lock) /\ UNCHANGED <<lock, alive, claims>> /\ pc' = [pc EXCEPT ![p] = "claim"]
        /\ claims[p] = <<>> /\ pc[p] = "read"
    BY <1>1, <1>2, <1>3 DEF ReadOwner, Walking, Leave, WithinDepth
  <2>2. pc'[p] = "claim" /\ claims'[p] = <<>> /\ ReadableDead(lock)'
    BY <1>1, <2>1 DEF ReadableDead, IsDead
  <2>3. Len(claims'[p]) = 0
    BY <2>2
  <2>. QED  BY <2>2, <2>3 DEF Chain, Elected
<1>4. CASE CreateClaim(p)
  <2>1. pc[p] = "claim" /\ UNCHANGED <<lock, alive, tok, owner, claims>>
    BY <1>1, <1>2, <1>4 DEF CreateClaim, Walking, Leave
  <2>2. \/ pc'[p] = "readClaim" /\ UNCHANGED claim
        \/ /\ pc'[p] = "writeClaim" /\ claim[ClaimPath(p)] = NoFile
           /\ claim' = [claim EXCEPT ![ClaimPath(p)] = Unwritten(p)]
    BY <1>1, <1>2, <1>4 DEF CreateClaim, Walking, Leave
  <2>3. Target(p) /\ Chain(p) /\ Walking(p)
    BY <1>1, <1>2, <2>1 DEF Target, Walking, ChainOnDisk
  <2>4. ClaimPath(p) \in DOMAIN claim /\ ClaimPath(p)' = ClaimPath(p) /\ Unwritten(p)' = Unwritten(p)
    BY <1>1, <2>1, <2>3, ChainPath DEF ClaimPath, Unwritten
  <2>5. pc'[p] = "writeClaim" => claim'[ClaimPath(p)'] = Unwritten(p)'
    BY <2>2, <2>4
  <2>6. \A path \in DOMAIN claim : claim[path].written => claim'[path] = claim[path]
    BY <1>1, <2>2 DEF NoFile
  <2>7. ~Elected(p)' /\ ~Elected(p)
    BY <2>1, <2>2 DEF Elected
  <2>8. \A i \in 1 .. Len(claims[p]) :
          LET path == <<owner[p], claims[p][i].parent>> IN
            /\ claims[p][i].parent = IF i = 1 THEN NoToken ELSE claims[p][i - 1].token
            /\ claim'[path].written /\ claim'[path].token = claims[p][i].token
            /\ claim'[path].pid \notin alive
    <3>. TAKE i \in 1 .. Len(claims[p])
    <3>1. <<owner[p], claims[p][i].parent>> \in DOMAIN claim
      BY <1>1, <2>3, ChainPath
    <3>. QED  BY <2>3, <2>6, <2>7, <3>1 DEF Chain, IsDead
  <2>9. ReadableDead(lock)'
    BY <2>1, <2>3 DEF Chain, ReadableDead, IsDead
  <2>. QED  BY <2>1, <2>5, <2>7, <2>8, <2>9 DEF Chain, IsDead
<1>5. CASE Confirm(p)
  <2>1. pc[p] = "confirm" /\ pc'[p] = "unlink" /\ UNCHANGED <<lock, claim, alive, tok, owner, claims>>
    BY <1>1, <1>2, <1>5 DEF Confirm, Walking
  <2>2. Chain(p)
    BY <1>1, <1>2, <2>1 DEF Target, Walking, ChainOnDisk
  <2>3. /\ ReadableDead(lock)' <=> ReadableDead(lock)
        /\ Elected(p) /\ Elected(p)'
        /\ LastPath(p)' = LastPath(p) /\ Record(p)' = Record(p)
    BY <2>1 DEF ReadableDead, IsDead, Elected, LastPath, LastClaim, Record, Unwritten
  <2>. QED  BY <2>1, <2>2, <2>3 DEF Chain, IsDead
<1>6. ASSUME NEW t \in Token, Push(p, t), Chain(p), Walking(p), ~Elected(p),
             UNCHANGED <<lock, alive, tok, owner>>,
             \A path \in DOMAIN claim : claim[path].written => claim'[path] = claim[path],
             claim'[ClaimPath(p)].written, claim'[ClaimPath(p)].token = t,
             pc'[p] # "writeClaim",
             Elected(p)' => claim'[ClaimPath(p)] = Record(p),
             ~Elected(p)' => claim'[ClaimPath(p)].pid \notin alive
      PROVE  Chain(p)'
  <2>. DEFINE n == Len(claims[p]) + 1
  <2>1. /\ Len(claims'[p]) = n /\ claims'[p] # <<>>
        /\ claims'[p][n] = [parent |-> Parent(claims[p]), token |-> t]
        /\ Last(claims'[p]) = [parent |-> Parent(claims[p]), token |-> t]
        /\ \A i \in 1 .. Len(claims[p]) : claims'[p][i] = claims[p][i]
        /\ Parent(claims[p]) = IF n = 1 THEN NoToken ELSE claims[p][n - 1].token
    BY <1>1, <1>6, PushChain
  <2>2. Len(claims[p]) \in Nat
    BY <1>1, <1>6, ChainPath
  <2>3. claim'[<<owner[p], Parent(claims[p])>>] = claim'[ClaimPath(p)]
    BY DEF ClaimPath
  <2>4. LastPath(p)' = ClaimPath(p) /\ Record(p)' = Record(p)
    BY <1>6, <2>1 DEF LastPath, LastClaim, ClaimPath, Record, Unwritten
  <2>5. ASSUME NEW i \in 1 .. Len(claims'[p])
        PROVE  LET file == claim'[<<owner'[p], claims'[p][i].parent>>] IN
                 /\ claims'[p][i].parent = IF i = 1 THEN NoToken ELSE claims'[p][i - 1].token
                 /\ file.written
                 /\ file.token = claims'[p][i].token
                 /\ i < Len(claims'[p]) \/ ~Elected(p)' => file.pid \notin alive'
    <3>1. CASE i = n
      <4>1. claims'[p][i].parent = IF i = 1 THEN NoToken ELSE claims'[p][i - 1].token
        <5>1. n # 1 => n - 1 \in 1 .. Len(claims[p])
          BY <2>2
        <5>. HIDE DEF n
        <5>. QED  BY <2>1, <3>1, <5>1
      <4>. HIDE DEF n
      <4>. QED  BY <1>6, <2>1, <2>3, <3>1, <4>1
    <3>2. CASE i # n
      <4>1. i \in 1 .. Len(claims[p]) /\ (i # 1 => i - 1 \in 1 .. Len(claims[p]))
        BY <2>1, <2>2, <3>2
      <4>2. claims'[p][i] = claims[p][i] /\ (i # 1 => claims'[p][i - 1] = claims[p][i - 1])
        BY <2>1, <4>1
      <4>3. LET file == claim[<<owner[p], claims[p][i].parent>>] IN
              /\ claims[p][i].parent = IF i = 1 THEN NoToken ELSE claims[p][i - 1].token
              /\ file.written
              /\ file.token = claims[p][i].token
              /\ file.pid \notin alive
        BY <1>6, <4>1 DEF Chain, IsDead
      <4>4. <<owner[p], claims[p][i].parent>> \in DOMAIN claim
        BY <1>1, <1>6, <4>1, ChainPath
      <4>. QED  BY <1>6, <4>2, <4>3, <4>4
    <3>. QED  BY <3>1, <3>2
  <2>6. ReadableDead(lock)'
    BY <1>6 DEF Chain, ReadableDead, IsDead
  <2>. QED  BY <1>6, <2>1, <2>4, <2>5, <2>6 DEF Chain, IsDead
<1>7. CASE WriteClaim(p)
  <2>1. /\ pc[p] = "writeClaim" /\ pc'[p] = "confirm" /\ Push(p, tok[p])
        /\ UNCHANGED <<lock, alive, tok, owner>>
        /\ claim' = [claim EXCEPT ![ClaimPath(p)] = Write(@, p)]
    BY <1>1, <1>7 DEF WriteClaim
  <2>2. Target(p) /\ Chain(p) /\ Walking(p) /\ ~Elected(p) /\ Elected(p)'
    BY <1>1, <1>2, <2>1 DEF Target, Walking, ChainOnDisk, Elected
  <2>3. claim[ClaimPath(p)] = Unwritten(p) /\ tok[p] \in Token /\ ClaimPath(p) \in DOMAIN claim
    BY <1>1, <2>1, <2>2, ChainPath DEF Chain, TokensDistinct, Idle
  <2>4. claim'[ClaimPath(p)] = Record(p)
    BY <1>1, <2>1, <2>3 DEF Write
  <2>5. /\ Record(p).written /\ Record(p).token = tok[p] /\ ~Unwritten(p).written
    BY DEF Record, Unwritten
  <2>6. \A path \in DOMAIN claim : claim[path].written => claim'[path] = claim[path]
    BY <1>1, <2>1, <2>3, <2>5
  <2>7. pc'[p] # "writeClaim"
    BY <2>1
  <2>. QED  BY <1>6, <2>1, <2>2, <2>3, <2>4, <2>5, <2>6, <2>7
<1>9. CASE ReadClaim(p)
  <2>. DEFINE t == claim[ClaimPath(p)].token
  <2>1. /\ pc[p] = "readClaim" /\ pc'[p] = "claim" /\ Push(p, t) /\ ReadableDead(claim[ClaimPath(p)])
        /\ UNCHANGED <<lock, claim, alive, tok, owner>>
    BY <1>1, <1>2, <1>9 DEF ReadClaim, Leave, Walking
  <2>2. Target(p) /\ Chain(p) /\ Walking(p) /\ ~Elected(p) /\ ~Elected(p)'
    BY <1>1, <1>2, <2>1 DEF Target, Walking, ChainOnDisk, Elected
  <2>3. t \in Token
    <3>1. claim[ClaimPath(p)] \in File
      BY <1>1, <2>2, ChainPath
    <3>. QED  BY <2>1, <3>1 DEF File, NoFile, ReadableDead
  <2>4. /\ claim'[ClaimPath(p)].written /\ claim'[ClaimPath(p)].token = t
        /\ claim'[ClaimPath(p)].pid \notin alive
    BY <2>1 DEF ReadableDead, IsDead
  <2>5. \A path \in DOMAIN claim : claim[path].written => claim'[path] = claim[path]
    BY <2>1
  <2>6. pc'[p] # "writeClaim"
    BY <2>1
  <2>. HIDE DEF t
  <2>. QED  BY <1>6, <2>1, <2>2, <2>3, <2>4, <2>5, <2>6
<1>8. CASE ~(ReadOwner(p) \/ CreateClaim(p) \/ WriteClaim(p) \/ ReadClaim(p) \/ Confirm(p))
  <2>1. ~Walking(p)'
    BY <1>1, <1>8 DEF Step, Start, Open, WriteRecord, Unlink, Recreate, Rewrite, DropClaim, UnlinkClaim,
      Recovered, Release, ReleaseUnlink, Crash, Leave, Walking
  <2>. QED  BY <1>2, <2>1
<1>. QED  BY <1>3, <1>4, <1>5, <1>7, <1>8, <1>9

LEMMA ChainOnDiskStep ==
  ASSUME IInv, NEW p \in Proc, Step(p) \/ Crash(p)
  PROVE  ChainOnDisk'
<1>1. ASSUME NEW q \in Proc, Target(q)'
      PROVE  Chain(q)'
  BY <1>1, ChainOfMover, ChainOfAnother
<1>. QED  BY <1>1 DEF ChainOnDisk

LEMMA OneChainStep ==
  ASSUME IInv, NEW p \in Proc, Step(p) \/ Crash(p)
  PROVE  OneChain'
<1>1. TypeOK /\ TokensDistinct /\ Alive /\ ChainOnDisk /\ OneChain /\ WithinDepth
  BY DEF IInv
<1>2. ASSUME NEW q \in Proc \ {p}, NEW r \in Proc \ {p}, Target(q)', Target(r)',
             NEW i \in 1 .. Len(claims'[q]), i <= Len(claims'[r])
      PROVE  claims'[q][i] = claims'[r][i]
  <2>1. Target(q) /\ Target(r) /\ claims'[q] = claims[q] /\ claims'[r] = claims[r]
    BY <1>2, TargetKept
  <2>. QED  BY <1>1, <1>2, <2>1 DEF OneChain
<1>3. ASSUME NEW r \in Proc \ {p}, Target(p)', Target(r)',
             NEW i \in Nat, 1 <= i, i <= Len(claims'[p]), i <= Len(claims'[r])
      PROVE  claims'[p][i] = claims'[r][i]
  <2>1. Target(r) /\ claims'[r] = claims[r] /\ lock' = lock /\ Walking(r) /\ Walking(p)'
    BY <1>3, TargetKept DEF Target
  <2>. DEFINE n == Len(claims[p])
  <2>2. Len(claims[r]) \in Nat /\ n \in Nat
    BY <1>1, LenProperties DEF TypeOK
  <2>3. CASE Target(p) /\ claims'[p] = claims[p]
    BY <1>1, <1>3, <2>1, <2>2, <2>3 DEF OneChain
  <2>4. CASE Target(p) /\ \E t \in Token : Push(p, t) /\ (n < Len(claims[r]) => claim[ClaimPath(p)].written /\ t = claim[ClaimPath(p)].token)
    <3>1. PICK t \in Token : Push(p, t) /\ (n < Len(claims[r]) => claim[ClaimPath(p)].written /\ t = claim[ClaimPath(p)].token)
      BY <2>4
    <3>2. Walking(p)
      BY <2>4 DEF Target
    <3>3. /\ Len(claims'[p]) = n + 1
          /\ claims'[p][n + 1] = [parent |-> Parent(claims[p]), token |-> t]
          /\ \A j \in 1 .. n : claims'[p][j] = claims[p][j]
      BY <1>1, <3>1, <3>2, PushChain
    <3>4. CASE i = n + 1
      <4>1. n < Len(claims[r])
        BY <1>3, <2>1, <2>2, <3>4
      <4>2. /\ claims[r][n + 1].parent = Parent(claims[p])
            /\ claim[ClaimPath(p)].token = claims[r][n + 1].token
        BY <2>1, <2>4, <4>1, Extend
      <4>3. claims[r][n + 1] \in Claim
        <5>1. n + 1 \in 1 .. Len(claims[r])
          BY <2>2, <4>1
        <5>. QED  BY <1>1, <2>1, <5>1, ChainPath
      <4>4. claims[r][n + 1] = [parent |-> Parent(claims[p]), token |-> t]
        BY <3>1, <4>1, <4>2, <4>3 DEF Claim
      <4>. QED  BY <2>1, <3>3, <3>4, <4>4
    <3>5. CASE i # n + 1
      <4>1. i \in 1 .. n
        BY <1>3, <2>2, <3>3, <3>5
      <4>. QED  BY <1>1, <1>3, <2>1, <2>4, <3>3, <4>1 DEF OneChain
    <3>. QED  BY <3>4, <3>5
  <2>5. CASE claims'[p] = <<>>
    <3>1. Len(claims'[p]) = 0
      BY <2>5
    <3>. QED  BY <1>3, <3>1
  <2>. USE DEF TypeOK, Goto, locals, env, Labels
  <2>6. CASE ReadOwner(p)
    BY <1>1, <2>1, <2>5, <2>6 DEF ReadOwner, Walking, Leave, WithinDepth
  <2>7. CASE CreateClaim(p) \/ Confirm(p)
    <3>1. pc[p] \in {"claim", "confirm"} /\ UNCHANGED <<owner, claims>>
      BY <1>1, <2>1, <2>7 DEF CreateClaim, Confirm, Walking, Leave
    <3>2. Target(p)
      BY <1>3, <2>1, <3>1 DEF Target, Walking
    <3>. QED  BY <2>3, <3>1, <3>2
  <2>8. CASE WriteClaim(p)
    <3>1. pc[p] = "writeClaim" /\ owner' = owner /\ Push(p, tok[p])
      BY <2>8 DEF WriteClaim
    <3>2. Target(p) /\ tok[p] \in Token
      BY <1>1, <1>3, <2>1, <3>1 DEF Target, Walking, TokensDistinct, Idle
    <3>3. claim[ClaimPath(p)] = Unwritten(p)
      BY <1>1, <3>1, <3>2 DEF ChainOnDisk, Chain
    <3>4. ~(n < Len(claims[r]))
      BY <2>1, <3>2, <3>3, Extend DEF Unwritten
    <3>. QED  BY <2>4, <3>1, <3>2, <3>4
  <2>9. CASE ReadClaim(p)
    <3>1. /\ pc[p] = "readClaim" /\ owner' = owner /\ Push(p, claim[ClaimPath(p)].token)
          /\ ReadableDead(claim[ClaimPath(p)])
      BY <1>1, <2>1, <2>9 DEF ReadClaim, Leave, Walking
    <3>2. Target(p) /\ Walking(p)
      BY <1>3, <2>1, <3>1 DEF Target, Walking
    <3>3. claim[ClaimPath(p)] \in File
      BY <1>1, <3>2, ChainPath
    <3>4. claim[ClaimPath(p)].written /\ claim[ClaimPath(p)].token \in Token
      BY <3>1, <3>3 DEF File, NoFile, ReadableDead
    <3>. QED  BY <2>4, <3>1, <3>2, <3>4
  <2>10. CASE ~(ReadOwner(p) \/ CreateClaim(p) \/ WriteClaim(p) \/ ReadClaim(p) \/ Confirm(p))
    <3>1. ~Walking(p)'
      BY <1>1, <2>10 DEF Step, Start, Open, WriteRecord, Unlink, Recreate, Rewrite, DropClaim, UnlinkClaim,
        Recovered, Release, ReleaseUnlink, Crash, Leave, Walking
    <3>. QED  BY <2>1, <3>1
  <2>. QED  BY <2>6, <2>7, <2>8, <2>9, <2>10
<1>4. \A q \in Proc : Target(q)' => Len(claims'[q]) \in Nat
  <2>1. TypeOK'
    BY TypeStep
  <2>. QED  BY <2>1, LenProperties DEF TypeOK
<1>5. ASSUME NEW q \in Proc, NEW r \in Proc, Target(q)', Target(r)',
             NEW i \in 1 .. Len(claims'[q]), i <= Len(claims'[r])
      PROVE  claims'[q][i] = claims'[r][i]
  <2>1. i \in Nat /\ 1 <= i /\ i <= Len(claims'[q]) /\ i \in 1 .. Len(claims'[r])
    BY <1>4, <1>5
  <2>2. CASE q # p /\ r # p
    BY <1>2, <1>5, <2>2
  <2>3. CASE q = p /\ r # p
    BY <1>3, <1>5, <2>1, <2>3
  <2>4. CASE q # p /\ r = p
    BY <1>3, <1>5, <2>1, <2>4
  <2>5. CASE q = r
    BY <2>5
  <2>. QED  BY <2>2, <2>3, <2>4, <2>5
<1>. QED  BY <1>5 DEF OneChain

-----------------------------------------------------------------------------
(* The theorems.                                                            *)

LEMMA IInvInit == Init => IInv
<1>. SUFFICES ASSUME Init  PROVE IInv
  OBVIOUS
<1>1. TypeOK
  BY TypeInit
<1>. USE NoTokenAssumption DEF Init
<1>2. \A p \in Proc : pc[p] = "idle" /\ tok[p] = NoToken /\ owner[p] = NoToken /\ claims[p] = <<>> /\ ~won[p]
  OBVIOUS
<1>3. TokensDistinct /\ Alive /\ UnlinksDead /\ OwnerGone /\ WithinDepth
  BY <1>2 DEF TokensDistinct, Alive, UnlinksDead, OwnerGone, WithinDepth, Idle, Walking, Ending, NoFile
<1>4. OwnsFile /\ ChainOnDisk /\ OneChain
  BY <1>2 DEF OwnsFile, ChainOnDisk, OneChain, Creating, Owns, Holds, Target, Walking
<1>. QED  BY <1>1, <1>3, <1>4 DEF IInv

LEMMA IInvStep == IInv /\ [Next]_vars => IInv'
<1>. SUFFICES ASSUME IInv, [Next]_vars  PROVE IInv'
  OBVIOUS
<1>1. ASSUME NEW p \in Proc, Step(p) \/ Crash(p)
      PROVE  IInv'
  <2>1. TypeOK' /\ TokensDistinct' /\ Alive' /\ OwnsFile' /\ UnlinksDead'
    BY <1>1, TypeStep, TokensDistinctStep, AliveStep, OwnsFileStep, UnlinksDeadStep
  <2>2. ChainOnDisk' /\ OneChain' /\ OwnerGone' /\ WithinDepth'
    BY <1>1, ChainOnDiskStep, OneChainStep, OwnerGoneStep, WithinDepthStep
  <2>. QED  BY <2>1, <2>2 DEF IInv
<1>2. CASE UNCHANGED vars
  <2>. USE <1>2 DEF vars, IInv
  <2>1. TypeOK' /\ Alive' /\ UnlinksDead' /\ WithinDepth'
    BY DEF TypeOK, Alive, UnlinksDead, WithinDepth
  <2>2. TokensDistinct' /\ OwnerGone'
    BY DEF TokensDistinct, OwnerGone, Idle, Walking, Ending
  <2>3. OwnsFile'
    BY DEF OwnsFile, Creating, Owns, Holds, Unwritten, Record
  <2>4. \A q \in Proc : (Target(q)' <=> Target(q)) /\ (Chain(q)' <=> Chain(q)) /\ claims'[q] = claims[q]
    BY DEF Target, Chain, Walking, Elected, ReadableDead, IsDead, ClaimPath, LastPath, LastClaim,
      Unwritten, Record
  <2>5. ChainOnDisk' /\ OneChain'
    BY <2>4 DEF ChainOnDisk, OneChain
  <2>. QED  BY <2>1, <2>2, <2>3, <2>5
<1>. QED  BY <1>1, <1>2 DEF Next

\* The state of the lock keeps its shape, and no walk exceeds the depth limit.
THEOREM TypeCorrect == Spec => []TypeOK
<1>1. IInv => TypeOK
  BY DEF IInv
<1>. QED  BY <1>1, IInvInit, IInvStep, PTL DEF Spec

LEMMA HolderFromIInv == IInv => HolderOwnsFile
BY DEF IInv, OwnsFile, Owns, HolderOwnsFile

\* The lock file of a running command is its own record.
THEOREM HolderKeepsFile == Spec => []HolderOwnsFile
BY HolderFromIInv, IInvInit, IInvStep, PTL DEF Spec

\* Two commands of one session never run at once.
THEOREM Exclusion == Spec => []MutualExclusion
<1>1. IInv => MutualExclusion
  BY HolderFromIInv DEF HolderOwnsFile, MutualExclusion, Record, Unwritten
<1>. QED  BY <1>1, IInvInit, IInvStep, PTL DEF Spec

\* At most one process is about to unlink a lock file, and the file is a dead owner's.
THEOREM UniqueRecoverer == Spec => []OneRecoverer
<1>1. IInv => OneRecoverer
  <2>. SUFFICES ASSUME IInv, NEW p \in Proc, pc[p] = "unlink"
                PROVE  /\ ReadableDead(lock) /\ lock.token = owner[p]
                       /\ \A q \in Proc : pc[q] = "unlink" => q = p
    BY DEF OneRecoverer
  <2>1. \A q \in Proc : pc[q] = "unlink" => Target(q) /\ Elected(q)
    BY DEF IInv, UnlinksDead, Target, Walking, Elected
  <2>2. ReadableDead(lock) /\ lock.token = owner[p]
    BY <2>1 DEF IInv, ChainOnDisk, Chain, Target
  <2>3. ASSUME NEW q \in Proc, pc[q] = "unlink"  PROVE q = p
    <3>1. Len(claims[p]) \in Nat /\ Len(claims[q]) \in Nat
      BY LenProperties DEF IInv, TypeOK
    <3>2. Len(claims[p]) <= Len(claims[q]) \/ Len(claims[q]) <= Len(claims[p])
      BY <3>1
    <3>. QED  BY <2>1, <2>3, <3>2, OneElected
  <2>. QED  BY <2>2, <2>3
<1>. QED  BY <1>1, IInvInit, IInvStep, PTL DEF Spec

\* Only its own release takes a live process's lock file away.
THEOREM LiveLockKept == Spec => LiveLockStays
<1>. DEFINE A == \A p \in Proc :
       Quiet' /\ lock # NoFile /\ lock.pid = p /\ p \in alive /\ lock'.token # lock.token => pc[p] = "release"
<1>1. ASSUME IInv, [Next]_vars  PROVE A
  <2>. SUFFICES ASSUME NEW q \in Proc, lock # NoFile, lock.pid = q, q \in alive, lock'.token # lock.token
                PROVE  pc[q] = "release"
    OBVIOUS
  <2>1. PICK p \in Proc : Step(p) \/ Crash(p)
    BY <1>1 DEF Next, vars
  <2>2. CASE Unlink(p)
    <3>1. Target(p)
      BY <1>1, <2>2 DEF IInv, UnlinksDead, Unlink, Target, Walking
    <3>. QED  BY <1>1, <3>1 DEF IInv, ChainOnDisk, Chain, ReadableDead, IsDead
  <2>3. CASE ReleaseUnlink(p)
    BY <1>1, <2>3 DEF IInv, OwnsFile, Owns, Holds, ReleaseUnlink, Record, Unwritten
  <2>4. CASE WriteRecord(p) \/ Rewrite(p)
    BY <2>4 DEF WriteRecord, Rewrite, Write, Record, Unwritten
  <2>5. CASE ~(Unlink(p) \/ ReleaseUnlink(p) \/ WriteRecord(p) \/ Rewrite(p))
    BY <2>1, <2>5 DEF Step, Start, Open, ReadOwner, CreateClaim, WriteClaim, ReadClaim, Confirm, Recreate,
      DropClaim, UnlinkClaim, Recovered, Release, Crash
  <2>. QED  BY <2>2, <2>3, <2>4, <2>5
<1>2. Spec => [][A]_vars
  BY <1>1, IInvInit, IInvStep, PTL DEF Spec
<1>. QED  BY <1>2 DEF LiveLockStays

-----------------------------------------------------------------------------
(* The claims of the living.  A recoverer creates one claim, the last of its *)
(* walk, and it is the first one it drops: between the two it is recovering. *)

Dropping(p) == pc[p] \in {"confirm", "unlink", "recreate", "rewrite", "drop", "unlinkClaim"}

\* The claim file at path is the one its process q has just opened, or the last
\* of the claims it holds.
OwnClaim(path, q) ==
  \/ pc[q] = "writeClaim" /\ path = ClaimPath(q) /\ claim[path] = Unwritten(q)
  \/ /\ Dropping(q)
     /\ claims[q] # <<>> /\ path = LastPath(q) /\ LastClaim(q).token = tok[q]
     /\ claim[path] = Record(q)

ClaimsOwned ==
  \A path \in Token \X (Token \cup {NoToken}), q \in Proc :
    claim[path] # NoFile /\ claim[path].pid = q /\ q \in alive => OwnClaim(path, q)

\* A process that does not step keeps what its claim rests on.
LEMMA OwnClaimKept ==
  ASSUME NEW path, NEW q, OwnClaim(path, q), claim'[path] = claim[path],
         pc'[q] = pc[q], tok'[q] = tok[q], owner'[q] = owner[q], claims'[q] = claims[q]
  PROVE  OwnClaim(path, q)'
BY DEF OwnClaim, Dropping, ClaimPath, LastPath, LastClaim, Unwritten, Record

\* What every step but the making and the dropping of a claim leaves alone.
LEMMA ClaimsFramed ==
  ASSUME TypeOK, ClaimsOwned, NEW p \in Proc, UNCHANGED <<claim, alive>>,
         \A q \in Proc \ {p} :
           pc'[q] = pc[q] /\ tok'[q] = tok[q] /\ owner'[q] = owner[q] /\ claims'[q] = claims[q],
         \A path \in DOMAIN claim : OwnClaim(path, p) => OwnClaim(path, p)'
  PROVE  ClaimsOwned'
<1>. SUFFICES ASSUME NEW path \in Token \X (Token \cup {NoToken}), NEW q \in Proc, claim[path] # NoFile, claim[path].pid = q, q \in alive
              PROVE  OwnClaim(path, q)'
  BY DEF ClaimsOwned
<1>1. OwnClaim(path, q) /\ path \in DOMAIN claim
  BY DEF ClaimsOwned, TypeOK
<1>2. CASE q = p
  BY <1>1, <1>2
<1>3. CASE q # p
  BY <1>1, <1>3, OwnClaimKept
<1>. QED  BY <1>2, <1>3

LEMMA ClaimsOwnedStep ==
  ASSUME IInv, ClaimsOwned, NEW p \in Proc, Step(p) \/ Crash(p)
  PROVE  ClaimsOwned'
<1>1. TypeOK /\ WithinDepth
  BY DEF IInv
<1>2. \A q \in Proc \ {p} :
        pc'[q] = pc[q] /\ tok'[q] = tok[q] /\ owner'[q] = owner[q] /\ claims'[q] = claims[q]
  BY OthersUntouched, <1>1
<1>3. CASE Start(p) \/ Open(p) \/ WriteRecord(p) \/ ReadOwner(p) \/ ReadClaim(p) \/ Release(p) \/ ReleaseUnlink(p)
  <2>1. ~Dropping(p) /\ pc[p] # "writeClaim" /\ UNCHANGED <<claim, alive>>
    BY <1>3 DEF Start, Open, WriteRecord, ReadOwner, ReadClaim, Release, ReleaseUnlink, Dropping, env
  <2>2. \A path \in DOMAIN claim : OwnClaim(path, p) => OwnClaim(path, p)'
    BY <2>1 DEF OwnClaim
  <2>. QED  BY <1>1, <1>2, <2>1, <2>2, ClaimsFramed
<1>4. CASE Confirm(p) \/ Unlink(p) \/ Recreate(p) \/ Rewrite(p)
  <2>1. /\ Dropping(p) /\ Dropping(p)' /\ pc[p] # "writeClaim" /\ UNCHANGED <<claim, alive, tok, owner, claims>>
    BY <1>1, <1>4 DEF Confirm, Unlink, Recreate, Rewrite, Dropping, Goto, locals, env, TypeOK
  <2>2. \A path \in DOMAIN claim : OwnClaim(path, p) => OwnClaim(path, p)'
    BY <2>1 DEF OwnClaim, LastPath, LastClaim, Unwritten, Record
  <2>. QED  BY <1>1, <1>2, <2>1, <2>2, ClaimsFramed
<1>5. CASE Recovered(p)
  <2>1. claims[p] = <<>> /\ pc[p] = "drop" /\ UNCHANGED <<claim, alive>>
    BY <1>5 DEF Recovered, env
  <2>2. \A path \in DOMAIN claim : OwnClaim(path, p) => OwnClaim(path, p)'
    BY <2>1 DEF OwnClaim
  <2>. QED  BY <1>1, <1>2, <2>1, <2>2, ClaimsFramed
<1>6. CASE DropClaim(p)
  <2>1. UNCHANGED <<claim, alive, tok, owner>> /\ pc[p] = "drop"
    BY <1>6 DEF DropClaim, env
  <2>2. \A path \in DOMAIN claim : OwnClaim(path, p) => OwnClaim(path, p)'
    <3>. SUFFICES ASSUME NEW path \in DOMAIN claim, OwnClaim(path, p)  PROVE OwnClaim(path, p)'
      OBVIOUS
    <3>1. /\ path = LastPath(p) /\ LastClaim(p).token = tok[p] /\ claim[path] = Record(p)
          /\ claims[p] # <<>>
      BY <2>1 DEF OwnClaim
    <3>2. claim[LastPath(p)].written /\ claim[LastPath(p)].token = LastClaim(p).token
      BY <3>1 DEF Record, Unwritten
    <3>3. UNCHANGED claims /\ pc'[p] = "unlinkClaim"
      BY <1>1, <1>6, <3>2 DEF DropClaim, Goto, TypeOK
    <3>. QED  BY <2>1, <3>1, <3>3 DEF OwnClaim, Dropping, LastPath, LastClaim, Record, Unwritten
  <2>. QED  BY <1>1, <1>2, <2>1, <2>2, ClaimsFramed
<1>7. CASE UnlinkClaim(p)
  <2>1. /\ claim' = [claim EXCEPT ![LastPath(p)] = NoFile] /\ UNCHANGED alive /\ pc[p] = "unlinkClaim"
    BY <1>7 DEF UnlinkClaim, env
  <2>. SUFFICES ASSUME NEW path \in Token \X (Token \cup {NoToken}), NEW q \in Proc,
                       claim'[path] # NoFile, claim'[path].pid = q, q \in alive'
                PROVE  OwnClaim(path, q)'
    BY DEF ClaimsOwned
  <2>2. path # LastPath(p) /\ claim'[path] = claim[path]
    BY <1>1, <2>1 DEF TypeOK
  <2>3. OwnClaim(path, q)
    BY <2>1, <2>2 DEF ClaimsOwned
  <2>4. q # p
    BY <2>1, <2>2, <2>3 DEF OwnClaim
  <2>. QED  BY <1>2, <2>2, <2>3, <2>4, OwnClaimKept
<1>8. CASE CreateClaim(p)
  <2>1. pc[p] = "claim" /\ UNCHANGED alive
    BY <1>8 DEF CreateClaim, env
  <2>2. CASE UNCHANGED claim
    <3>1. \A path \in DOMAIN claim : OwnClaim(path, p) => OwnClaim(path, p)'
      BY <2>1 DEF OwnClaim, Dropping
    <3>. QED  BY <1>1, <1>2, <2>1, <2>2, <3>1, ClaimsFramed
  <2>3. CASE claim' = [claim EXCEPT ![ClaimPath(p)] = Unwritten(p)] /\ Goto(p, "writeClaim") /\ UNCHANGED locals
    <3>1. pc'[p] = "writeClaim" /\ UNCHANGED <<tok, owner, claims>>
      BY <1>1, <2>3 DEF Goto, locals, TypeOK
    <3>. SUFFICES ASSUME NEW path \in Token \X (Token \cup {NoToken}), NEW q \in Proc,
                       claim'[path] # NoFile, claim'[path].pid = q, q \in alive'
                  PROVE  OwnClaim(path, q)'
      BY DEF ClaimsOwned
    <3>3. CASE path = ClaimPath(p)
      <4>1. claim'[path] = Unwritten(p) /\ q = p
        BY <1>1, <2>3, <3>3 DEF TypeOK, Unwritten
      <4>. QED  BY <3>1, <3>3, <4>1 DEF OwnClaim, ClaimPath, Unwritten
    <3>4. CASE path # ClaimPath(p)
      <4>1. claim'[path] = claim[path]
        BY <1>1, <2>3, <3>4 DEF TypeOK
      <4>2. OwnClaim(path, q)
        BY <2>1, <4>1 DEF ClaimsOwned
      <4>3. q # p
        BY <2>1, <4>2 DEF OwnClaim, Dropping
      <4>. QED  BY <1>2, <4>1, <4>2, <4>3, OwnClaimKept
    <3>. QED  BY <3>3, <3>4
  <2>. QED  BY <1>8, <2>2, <2>3 DEF CreateClaim
<1>9. CASE WriteClaim(p)
  <2>1. /\ pc[p] = "writeClaim" /\ pc'[p] = "confirm" /\ UNCHANGED <<tok, owner, alive>>
        /\ claim' = [claim EXCEPT ![ClaimPath(p)] = Write(claim[ClaimPath(p)], p)]
        /\ claims'[p] = Append(claims[p], [parent |-> Parent(claims[p]), token |-> tok[p]])
    BY <1>1, <1>9 DEF WriteClaim, Push, Goto, TypeOK, env
  <2>. SUFFICES ASSUME NEW path \in Token \X (Token \cup {NoToken}), NEW q \in Proc,
                       claim'[path] # NoFile, claim'[path].pid = q, q \in alive'
                PROVE  OwnClaim(path, q)'
    BY DEF ClaimsOwned
  <2>3. claim'[path] = claim[path] \/ (path = ClaimPath(p) /\ claim[path] = Unwritten(p) /\ claim'[path] = Record(p))
    BY <1>1, <2>1 DEF TypeOK, Write
  <2>4. claim[path] # NoFile /\ claim[path].pid = q
    <3>1. Unwritten(p).pid = p /\ Record(p).pid = p
      BY DEF Record, Unwritten
    <3>2. CASE claim'[path] = claim[path]
      BY <3>2
    <3>3. CASE claim[path] = Unwritten(p) /\ claim'[path] = Record(p)
      <4>1. tok[p] # NoToken
        BY <1>1, <2>1, NoTokenAssumption DEF IInv, TokensDistinct, Idle, TypeOK
      <4>. QED  BY <3>1, <3>3, <4>1 DEF Unwritten, NoFile
    <3>. QED  BY <2>3, <3>2, <3>3
  <2>5. OwnClaim(path, q)
    BY <2>1, <2>4 DEF ClaimsOwned
  <2>6. CASE q # p
    <3>1. claim'[path] = claim[path]
      BY <2>3, <2>4, <2>6 DEF Unwritten
    <3>. QED  BY <1>2, <2>5, <2>6, <3>1, OwnClaimKept
  <2>7. CASE q = p
    <3>1. path = ClaimPath(p) /\ claim[path] = Unwritten(p)
      BY <2>1, <2>5, <2>7 DEF OwnClaim, Dropping
    <3>2. claim'[path] = Record(p)
      BY <1>1, <2>1, <3>1 DEF TypeOK, Write
    <3>3. /\ claims'[p] # <<>> /\ Last(claims'[p]) = [parent |-> Parent(claims[p]), token |-> tok[p]]
      <4>1. tok[p] \in Token /\ Push(p, tok[p]) /\ Walking(p)
        BY <1>1, <1>9, <2>1 DEF IInv, TokensDistinct, Idle, TypeOK, WriteClaim, Walking
      <4>. QED  BY <1>1, <4>1, PushChain DEF IInv
    <3>4. claim'[path] = Record(p)'
      BY <2>1, <3>2 DEF Record, Unwritten
    <3>5. path = <<owner[p], Parent(claims[p])>>
      BY <3>1 DEF ClaimPath
    <3>6. path = LastPath(p)' /\ LastClaim(p).token' = tok'[p]
      BY <2>1, <3>3, <3>5 DEF LastPath, LastClaim
    <3>7. OwnClaim(path, p)'
      BY <2>1, <3>3, <3>4, <3>6 DEF OwnClaim, Dropping
    <3>. QED  BY <2>7, <3>7
  <2>. QED  BY <2>6, <2>7
<1>10. CASE Crash(p)
  <2>1. UNCHANGED claim /\ alive' = alive \ {p}
    BY <1>10 DEF Crash
  <2>. SUFFICES ASSUME NEW path \in Token \X (Token \cup {NoToken}), NEW q \in Proc \ {p},
                       claim[path] # NoFile, claim[path].pid = q, q \in alive
                PROVE  OwnClaim(path, q)'
    BY <2>1 DEF ClaimsOwned
  <2>2. OwnClaim(path, q)
    BY DEF ClaimsOwned
  <2>. QED  BY <1>2, <2>1, <2>2, OwnClaimKept
<1>. QED  BY <1>3, <1>4, <1>5, <1>6, <1>7, <1>8, <1>9, <1>10 DEF Step

\* No live process leaves behind a claim, which would refuse every later recovery:
\* the claim of a living process is that of a recovery on its way to drop it.
THEOREM ClaimsNotAbandoned == Spec => []NoAbandonedClaim
<1>1. Init => ClaimsOwned
  BY DEF Init, ClaimsOwned
<1>2. IInv /\ ClaimsOwned /\ [Next]_vars => ClaimsOwned'
  <2>. SUFFICES ASSUME IInv, ClaimsOwned, [Next]_vars  PROVE ClaimsOwned'
    OBVIOUS
  <2>1. CASE Next
    BY <2>1, ClaimsOwnedStep DEF Next
  <2>2. CASE UNCHANGED vars
    BY <2>2 DEF vars, ClaimsOwned, OwnClaim, Dropping, ClaimPath, LastPath, LastClaim, Unwritten, Record
  <2>. QED  BY <2>1, <2>2
<1>3. IInv /\ ClaimsOwned => NoAbandonedClaim
  <2>. SUFFICES ASSUME IInv, ClaimsOwned, NEW path \in DOMAIN claim, claim[path] # NoFile, claim[path].pid \in alive
                PROVE  LET file == claim[path] IN
                         Recovering(file.pid) /\ tok[file.pid] = file.token /\ owner[file.pid] = path[1]
    BY DEF NoAbandonedClaim
  <2>1. OwnClaim(path, claim[path].pid)
    BY DEF IInv, TypeOK, ClaimsOwned
  <2>. QED  BY <2>1 DEF OwnClaim, Dropping, Recovering, ClaimPath, LastPath, Unwritten, Record
<1>. QED  BY <1>1, <1>2, <1>3, IInvInit, IInvStep, PTL DEF Spec

=============================================================================
