-------------------------- MODULE RuntimeLock_proofs --------------------------
(***************************************************************************)
(* The lock protocol keeps its types and, as long as it is not outrun,     *)
(* a holder has the path: for any number of processes and attempts.        *)
(***************************************************************************)
EXTENDS RuntimeLock, TLAPS

\* Where the maker of a directory may be, and where it is through with it.
MadeSteps == {"made", "temp", "held", "releasing", "unlink", "rmdir",
              "lost", "failed", "done", "gone"}
OverSteps == {"lost", "failed", "done", "gone"}
\* Where an attempt of the loop is under way.
LoopSteps == {"idle", "start", "stat", "read", "judge", "kill", "claim",
              "verifyId", "verifyOwner", "rename", "unclaim"}
ClaimSteps == {"claim", "verifyId", "verifyOwner", "rename"}

(* What holds whether or not the protocol is outrun.                       *)
AliveInv == \A p \in Proc : p \in alive <=> pc[p] \notin {"idle", "gone"}
LoopInv == \A p \in Proc : pc[p] \in LoopSteps => tries[p] < MaxAttempts
NoDirInv == dir = None => owner = None /\ claim = None /\ tmp = {}
BeatInv == \A p \in Proc : hb[p] = "write" => pc[p] \in {"held", "releasing"}
MadeInv ==
    /\ dir # None => pc[dir] \in MadeSteps
    /\ owner # None => pc[owner] \in MadeSteps
    /\ \A p \in Proc :
          /\ seen[p].dir # None => pc[seen[p].dir] \in MadeSteps
          /\ seen[p].owner # None => seen[p].dir # None /\ pc[seen[p].owner] \in MadeSteps
          /\ pc[p] \in ClaimSteps \cup {"read", "judge"} => seen[p].dir # None
          /\ pc[p] \in {"judge", "kill"} => seen[p].owner # None
          /\ pc[p] \notin ClaimSteps \cup {"judge", "kill", "unclaim", "unclaimFail"} => seen[p].owner = None

(* What holds until it is.  A directory belongs to its maker while the     *)
(* maker works with it; what a claimant read still says that the maker is  *)
(* through with it; and the claim protects what was verified.              *)
MakerInv == \A p \in Proc :
    /\ pc[p] \in {"made", "temp", "rmdir"} => dir = p /\ owner = None
    /\ pc[p] \in {"held", "releasing", "unlink"} => dir = p /\ owner = p
OwnerInv ==
    /\ owner # None => owner = dir
    /\ \A p \in Proc : seen[p].owner # None /\ seen[p].dir = dir => seen[p].owner = dir
ClaimInv == \A p \in Proc :
    /\ pc[p] \in ClaimSteps =>
          IF seen[p].owner = None THEN pc[seen[p].dir] \in OverSteps
          ELSE pc[seen[p].owner] = "gone"
    /\ pc[p] = "verifyId" /\ dir = seen[p].dir => claim = p
    /\ pc[p] \in {"verifyOwner", "rename"} => claim = p /\ dir = seen[p].dir
    /\ pc[p] = "rename" => owner = seen[p].owner

Basic == AliveInv /\ LoopInv /\ NoDirInv /\ BeatInv /\ MadeInv
Guarded == MakerInv /\ OwnerInv /\ ClaimInv
Inv == TypeOK /\ Basic /\ (~outrun => Guarded)

LEMMA UnseenType == Unseen \in Seen
  BY DEF Unseen, Seen, Opt

\* What the two ends of an attempt and the end of a process leave typed.
LEMMA RetryType ==
    ASSUME TypeOK, NEW p \in Proc, tries[p] < MaxAttempts, Retry(p)
    PROVE  /\ tries' \in [Proc -> 0..MaxAttempts] /\ pc' \in [Proc -> Steps]
           /\ seen' \in [Proc -> Seen]
  BY LockConstants, UnseenType DEF TypeOK, Retry, Goto, Steps

LEMMA ThrowType ==
    ASSUME TypeOK, NEW p \in Proc, Throw(p)
    PROVE  pc' \in [Proc -> Steps] /\ seen' \in [Proc -> Seen]
  BY UnseenType DEF TypeOK, Throw, Goto, Steps

LEMMA DiesType ==
    ASSUME TypeOK, NEW p \in Proc, Dies(p)
    PROVE  /\ tries' \in [Proc -> 0..MaxAttempts] /\ pc' \in [Proc -> Steps]
           /\ seen' \in [Proc -> Seen] /\ hb' \in [Proc -> {"idle", "write", "spent"}]
           /\ alive' \subseteq Proc
  BY LockConstants, UnseenType DEF TypeOK, Dies, Goto, Steps

LEMMA InitInv == Init => Inv
<1> SUFFICES ASSUME Init PROVE Inv
  OBVIOUS
<1>1. TypeOK
  <2>1. /\ pc \in [Proc -> Steps] /\ hb \in [Proc -> {"idle", "write", "spent"}]
        /\ tries \in [Proc -> 0..MaxAttempts] /\ seen \in [Proc -> Seen]
    BY LockConstants, UnseenType DEF Init, Steps
  <2>2. QED
    BY <2>1, LockConstants DEF Init, TypeOK, Opt
<1>2. Basic
  BY LockConstants
     DEF Init, Basic, AliveInv, LoopInv, NoDirInv, BeatInv, MadeInv, Unseen,
         MadeSteps, LoopSteps, ClaimSteps
<1>3. Guarded
  BY DEF Init, Guarded, MakerInv, OwnerInv, ClaimInv, Unseen, OverSteps, ClaimSteps
<1>4. QED
  BY <1>1, <1>2, <1>3 DEF Inv

LEMMA TypeStep == Inv /\ [Next]_vars => TypeOK'
<1> SUFFICES ASSUME Inv, [Next]_vars PROVE TypeOK'
  OBVIOUS
<1>a. TypeOK /\ Basic
  BY DEF Inv
<1>b. \A p \in Proc : pc[p] \in LoopSteps => tries[p] < MaxAttempts
  BY <1>a DEF Basic, LoopInv
<1> USE <1>a DEF TypeOK, files, rest
<1>0. ASSUME UNCHANGED vars PROVE TypeOK'
  BY <1>0 DEF vars
<1>1. ASSUME NEW p \in Proc, Begin(p) PROVE TypeOK'
  BY <1>1 DEF Begin, Goto, Steps
<1>2. ASSUME NEW p \in Proc, Mkdir(p) PROVE TypeOK'
  BY <1>2 DEF Mkdir, Goto, Steps, Opt
<1>3. ASSUME NEW p \in Proc, WriteTemp(p) PROVE TypeOK'
  BY <1>3, ThrowType DEF WriteTemp, Goto, Steps
<1>4. ASSUME NEW p \in Proc, Publish(p) PROVE TypeOK'
  BY <1>4, ThrowType DEF Publish, Goto, Steps, Opt
<1>5. ASSUME NEW p \in Proc, Stat(p) PROVE TypeOK'
  BY <1>5, RetryType, <1>b DEF Stat, LoopSteps, Goto, Steps, Opt, Seen
<1>6. ASSUME NEW p \in Proc, Inspect(p) PROVE TypeOK'
  <2>1. outrun' \in BOOLEAN
    BY <1>6 DEF Inspect, InProgress
  <2>2. seen' \in [Proc -> Seen] /\ pc' \in [Proc -> Steps] /\ tries' \in [Proc -> 0..MaxAttempts]
    BY <1>6, RetryType, <1>b DEF Inspect, LoopSteps, Goto, Steps, Opt, Seen
  <2>3. QED
    BY <1>6, <2>1, <2>2 DEF Inspect
<1>7. ASSUME NEW p \in Proc, Judge(p) PROVE TypeOK'
  BY <1>7, ThrowType DEF Judge, Goto, Steps
<1>8. ASSUME NEW p \in Proc, Kill(p) PROVE TypeOK'
  <2>1. seen[p].owner \in Proc
    BY <1>8 DEF Kill, Basic, MadeInv, Seen, Opt
  <2>2. CASE Dies(seen[p].owner) /\ UNCHANGED crashes
    BY <1>8, <2>1, <2>2, DiesType DEF Kill
  <2>3. CASE Retry(p) /\ UNCHANGED rest
    BY <1>8, <2>3, <1>b, RetryType DEF Kill, LoopSteps
  <2>4. CASE Throw(p) /\ UNCHANGED <<tries, rest>>
    BY <1>8, <2>4, ThrowType DEF Kill
  <2>5. QED
    BY <1>8, <2>2, <2>3, <2>4 DEF Kill
<1>9. ASSUME NEW p \in Proc, ClaimDir(p) PROVE TypeOK'
  BY <1>9, RetryType, <1>b DEF ClaimDir, LoopSteps, Goto, Steps, Opt
<1>10. ASSUME NEW p \in Proc, VerifyId(p) PROVE TypeOK'
  BY <1>10 DEF VerifyId, Goto, Steps
<1>11. ASSUME NEW p \in Proc, VerifyOwner(p) PROVE TypeOK'
  BY <1>11 DEF VerifyOwner, Goto, Steps
<1>12. ASSUME NEW p \in Proc, Rename(p) PROVE TypeOK'
  BY <1>12, RetryType, <1>b DEF Rename, LoopSteps, Goto, Steps, Opt, DirGone
<1>13. ASSUME NEW p \in Proc, Unclaim(p) PROVE TypeOK'
  BY <1>13, RetryType, <1>b, ThrowType DEF Unclaim, LoopSteps, Opt
<1>14. ASSUME NEW p \in Proc, Release(p) PROVE TypeOK'
  BY <1>14 DEF Release, Goto, Steps
<1>15. ASSUME NEW p \in Proc, ReleaseRead(p) PROVE TypeOK'
  BY <1>15 DEF ReleaseRead, Goto, Steps
<1>16. ASSUME NEW p \in Proc, Unlink(p) PROVE TypeOK'
  BY <1>16 DEF Unlink, Goto, Steps, Opt
<1>17. ASSUME NEW p \in Proc, Rmdir(p) PROVE TypeOK'
  BY <1>17 DEF Rmdir, Goto, Steps, Opt, DirGone
<1>18. ASSUME NEW p \in Proc, Exit(p) PROVE TypeOK'
  BY <1>18, DiesType DEF Exit
<1>19. ASSUME NEW p \in Proc, Heartbeat(p) PROVE TypeOK'
  BY <1>19 DEF Heartbeat, Goto, Steps
<1>20. ASSUME NEW p \in Proc, HeartbeatRead(p) PROVE TypeOK'
  BY <1>20 DEF HeartbeatRead, Opt, Seen
<1>21. ASSUME NEW p \in Proc, HeartbeatWrite(p) PROVE TypeOK'
  BY <1>21, UnseenType DEF HeartbeatWrite, Goto, Steps, Opt
<1>22. ASSUME NEW p \in Proc, Crash(p) PROVE TypeOK'
  BY <1>22, DiesType, LockConstants DEF Crash
<1>23. ASSUME Age PROVE TypeOK'
  BY <1>23 DEF Age
<1>24. QED
  BY <1>0, <1>1, <1>2, <1>3, <1>4, <1>5, <1>6, <1>7, <1>8, <1>9, <1>10, <1>11, <1>12, <1>13, <1>14,
     <1>15, <1>16, <1>17, <1>18, <1>19, <1>20, <1>21, <1>22, <1>23 DEF Next, Step, Beat

\* The same three, seen from each process.
LEMMA RetryFacts ==
    ASSUME TypeOK, NEW p \in Proc, tries[p] < MaxAttempts, Retry(p)
    PROVE  /\ pc'[p] \in {"start", "failed"}
           /\ pc'[p] = "start" => tries'[p] < MaxAttempts
           /\ seen'[p].dir = None /\ seen'[p].owner = None
           /\ \A q \in Proc \ {p} : pc'[q] = pc[q] /\ seen'[q] = seen[q] /\ tries'[q] = tries[q]
  BY LockConstants DEF TypeOK, Retry, Goto, Unseen

LEMMA ThrowFacts ==
    ASSUME TypeOK, NEW p \in Proc, Throw(p)
    PROVE  /\ pc'[p] = "failed"
           /\ seen'[p].dir = None /\ seen'[p].owner = None
           /\ \A q \in Proc \ {p} : pc'[q] = pc[q] /\ seen'[q] = seen[q]
  BY DEF TypeOK, Throw, Goto, Unseen

LEMMA DiesFacts ==
    ASSUME TypeOK, NEW p \in Proc, Dies(p)
    PROVE  /\ pc'[p] = "gone" /\ hb'[p] = "idle" /\ p \notin alive'
           /\ seen'[p].dir = None /\ seen'[p].owner = None
           /\ \A q \in Proc \ {p} :
                 /\ pc'[q] = pc[q] /\ seen'[q] = seen[q] /\ tries'[q] = tries[q]
                 /\ hb'[q] = hb[q] /\ (q \in alive' <=> q \in alive)
  BY DEF TypeOK, Dies, Goto, Unseen

LEMMA BasicStep == Inv /\ [Next]_vars => Basic'
<1> SUFFICES ASSUME Inv, [Next]_vars PROVE Basic'
  OBVIOUS
<1>a. TypeOK /\ Basic
  BY DEF Inv
<1>b. \A p \in Proc : pc[p] \in LoopSteps => tries[p] < MaxAttempts
  BY <1>a DEF Basic, LoopInv
<1> USE <1>a DEF Basic, AliveInv, LoopInv, NoDirInv, BeatInv, MadeInv, files, rest,
              MadeSteps, LoopSteps, ClaimSteps
<1>0. ASSUME UNCHANGED vars PROVE Basic'
  BY <1>0 DEF vars
<1>1. ASSUME NEW p \in Proc, Begin(p) PROVE Basic'
  BY <1>1, LockConstants DEF Begin, TypeOK, Seen, Opt, Goto
<1>2. ASSUME NEW p \in Proc, Mkdir(p) PROVE Basic'
  BY <1>2 DEF Mkdir, TypeOK, Seen, Opt, Goto
<1>3. ASSUME NEW p \in Proc, WriteTemp(p) PROVE Basic'
  <2>1. AliveInv' /\ LoopInv' /\ NoDirInv' /\ BeatInv'
    BY <1>3, ThrowFacts DEF WriteTemp, TypeOK, Seen, Opt, Goto
  <2>2. MadeInv'
    BY <1>3, ThrowFacts DEF WriteTemp, TypeOK, Seen, Opt, Goto
  <2>3. QED
    BY <2>1, <2>2
<1>4. ASSUME NEW p \in Proc, Publish(p) PROVE Basic'
  BY <1>4, ThrowFacts DEF Publish, TypeOK, Seen, Opt, Goto
<1>5. ASSUME NEW p \in Proc, Stat(p) PROVE Basic'
  BY <1>5, RetryFacts, <1>b DEF Stat, TypeOK, Seen, Opt, Goto
<1>6. ASSUME NEW p \in Proc, Inspect(p) PROVE Basic'
  <2>1. AliveInv' /\ LoopInv' /\ NoDirInv' /\ BeatInv'
    BY <1>6, RetryFacts, <1>b DEF Inspect, TypeOK, Seen, Opt, Goto
  <2>2. MadeInv'
    BY <1>6, RetryFacts, <1>b DEF Inspect, TypeOK, Seen, Opt, Goto
  <2>3. QED
    BY <2>1, <2>2
<1>7. ASSUME NEW p \in Proc, Judge(p) PROVE Basic'
  <2>1. AliveInv' /\ LoopInv' /\ NoDirInv' /\ BeatInv'
    <3>1. AliveInv' /\ BeatInv'
      BY <1>7, ThrowFacts DEF Judge, TypeOK, Goto
    <3>2. LoopInv' /\ NoDirInv'
      BY <1>7, ThrowFacts DEF Judge, TypeOK, Goto
    <3>3. QED
      BY <3>1, <3>2
  <2>2. MadeInv'
    BY <1>7, ThrowFacts DEF Judge, TypeOK, Seen, Opt, Goto
  <2>3. QED
    BY <2>1, <2>2
<1>8. ASSUME NEW p \in Proc, Kill(p) PROVE Basic'
  <2>1. CASE /\ seen[p].owner \in alive /\ Dies(seen[p].owner)
             /\ UNCHANGED crashes
    BY <1>8, <2>1, DiesFacts DEF Kill, TypeOK, Seen, Opt
  <2>2. CASE seen[p].owner \notin alive /\ Retry(p) /\ UNCHANGED rest
    BY <1>8, <2>2, RetryFacts, <1>b DEF Kill, TypeOK, Seen, Opt
  <2>3. CASE seen[p].owner \in alive /\ Throw(p) /\ UNCHANGED <<tries, rest>>
    <3>1. UNCHANGED <<files, tries, rest, outrun>>
      BY <1>8, <2>3 DEF Kill
    <3>2. AliveInv' /\ BeatInv'
      BY <1>8, <2>3, <3>1, ThrowFacts DEF Kill, TypeOK
    <3>3. LoopInv' /\ NoDirInv'
      BY <2>3, <3>1, ThrowFacts DEF TypeOK
    <3>4. MadeInv'
      BY <1>8, <2>3, <3>1, ThrowFacts DEF Kill, TypeOK, Seen, Opt
    <3>5. QED
      BY <3>2, <3>3, <3>4
  <2>4. QED
    BY <1>8, <2>1, <2>2, <2>3 DEF Kill
<1>9. ASSUME NEW p \in Proc, ClaimDir(p) PROVE Basic'
  BY <1>9, RetryFacts, <1>b DEF ClaimDir, TypeOK, Seen, Opt, Goto
<1>10. ASSUME NEW p \in Proc, VerifyId(p) PROVE Basic'
  BY <1>10 DEF VerifyId, TypeOK, Seen, Opt, Goto
<1>11. ASSUME NEW p \in Proc, VerifyOwner(p) PROVE Basic'
  BY <1>11 DEF VerifyOwner, TypeOK, Seen, Opt, Goto
<1>12. ASSUME NEW p \in Proc, Rename(p) PROVE Basic'
  BY <1>12, RetryFacts, <1>b DEF Rename, TypeOK, Seen, Opt, Goto, DirGone
<1>13. ASSUME NEW p \in Proc, Unclaim(p) PROVE Basic'
  BY <1>13, RetryFacts, <1>b, ThrowFacts DEF Unclaim, TypeOK, Seen, Opt
<1>14. ASSUME NEW p \in Proc, Release(p) PROVE Basic'
  BY <1>14 DEF Release, TypeOK, Seen, Opt, Goto
<1>15. ASSUME NEW p \in Proc, ReleaseRead(p) PROVE Basic'
  BY <1>15 DEF ReleaseRead, TypeOK, Seen, Opt, Goto
<1>16. ASSUME NEW p \in Proc, Unlink(p) PROVE Basic'
  BY <1>16 DEF Unlink, TypeOK, Seen, Opt, Goto
<1>17. ASSUME NEW p \in Proc, Rmdir(p) PROVE Basic'
  BY <1>17 DEF Rmdir, TypeOK, Seen, Opt, Goto, DirGone
<1>18. ASSUME NEW p \in Proc, Exit(p) PROVE Basic'
  BY <1>18, DiesFacts DEF Exit, TypeOK, Seen, Opt
<1>19. ASSUME NEW p \in Proc, Heartbeat(p) PROVE Basic'
  BY <1>19 DEF Heartbeat, TypeOK, Seen, Opt, Goto
<1>20. ASSUME NEW p \in Proc, HeartbeatRead(p) PROVE Basic'
  BY <1>20 DEF HeartbeatRead, TypeOK, Seen, Opt
<1>21. ASSUME NEW p \in Proc, HeartbeatWrite(p) PROVE Basic'
  BY <1>21 DEF HeartbeatWrite, TypeOK, Seen, Opt, Goto, Unseen
<1>22. ASSUME NEW p \in Proc, Crash(p) PROVE Basic'
  BY <1>22, DiesFacts DEF Crash, TypeOK, Seen, Opt
<1>23. ASSUME Age PROVE Basic'
  BY <1>23 DEF Age
<1>24. QED
  BY <1>0, <1>1, <1>2, <1>3, <1>4, <1>5, <1>6, <1>7, <1>8, <1>9, <1>10, <1>11, <1>12, <1>13, <1>14,
     <1>15, <1>16, <1>17, <1>18, <1>19, <1>20, <1>21, <1>22, <1>23 DEF Next, Step, Beat

LEMMA GuardedStep == Inv /\ [Next]_vars => (~outrun' => Guarded')
<1> SUFFICES ASSUME Inv, [Next]_vars, ~outrun' PROVE Guarded'
  OBVIOUS
<1>a. TypeOK /\ Basic
  BY DEF Inv
<1>b. \A p \in Proc : pc[p] \in LoopSteps => tries[p] < MaxAttempts
  BY <1>a DEF Basic, LoopInv
<1>c. ~outrun
  BY <1>a DEF TypeOK, Next, Step, Beat, vars, Begin, Mkdir, WriteTemp, Publish, Stat, Inspect,
     Judge, Kill, ClaimDir, VerifyId, VerifyOwner, Rename, Unclaim, Release, ReleaseRead,
     Unlink, Rmdir, Exit, Heartbeat, HeartbeatRead, HeartbeatWrite, Crash, Age
<1>d. Guarded
  BY <1>c DEF Inv
<1> USE <1>a, <1>d DEF Basic, AliveInv, NoDirInv, BeatInv, MadeInv, Guarded, MakerInv, OwnerInv,
              ClaimInv, files, rest, MadeSteps, LoopSteps, ClaimSteps, OverSteps
<1>0. ASSUME UNCHANGED vars PROVE Guarded'
  BY <1>0 DEF vars
<1>1. ASSUME NEW p \in Proc, Begin(p) PROVE Guarded'
  BY <1>1 DEF Begin, TypeOK, Seen, Opt, Goto
<1>2. ASSUME NEW p \in Proc, Mkdir(p) PROVE Guarded'
  BY <1>2, LockConstants DEF Mkdir, TypeOK, Seen, Opt, Goto
<1>3. ASSUME NEW p \in Proc, WriteTemp(p) PROVE Guarded'
  BY <1>3, ThrowFacts DEF WriteTemp, TypeOK, Seen, Opt, Goto
<1>4. ASSUME NEW p \in Proc, Publish(p) PROVE Guarded'
  BY <1>4, ThrowFacts, LockConstants DEF Publish, TypeOK, Seen, Opt, Goto
<1>5. ASSUME NEW p \in Proc, Stat(p) PROVE Guarded'
  BY <1>5, RetryFacts, <1>b DEF Stat, TypeOK, Seen, Opt, Goto
<1>6. ASSUME NEW p \in Proc, Inspect(p) PROVE Guarded'
  <2>1. MakerInv'
    BY <1>6, RetryFacts, <1>b DEF Inspect, TypeOK, Seen, Opt, Goto, InProgress
  <2>2. OwnerInv'
    BY <1>6, RetryFacts, <1>b DEF Inspect, TypeOK, Seen, Opt, Goto, InProgress
  <2>3. ClaimInv'
    <3> SUFFICES ASSUME NEW q \in Proc PROVE ClaimInv!(q)'
      BY DEF ClaimInv
    <3>1. CASE q = p
      <4>1. CASE pc'[p] = "claim"
        <5>0. pc[p] = "read" /\ ~Retry(p)
          BY <1>6, <4>1, RetryFacts, <1>b DEF Inspect
        <5>a. ~Goto(p, "judge")
          BY <4>1 DEF Goto, TypeOK
        <5>b. /\ owner = None /\ seen' = seen /\ Goto(p, "claim")
              /\ outrun' <=> outrun \/ InProgress(seen[p].dir)
          BY <1>6, <5>0, <5>a DEF Inspect
        <5>1. owner = None /\ seen' = seen /\ ~InProgress(seen[p].dir)
          BY <5>b
        <5>2. seen[p].dir \in Proc /\ seen[p].owner = None
          BY <1>6 DEF Inspect, TypeOK, Seen, Opt
        <5>3. pc[seen[p].dir] \in OverSteps
          BY <5>1, <5>2, LockConstants DEF InProgress
        <5>4. pc'[seen[p].dir] \in OverSteps
          BY <5>3, <5>0, <5>b, <5>2 DEF Goto, TypeOK
        <5>5. QED
          BY <3>1, <4>1, <5>1, <5>2, <5>4
      <4>2. CASE pc'[p] # "claim"
        BY <3>1, <4>2, <1>6, RetryFacts, <1>b DEF Inspect, Goto, TypeOK
      <4>3. QED
        BY <4>1, <4>2
    <3>2. CASE q # p
      BY <3>2, <1>6, RetryFacts, <1>b DEF Inspect, TypeOK, Seen, Opt, Goto, InProgress
    <3>3. QED
      BY <3>1, <3>2
  <2>4. QED
    BY <2>1, <2>2, <2>3
<1>7. ASSUME NEW p \in Proc, Judge(p) PROVE Guarded'
  BY <1>7, ThrowFacts DEF Judge, TypeOK, Seen, Opt, Goto
<1>8. ASSUME NEW p \in Proc, Kill(p) PROVE Guarded'
  <2>1. CASE /\ seen[p].owner \in alive /\ Dies(seen[p].owner)
             /\ UNCHANGED crashes
    BY <1>8, <2>1, DiesFacts DEF Kill, TypeOK, Seen, Opt
  <2>2. CASE seen[p].owner \notin alive /\ Retry(p) /\ UNCHANGED rest
    BY <1>8, <2>2, RetryFacts, <1>b DEF Kill, TypeOK, Seen, Opt
  <2>3. CASE seen[p].owner \in alive /\ Throw(p) /\ UNCHANGED <<tries, rest>>
    BY <1>8, <2>3, ThrowFacts DEF Kill, TypeOK, Seen, Opt
  <2>4. QED
    BY <1>8, <2>1, <2>2, <2>3 DEF Kill
<1>9. ASSUME NEW p \in Proc, ClaimDir(p) PROVE Guarded'
  <2>1. MakerInv'
    BY <1>9, RetryFacts, <1>b DEF ClaimDir, TypeOK, Seen, Opt, Goto
  <2>2. OwnerInv'
    BY <1>9, RetryFacts, <1>b DEF ClaimDir, TypeOK, Seen, Opt, Goto
  <2>3. ClaimInv'
    <3> SUFFICES ASSUME NEW q \in Proc PROVE ClaimInv!(q)'
      BY DEF ClaimInv
    <3>1. CASE q = p
      BY <3>1, <1>9, RetryFacts, <1>b DEF ClaimDir, TypeOK, Seen, Opt, Goto
    <3>2. CASE q # p
      <4>1. pc'[q] = pc[q] /\ seen'[q] = seen[q] /\ dir' = dir /\ owner' = owner
        BY <3>2, <1>9, RetryFacts, <1>b DEF ClaimDir, Goto, TypeOK
      <4>2. \A d \in Proc : pc[d] \in MadeSteps => pc'[d] = pc[d]
        BY <1>9, RetryFacts, <1>b DEF ClaimDir, Goto, TypeOK
      <4>3. claim = q => claim' = claim
        BY <1>9, LockConstants DEF ClaimDir
      <4>4. QED
        BY <4>1, <4>2, <4>3 DEF TypeOK, Seen, Opt
    <3>3. QED
      BY <3>1, <3>2
  <2>4. QED
    BY <2>1, <2>2, <2>3
<1>10. ASSUME NEW p \in Proc, VerifyId(p) PROVE Guarded'
  BY <1>10 DEF VerifyId, TypeOK, Seen, Opt, Goto
<1>11. ASSUME NEW p \in Proc, VerifyOwner(p) PROVE Guarded'
  BY <1>11 DEF VerifyOwner, TypeOK, Seen, Opt, Goto
<1>12. ASSUME NEW p \in Proc, Rename(p) PROVE Guarded'
  <2>1. MakerInv'
    BY <1>12, RetryFacts, <1>b, LockConstants DEF Rename, TypeOK, Seen, Opt, Goto, DirGone
  <2>2. OwnerInv'
    BY <1>12, RetryFacts, <1>b, LockConstants DEF Rename, TypeOK, Seen, Opt, Goto, DirGone
  <2>3. ClaimInv'
    BY <1>12, RetryFacts, <1>b, LockConstants DEF Rename, TypeOK, Seen, Opt, Goto, DirGone
  <2>4. QED
    BY <2>1, <2>2, <2>3
<1>13. ASSUME NEW p \in Proc, Unclaim(p) PROVE Guarded'
  <2>1. MakerInv'
    BY <1>13, RetryFacts, <1>b, ThrowFacts DEF Unclaim, TypeOK, Seen, Opt
  <2>2. OwnerInv'
    BY <1>13, RetryFacts, <1>b, ThrowFacts DEF Unclaim, TypeOK, Seen, Opt
  <2>3. ClaimInv'
    <3> SUFFICES ASSUME NEW q \in Proc PROVE ClaimInv!(q)'
      BY DEF ClaimInv
    <3>1. CASE q = p
      BY <3>1, <1>13, RetryFacts, <1>b, ThrowFacts DEF Unclaim, TypeOK, Seen, Opt
    <3>2. CASE q # p
      <4>1. pc'[q] = pc[q] /\ seen'[q] = seen[q] /\ dir' = dir /\ owner' = owner
        BY <3>2, <1>13, RetryFacts, <1>b, ThrowFacts DEF Unclaim
      <4>2. \A d \in Proc : pc[d] \in MadeSteps => pc'[d] = pc[d]
        BY <1>13, RetryFacts, <1>b, ThrowFacts DEF Unclaim
      <4>3. claim # q
        <5>1. outrun' <=> outrun \/ claim \notin {p, None}
          BY <1>13 DEF Unclaim
        <5>2. QED
          BY <5>1, <3>2, LockConstants
      <4>4. QED
        BY <4>1, <4>2, <4>3 DEF TypeOK, Seen, Opt
    <3>3. QED
      BY <3>1, <3>2
  <2>4. QED
    BY <2>1, <2>2, <2>3
<1>14. ASSUME NEW p \in Proc, Release(p) PROVE Guarded'
  BY <1>14 DEF Release, TypeOK, Seen, Opt, Goto
<1>15. ASSUME NEW p \in Proc, ReleaseRead(p) PROVE Guarded'
  BY <1>15 DEF ReleaseRead, TypeOK, Seen, Opt, Goto
<1>16. ASSUME NEW p \in Proc, Unlink(p) PROVE Guarded'
  BY <1>16 DEF Unlink, TypeOK, Seen, Opt, Goto
<1>17. ASSUME NEW p \in Proc, Rmdir(p) PROVE Guarded'
  <2>1. MakerInv'
    BY <1>17, LockConstants DEF Rmdir, TypeOK, Seen, Opt, Goto, DirGone, Empty
  <2>2. OwnerInv'
    BY <1>17, LockConstants DEF Rmdir, TypeOK, Seen, Opt, Goto, DirGone, Empty
  <2>3. ClaimInv'
    BY <1>17, LockConstants DEF Rmdir, TypeOK, Seen, Opt, Goto, DirGone, Empty
  <2>4. QED
    BY <2>1, <2>2, <2>3
<1>18. ASSUME NEW p \in Proc, Exit(p) PROVE Guarded'
  BY <1>18, DiesFacts DEF Exit, TypeOK, Seen, Opt
<1>19. ASSUME NEW p \in Proc, Heartbeat(p) PROVE Guarded'
  BY <1>19 DEF Heartbeat, TypeOK, Seen, Opt, Goto
<1>20. ASSUME NEW p \in Proc, HeartbeatRead(p) PROVE Guarded'
  BY <1>20 DEF HeartbeatRead, TypeOK, Seen, Opt
<1>21. ASSUME NEW p \in Proc, HeartbeatWrite(p) PROVE Guarded'
  BY <1>21 DEF HeartbeatWrite, TypeOK, Seen, Opt, Goto, Unseen
<1>22. ASSUME NEW p \in Proc, Crash(p) PROVE Guarded'
  BY <1>22, DiesFacts DEF Crash, TypeOK, Seen, Opt
<1>23. ASSUME Age PROVE Guarded'
  BY <1>23 DEF Age
<1>24. QED
  BY <1>0, <1>1, <1>2, <1>3, <1>4, <1>5, <1>6, <1>7, <1>8, <1>9, <1>10, <1>11, <1>12, <1>13, <1>14,
     <1>15, <1>16, <1>17, <1>18, <1>19, <1>20, <1>21, <1>22, <1>23 DEF Next, Step, Beat

LEMMA Invariance == Spec => []Inv
<1>1. Inv /\ [Next]_vars => Inv'
  BY TypeStep, BasicStep, GuardedStep DEF Inv
<1>2. QED
  BY <1>1, InitInv, PTL DEF Spec

(* The fields of the lock, the attempts and what was read stay in their    *)
(* types, for any number of processes: the loop of acquireRuntimeLock      *)
(* never goes past its attempts.                                           *)
THEOREM LockTypeCorrect == Spec => []TypeOK
  BY Invariance, PTL DEF Inv

(* A process that holds the lock has its directory and its token at the    *)
(* path, as long as no claimant acted on a directory still at work or on   *)
(* another's claim: reclamation and takeover never displace a live owner.  *)
THEOREM HolderKeepsPath == Spec => []HolderOwnsPath
<1>1. Inv => HolderOwnsPath
  BY DEF Inv, Guarded, MakerInv, HolderOwnsPath, Holder
<1>2. QED
  BY <1>1, Invariance, PTL

(* At most one process holds the lock under the same condition.            *)
THEOREM OneHolder == Spec => [](~outrun => SingleWriter)
<1>1. Inv => (~outrun => SingleWriter)
  BY DEF Inv, Guarded, MakerInv, SingleWriter, Holder
<1>2. QED
  BY <1>1, Invariance, PTL
=============================================================================
