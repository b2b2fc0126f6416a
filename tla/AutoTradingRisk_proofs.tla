------------------------ MODULE AutoTradingRisk_proofs ------------------------
(***************************************************************************)
(* The envelope of automated pushes, for any callers, limits, batch and    *)
(* clock: the breaker, who may escape the check, and the order caps.       *)
(*                                                                         *)
(* The caps count orders that were sent, the controller counts stamps that *)
(* were reserved.  Between the two lie several awaits of one push, the     *)
(* other pushes and the clock.  LockInv says that one push at a time is    *)
(* between the two, CountInv that the orders of the controller's day are   *)
(* never more than its stamps, one less while a slot is reserved.          *)
(***************************************************************************)
EXTENDS AutoTradingRisk, FiniteSetTheorems, TLAPS

\* Where a push has the write lock of the git.
Locked == {"op", "rolled", "quoting", "reserved", "sent"}
Places == Locked \cup {"idle", "stop", "failsave"}
Calls == [at: Places, left: Nat, rejected: BOOLEAN, disturbed: BOOLEAN, slot: Nat]
Owners == Callers \cup {"pause", "reset", "load"}
Writes == [owner: Owners, at: {"mkdir", "write"}, content: Files]
Orders == [by: Callers, checked: BOOLEAN, slot: Nat, day: Nat, disturbed: BOOLEAN]

LEMMA Constants ==
    /\ Batch \in Nat /\ MaxOrdersPerHour \in Nat /\ MaxOrdersPerDay \in Nat
    /\ PauseAfterConsecutiveErrors \in Nat /\ PauseAfterConsecutiveErrors > 0
    /\ Hour \in Nat /\ DayLength \in Nat /\ DayLength > 0
    /\ MaxTime \in Nat /\ MaxPushes \in Nat /\ MaxEvents \in Nat
  BY RiskConstants

Typed ==
    /\ now \in Nat /\ pending \in Nat
    /\ online \in BOOLEAN /\ active \in BOOLEAN /\ inflight \in BOOLEAN /\ calm \in BOOLEAN
    /\ call \in [Callers -> Calls]
    /\ risk \in RiskStates /\ disk \in Files
    /\ load \in [at: {"reading", "read", "done"}, found: Files]
    /\ writes \subseteq Writes /\ placed \in Seq(Orders)

LEMMA TypedOK == (TypeOK <=> Typed) /\ (TypeOK' <=> Typed')
  BY DEF TypeOK, Typed, Calls, Places, Locked, Owners, Writes, Orders

LEMMA Types == ASSUME TypeOK PROVE Typed
  BY TypedOK

LEMMA DayType == \A t \in Nat : Day(t) \in Nat
  BY Constants DEF Day

LEMMA DayStep == \A t \in Nat : Day(t) <= Day(t + 1)
  BY Constants DEF Day

LEMMA FreshType == TypeOK => Fresh \in RiskStates
<1>1. <<>> \in Seq(Nat)
  OBVIOUS
<1>2. QED
  BY <1>1, Types, DayType DEF Fresh, RiskStates, Typed

LEMMA NoFileType == NoFile \in Files
<1>1. <<>> \in Seq(Nat)
  OBVIOUS
<1>2. QED
  BY <1>1 DEF NoFile, Files

LEMMA ContentType == ASSUME NEW s \in RiskStates PROVE Content(s) \in Files
  BY DEF Content, RiskStates, Files

LEMMA IdleType == Idle \in Calls /\ Idle.at = "idle" /\ Idle.disturbed = FALSE
  BY DEF Idle, Calls, Places

-----------------------------------------------------------------------------
(* What the effects that several steps share leave typed.                  *)

LEMMA PersistType ==
    ASSUME TypeOK, NEW o \in Owners, Persist(o)
    PROVE  writes' \subseteq Writes
  BY Types, NoFileType DEF Persist, Writes, Typed

LEMMA RollDayType ==
    ASSUME TypeOK, NEW s \in RiskStates, NEW o \in Owners, RollDay(s, o)
    PROVE  risk' \in RiskStates /\ writes' \subseteq Writes
<1>1. CASE risk' = s /\ UNCHANGED writes
  BY <1>1, Types DEF Typed
<1>2. CASE risk' = [Fresh EXCEPT !.paused = s.paused] /\ Persist(o)
  <2>1. risk' \in RiskStates
    BY <1>2, FreshType DEF RiskStates
  <2>2. QED
    BY <1>2, <2>1, PersistType
<1>3. QED
  BY <1>1, <1>2 DEF RollDay

LEMMA GoType ==
    ASSUME TypeOK, NEW c \in Callers, NEW at \in Places, Go(c, at)
    PROVE  call' \in [Callers -> Calls]
  BY Types DEF Go, Calls, Typed

LEMMA RefuseType ==
    ASSUME TypeOK, NEW c \in Callers, call[c].left > 0,
           Refuse(c) \/ call' = [call EXCEPT ![c].at = "op", ![c].left = @ - 1]
    PROVE  call' \in [Callers -> Calls]
<1>1. call[c] \in Calls /\ call[c].left - 1 \in Nat
  BY Types DEF Calls, Typed
<1>2. /\ [call[c] EXCEPT !.at = "op", !.left = @ - 1] \in Calls
      /\ [call[c] EXCEPT !.at = "op", !.left = @ - 1, !.rejected = TRUE] \in Calls
  BY <1>1 DEF Calls, Places, Locked
<1>3. \E r \in Calls : call' = [call EXCEPT ![c] = r]
  BY <1>1, <1>2 DEF Refuse
<1>4. QED
  BY <1>3, Types DEF Typed

LEMMA EndPushType ==
    ASSUME TypeOK, NEW c \in Callers, NEW next \in Calls, EndPush(c, next)
    PROVE  active' = FALSE /\ call' \in [Callers -> Calls]
  BY Types DEF EndPush, Calls, Typed

LEMMA EnterPushType ==
    ASSUME TypeOK, NEW c \in Callers, NEW flag \in BOOLEAN, EnterPush(c, flag)
    PROVE  active' \in BOOLEAN /\ inflight' \in BOOLEAN /\ call' \in [Callers -> Calls]
<1>1. CASE active' = flag /\ Go(c, "idle") /\ UNCHANGED inflight
  BY <1>1, GoType, Types DEF Places, Typed
<1>2. CASE EndPush(c, Idle) /\ UNCHANGED inflight
  BY <1>2, EndPushType, IdleType, Types DEF Typed
<1>3. CASE /\ inflight' = TRUE /\ active' = flag
           /\ call' = [call EXCEPT ![c] = [Idle EXCEPT !.at = "op", !.left = pending]]
  <2>1. [Idle EXCEPT !.at = "op", !.left = pending] \in Calls
    BY IdleType, Types DEF Calls, Places, Locked, Typed
  <2>2. QED
    BY <1>3, <2>1, Types DEF Typed
<1>4. QED
  BY <1>1, <1>2, <1>3 DEF EnterPush

LEMMA SendType ==
    ASSUME TypeOK, NEW c \in Callers, NEW checked \in BOOLEAN, Send(c, checked)
    PROVE  placed' \in Seq(Orders)
<1>1. call[c] \in Calls /\ risk.day \in Nat
  BY Types DEF RiskStates, Typed
<1>2. [by |-> c, checked |-> checked, slot |-> call[c].slot,
       day |-> risk.day, disturbed |-> call[c].disturbed] \in Orders
  BY <1>1 DEF Orders, Calls
<1>3. QED
  BY <1>2, Types DEF Send, Typed

-----------------------------------------------------------------------------
(* The invariant.                                                          *)

(* The breaker holds for the state and for everything that may become the  *)
(* state again: the file, what load() has read, and writes in progress.    *)
Trips(s) == s.errors >= PauseAfterConsecutiveErrors => s.paused
TripInv == /\ Trips(risk) /\ Trips(disk) /\ Trips(load.found)
           /\ \A w \in writes : Trips(w.content)

(* The flag is up under an automated push that nobody disturbed.           *)
ActiveInv ==
    /\ \A c \in Automated : call[c].at \in Locked /\ ~call[c].disturbed => active
    /\ OnlyDisturbedEscape

(* One push at a time is past the git's lock.                              *)
LockInv ==
    /\ \A c \in Callers : call[c].at \in Locked => inflight
    /\ \A c, d \in Callers : call[c].at \in Locked /\ call[d].at \in Locked => c = d
    /\ \A c \in Callers : call[c].at \in Locked \ {"op"} => call[c].left > 0

\* Every step keeps the types.
LEMMA TypeStep ==
    ASSUME TypeOK, LockInv, [Next]_vars
    PROVE  Typed'
<1>0. ASSUME UNCHANGED vars PROVE Typed'
  BY <1>0, Types DEF vars, Typed
<1>1. ASSUME NEW c \in Callers, Push(c) PROVE Typed'
  <2>1. active' \in BOOLEAN /\ inflight' \in BOOLEAN /\ call' \in [Callers -> Calls]
    BY <1>1, GoType, EnterPushType, Types DEF Push, Places, Typed
  <2>2. calm' \in BOOLEAN
    BY <1>1, Types DEF Push, Typed
  <2>3. QED
    BY <1>1, <2>1, <2>2, Types DEF Push, Typed
<1>2. ASSUME NEW c \in Callers, EmergencyStopRead(c) PROVE Typed'
  BY <1>2, GoType, EnterPushType, Types DEF EmergencyStopRead, Places, Typed
<1>3. ASSUME NEW c \in Callers, Dispatch(c) PROVE Typed'
  <2>1. call' \in [Callers -> Calls]
    BY <1>3, GoType DEF Dispatch, Places, Locked
  <2>2. risk' \in RiskStates /\ writes' \subseteq Writes /\ placed' \in Seq(Orders)
    BY <1>3, RollDayType, SendType, Types DEF Dispatch, Owners, Typed
  <2>3. QED
    BY <1>3, <2>1, <2>2, Types DEF Dispatch, Typed
<1>4. ASSUME NEW c \in Callers, CheckPause(c) PROVE Typed'
  <2>1. call' \in [Callers -> Calls]
    BY <1>4, GoType, RefuseType DEF CheckPause, LockInv, Places, Locked
  <2>2. QED
    BY <1>4, <2>1, Types DEF CheckPause, Typed
<1>5. ASSUME NEW c \in Callers, CheckLimits(c) PROVE Typed'
  <2>1. CASE Refuse(c) /\ UNCHANGED <<risk, writes>>
    <3>1. call' \in [Callers -> Calls]
      BY <1>5, <2>1, RefuseType DEF CheckLimits, LockInv, Locked
    <3>2. QED
      BY <1>5, <2>1, <3>1, Types DEF CheckLimits, Typed
  <2>2. CASE /\ risk' = [risk EXCEPT !.stamps = Append(@, now)] /\ Persist(c)
             /\ call' = [call EXCEPT ![c].at = "reserved", ![c].slot = now]
    <3>1. risk' \in RiskStates
      <4>1. risk.stamps \in Seq(Nat) /\ Append(risk.stamps, now) \in Seq(Nat)
        BY Types DEF RiskStates, Typed
      <4>2. QED
        BY <2>2, <4>1, Types DEF RiskStates, Typed
    <3>2. call' \in [Callers -> Calls]
      <4>1. call \in [Callers -> Calls] /\ now \in Nat
        BY Types DEF Typed
      <4>2. "reserved" \in Places
        BY DEF Places, Locked
      <4>3. QED
        BY <2>2, <4>1, <4>2 DEF Calls
    <3>3. QED
      BY <1>5, <2>2, <3>1, <3>2, PersistType, Types DEF CheckLimits, Owners, Typed
  <2>3. QED
    BY <1>5, <2>1, <2>2 DEF CheckLimits
<1>6. ASSUME NEW c \in Callers, SendReserved(c) PROVE Typed'
  BY <1>6, GoType, SendType, Types DEF SendReserved, Places, Locked, Typed
<1>7. ASSUME NEW c \in Callers, BrokerAnswers(c) PROVE Typed'
  <2>1. call' \in [Callers -> Calls]
    BY <1>7, RefuseType DEF BrokerAnswers, LockInv, Locked
  <2>2. QED
    BY <1>7, <2>1, Types DEF BrokerAnswers, Typed
<1>8. ASSUME NEW c \in Callers, FinishPush(c) PROVE Typed'
  <2>1. active' = FALSE /\ call' \in [Callers -> Calls]
    <3>1. [Idle EXCEPT !.at = "failsave"] \in Calls
      BY IdleType DEF Calls, Places
    <3>2. \E next \in Calls : EndPush(c, next)
      BY <1>8, <3>1, IdleType DEF FinishPush
    <3>3. QED
      BY <3>2, EndPushType
  <2>2. risk' \in RiskStates /\ writes' \subseteq Writes
    <3>1. CASE UNCHANGED <<risk, writes>>
      BY <3>1, Types DEF Typed
    <3>2. CASE RecordFailure(c)
      <4>1. risk' \in RiskStates
        <5>1. /\ risk.errors + 1 \in Nat
              /\ (risk.paused \/ risk.errors + 1 >= PauseAfterConsecutiveErrors) \in BOOLEAN
          BY Types DEF RiskStates, Typed
        <5>2. QED
          BY <3>2, <5>1, Types DEF RecordFailure, RiskStates, Typed
      <4>2. QED
        BY <3>2, <4>1, PersistType DEF RecordFailure, Owners
    <3>3. QED
      BY <1>8, <3>1, <3>2 DEF FinishPush
  <2>3. pending' \in Nat
    BY <1>8, Types DEF FinishPush, Typed
  <2>4. QED
    BY <1>8, <2>1, <2>2, <2>3, Types DEF FinishPush, Typed
<1>9. ASSUME NEW c \in Callers, FailureSaved(c) PROVE Typed'
  BY <1>9, GoType, Types DEF FailureSaved, Places, Typed
<1>10. ASSUME FileSystem PROVE Typed'
  <2>1. PICK w \in writes :
           \/ /\ writes' = (writes \ {w}) \cup
                           {[w EXCEPT !.at = "write", !.content = Content(risk)]}
              /\ UNCHANGED disk
           \/ writes' = writes \ {w} /\ disk' = w.content
    BY <1>10 DEF FileSystem
  <2>2. w \in Writes /\ w.content \in Files /\ Content(risk) \in Files
    BY Types, ContentType DEF Writes, Typed
  <2>3. [w EXCEPT !.at = "write", !.content = Content(risk)] \in Writes
    BY <2>2 DEF Writes
  <2>4. writes' \subseteq Writes /\ disk' \in Files
    BY <2>1, <2>2, <2>3, Types DEF Typed
  <2>5. QED
    BY <1>10, <2>4, Types DEF FileSystem, Typed
<1>11. ASSUME LoadRead PROVE Typed'
  BY <1>11, Types DEF LoadRead, Typed
<1>12. ASSUME LoadApply PROVE Typed'
  <2>1. /\ load' \in [at: {"reading", "read", "done"}, found: Files]
        /\ load.found \in Files
    BY <1>12, NoFileType, Types DEF LoadApply, Typed
  <2>2. \E s \in RiskStates : RollDay(s, "load")
    BY <1>12, <2>1, Types DEF LoadApply, Files, RiskStates, Typed
  <2>3. QED
    BY <1>12, <2>1, <2>2, RollDayType, Types DEF LoadApply, Owners, Typed
<1>13. ASSUME Commit PROVE Typed'
  BY <1>13, Types, Constants DEF Commit, Typed
<1>14. ASSUME Pause PROVE Typed'
  <2>1. risk' \in RiskStates
    BY <1>14, Types DEF Pause, RiskStates, Typed
  <2>2. QED
    BY <1>14, <2>1, PersistType, Types DEF Pause, Owners, Typed
<1>15. ASSUME ResetPause PROVE Typed'
  <2>1. risk' \in RiskStates
    BY <1>15, Types DEF ResetPause, RiskStates, Typed
  <2>2. QED
    BY <1>15, <2>1, PersistType, Types DEF ResetPause, Owners, Typed
<1>16. ASSUME HealthChanges PROVE Typed'
  BY <1>16, Types DEF HealthChanges, Typed
<1>17. ASSUME Tick PROVE Typed'
  BY <1>17, Types DEF Tick, Typed
<1>18. ASSUME Crash PROVE Typed'
  <2>1. call' \in [Callers -> Calls] /\ risk' \in RiskStates
    BY <1>18, IdleType, FreshType DEF Crash
  <2>2. /\ load' \in [at: {"reading", "read", "done"}, found: Files]
        /\ disk' \in Files /\ writes' \subseteq Writes
    BY <1>18, NoFileType, Types DEF Crash, Typed
  <2>3. QED
    BY <1>18, <2>1, <2>2, Types DEF Crash, Typed
<1> QED
  BY <1>0, <1>1, <1>2, <1>3, <1>4, <1>5, <1>6, <1>7, <1>8, <1>9, <1>10, <1>11,
     <1>12, <1>13, <1>14, <1>15, <1>16, <1>17, <1>18 DEF Next, PushStep

-----------------------------------------------------------------------------
(* The breaker.                                                            *)
LEMMA FreshTrips == Trips(Fresh) /\ Trips(NoFile)
  BY Constants DEF Trips, Fresh, NoFile

LEMMA PersistTrips ==
    ASSUME TripInv, NEW o, Persist(o)
    PROVE  \A w \in writes' : Trips(w.content)
  BY FreshTrips DEF TripInv, Persist

LEMMA RollTrips ==
    ASSUME TypeOK, TripInv, NEW s, NEW o, Trips(s), RollDay(s, o)
    PROVE  Trips(risk)' /\ \A w \in writes' : Trips(w.content)
<1>1. CASE risk' = s /\ UNCHANGED writes
  BY <1>1 DEF TripInv, Trips
<1>2. CASE risk' = [Fresh EXCEPT !.paused = s.paused] /\ Persist(o)
  <2>1. risk'.errors = 0
    BY <1>2 DEF Fresh
  <2>2. Trips(risk)'
    BY <2>1, Constants DEF Trips
  <2>3. QED
    BY <1>2, <2>2, PersistTrips
<1>3. QED
  BY <1>1, <1>2 DEF RollDay

\* A count at the threshold comes with the pause, and both are saved and loaded together.
LEMMA TripStep ==
    ASSUME TypeOK, TripInv, [Next]_vars
    PROVE  TripInv'
<1>0. ASSUME UNCHANGED vars PROVE TripInv'
  BY <1>0 DEF vars, TripInv, Trips
<1>1. ASSUME NEW c \in Callers, Push(c) PROVE TripInv'
  BY <1>1 DEF Push, TripInv, Trips
<1>2. ASSUME NEW c \in Callers, EmergencyStopRead(c) PROVE TripInv'
  BY <1>2 DEF EmergencyStopRead, TripInv, Trips
<1>3. ASSUME NEW c \in Callers, Dispatch(c) PROVE TripInv'
  BY <1>3, RollTrips DEF Dispatch, TripInv
<1>4. ASSUME NEW c \in Callers, CheckPause(c) PROVE TripInv'
  BY <1>4 DEF CheckPause, TripInv, Trips
<1>5. ASSUME NEW c \in Callers, CheckLimits(c) PROVE TripInv'
  <2>1. Trips(risk)'
    BY <1>5, Types DEF CheckLimits, TripInv, Trips, RiskStates, Typed
  <2>2. \A w \in writes' : Trips(w.content)
    BY <1>5, PersistTrips DEF CheckLimits, TripInv
  <2>3. QED
    BY <1>5, <2>1, <2>2 DEF CheckLimits, TripInv, Trips
<1>6. ASSUME NEW c \in Callers, SendReserved(c) PROVE TripInv'
  BY <1>6 DEF SendReserved, TripInv, Trips
<1>7. ASSUME NEW c \in Callers, BrokerAnswers(c) PROVE TripInv'
  BY <1>7 DEF BrokerAnswers, TripInv, Trips
<1>8. ASSUME NEW c \in Callers, FinishPush(c) PROVE TripInv'
  <2>1. CASE UNCHANGED <<risk, writes>>
    BY <1>8, <2>1 DEF FinishPush, TripInv, Trips
  <2>2. CASE RecordFailure(c)
    <3>1. Trips(risk)'
      BY <2>2, Types DEF RecordFailure, TripInv, Trips, RiskStates, Typed
    <3>2. \A w \in writes' : Trips(w.content)
      BY <2>2, PersistTrips DEF RecordFailure, TripInv
    <3>3. QED
      BY <1>8, <3>1, <3>2 DEF FinishPush, TripInv, Trips
  <2>3. QED
    BY <1>8, <2>1, <2>2 DEF FinishPush
<1>9. ASSUME NEW c \in Callers, FailureSaved(c) PROVE TripInv'
  BY <1>9 DEF FailureSaved, TripInv, Trips
<1>10. ASSUME FileSystem PROVE TripInv'
  <2>1. PICK w \in writes :
           \/ /\ writes' = (writes \ {w}) \cup
                           {[w EXCEPT !.at = "write", !.content = Content(risk)]}
              /\ UNCHANGED disk
           \/ writes' = writes \ {w} /\ disk' = w.content
    BY <1>10 DEF FileSystem
  <2>2. Trips(Content(risk)) /\ Trips(w.content)
    BY DEF TripInv, Trips, Content
  <2>3. [w EXCEPT !.at = "write", !.content = Content(risk)].content = Content(risk)
    BY Types DEF Writes, Typed
  <2>4. (\A v \in writes' : Trips(v.content)) /\ Trips(disk')
    BY <2>1, <2>2, <2>3 DEF TripInv
  <2>5. QED
    BY <1>10, <2>4 DEF FileSystem, TripInv, Trips
<1>11. ASSUME LoadRead PROVE TripInv'
  BY <1>11 DEF LoadRead, TripInv, Trips
<1>12. ASSUME LoadApply PROVE TripInv'
  <2>1. PICK s : Trips(s) /\ RollDay(s, "load")
    BY <1>12 DEF LoadApply, TripInv, Trips
  <2>2. Trips(risk)' /\ \A w \in writes' : Trips(w.content)
    BY <2>1, RollTrips DEF TripInv
  <2>3. load'.found = NoFile /\ disk' = disk
    BY <1>12 DEF LoadApply
  <2>4. QED
    BY <2>2, <2>3, FreshTrips DEF TripInv, Trips
<1>13. ASSUME Commit PROVE TripInv'
  BY <1>13 DEF Commit, TripInv, Trips
<1>14. ASSUME Pause PROVE TripInv'
  <2>1. Trips(risk)'
    BY <1>14, Types DEF Pause, TripInv, Trips, RiskStates, Typed
  <2>2. QED
    BY <1>14, <2>1, PersistTrips DEF Pause, TripInv, Trips
<1>15. ASSUME ResetPause PROVE TripInv'
  <2>1. Trips(risk)'
    BY <1>15, Types, Constants DEF ResetPause, Trips, RiskStates, Typed
  <2>2. QED
    BY <1>15, <2>1, PersistTrips DEF ResetPause, TripInv, Trips
<1>16. ASSUME HealthChanges PROVE TripInv'
  BY <1>16 DEF HealthChanges, TripInv, Trips
<1>17. ASSUME Tick PROVE TripInv'
  BY <1>17 DEF Tick, TripInv, Trips
<1>18. ASSUME Crash PROVE TripInv'
  <2>1. risk' = Fresh /\ load'.found = NoFile /\ writes' = {} /\ disk' \in {disk, NoFile}
    BY <1>18 DEF Crash
  <2>2. QED
    BY <2>1, FreshTrips DEF TripInv, Trips
<1> QED
  BY <1>0, <1>1, <1>2, <1>3, <1>4, <1>5, <1>6, <1>7, <1>8, <1>9, <1>10, <1>11,
     <1>12, <1>13, <1>14, <1>15, <1>16, <1>17, <1>18 DEF Next, PushStep

-----------------------------------------------------------------------------
(* What the effects do to the push calls.                                  *)
Others(c) == \A d \in Callers : d # c => call'[d] = call[d]

LEMMA GoEffect ==
    ASSUME TypeOK, NEW c \in Callers, NEW at, Go(c, at)
    PROVE  /\ Others(c) /\ call'[c].at = at /\ call'[c].slot = call[c].slot
           /\ call'[c].left = call[c].left /\ call'[c].disturbed = call[c].disturbed
  BY Types DEF Go, Others, Calls, Typed

LEMMA RefuseEffect ==
    ASSUME TypeOK, NEW c \in Callers,
           Refuse(c) \/ call' = [call EXCEPT ![c].at = "op", ![c].left = @ - 1]
    PROVE  /\ Others(c) /\ call'[c].at = "op"
           /\ call'[c].disturbed = call[c].disturbed
  BY Types DEF Refuse, Others, Calls, Typed

LEMMA ReserveEffect ==
    ASSUME TypeOK, NEW c \in Callers,
           call' = [call EXCEPT ![c].at = "reserved", ![c].slot = now]
    PROVE  /\ Others(c) /\ call'[c].at = "reserved" /\ call'[c].slot = now
           /\ call'[c].left = call[c].left /\ call'[c].disturbed = call[c].disturbed
  BY Types DEF Others, Calls, Typed

LEMMA EndPushEffect ==
    ASSUME TypeOK, NEW c \in Callers, NEW next, EndPush(c, next)
    PROVE  /\ active' = FALSE /\ call'[c] = next
           /\ \A d \in Callers : d # c =>
                 /\ call'[d].at = call[d].at /\ call'[d].left = call[d].left
                 /\ call'[d].slot = call[d].slot /\ call'[d].disturbed = TRUE
  BY Types DEF EndPush, Calls, Typed

(* A push call that enters: it ends where it is, ends and takes the flag   *)
(* down, or has the lock.                                                  *)
LEMMA EnterEffect ==
    ASSUME TypeOK, NEW c \in Callers, NEW flag, EnterPush(c, flag)
    PROVE  \/ Others(c) /\ call'[c].at = "idle" /\ active' = flag /\ inflight' = inflight
           \/ EndPush(c, Idle) /\ inflight' = inflight
           \/ /\ Others(c) /\ call'[c].at = "op" /\ active' = flag
              /\ ~inflight /\ inflight' = TRUE
<1>1. CASE active' = flag /\ Go(c, "idle") /\ UNCHANGED inflight
  BY <1>1, GoEffect
<1>2. CASE EndPush(c, Idle) /\ UNCHANGED inflight
  BY <1>2
<1>3. CASE /\ ~inflight /\ inflight' = TRUE /\ active' = flag
           /\ call' = [call EXCEPT ![c] = [Idle EXCEPT !.at = "op", !.left = pending]]
  <2>1. [Idle EXCEPT !.at = "op", !.left = pending].at = "op"
    BY DEF Idle
  <2>2. QED
    BY <1>3, <2>1, Types DEF Others, Typed
<1>4. QED
  BY <1>1, <1>2, <1>3 DEF EnterPush

(* One holder of the lock: a call takes it when it is free, and the holder *)
(* gives it back.                                                          *)
LEMMA EnterLock ==
    ASSUME TypeOK, LockInv, NEW c \in Callers, NEW flag, EnterPush(c, flag)
    PROVE  LockInv'
<1>1. CASE Others(c) /\ call'[c].at = "idle" /\ inflight' = inflight
  BY <1>1 DEF Others, LockInv, Locked
<1>2. CASE EndPush(c, Idle) /\ inflight' = inflight
  <2>1. /\ call'[c].at = "idle"
        /\ \A d \in Callers : d # c => call'[d].at = call[d].at /\ call'[d].left = call[d].left
    BY <1>2, EndPushEffect, IdleType
  <2>2. QED
    BY <1>2, <2>1 DEF LockInv, Locked
<1>3. CASE Others(c) /\ call'[c].at = "op" /\ ~inflight /\ inflight' = TRUE
  BY <1>3 DEF Others, LockInv, Locked
<1>4. QED
  BY <1>1, <1>2, <1>3, EnterEffect

\* Every step keeps to the lock.
LEMMA LockStep ==
    ASSUME TypeOK, LockInv, [Next]_vars
    PROVE  LockInv'
<1>0. ASSUME UNCHANGED vars PROVE LockInv'
  BY <1>0 DEF vars, LockInv
<1>1. ASSUME NEW c \in Callers, Push(c) PROVE LockInv'
  <2>1. CASE Go(c, "stop") /\ UNCHANGED <<active, inflight>>
    BY <2>1, GoEffect DEF Others, LockInv, Locked
  <2>2. CASE EnterPush(c, active)
    BY <2>2, EnterLock
  <2>3. QED
    BY <1>1, <2>1, <2>2 DEF Push
<1>2. ASSUME NEW c \in Callers, EmergencyStopRead(c) PROVE LockInv'
  <2>1. CASE Go(c, "idle") /\ UNCHANGED <<active, inflight>>
    BY <2>1, GoEffect DEF Others, LockInv, Locked
  <2>2. CASE EnterPush(c, TRUE)
    BY <2>2, EnterLock
  <2>3. QED
    BY <1>2, <2>1, <2>2 DEF EmergencyStopRead
<1>3. ASSUME NEW c \in Callers, Dispatch(c) PROVE LockInv'
  <2>1. Others(c) /\ call'[c].at \in Locked /\ call[c].at \in Locked
    BY <1>3, GoEffect DEF Dispatch, Locked
  <2>2. inflight' = inflight /\ call'[c].left > 0
    BY <1>3, GoEffect DEF Dispatch
  <2>3. QED
    BY <2>1, <2>2 DEF Others, LockInv
<1>4. ASSUME NEW c \in Callers, CheckPause(c) PROVE LockInv'
  <2>1. Others(c) /\ call'[c].at \in {"op", "quoting"} /\ call[c].at = "rolled"
    BY <1>4, GoEffect, RefuseEffect DEF CheckPause
  <2>2. call'[c].at = "quoting" => call'[c].left = call[c].left
    BY <1>4, GoEffect, RefuseEffect DEF CheckPause
  <2>3. inflight' = inflight
    BY <1>4 DEF CheckPause
  <2>4. QED
    BY <2>1, <2>2, <2>3 DEF Others, LockInv, Locked
<1>5. ASSUME NEW c \in Callers, CheckLimits(c) PROVE LockInv'
  <2>1. /\ Others(c) /\ call'[c].at \in {"op", "reserved"} /\ call[c].at = "quoting"
        /\ call'[c].at = "reserved" => call'[c].left = call[c].left
    BY <1>5, RefuseEffect, ReserveEffect DEF CheckLimits
  <2>2. inflight' = inflight
    BY <1>5 DEF CheckLimits
  <2>3. QED
    BY <2>1, <2>2 DEF Others, LockInv, Locked
<1>6. ASSUME NEW c \in Callers, SendReserved(c) PROVE LockInv'
  <2>1. /\ Others(c) /\ call'[c].at = "sent" /\ call[c].at = "reserved"
        /\ call'[c].left = call[c].left /\ inflight' = inflight
    BY <1>6, GoEffect DEF SendReserved
  <2>2. QED
    BY <2>1 DEF Others, LockInv, Locked
<1>7. ASSUME NEW c \in Callers, BrokerAnswers(c) PROVE LockInv'
  <2>1. Others(c) /\ call'[c].at = "op" /\ call[c].at = "sent" /\ inflight' = inflight
    BY <1>7, RefuseEffect DEF BrokerAnswers
  <2>2. QED
    BY <2>1 DEF Others, LockInv, Locked
<1>8. ASSUME NEW c \in Callers, FinishPush(c) PROVE LockInv'
  <2>1. PICK next : EndPush(c, next) /\ next.at \in {"idle", "failsave"}
    BY <1>8 DEF FinishPush, Idle
  <2>2. call[c].at = "op" /\ inflight' = FALSE
    BY <1>8 DEF FinishPush
  <2>3. /\ call'[c].at \in {"idle", "failsave"}
        /\ \A d \in Callers : d # c => call'[d].at = call[d].at /\ call'[d].left = call[d].left
    BY <2>1, EndPushEffect
  <2>4. QED
    BY <2>2, <2>3 DEF LockInv, Locked
<1>9. ASSUME NEW c \in Callers, FailureSaved(c) PROVE LockInv'
  BY <1>9, GoEffect DEF FailureSaved, Others, LockInv, Locked
<1>10. ASSUME FileSystem PROVE LockInv'
  BY <1>10 DEF FileSystem, LockInv
<1>11. ASSUME LoadRead PROVE LockInv'
  BY <1>11 DEF LoadRead, LockInv
<1>12. ASSUME LoadApply PROVE LockInv'
  BY <1>12 DEF LoadApply, LockInv
<1>13. ASSUME Commit PROVE LockInv'
  BY <1>13 DEF Commit, LockInv
<1>14. ASSUME Pause PROVE LockInv'
  BY <1>14 DEF Pause, LockInv
<1>15. ASSUME ResetPause PROVE LockInv'
  BY <1>15 DEF ResetPause, LockInv
<1>16. ASSUME HealthChanges PROVE LockInv'
  BY <1>16 DEF HealthChanges, LockInv
<1>17. ASSUME Tick PROVE LockInv'
  BY <1>17 DEF Tick, LockInv
<1>18. ASSUME Crash PROVE LockInv'
  BY <1>18, IdleType DEF Crash, LockInv, Locked
<1> QED
  BY <1>0, <1>1, <1>2, <1>3, <1>4, <1>5, <1>6, <1>7, <1>8, <1>9, <1>10, <1>11,
     <1>12, <1>13, <1>14, <1>15, <1>16, <1>17, <1>18 DEF Next, PushStep

-----------------------------------------------------------------------------
(* Who escapes.                                                            *)
LEMMA CallersOf == Automated \subseteq Callers
  BY DEF Callers

LEMMA EnterActive ==
    ASSUME TypeOK, ActiveInv, NEW c \in Callers, NEW flag,
           flag = TRUE \/ (c \notin Automated /\ flag = active),
           EnterPush(c, flag), placed' = placed
    PROVE  ActiveInv'
<1>1. CASE Others(c) /\ call'[c].at \in {"idle", "op"} /\ active' = flag
  BY <1>1, CallersOf DEF Others, ActiveInv, OnlyDisturbedEscape, Locked
<1>2. CASE EndPush(c, Idle)
  <2>1. /\ call'[c].at = "idle"
        /\ \A d \in Callers : d # c => call'[d].disturbed = TRUE
    BY <1>2, EndPushEffect, IdleType
  <2>2. QED
    BY <2>1, CallersOf DEF ActiveInv, OnlyDisturbedEscape, Locked
<1>3. QED
  BY <1>1, <1>2, EnterEffect

LEMMA SendEscape ==
    ASSUME TypeOK, OnlyDisturbedEscape, NEW c \in Callers, NEW checked \in BOOLEAN,
           Send(c, checked), ~checked /\ c \in Automated => call[c].disturbed
    PROVE  OnlyDisturbedEscape'
<1>1. PICK r : /\ placed' = Append(placed, r)
               /\ r.by = c /\ r.checked = checked /\ r.disturbed = call[c].disturbed
  BY DEF Send
<1>2. /\ Len(placed') = Len(placed) + 1
      /\ \A i \in 1..Len(placed') : placed'[i] = IF i = Len(placed) + 1 THEN r ELSE placed[i]
  BY <1>1, Types DEF Typed
<1>3. \A i \in 1..Len(placed') : i # Len(placed) + 1 => i \in 1..Len(placed)
  BY <1>2, Types DEF Typed
<1>4. QED
  BY <1>1, <1>2, <1>3 DEF OnlyDisturbedEscape

\* Only the end of another push takes the flag down under a push.
LEMMA ActiveStep ==
    ASSUME TypeOK, ActiveInv, [Next]_vars
    PROVE  ActiveInv'
<1>0. ASSUME UNCHANGED vars PROVE ActiveInv'
  BY <1>0 DEF vars, ActiveInv, OnlyDisturbedEscape
<1>1. ASSUME NEW c \in Callers, Push(c) PROVE ActiveInv'
  <2>1. CASE Go(c, "stop") /\ UNCHANGED <<active, inflight>>
    BY <1>1, <2>1, GoEffect, CallersOf DEF Push, Others, ActiveInv, Locked, OnlyDisturbedEscape
  <2>2. CASE c \notin Automated /\ EnterPush(c, active)
    <3>1. placed' = placed
      BY <1>1 DEF Push
    <3>2. QED
      BY <2>2, <3>1, EnterActive
  <2>3. QED
    BY <1>1, <2>1, <2>2 DEF Push
<1>2. ASSUME NEW c \in Callers, EmergencyStopRead(c) PROVE ActiveInv'
  <2>1. placed' = placed
    BY <1>2 DEF EmergencyStopRead
  <2>2. CASE Go(c, "idle") /\ UNCHANGED <<active, inflight>>
    BY <2>1, <2>2, GoEffect, CallersOf DEF Others, ActiveInv, Locked, OnlyDisturbedEscape
  <2>3. CASE EnterPush(c, TRUE)
    BY <2>1, <2>3, EnterActive
  <2>4. QED
    BY <1>2, <2>2, <2>3 DEF EmergencyStopRead
<1>3. ASSUME NEW c \in Callers, Dispatch(c) PROVE ActiveInv'
  <2>1. /\ Others(c) /\ call[c].at \in Locked /\ active' = active
        /\ call'[c].disturbed = call[c].disturbed
    BY <1>3, GoEffect DEF Dispatch, Locked
  <2>2. OnlyDisturbedEscape'
    <3>1. CASE active
      BY <1>3, <3>1 DEF Dispatch, ActiveInv, OnlyDisturbedEscape
    <3>2. CASE ~active
      <4>1. Send(c, FALSE) /\ (c \in Automated => call[c].disturbed)
        BY <1>3, <2>1, <3>2 DEF Dispatch, ActiveInv
      <4>2. QED
        BY <4>1, SendEscape DEF ActiveInv
    <3>3. QED
      BY <3>1, <3>2
  <2>3. QED
    BY <2>1, <2>2, CallersOf DEF Others, ActiveInv
<1>4. ASSUME NEW c \in Callers, CheckPause(c) PROVE ActiveInv'
  <2>1. /\ Others(c) /\ call[c].at \in Locked /\ active' = active
        /\ call'[c].disturbed = call[c].disturbed /\ placed' = placed
    BY <1>4, GoEffect, RefuseEffect DEF CheckPause, Locked
  <2>2. QED
    BY <2>1, CallersOf DEF Others, ActiveInv, OnlyDisturbedEscape
<1>5. ASSUME NEW c \in Callers, CheckLimits(c) PROVE ActiveInv'
  <2>1. /\ Others(c) /\ call[c].at \in Locked /\ active' = active
        /\ call'[c].disturbed = call[c].disturbed /\ placed' = placed
    BY <1>5, RefuseEffect, ReserveEffect DEF CheckLimits, Locked
  <2>2. QED
    BY <2>1, CallersOf DEF Others, ActiveInv, OnlyDisturbedEscape
<1>6. ASSUME NEW c \in Callers, SendReserved(c) PROVE ActiveInv'
  <2>1. /\ Others(c) /\ call[c].at \in Locked /\ active' = active
        /\ call'[c].disturbed = call[c].disturbed
    BY <1>6, GoEffect DEF SendReserved, Locked
  <2>2. OnlyDisturbedEscape'
    BY <1>6, SendEscape DEF SendReserved, ActiveInv
  <2>3. QED
    BY <2>1, <2>2, CallersOf DEF Others, ActiveInv
<1>7. ASSUME NEW c \in Callers, BrokerAnswers(c) PROVE ActiveInv'
  <2>1. /\ Others(c) /\ call[c].at \in Locked /\ active' = active
        /\ call'[c].disturbed = call[c].disturbed /\ placed' = placed
    BY <1>7, RefuseEffect DEF BrokerAnswers, Locked
  <2>2. QED
    BY <2>1, CallersOf DEF Others, ActiveInv, OnlyDisturbedEscape
<1>8. ASSUME NEW c \in Callers, FinishPush(c) PROVE ActiveInv'
  <2>1. PICK next : EndPush(c, next) /\ next.at \in {"idle", "failsave"}
    BY <1>8 DEF FinishPush, Idle
  <2>2. placed' = placed
    BY <1>8 DEF FinishPush
  <2>3. /\ active' = FALSE /\ call'[c] = next
        /\ \A d \in Callers : d # c => call'[d].disturbed = TRUE
    BY <2>1, EndPushEffect
  <2>4. \A d \in Automated : ~(call'[d].at \in Locked /\ ~call'[d].disturbed)
    BY <2>1, <2>3, CallersOf DEF Locked
  <2>5. QED
    BY <2>2, <2>4 DEF ActiveInv, OnlyDisturbedEscape
<1>9. ASSUME NEW c \in Callers, FailureSaved(c) PROVE ActiveInv'
  BY <1>9, GoEffect, CallersOf DEF FailureSaved, Others, ActiveInv, Locked,
         OnlyDisturbedEscape
<1>10. ASSUME FileSystem PROVE ActiveInv'
  BY <1>10 DEF FileSystem, ActiveInv, OnlyDisturbedEscape
<1>11. ASSUME LoadRead PROVE ActiveInv'
  BY <1>11 DEF LoadRead, ActiveInv, OnlyDisturbedEscape
<1>12. ASSUME LoadApply PROVE ActiveInv'
  BY <1>12 DEF LoadApply, ActiveInv, OnlyDisturbedEscape
<1>13. ASSUME Commit PROVE ActiveInv'
  BY <1>13 DEF Commit, ActiveInv, OnlyDisturbedEscape
<1>14. ASSUME Pause PROVE ActiveInv'
  BY <1>14 DEF Pause, ActiveInv, OnlyDisturbedEscape
<1>15. ASSUME ResetPause PROVE ActiveInv'
  BY <1>15 DEF ResetPause, ActiveInv, OnlyDisturbedEscape
<1>16. ASSUME HealthChanges PROVE ActiveInv'
  BY <1>16 DEF HealthChanges, ActiveInv, OnlyDisturbedEscape
<1>17. ASSUME Tick PROVE ActiveInv'
  BY <1>17 DEF Tick, ActiveInv, OnlyDisturbedEscape
<1>18. ASSUME Crash PROVE ActiveInv'
  BY <1>18, IdleType, CallersOf DEF Crash, ActiveInv, Locked, OnlyDisturbedEscape
<1> QED
  BY <1>0, <1>1, <1>2, <1>3, <1>4, <1>5, <1>6, <1>7, <1>8, <1>9, <1>10, <1>11,
     <1>12, <1>13, <1>14, <1>15, <1>16, <1>17, <1>18 DEF Next, PushStep

-----------------------------------------------------------------------------
(* The caps.  Orders and stamps are counted over sequences.                *)
Checked(p, d) == {i \in 1..Len(p) : p[i].checked /\ p[i].day = d}
Within(p, d, t) == {i \in Checked(p, d) : p[i].slot \in t..(t + Hour)}
Stamped(s, t) == {j \in 1..Len(s) : s[j] \in t..(t + Hour)}

\* Before load() has ended no push has begun and no stamp exists anywhere.
BootInv ==
    calm /\ load.at # "done" =>
       /\ placed = <<>> /\ risk.stamps = <<>> /\ disk.stamps = <<>>
       /\ load.found.stamps = <<>> /\ \A w \in writes : w.content.stamps = <<>>
       /\ \A c \in Callers : call[c].at = "idle"
\* The controller's day is not ahead of the clock nor behind an order.
DayInv == /\ risk.day <= Day(now)
          /\ \A i \in 1..Len(placed) : placed[i].day <= risk.day
\* The stamps keep to the limits.
StampInv == /\ Len(risk.stamps) <= MaxOrdersPerDay
            /\ \A t \in Nat : Cardinality(Stamped(risk.stamps, t)) <= MaxOrdersPerHour
\* The orders of the controller's day have their stamps, and so has a reserved slot.
Covered(p, s, d) ==
    /\ Cardinality(Checked(p, d)) <= Len(s)
    /\ \A t \in Nat : Cardinality(Within(p, d, t)) <= Cardinality(Stamped(s, t))
Spare(p, s, d, slot) ==
    /\ Cardinality(Checked(p, d)) + 1 <= Len(s)
    /\ \A t \in Nat : slot \in t..(t + Hour) =>
          Cardinality(Within(p, d, t)) + 1 <= Cardinality(Stamped(s, t))
SlotInv ==
    /\ Covered(placed, risk.stamps, risk.day)
    /\ \A c \in Callers : call[c].at = "reserved" =>
          Spare(placed, risk.stamps, risk.day, call[c].slot)
\* The orders of every day keep to the limits.
Capped(p, d) ==
    /\ Cardinality(Checked(p, d)) <= MaxOrdersPerDay
    /\ \A t \in Nat : Cardinality(Within(p, d, t)) <= MaxOrdersPerHour
CapsInv == \A d \in Nat : Capped(placed, d)

CountInv == calm => DayInv /\ StampInv /\ SlotInv /\ CapsInv

LEMMA IndexesFinite == ASSUME NEW n \in Nat PROVE IsFiniteSet(1..n)
  BY FS_Interval

LEMMA CountTypes ==
    ASSUME NEW p \in Seq(Orders), NEW s \in Seq(Nat), NEW d, NEW t
    PROVE  /\ IsFiniteSet(Checked(p, d)) /\ Cardinality(Checked(p, d)) \in Nat
           /\ IsFiniteSet(Within(p, d, t)) /\ Cardinality(Within(p, d, t)) \in Nat
           /\ IsFiniteSet(Stamped(s, t)) /\ Cardinality(Stamped(s, t)) \in Nat
<1>1. IsFiniteSet(1..Len(p)) /\ IsFiniteSet(1..Len(s))
  BY FS_Interval
<1>2. Checked(p, d) \in SUBSET (1..Len(p)) /\ Stamped(s, t) \in SUBSET (1..Len(s))
  BY DEF Checked, Stamped
<1>3. IsFiniteSet(Checked(p, d)) /\ IsFiniteSet(Stamped(s, t))
  BY <1>1, <1>2, FS_Subset
<1>4. Within(p, d, t) \in SUBSET Checked(p, d)
  BY DEF Within
<1>5. IsFiniteSet(Within(p, d, t))
  BY <1>3, <1>4, FS_Subset
<1>6. QED
  BY <1>3, <1>5, FS_CardinalityType

\* Nothing was sent, nothing was stamped.
LEMMA CountNone ==
    /\ \A d : Checked(<<>>, d) = {}
    /\ \A p, d, t : Checked(p, d) = {} => Within(p, d, t) = {}
    /\ \A t : Stamped(<<>>, t) = {}
    /\ Cardinality({}) = 0
  BY FS_EmptySet DEF Checked, Within, Stamped

\* A stamp more.
LEMMA StampMore ==
    ASSUME NEW s \in Seq(Nat), NEW n \in Nat, NEW t \in Nat
    PROVE  Cardinality(Stamped(Append(s, n), t)) =
              IF n \in t..(t + Hour) THEN Cardinality(Stamped(s, t)) + 1
              ELSE Cardinality(Stamped(s, t))
<1>1. /\ Len(Append(s, n)) = Len(s) + 1 /\ Len(s) \in Nat
      /\ \A j \in 1..Len(s) : Append(s, n)[j] = s[j]
      /\ Append(s, n)[Len(s) + 1] = n
  OBVIOUS
<1>2. CASE n \in t..(t + Hour)
  <2>1. Stamped(Append(s, n), t) = Stamped(s, t) \cup {Len(s) + 1}
    BY <1>1, <1>2 DEF Stamped
  <2>2. Len(s) + 1 \notin Stamped(s, t)
    BY <1>1 DEF Stamped
  <2>3. IsFiniteSet(Stamped(s, t))
    <3>1. <<>> \in Seq(Orders)
      OBVIOUS
    <3>2. QED
      BY <3>1, CountTypes
  <2>4. QED
    BY <1>2, <2>1, <2>2, <2>3, FS_AddElement
<1>3. CASE n \notin t..(t + Hour)
  <2>1. Stamped(Append(s, n), t) = Stamped(s, t)
    BY <1>1, <1>3 DEF Stamped
  <2>2. QED
    BY <1>3, <2>1
<1>4. QED
  BY <1>2, <1>3

\* An order that does not count for the day.
LEMMA OrderElse ==
    ASSUME NEW p \in Seq(Orders), NEW r \in Orders, NEW d \in Nat, ~r.checked \/ r.day # d
    PROVE  /\ Checked(Append(p, r), d) = Checked(p, d)
           /\ \A t : Within(Append(p, r), d, t) = Within(p, d, t)
<1>1. /\ Len(Append(p, r)) = Len(p) + 1 /\ Len(p) \in Nat
      /\ \A j \in 1..Len(p) : Append(p, r)[j] = p[j]
      /\ Append(p, r)[Len(p) + 1] = r
  OBVIOUS
<1>2. Checked(Append(p, r), d) = Checked(p, d)
  BY <1>1 DEF Checked
<1>3. \A i \in Checked(p, d) : Append(p, r)[i] = p[i]
  BY <1>1 DEF Checked
<1>4. QED
  BY <1>2, <1>3 DEF Within

\* An order that does.
LEMMA OrderMore ==
    ASSUME NEW p \in Seq(Orders), NEW r \in Orders, r.checked
    PROVE  /\ Cardinality(Checked(Append(p, r), r.day)) = Cardinality(Checked(p, r.day)) + 1
           /\ \A t \in Nat : Cardinality(Within(Append(p, r), r.day, t)) =
                 IF r.slot \in t..(t + Hour) THEN Cardinality(Within(p, r.day, t)) + 1
                 ELSE Cardinality(Within(p, r.day, t))
<1>1. /\ Len(Append(p, r)) = Len(p) + 1 /\ Len(p) \in Nat
      /\ \A j \in 1..Len(p) : Append(p, r)[j] = p[j]
      /\ Append(p, r)[Len(p) + 1] = r
  OBVIOUS
<1>2. Checked(Append(p, r), r.day) = Checked(p, r.day) \cup {Len(p) + 1}
  BY <1>1 DEF Checked
<1>3. /\ Len(p) + 1 \notin Checked(p, r.day)
      /\ \A i \in Checked(p, r.day) : Append(p, r)[i] = p[i]
  BY <1>1 DEF Checked
<1>4. <<>> \in Seq(Nat)
  OBVIOUS
<1>5. ASSUME NEW t \in Nat
      PROVE  Cardinality(Within(Append(p, r), r.day, t)) =
                IF r.slot \in t..(t + Hour) THEN Cardinality(Within(p, r.day, t)) + 1
                ELSE Cardinality(Within(p, r.day, t))
  <2>1. IsFiniteSet(Within(p, r.day, t)) /\ Len(p) + 1 \notin Within(p, r.day, t)
    BY <1>3, <1>4, CountTypes DEF Within
  <2>2. CASE r.slot \in t..(t + Hour)
    <3>1. Within(Append(p, r), r.day, t) = Within(p, r.day, t) \cup {Len(p) + 1}
      BY <1>1, <1>2, <1>3, <2>2 DEF Within
    <3>2. QED
      BY <2>1, <2>2, <3>1, FS_AddElement
  <2>3. CASE r.slot \notin t..(t + Hour)
    <3>1. Within(Append(p, r), r.day, t) = Within(p, r.day, t)
      BY <1>1, <1>2, <1>3, <2>3 DEF Within
    <3>2. QED
      BY <2>3, <3>1
  <2>4. QED
    BY <2>2, <2>3
<1>6. Cardinality(Checked(Append(p, r), r.day)) = Cardinality(Checked(p, r.day)) + 1
  BY <1>2, <1>3, <1>4, CountTypes, FS_AddElement
<1>7. QED
  BY <1>5, <1>6

\* Until load() has ended nothing counts, or the run is not calm.
LEMMA BootStep ==
    ASSUME TypeOK, BootInv, [Next]_vars
    PROVE  BootInv'
<1>0. ASSUME UNCHANGED vars PROVE BootInv'
  BY <1>0 DEF vars, BootInv
<1>1. ASSUME NEW c \in Callers, Push(c) PROVE BootInv'
  BY <1>1 DEF Push, BootInv
<1>2. ASSUME NEW c \in Callers, EmergencyStopRead(c) PROVE BootInv'
  BY <1>2 DEF EmergencyStopRead, BootInv
<1>3. ASSUME NEW c \in Callers, Dispatch(c) PROVE BootInv'
  BY <1>3 DEF Dispatch, BootInv
<1>4. ASSUME NEW c \in Callers, CheckPause(c) PROVE BootInv'
  BY <1>4 DEF CheckPause, BootInv
<1>5. ASSUME NEW c \in Callers, CheckLimits(c) PROVE BootInv'
  BY <1>5 DEF CheckLimits, BootInv
<1>6. ASSUME NEW c \in Callers, SendReserved(c) PROVE BootInv'
  BY <1>6 DEF SendReserved, BootInv
<1>7. ASSUME NEW c \in Callers, BrokerAnswers(c) PROVE BootInv'
  BY <1>7 DEF BrokerAnswers, BootInv
<1>8. ASSUME NEW c \in Callers, FinishPush(c) PROVE BootInv'
  BY <1>8 DEF FinishPush, BootInv
<1>9. ASSUME NEW c \in Callers, FailureSaved(c) PROVE BootInv'
  BY <1>9 DEF FailureSaved, BootInv
<1>10. ASSUME FileSystem PROVE BootInv'
  <2>1. PICK w \in writes :
           \/ /\ writes' = (writes \ {w}) \cup
                           {[w EXCEPT !.at = "write", !.content = Content(risk)]}
              /\ UNCHANGED disk
           \/ writes' = writes \ {w} /\ disk' = w.content
    BY <1>10 DEF FileSystem
  <2>2. [w EXCEPT !.at = "write", !.content = Content(risk)].content.stamps = risk.stamps
    BY Types DEF Writes, Content, Typed
  <2>3. UNCHANGED <<call, risk, load, placed, calm>>
    BY <1>10 DEF FileSystem
  <2>4. QED
    BY <2>1, <2>2, <2>3 DEF BootInv
<1>11. ASSUME LoadRead PROVE BootInv'
  BY <1>11 DEF LoadRead, BootInv
<1>12. ASSUME LoadApply PROVE BootInv'
  <2>1. load'.at = "done"
    BY <1>12 DEF LoadApply
  <2>2. QED
    BY <2>1 DEF BootInv
<1>13. ASSUME Commit PROVE BootInv'
  BY <1>13 DEF Commit, BootInv
<1>14. ASSUME Pause PROVE BootInv'
  <2>1. risk'.stamps = risk.stamps
    BY <1>14, Types DEF Pause, RiskStates, Typed
  <2>2. QED
    BY <1>14, <2>1 DEF Pause, BootInv, Persist, NoFile
<1>15. ASSUME ResetPause PROVE BootInv'
  <2>1. risk'.stamps = risk.stamps
    BY <1>15, Types DEF ResetPause, RiskStates, Typed
  <2>2. QED
    BY <1>15, <2>1 DEF ResetPause, BootInv, Persist, NoFile
<1>16. ASSUME HealthChanges PROVE BootInv'
  BY <1>16 DEF HealthChanges, BootInv
<1>17. ASSUME Tick PROVE BootInv'
  BY <1>17 DEF Tick, BootInv
<1>18. ASSUME Crash PROVE BootInv'
  BY <1>18 DEF Crash, BootInv
<1> QED
  BY <1>0, <1>1, <1>2, <1>3, <1>4, <1>5, <1>6, <1>7, <1>8, <1>9, <1>10, <1>11,
     <1>12, <1>13, <1>14, <1>15, <1>16, <1>17, <1>18 DEF Next, PushStep

\* Steps that leave the orders, the stamps and their day alone.
LEMMA CountFrame ==
    ASSUME CountInv, calm' => calm, placed' = placed,
           risk'.stamps = risk.stamps, risk'.day = risk.day, Day(now) <= Day(now)',
           Day(now) \in Nat, Day(now)' \in Nat, risk.day \in Nat,
           \A c \in Callers : call'[c].at = "reserved" =>
               call[c].at = "reserved" /\ call'[c].slot = call[c].slot
    PROVE  CountInv'
<1> SUFFICES ASSUME calm, DayInv, StampInv, SlotInv, CapsInv
             PROVE  DayInv' /\ StampInv' /\ SlotInv' /\ CapsInv'
  BY DEF CountInv
<1>1. DayInv'
  BY DEF DayInv
<1>2. StampInv' /\ SlotInv' /\ CapsInv'
  BY DEF StampInv, SlotInv, CapsInv
<1>3. QED
  BY <1>1, <1>2

LEMMA OrderDays == TypeOK => \A i \in 1..Len(placed) : placed[i].day \in Nat
<1>1. TypeOK => \A i \in 1..Len(placed) : placed[i] \in Orders
  BY Types DEF Typed
<1>2. QED
  BY <1>1 DEF Orders

\* A day without orders: the stamps begin again.
LEMMA CountFresh ==
    ASSUME TypeOK, TypeOK', calm' => CapsInv /\ \A i \in 1..Len(placed) : placed[i].day < risk'.day,
           placed' = placed, now' = now, risk'.stamps = <<>>, risk'.day = Day(now),
           \A c \in Callers : call'[c].at # "reserved"
    PROVE  CountInv'
<1> SUFFICES ASSUME calm' PROVE DayInv' /\ StampInv' /\ SlotInv' /\ CapsInv'
  BY DEF CountInv
<1>1. Day(now) \in Nat /\ placed \in Seq(Orders)
  BY Types, DayType DEF Typed
<1>a. CapsInv /\ \A i \in 1..Len(placed) : placed[i].day < risk'.day
  OBVIOUS
<1>b. \A i \in 1..Len(placed) : placed[i].day \in Nat
  BY OrderDays
<1>2. Checked(placed', risk'.day) = {}
  BY <1>1, <1>a, <1>b DEF Checked
<1>3. \A t : Within(placed', risk'.day, t) = {}
  BY <1>2, CountNone
<1>4. DayInv'
  BY <1>1, <1>a, <1>b DEF DayInv
<1>c. /\ Len(risk'.stamps) = 0
      /\ \A t \in Nat : Cardinality(Stamped(risk'.stamps, t)) = 0
  BY CountNone
<1>5. StampInv'
  BY <1>c, Constants DEF StampInv
<1>6. SlotInv'
  <2>1. /\ Cardinality(Checked(placed', risk'.day)) = 0
        /\ \A t \in Nat : Cardinality(Within(placed', risk'.day, t)) = 0
    BY <1>2, <1>3, CountNone
  <2>2. QED
    BY <1>c, <2>1 DEF SlotInv, Covered
<1>7. CapsInv'
  BY <1>a DEF CapsInv
<1>8. QED
  BY <1>4, <1>5, <1>6, <1>7

\* A push call that enters reserves nothing.
LEMMA EnterSlots ==
    ASSUME TypeOK, NEW c \in Callers, NEW flag, EnterPush(c, flag)
    PROVE  \A d \in Callers : call'[d].at = "reserved" =>
               call[d].at = "reserved" /\ call'[d].slot = call[d].slot
<1>1. CASE Others(c) /\ call'[c].at \in {"idle", "op"}
  BY <1>1 DEF Others
<1>2. CASE EndPush(c, Idle)
  BY <1>2, EndPushEffect, IdleType
<1>3. QED
  BY <1>1, <1>2, EnterEffect

\* What Send appends.
LEMMA SendOrder ==
    ASSUME TypeOK, NEW c \in Callers, NEW checked \in BOOLEAN, Send(c, checked)
    PROVE  \E r \in Orders : /\ placed' = Append(placed, r)
                             /\ r.checked = checked /\ r.day = risk.day /\ r.slot = call[c].slot
<1>1. call[c] \in Calls /\ risk.day \in Nat
  BY Types DEF RiskStates, Typed
<1>2. [by |-> c, checked |-> checked, slot |-> call[c].slot,
       day |-> risk.day, disturbed |-> call[c].disturbed] \in Orders
  BY <1>1 DEF Orders, Calls
<1>3. QED
  BY <1>2 DEF Send

LEMMA SendDays ==
    ASSUME TypeOK, DayInv, NEW r \in Orders, placed' = Append(placed, r), r.day = risk.day,
           risk' = risk, now' = now
    PROVE  DayInv'
<1>1. /\ Len(placed') = Len(placed) + 1 /\ Len(placed) \in Nat
      /\ \A i \in 1..Len(placed) : placed'[i] = placed[i]
      /\ placed'[Len(placed) + 1] = r
  BY Types DEF Typed
<1>2. risk.day \in Nat
  BY Types DEF RiskStates, Typed
<1>3. QED
  BY <1>1, <1>2 DEF DayInv

\* An unchecked order changes no count.
LEMMA SendUncounted ==
    ASSUME TypeOK, CountInv, NEW c \in Callers, Send(c, FALSE),
           risk' = risk, calm' = calm, now' = now,
           \A d \in Callers : call'[d].at # "reserved"
    PROVE  CountInv'
<1> SUFFICES ASSUME calm, DayInv, StampInv, SlotInv, CapsInv
             PROVE  DayInv' /\ StampInv' /\ SlotInv' /\ CapsInv'
  BY DEF CountInv
<1>1. PICK r \in Orders : placed' = Append(placed, r) /\ r.checked = FALSE /\ r.day = risk.day
  BY SendOrder
<1>2. placed \in Seq(Orders) /\ risk.day \in Nat
  BY Types DEF RiskStates, Typed
<1>3. \A d \in Nat : /\ Checked(placed', d) = Checked(placed, d)
                     /\ \A t : Within(placed', d, t) = Within(placed, d, t)
  BY <1>1, <1>2, OrderElse
<1>4. DayInv'
  BY <1>1, SendDays
<1>5. StampInv' /\ SlotInv' /\ CapsInv'
  BY <1>2, <1>3 DEF StampInv, SlotInv, Covered, CapsInv, Capped
<1>6. QED
  BY <1>4, <1>5

\* A checked order uses the slot it reserved.
LEMMA SendCounted ==
    ASSUME TypeOK, CountInv, NEW c \in Callers, Send(c, TRUE), call[c].at = "reserved",
           risk' = risk, calm' = calm, now' = now,
           \A d \in Callers : call'[d].at # "reserved"
    PROVE  CountInv'
<1> SUFFICES ASSUME calm, DayInv, StampInv, SlotInv, CapsInv
             PROVE  DayInv' /\ StampInv' /\ SlotInv' /\ CapsInv'
  BY DEF CountInv
<1>1. PICK r \in Orders : /\ placed' = Append(placed, r) /\ r.checked = TRUE
                         /\ r.day = risk.day /\ r.slot = call[c].slot
  BY SendOrder
<1>2. placed \in Seq(Orders) /\ risk.day \in Nat /\ risk.stamps \in Seq(Nat)
  BY Types DEF RiskStates, Typed
<1>3. Spare(placed, risk.stamps, risk.day, r.slot) /\ Covered(placed, risk.stamps, risk.day)
  BY <1>1 DEF SlotInv
<1>4. Covered(placed', risk.stamps, risk.day)
  BY <1>1, <1>2, <1>3, OrderMore DEF Spare, Covered
<1>5. \A d \in Nat : d # risk.day => Capped(placed', d)
  BY <1>1, <1>2, OrderElse DEF CapsInv, Capped
<1>6. Capped(placed', risk.day)
  <2>0. placed' \in Seq(Orders) /\ Len(risk.stamps) \in Nat
    BY <1>1, <1>2
  <2>1. Cardinality(Checked(placed', risk.day)) \in Nat
    BY <1>2, <2>0, CountTypes
  <2>2. \A t \in Nat : /\ Cardinality(Stamped(risk.stamps, t)) \in Nat
                      /\ Cardinality(Within(placed', risk.day, t)) \in Nat
    BY <1>2, <2>0, CountTypes
  <2>3. Cardinality(Checked(placed', risk.day)) <= MaxOrdersPerDay
    BY <1>4, <2>0, <2>1, Constants DEF Covered, StampInv
  <2>4. ASSUME NEW t \in Nat
        PROVE  Cardinality(Within(placed', risk.day, t)) <= MaxOrdersPerHour
    <3>1. /\ Cardinality(Within(placed', risk.day, t)) <= Cardinality(Stamped(risk.stamps, t))
          /\ Cardinality(Stamped(risk.stamps, t)) <= MaxOrdersPerHour
      BY <1>4 DEF Covered, StampInv
    <3>2. QED
      BY <2>2, <3>1, Constants
  <2>5. QED
    BY <2>3, <2>4 DEF Capped
<1>7. DayInv'
  BY <1>1, SendDays
<1>8. QED
  BY <1>4, <1>5, <1>6, <1>7 DEF StampInv, SlotInv, CapsInv

LEMMA SameHour ==
    ASSUME NEW a \in Nat, NEW n \in Nat, NEW t \in Nat,
           a \in t..(t + Hour), n \in t..(t + Hour)
    PROVE  a + Hour >= n
  BY Constants

(* The limits are tested and the slot reserved in one step: every window   *)
(* that the new stamp falls into lies in the hour that was counted.        *)
LEMMA Reserves ==
    ASSUME TypeOK, CountInv, LockInv, NEW c \in Callers, call[c].at = "quoting", WithinLimits,
           risk' = [risk EXCEPT !.stamps = Append(@, now)],
           call' = [call EXCEPT ![c].at = "reserved", ![c].slot = now],
           placed' = placed, calm' = calm, now' = now
    PROVE  CountInv'
<1> SUFFICES ASSUME calm, DayInv, StampInv, SlotInv, CapsInv
             PROVE  DayInv' /\ StampInv' /\ SlotInv' /\ CapsInv'
  BY DEF CountInv
<1>1. /\ now \in Nat /\ risk.stamps \in Seq(Nat) /\ Len(risk.stamps) \in Nat
      /\ placed \in Seq(Orders)
  BY Types DEF RiskStates, Typed
<1>2. /\ risk'.stamps = Append(risk.stamps, now) /\ risk'.day = risk.day
      /\ Len(risk'.stamps) = Len(risk.stamps) + 1
  BY <1>1, Types DEF RiskStates, Typed
<1>3. DayInv' /\ CapsInv'
  BY <1>2 DEF DayInv, CapsInv
<1>4. \A t \in Nat : Cardinality(Stamped(risk.stamps, t)) \in Nat
  BY <1>1, CountTypes
<1>5. StampInv'
  <2>1. ASSUME NEW t \in Nat
        PROVE  Cardinality(Stamped(risk'.stamps, t)) <= MaxOrdersPerHour
    <3>1. CASE now \in t..(t + Hour)
      <4>1. Stamped(risk.stamps, t) \in SUBSET LastHour
        <5>1. \A j \in 1..Len(risk.stamps) : risk.stamps[j] \in Nat
          BY <1>1
        <5>2. \A j \in 1..Len(risk.stamps) :
                 risk.stamps[j] \in t..(t + Hour) => risk.stamps[j] + Hour >= now
          BY <1>1, <3>1, <5>1, SameHour
        <5>3. QED
          BY <5>2 DEF Stamped, LastHour
      <4>2. IsFiniteSet(LastHour)
        <5>1. LastHour \in SUBSET (1..Len(risk.stamps))
          BY DEF LastHour
        <5>2. IsFiniteSet(1..Len(risk.stamps))
          BY <1>1, IndexesFinite
        <5>3. QED
          BY <5>1, <5>2, FS_Subset
      <4>3. Cardinality(Stamped(risk.stamps, t)) <= Cardinality(LastHour)
        BY <4>1, <4>2, FS_Subset
      <4>4. Cardinality(LastHour) \in Nat
        BY <4>2, FS_CardinalityType
      <4>5. Cardinality(Stamped(risk'.stamps, t)) = Cardinality(Stamped(risk.stamps, t)) + 1
        BY <1>1, <1>2, <3>1, StampMore
      <4>6. Cardinality(LastHour) < MaxOrdersPerHour
        BY DEF WithinLimits
      <4>7. QED
        BY <1>4, <4>3, <4>4, <4>5, <4>6, Constants
    <3>2. CASE now \notin t..(t + Hour)
      BY <1>1, <1>2, <3>2, StampMore DEF StampInv
    <3>3. QED
      BY <3>1, <3>2
  <2>2. QED
    BY <1>1, <1>2, <2>1, Constants DEF StampInv, WithinLimits
<1>6. Spare(placed, risk'.stamps, risk.day, now) /\ Covered(placed, risk'.stamps, risk.day)
  <2>1. Covered(placed, risk.stamps, risk.day)
    BY DEF SlotInv
  <2>2. \A t \in Nat : Cardinality(Within(placed, risk.day, t)) \in Nat
    BY <1>1, CountTypes
  <2>3. Cardinality(Checked(placed, risk.day)) \in Nat
    BY <1>1, CountTypes
  <2>4. \A t \in Nat : Cardinality(Stamped(risk'.stamps, t)) =
              IF now \in t..(t + Hour) THEN Cardinality(Stamped(risk.stamps, t)) + 1
              ELSE Cardinality(Stamped(risk.stamps, t))
    BY <1>1, <1>2, StampMore
  <2>5. Cardinality(Checked(placed, risk.day)) + 1 <= Len(risk'.stamps)
    BY <1>1, <1>2, <2>1, <2>3 DEF Covered
  <2>6. ASSUME NEW t \in Nat
        PROVE  /\ Cardinality(Within(placed, risk.day, t)) <= Cardinality(Stamped(risk'.stamps, t))
               /\ now \in t..(t + Hour) =>
                     Cardinality(Within(placed, risk.day, t)) + 1
                        <= Cardinality(Stamped(risk'.stamps, t))
    <3>1. Cardinality(Within(placed, risk.day, t)) <= Cardinality(Stamped(risk.stamps, t))
      BY <2>1 DEF Covered
    <3>2. QED
      BY <1>4, <2>2, <2>4, <3>1
  <2>7. Cardinality(Checked(placed, risk.day)) <= Len(risk'.stamps)
    BY <1>1, <1>2, <2>3, <2>5
  <2>8. QED
    BY <2>5, <2>6, <2>7 DEF Spare, Covered
<1>7. SlotInv'
  <2>1. Others(c) /\ call'[c].slot = now
    BY ReserveEffect
  <2>2. \A d \in Callers : call'[d].at = "reserved" => d = c
    BY <2>1 DEF Others, LockInv, Locked
  <2>3. QED
    BY <1>2, <1>6, <2>1, <2>2 DEF SlotInv
<1>8. QED
  BY <1>3, <1>5, <1>7

\* Every step keeps the orders under the stamps and the stamps under the limits.
LEMMA CountStep ==
    ASSUME TypeOK, TypeOK', LockInv, BootInv, CountInv, [Next]_vars
    PROVE  CountInv'
<1>d. Day(now) \in Nat /\ risk.day \in Nat /\ Day(now) <= Day(now)
  BY Types, DayType DEF RiskStates, Typed
<1>0. ASSUME UNCHANGED vars PROVE CountInv'
  BY <1>0 DEF vars, CountInv, DayInv, StampInv, SlotInv, CapsInv
<1>1. ASSUME NEW c \in Callers, Push(c) PROVE CountInv'
  <2>2. \A d \in Callers : call'[d].at = "reserved" =>
           call[d].at = "reserved" /\ call'[d].slot = call[d].slot
    BY <1>1, GoEffect, EnterSlots DEF Push, Others
  <2>3. calm' => calm
    BY <1>1, Types DEF Push, Typed
  <2>4. now' = now /\ placed' = placed /\ risk' = risk
    BY <1>1 DEF Push
  <2>5. QED
    BY <2>2, <2>3, <2>4, <1>d, CountFrame
<1>2. ASSUME NEW c \in Callers, EmergencyStopRead(c) PROVE CountInv'
  <2>1. /\ calm' = calm /\ now' = now /\ placed' = placed
        /\ risk'.stamps = risk.stamps /\ risk'.day = risk.day
    BY <1>2 DEF EmergencyStopRead
  <2>2. \A d \in Callers : call'[d].at = "reserved" =>
           call[d].at = "reserved" /\ call'[d].slot = call[d].slot
    BY <1>2, GoEffect, EnterSlots DEF EmergencyStopRead, Others
  <2>3. QED
    BY <2>1, <2>2, <1>d, CountFrame
<1>3. ASSUME NEW c \in Callers, Dispatch(c) PROVE CountInv'
  <2>1. \A d \in Callers : call'[d].at # "reserved"
    <3>1. Others(c) /\ call'[c].at \in {"rolled", "sent"} /\ call[c].at = "op"
      BY <1>3, GoEffect DEF Dispatch
    <3>2. QED
      BY <3>1 DEF Others, LockInv, Locked
  <2>2. calm' = calm /\ now' = now
    BY <1>3 DEF Dispatch
  <2>3. CASE ~active
    <3>1. risk' = risk /\ Send(c, FALSE)
      BY <1>3, <2>3 DEF Dispatch
    <3>2. QED
      BY <2>1, <2>2, <3>1, SendUncounted
  <2>4. CASE active
    <3>1. placed' = placed /\ RollDay(risk, c)
      BY <1>3, <2>4 DEF Dispatch
    <3>2. CASE risk' = risk
      BY <2>1, <2>2, <3>1, <3>2, <1>d, CountFrame
    <3>3. CASE risk.day # Day(now) /\ risk' = [Fresh EXCEPT !.paused = risk.paused]
      <4>1. risk'.stamps = <<>> /\ risk'.day = Day(now)
        BY <3>3 DEF Fresh
      <4>2. calm' => CapsInv /\ \A i \in 1..Len(placed) : placed[i].day < risk'.day
        BY <2>2, <3>3, <4>1, <1>d, OrderDays DEF CountInv, DayInv
      <4>3. QED
        BY <2>1, <2>2, <3>1, <4>1, <4>2, CountFresh
    <3>4. QED
      BY <3>1, <3>2, <3>3 DEF RollDay
  <2>5. QED
    BY <2>3, <2>4
<1>4. ASSUME NEW c \in Callers, CheckPause(c) PROVE CountInv'
  <2>1. /\ calm' = calm /\ now' = now /\ placed' = placed
        /\ risk'.stamps = risk.stamps /\ risk'.day = risk.day
    BY <1>4 DEF CheckPause
  <2>2. \A d \in Callers : call'[d].at = "reserved" =>
           call[d].at = "reserved" /\ call'[d].slot = call[d].slot
    BY <1>4, GoEffect, RefuseEffect DEF CheckPause, Others
  <2>3. QED
    BY <2>1, <2>2, <1>d, CountFrame
<1>5. ASSUME NEW c \in Callers, CheckLimits(c) PROVE CountInv'
  <2>1. calm' = calm /\ now' = now /\ placed' = placed /\ call[c].at = "quoting"
    BY <1>5 DEF CheckLimits
  <2>2. CASE Refuse(c) /\ UNCHANGED risk
    <3>1. \A d \in Callers : call'[d].at = "reserved" =>
             call[d].at = "reserved" /\ call'[d].slot = call[d].slot
      BY <2>2, RefuseEffect DEF Others
    <3>2. QED
      BY <2>1, <2>2, <3>1, <1>d, CountFrame
  <2>3. CASE /\ WithinLimits
             /\ risk' = [risk EXCEPT !.stamps = Append(@, now)]
             /\ call' = [call EXCEPT ![c].at = "reserved", ![c].slot = now]
    BY <2>1, <2>3, Reserves
  <2>4. QED
    BY <1>5, <2>2, <2>3 DEF CheckLimits
<1>6. ASSUME NEW c \in Callers, SendReserved(c) PROVE CountInv'
  <2>1. /\ Others(c) /\ call'[c].at = "sent" /\ call[c].at = "reserved"
        /\ Send(c, TRUE) /\ UNCHANGED <<calm, now, risk>>
    BY <1>6, GoEffect DEF SendReserved
  <2>2. \A d \in Callers : call'[d].at # "reserved"
    BY <2>1 DEF Others, LockInv, Locked
  <2>3. QED
    BY <2>1, <2>2, SendCounted
<1>7. ASSUME NEW c \in Callers, BrokerAnswers(c) PROVE CountInv'
  <2>1. /\ calm' = calm /\ now' = now /\ placed' = placed
        /\ risk'.stamps = risk.stamps /\ risk'.day = risk.day
    BY <1>7 DEF BrokerAnswers
  <2>2. \A d \in Callers : call'[d].at = "reserved" =>
           call[d].at = "reserved" /\ call'[d].slot = call[d].slot
    BY <1>7, RefuseEffect DEF BrokerAnswers, Others
  <2>3. QED
    BY <2>1, <2>2, <1>d, CountFrame
<1>8. ASSUME NEW c \in Callers, FinishPush(c) PROVE CountInv'
  <2>1. PICK next : EndPush(c, next) /\ next.at \in {"idle", "failsave"}
    BY <1>8 DEF FinishPush, Idle
  <2>2. \A d \in Callers : call'[d].at = "reserved" =>
           call[d].at = "reserved" /\ call'[d].slot = call[d].slot
    BY <2>1, EndPushEffect
  <2>3. calm' = calm /\ now' = now /\ placed' = placed
    BY <1>8 DEF FinishPush
  <2>4. risk'.stamps = risk.stamps /\ risk'.day = risk.day
    <3>1. UNCHANGED risk \/ RecordFailure(c)
      BY <1>8 DEF FinishPush
    <3>2. QED
      BY <3>1, Types DEF RecordFailure, RiskStates, Typed
  <2>5. QED
    BY <2>2, <2>3, <2>4, <1>d, CountFrame
<1>9. ASSUME NEW c \in Callers, FailureSaved(c) PROVE CountInv'
  <2>1. /\ calm' = calm /\ now' = now /\ placed' = placed
        /\ risk'.stamps = risk.stamps /\ risk'.day = risk.day
    BY <1>9 DEF FailureSaved
  <2>2. \A d \in Callers : call'[d].at = "reserved" =>
           call[d].at = "reserved" /\ call'[d].slot = call[d].slot
    BY <1>9, GoEffect DEF FailureSaved, Others
  <2>3. QED
    BY <2>1, <2>2, <1>d, CountFrame
<1>10. ASSUME FileSystem PROVE CountInv'
  <2>1. /\ calm' = calm /\ now' = now /\ placed' = placed
        /\ risk'.stamps = risk.stamps /\ risk'.day = risk.day
    BY <1>10 DEF FileSystem
  <2>2. \A d \in Callers : call'[d].at = "reserved" =>
           call[d].at = "reserved" /\ call'[d].slot = call[d].slot
    BY <1>10 DEF FileSystem
  <2>3. QED
    BY <2>1, <2>2, <1>d, CountFrame
<1>11. ASSUME LoadRead PROVE CountInv'
  <2>1. /\ calm' = calm /\ now' = now /\ placed' = placed
        /\ risk'.stamps = risk.stamps /\ risk'.day = risk.day
    BY <1>11 DEF LoadRead
  <2>2. \A d \in Callers : call'[d].at = "reserved" =>
           call[d].at = "reserved" /\ call'[d].slot = call[d].slot
    BY <1>11 DEF LoadRead
  <2>3. QED
    BY <2>1, <2>2, <1>d, CountFrame
<1>12. ASSUME LoadApply PROVE CountInv'
  <2>1. CASE ~calm
    BY <1>12, <2>1 DEF LoadApply, CountInv
  <2>2. CASE calm
    <3>1. /\ placed = <<>> /\ risk.stamps = <<>> /\ load.found.stamps = <<>>
          /\ \A d \in Callers : call[d].at = "idle"
      BY <1>12, <2>2 DEF LoadApply, BootInv
    <3>2. PICK s : s.stamps = <<>> /\ RollDay(s, "load")
      BY <1>12, <3>1 DEF LoadApply
    <3>3. risk'.stamps = <<>> /\ risk'.day = Day(now)
      BY <3>2 DEF RollDay, Fresh
    <3>4. placed' = placed /\ now' = now /\ call' = call
      BY <1>12 DEF LoadApply
    <3>5. CapsInv /\ \A i \in 1..Len(placed) : placed[i].day < risk'.day
      BY <2>2, <3>1 DEF CountInv
    <3>6. QED
      BY <3>1, <3>3, <3>4, <3>5, CountFresh
  <2>3. QED
    BY <2>1, <2>2, Types DEF Typed
<1>13. ASSUME Commit PROVE CountInv'
  <2>1. /\ calm' = calm /\ now' = now /\ placed' = placed
        /\ risk'.stamps = risk.stamps /\ risk'.day = risk.day
    BY <1>13 DEF Commit
  <2>2. \A d \in Callers : call'[d].at = "reserved" =>
           call[d].at = "reserved" /\ call'[d].slot = call[d].slot
    BY <1>13 DEF Commit
  <2>3. QED
    BY <2>1, <2>2, <1>d, CountFrame
<1>14. ASSUME Pause PROVE CountInv'
  <2>1. /\ calm' = calm /\ now' = now /\ placed' = placed
        /\ risk'.stamps = risk.stamps /\ risk'.day = risk.day
    BY <1>14, Types DEF Pause, RiskStates, Typed
  <2>2. \A d \in Callers : call'[d].at = "reserved" =>
           call[d].at = "reserved" /\ call'[d].slot = call[d].slot
    BY <1>14 DEF Pause
  <2>3. QED
    BY <2>1, <2>2, <1>d, CountFrame
<1>15. ASSUME ResetPause PROVE CountInv'
  <2>1. /\ calm' = calm /\ now' = now /\ placed' = placed
        /\ risk'.stamps = risk.stamps /\ risk'.day = risk.day
    BY <1>15, Types DEF ResetPause, RiskStates, Typed
  <2>2. \A d \in Callers : call'[d].at = "reserved" =>
           call[d].at = "reserved" /\ call'[d].slot = call[d].slot
    BY <1>15 DEF ResetPause
  <2>3. QED
    BY <2>1, <2>2, <1>d, CountFrame
<1>16. ASSUME HealthChanges PROVE CountInv'
  <2>1. /\ calm' = calm /\ now' = now /\ placed' = placed
        /\ risk'.stamps = risk.stamps /\ risk'.day = risk.day
    BY <1>16 DEF HealthChanges
  <2>2. \A d \in Callers : call'[d].at = "reserved" =>
           call[d].at = "reserved" /\ call'[d].slot = call[d].slot
    BY <1>16 DEF HealthChanges
  <2>3. QED
    BY <2>1, <2>2, <1>d, CountFrame
<1>17. ASSUME Tick PROVE CountInv'
  <2>1. /\ calm' = calm /\ now' = now + 1 /\ placed' = placed
        /\ risk' = risk /\ call' = call
    BY <1>17 DEF Tick
  <2>2. Day(now) <= Day(now)' /\ Day(now)' \in Nat
    BY <2>1, DayStep, DayType, Types DEF Day, Typed
  <2>3. QED
    BY <2>1, <2>2, <1>d, CountFrame
<1>18. ASSUME Crash PROVE CountInv'
  BY <1>18 DEF Crash, CountInv
<1> QED
  BY <1>0, <1>1, <1>2, <1>3, <1>4, <1>5, <1>6, <1>7, <1>8, <1>9, <1>10, <1>11,
     <1>12, <1>13, <1>14, <1>15, <1>16, <1>17, <1>18 DEF Next, PushStep

-----------------------------------------------------------------------------
IInv == TypeOK /\ TripInv /\ ActiveInv /\ LockInv /\ BootInv /\ CountInv

LEMMA InitInv == Init => IInv
<1> SUFFICES ASSUME Init PROVE IInv
  OBVIOUS
<1>1. TypeOK
  <2>1. now \in Nat /\ Fresh \in RiskStates
    <3>1. <<>> \in Seq(Nat) /\ Day(now) \in Nat
      BY DayType DEF Init
    <3>2. QED
      BY <3>1 DEF Init, Fresh, RiskStates
  <2>2. call \in [Callers -> Calls] /\ placed \in Seq(Orders)
    BY IdleType DEF Init
  <2>3. /\ load \in [at: {"reading", "read", "done"}, found: Files]
        /\ disk \in Files /\ writes \subseteq Writes
    BY NoFileType DEF Init
  <2>4. QED
    BY <2>1, <2>2, <2>3, TypedOK DEF Init, Typed
<1>2. TripInv
  BY FreshTrips DEF Init, TripInv
<1>3. ActiveInv /\ LockInv
  BY IdleType, CallersOf DEF Init, ActiveInv, LockInv, Locked, OnlyDisturbedEscape
<1>4. BootInv
  BY IdleType DEF Init, BootInv, Fresh, NoFile
<1>5. CountInv
  <2>1. /\ placed = <<>> /\ risk.stamps = <<>> /\ risk.day = Day(now)
        /\ \A c \in Callers : call[c].at # "reserved"
    BY IdleType DEF Init, Fresh
  <2>2. Day(now) \in Nat
    BY <1>1, Types, DayType DEF Typed
  <2>3. DayInv
    BY <2>1, <2>2 DEF DayInv
  <2>4. /\ \A d : Cardinality(Checked(placed, d)) = 0
        /\ \A d, t : Cardinality(Within(placed, d, t)) = 0
        /\ \A t : Cardinality(Stamped(risk.stamps, t)) = 0
        /\ Len(risk.stamps) = 0
    BY <2>1, CountNone
  <2>5. StampInv /\ SlotInv /\ CapsInv
    BY <2>1, <2>4, Constants DEF StampInv, SlotInv, Covered, CapsInv, Capped
  <2>6. QED
    BY <2>3, <2>5 DEF CountInv
<1>6. QED
  BY <1>1, <1>2, <1>3, <1>4, <1>5 DEF IInv

LEMMA Inductive == IInv /\ [Next]_vars => IInv'
<1> SUFFICES ASSUME IInv, [Next]_vars PROVE IInv'
  OBVIOUS
<1>1. TypeOK /\ TripInv /\ ActiveInv /\ LockInv /\ BootInv /\ CountInv
  BY DEF IInv
<1>2. TypeOK'
  BY <1>1, TypeStep, TypedOK
<1>3. TripInv'
  BY <1>1, TripStep
<1>4. ActiveInv'
  BY <1>1, ActiveStep
<1>5. LockInv'
  BY <1>1, LockStep
<1>6. BootInv'
  BY <1>1, BootStep
<1>7. CountInv'
  BY <1>1, <1>2, CountStep
<1>8. QED
  BY <1>2, <1>3, <1>4, <1>5, <1>6, <1>7 DEF IInv

\* The clock, the calls, the controller's state and its file keep their types.
THEOREM RiskTypeCorrect == Spec => []TypeOK
<1>1. IInv => TypeOK
  BY DEF IInv
<1>2. QED
  BY InitInv, Inductive, <1>1, PTL DEF Spec

(* The breaker is never past its threshold with automation unpaused, also  *)
(* after any interleaving of saves, loads, day changes and restarts.       *)
THEOREM BreakerAlwaysTrips == Spec => []BreakerTrips
<1>1. IInv => BreakerTrips
  BY DEF IInv, TripInv, Trips, BreakerTrips
<1>2. QED
  BY InitInv, Inductive, <1>1, PTL DEF Spec

(* An automated order goes unchecked only when another push call ended     *)
(* while its push was running: the shared flag has no other hole.          *)
THEOREM EscapesWereDisturbed == Spec => []OnlyDisturbedEscape
<1>1. IInv => OnlyDisturbedEscape
  BY DEF IInv, ActiveInv
<1>2. QED
  BY InitInv, Inductive, <1>1, PTL DEF Spec

(* In a run without a restart and without a push before load() has ended,  *)
(* the checked orders of the controller's day keep to the daily limit and, *)
(* in every hour of it, to the hourly limit: for any number of callers,    *)
(* orders and ticks.                                                       *)
THEOREM CapsAlwaysHold == Spec => []CapsHold
<1>1. ASSUME IInv PROVE CapsHold
  <2>1. ASSUME calm, NEW d \in 0..Day(MaxTime)
        PROVE  /\ Cardinality(CheckedOf(d)) <= MaxOrdersPerDay
               /\ \A t \in 0..MaxTime :
                     Cardinality({i \in CheckedOf(d) : placed[i].slot \in t..(t + Hour)})
                        <= MaxOrdersPerHour
    <3>1. d \in Nat
      BY <2>1
    <3>2. Capped(placed, d)
      BY <1>1, <2>1, <3>1 DEF IInv, CountInv, CapsInv
    <3>3. CheckedOf(d) = Checked(placed, d)
      BY DEF CheckedOf, Checked
    <3>4. \A t \in 0..MaxTime :
             t \in Nat
                   /\ {i \in CheckedOf(d) : placed[i].slot \in t..(t + Hour)} = Within(placed, d, t)
      BY <3>3 DEF Within
    <3>5. QED
      BY <3>2, <3>3, <3>4 DEF Capped
  <2>2. QED
    BY <2>1 DEF CapsHold
<1>2. QED
  BY InitInv, Inductive, <1>1, PTL DEF Spec
=============================================================================
