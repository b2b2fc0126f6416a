------------------------- MODULE AccountHealth_proofs -------------------------
(***************************************************************************)
(* The recovery loop of an account, for every threshold and any number of  *)
(* probes, timers and calls at the same time.                              *)
(*                                                                         *)
(* The properties are inductive but for one thing: a dead link that is     *)
(* reported during the initial connect takes the count to the threshold    *)
(* and starts nothing.  It is the end of that connect that must, and       *)
(* BootInv is what says that there is one still to come.                   *)
(***************************************************************************)
EXTENDS AccountHealth, TLAPS

\* connecting is up exactly while _connect waits for its probe.
BootInv == connecting <=> boot \in {"init", "account"}
IInv == TypeOK /\ BootInv /\ RecoveryIsAlive /\ OfflineByFailuresRecovers

LEMMA TargetType == targetReach \in {Connected, Readable}
  BY DEF targetReach

LEMMA Bounds == /\ OFFLINE_THRESHOLD \in Nat /\ OFFLINE_THRESHOLD # 0
                /\ {0, OFFLINE_THRESHOLD} \subseteq 0..OFFLINE_THRESHOLD
  BY HealthConstants

LEMMA BooleanFields ==
    TypeOK => /\ recovering \in BOOLEAN /\ disabled \in BOOLEAN /\ connecting \in BOOLEAN
              /\ closed \in BOOLEAN /\ tracked \in BOOLEAN
              /\ link \in BOOLEAN /\ private \in BOOLEAN
  BY DEF TypeOK

-----------------------------------------------------------------------------
(* What the shared effects leave behind: typed counters, and a recovery    *)
(* that either has its timer or had been going on before.                  *)
Counters ==
    /\ recovering' \in BOOLEAN /\ tracked' \in BOOLEAN /\ orphans' \in Nat
    /\ consecutiveFailures' \in 0..OFFLINE_THRESHOLD
Carried == recovering' => tracked' = TRUE \/ (recovering /\ UNCHANGED timers)

LEMMA ScheduleEffect ==
    ASSUME TypeOK, ScheduleRecoveryAttempt
    PROVE  tracked' = TRUE /\ orphans' \in Nat
  BY DEF TypeOK, ScheduleRecoveryAttempt

LEMMA StartEffect ==
    ASSUME TypeOK, StartRecovery
    PROVE  /\ recovering' = TRUE /\ tracked' \in BOOLEAN /\ orphans' \in Nat
           /\ Carried
  BY ScheduleEffect DEF TypeOK, StartRecovery, timers, Carried

LEMMA SuccessEffect ==
    ASSUME TypeOK, OnSuccess
    PROVE  recovering' = FALSE /\ Counters /\ Carried
  BY Bounds DEF TypeOK, OnSuccess, Counters, Carried

LEMMA FailureEffect ==
    ASSUME TypeOK, OnFailure
    PROVE  Counters /\ Carried
<1>1. consecutiveFailures' \in 0..OFFLINE_THRESHOLD
  BY HealthConstants DEF TypeOK, OnFailure
<1>2. StartRecovery \/ UNCHANGED <<recovering, timers>>
  BY DEF OnFailure
<1>3. QED
  BY <1>1, <1>2, StartEffect DEF TypeOK, Counters, Carried, timers

LEMMA TailEffect ==
    ASSUME TypeOK, ConnectTail
    PROVE  boot' = "done" /\ Counters /\ Carried
<1>1. CASE UNCHANGED <<consecutiveFailures, recovering, timers>>
  BY <1>1 DEF ConnectTail, TypeOK, Counters, Carried, timers
<1>2. CASE OnSuccess
  BY <1>2, SuccessEffect DEF ConnectTail
<1>3. CASE /\ consecutiveFailures' \in {OFFLINE_THRESHOLD, consecutiveFailures}
           /\ StartRecovery
  BY <1>3, StartEffect, Bounds DEF ConnectTail, TypeOK, Counters
<1>4. QED
  BY <1>1, <1>2, <1>3 DEF ConnectTail

LEMMA SettlesEffect ==
    ASSUME TypeOK, NEW reach, ConnectSettles(reach)
    PROVE  /\ currentReach' = reach /\ connecting' = FALSE
           /\ boot' \in {"subs", "done"} /\ Counters /\ Carried
<1>1. CASE boot' = "subs" /\ UNCHANGED <<consecutiveFailures, recovering, timers>>
  BY <1>1 DEF ConnectSettles, TypeOK, Counters, Carried, timers
<1>2. CASE ConnectTail
  BY <1>2, TailEffect DEF ConnectSettles
<1>3. QED
  BY <1>1, <1>2 DEF ConnectSettles

LEMMA ProbeEffect ==
    ASSUME TypeOK, NEW reach, ProbeSettles(reach)
    PROVE  currentReach' = reach /\ Counters /\ (recovering' => tracked' = TRUE)
<1>1. CASE recovering' = FALSE /\ UNCHANGED <<consecutiveFailures, timers>>
  BY <1>1 DEF ProbeSettles, TypeOK, Counters, timers
<1>2. CASE OnSuccess
  BY <1>2, SuccessEffect DEF ProbeSettles
<1>3. CASE ScheduleRecoveryAttempt /\ UNCHANGED <<consecutiveFailures, recovering>>
  BY <1>3, ScheduleEffect DEF ProbeSettles, TypeOK, Counters
<1>4. QED
  BY <1>1, <1>2, <1>3 DEF ProbeSettles

LEMMA PermanentEffect ==
    ASSUME TypeOK, NEW failed, NotePermanent(failed)
    PROVE  disabled' \in BOOLEAN /\ (disabled = TRUE => disabled' = TRUE)
<1>1. disabled' = disabled \/ disabled' = TRUE
  BY DEF NotePermanent
<1>2. QED
  BY <1>1, BooleanFields

-----------------------------------------------------------------------------
(* What an attempt has crossed, and the calls, are counted.                *)
LEMMA AnsweredEffect ==
    ASSUME TypeOK, NEW stage \in {"init", "account"}, NEW now, NEW ok,
           Answered(stage, now, ok)
    PROVE  crossed' \in [init: Nat, account: Nat, boot: BOOLEAN]
<1>1. CASE UNCHANGED crossed
  BY <1>1 DEF TypeOK
<1>2. CASE /\ crossed[stage] > 0
           /\ crossed' = [crossed EXCEPT ![stage] = @ - 1]
  <2>1. crossed.init \in Nat /\ crossed.account \in Nat /\ crossed[stage] - 1 \in Nat
    BY <1>2 DEF TypeOK
  <2>2. QED
    BY <1>2, <2>1 DEF TypeOK
<1>3. QED
  BY <1>1, <1>2 DEF Answered

LEMMA CrossedStep ==
    ASSUME TypeOK, [Next]_vars
    PROVE  crossed' \in [init: Nat, account: Nat, boot: BOOLEAN]
<1>1. CASE crossed' = crossed
  BY <1>1 DEF TypeOK
<1>2. CASE crossed' = [crossed EXCEPT !.boot = FALSE]
  BY <1>2 DEF TypeOK
<1>3. CASE AllCross
  BY <1>3 DEF TypeOK, AllCross
<1>4. CASE ReadsCross
  <2>1. (crossed.boot \/ boot = "account") \in BOOLEAN
    OBVIOUS
  <2>2. QED
    BY <1>4, <2>1 DEF TypeOK, ReadsCross
<1>5. CASE ProbeInit
  <2>1. PICK ok \in BOOLEAN : Answered("init", link, ok)
    BY <1>5 DEF ProbeInit
  <2>2. QED
    BY <2>1, AnsweredEffect
<1>6. CASE ProbeAccount
  <2>1. PICK ok \in BOOLEAN : Answered("account", link /\ private, ok)
    BY <1>6 DEF ProbeAccount
  <2>2. QED
    BY <2>1, AnsweredEffect
<1>7. QED
  BY <1>1, <1>2, <1>3, <1>4, <1>5, <1>6
     DEF Next, vars, attempts, ConnectInit, ConnectAccount, ConnectSubAccounts,
         TimerFires, Nudge, CallBroker, CallResumes, CallReturns, LinkDies,
         LinkReturns, PrivateFlips, Close

LEMMA CallsStep ==
    ASSUME TypeOK, [Next]_vars
    PROVE  waitingCalls' \in Nat /\ callsInFlight' \in Nat
<1>1. CASE UNCHANGED calls
  BY <1>1 DEF TypeOK, calls
<1>2. CASE CallBroker
  BY <1>2 DEF TypeOK, CallBroker
<1>3. CASE CallResumes
  BY <1>3 DEF TypeOK, CallResumes
<1>4. CASE CallReturns
  BY <1>4 DEF TypeOK, CallReturns
<1>5. QED
  BY <1>1, <1>2, <1>3, <1>4
     DEF Next, vars, calls, ConnectInit, ConnectAccount, ConnectSubAccounts,
         TimerFires, ProbeInit, ProbeAccount, Nudge, LinkDies, LinkReturns,
         PrivateFlips, Close

\* Every step keeps the types: in particular the counts stay natural numbers.
LEMMA TypeStep ==
    ASSUME TypeOK, [Next]_vars
    PROVE  TypeOK'
<1> USE DEF TypeOK
<1>a. /\ crossed' \in [init: Nat, account: Nat, boot: BOOLEAN]
      /\ waitingCalls' \in Nat /\ callsInFlight' \in Nat
  BY CrossedStep, CallsStep
<1>0. ASSUME UNCHANGED vars PROVE TypeOK'
  BY <1>0 DEF vars
<1>1. ASSUME ConnectInit PROVE TypeOK'
  <2>1. Counters
    BY <1>1, SettlesEffect, PermanentEffect DEF ConnectInit, Connected, Down, timers, world,
       attempts, calls, Counters
  <2>2. /\ currentReach' \in {Down, Connected, Readable}
        /\ disabled' \in BOOLEAN /\ connecting' \in BOOLEAN
        /\ boot' \in {"init", "account", "subs", "done"}
    BY <1>1, BooleanFields, SettlesEffect, PermanentEffect DEF ConnectInit, Connected, Down, timers,
       world, attempts, calls
  <2>3. closed' \in BOOLEAN /\ link' \in BOOLEAN /\ private' \in BOOLEAN
    BY <1>1, BooleanFields DEF ConnectInit, world, attempts, calls
  <2>4. /\ probes' \in [init: Nat, account: Nat]
        /\ budget' \in [flaps: Nat, calls: Nat, nudges: Nat]
    BY <1>1 DEF ConnectInit, world, attempts, calls
  <2>5. QED
    BY <1>a, <2>1, <2>2, <2>3, <2>4 DEF Counters
<1>2. ASSUME ConnectAccount PROVE TypeOK'
  <2>1. Counters
    BY <1>2, SettlesEffect, PermanentEffect DEF ConnectAccount, Connected, Readable, world,
       attempts, calls, Counters
  <2>2. /\ currentReach' \in {Down, Connected, Readable}
        /\ disabled' \in BOOLEAN /\ connecting' \in BOOLEAN
        /\ boot' \in {"init", "account", "subs", "done"}
    BY <1>2, BooleanFields, SettlesEffect, PermanentEffect DEF ConnectAccount, Connected, Readable,
       world, attempts, calls
  <2>3. closed' \in BOOLEAN /\ link' \in BOOLEAN /\ private' \in BOOLEAN
    BY <1>2, BooleanFields DEF ConnectAccount, world, attempts, calls
  <2>4. /\ probes' \in [init: Nat, account: Nat]
        /\ budget' \in [flaps: Nat, calls: Nat, nudges: Nat]
    BY <1>2 DEF ConnectAccount, world, attempts, calls
  <2>5. QED
    BY <1>a, <2>1, <2>2, <2>3, <2>4 DEF Counters
<1>3. ASSUME ConnectSubAccounts PROVE TypeOK'
  <2>1. Counters
    BY <1>3, TailEffect DEF ConnectSubAccounts, world, attempts, calls, Counters
  <2>2. /\ currentReach' \in {Down, Connected, Readable}
        /\ disabled' \in BOOLEAN /\ connecting' \in BOOLEAN
        /\ boot' \in {"init", "account", "subs", "done"}
    BY <1>3, BooleanFields, TailEffect DEF ConnectSubAccounts, world, attempts, calls
  <2>3. closed' \in BOOLEAN /\ link' \in BOOLEAN /\ private' \in BOOLEAN
    BY <1>3, BooleanFields DEF ConnectSubAccounts, world, attempts, calls
  <2>4. /\ probes' \in [init: Nat, account: Nat]
        /\ budget' \in [flaps: Nat, calls: Nat, nudges: Nat]
    BY <1>3 DEF ConnectSubAccounts, world, attempts, calls
  <2>5. QED
    BY <1>a, <2>1, <2>2, <2>3, <2>4 DEF Counters
<1>4. ASSUME TimerFires PROVE TypeOK'
  <2>1. orphans' \in Nat
    BY <1>4 DEF TimerFires
  <2>2. probes.init + 1 \in Nat /\ probes' \in [init: Nat, account: Nat]
    BY <1>4 DEF TimerFires
  <2>3. QED
    BY <1>4, <1>a, <2>1, <2>2 DEF TimerFires, flags, world, attempts, calls
<1>5. ASSUME ProbeInit PROVE TypeOK'
  <2>1. Counters
    BY <1>5, ProbeEffect, PermanentEffect DEF ProbeInit, Connected, Down, timers, world, attempts,
       calls, Counters
  <2>2. /\ currentReach' \in {Down, Connected, Readable}
        /\ disabled' \in BOOLEAN /\ connecting' \in BOOLEAN
        /\ boot' \in {"init", "account", "subs", "done"}
    BY <1>5, BooleanFields, ProbeEffect, PermanentEffect DEF ProbeInit, Connected, Down, timers,
       world, attempts, calls
  <2>3. closed' \in BOOLEAN /\ link' \in BOOLEAN /\ private' \in BOOLEAN
    BY <1>5, BooleanFields DEF ProbeInit, world, attempts, calls
  <2>4. /\ probes' \in [init: Nat, account: Nat]
        /\ budget' \in [flaps: Nat, calls: Nat, nudges: Nat]
    <3>1. /\ probes.init \in Nat /\ probes.account \in Nat
          /\ probes.init - 1 \in Nat /\ probes.account + 1 \in Nat
      BY <1>5 DEF ProbeInit
    <3>2. \/ probes' = [probes EXCEPT !.init = @ - 1]
          \/ probes' = [probes EXCEPT !.init = @ - 1, !.account = @ + 1]
      BY <1>5 DEF ProbeInit
    <3>3. probes' \in [init: Nat, account: Nat]
      BY <3>1, <3>2
    <3>4. QED
      BY <1>5, <3>3 DEF ProbeInit, world, attempts, calls
  <2>5. QED
    BY <1>a, <2>1, <2>2, <2>3, <2>4 DEF Counters
<1>6. ASSUME ProbeAccount PROVE TypeOK'
  <2>1. Counters
    BY <1>6, ProbeEffect, PermanentEffect DEF ProbeAccount, Connected, Readable, world, attempts,
       calls, Counters
  <2>2. /\ currentReach' \in {Down, Connected, Readable}
        /\ disabled' \in BOOLEAN /\ connecting' \in BOOLEAN
        /\ boot' \in {"init", "account", "subs", "done"}
    BY <1>6, BooleanFields, ProbeEffect, PermanentEffect DEF ProbeAccount, Connected, Readable,
       world, attempts, calls
  <2>3. closed' \in BOOLEAN /\ link' \in BOOLEAN /\ private' \in BOOLEAN
    BY <1>6, BooleanFields DEF ProbeAccount, world, attempts, calls
  <2>4. /\ probes' \in [init: Nat, account: Nat]
        /\ budget' \in [flaps: Nat, calls: Nat, nudges: Nat]
    BY <1>6 DEF ProbeAccount, world, attempts, calls
  <2>5. QED
    BY <1>a, <2>1, <2>2, <2>3, <2>4 DEF Counters
<1>7. ASSUME Nudge PROVE TypeOK'
  BY <1>7, <1>a DEF Nudge, NudgeRecovery, flags, world, attempts, calls
<1>8. ASSUME CallBroker PROVE TypeOK'
  BY <1>8, <1>a DEF CallBroker, timers, flags, world, attempts, calls
<1>14. ASSUME CallResumes PROVE TypeOK'
  BY <1>14, <1>a DEF CallResumes, timers, flags, world, attempts, calls, attempts
<1>9. ASSUME CallReturns PROVE TypeOK'
  <2>1. Counters
    BY <1>9, SuccessEffect, FailureEffect DEF CallReturns, world, attempts, calls, Counters
  <2>2. /\ currentReach' \in {Down, Connected, Readable}
        /\ disabled' \in BOOLEAN /\ connecting' \in BOOLEAN
        /\ boot' \in {"init", "account", "subs", "done"}
    BY <1>9, BooleanFields, SuccessEffect, FailureEffect DEF CallReturns, world, attempts, calls
  <2>3. closed' \in BOOLEAN /\ link' \in BOOLEAN /\ private' \in BOOLEAN
    BY <1>9, BooleanFields DEF CallReturns, world, attempts, calls
  <2>4. /\ probes' \in [init: Nat, account: Nat]
        /\ budget' \in [flaps: Nat, calls: Nat, nudges: Nat]
    BY <1>9 DEF CallReturns, world, attempts, calls
  <2>5. QED
    BY <1>a, <2>1, <2>2, <2>3, <2>4 DEF Counters
<1>10. ASSUME LinkDies PROVE TypeOK'
  <2>1. Counters
    BY <1>10, StartEffect, Bounds DEF LinkDies, Down, timers, Counters
  <2>2. /\ currentReach' \in {Down, Connected, Readable}
        /\ disabled' \in BOOLEAN /\ connecting' \in BOOLEAN
        /\ boot' \in {"init", "account", "subs", "done"}
    BY <1>10, BooleanFields, StartEffect, Bounds DEF LinkDies, Down, timers
  <2>3. closed' \in BOOLEAN /\ link' \in BOOLEAN /\ private' \in BOOLEAN
    BY <1>10, BooleanFields DEF LinkDies, world, attempts, calls
  <2>4. /\ probes' \in [init: Nat, account: Nat]
        /\ budget' \in [flaps: Nat, calls: Nat, nudges: Nat]
    BY <1>10 DEF LinkDies, world, attempts, calls
  <2>5. QED
    BY <1>a, <2>1, <2>2, <2>3, <2>4 DEF Counters
<1>11. ASSUME LinkReturns PROVE TypeOK'
  BY <1>11, <1>a DEF LinkReturns, NudgeRecovery, timers, flags, calls
<1>12. ASSUME PrivateFlips PROVE TypeOK'
  BY <1>12, <1>a DEF PrivateFlips, timers, flags, calls
<1>13. ASSUME Close PROVE TypeOK'
  BY <1>13, <1>a DEF Close, world, attempts, calls
<1> QED
  BY <1>0, <1>1, <1>2, <1>3, <1>4, <1>5, <1>6, <1>7, <1>8, <1>9, <1>10, <1>11, <1>12,
     <1>13, <1>14 DEF Next

\* connecting goes down with the probe's answer, whichever it is.
LEMMA BootStep ==
    ASSUME TypeOK, BootInv, [Next]_vars
    PROVE  BootInv'
<1> USE DEF TypeOK, BootInv
<1>0. ASSUME UNCHANGED vars PROVE BootInv'
  BY <1>0 DEF vars
<1>1. ASSUME ConnectInit PROVE BootInv'
  BY <1>1 DEF ConnectInit, ConnectSettles, ConnectTail, OnSuccess, StartRecovery,
         ScheduleRecoveryAttempt, NotePermanent, timers, world
<1>2. ASSUME ConnectAccount PROVE BootInv'
  BY <1>2 DEF attempts, ConnectAccount, ConnectSettles, ConnectTail, OnSuccess, StartRecovery,
         ScheduleRecoveryAttempt, NotePermanent, world, timers
<1>3. ASSUME ConnectSubAccounts PROVE BootInv'
  BY <1>3 DEF attempts, ConnectSubAccounts, ConnectTail, OnSuccess, StartRecovery,
         ScheduleRecoveryAttempt, world, timers
<1>4. ASSUME TimerFires PROVE BootInv'
  BY <1>4 DEF TimerFires, flags, world
<1>5. ASSUME ProbeInit PROVE BootInv'
  BY <1>5 DEF ProbeInit, NotePermanent, ProbeSettles, OnSuccess,
         ScheduleRecoveryAttempt, timers, world
<1>6. ASSUME ProbeAccount PROVE BootInv'
  BY <1>6 DEF ProbeAccount, NotePermanent, ProbeSettles, OnSuccess,
         ScheduleRecoveryAttempt, world, timers
<1>7. ASSUME Nudge PROVE BootInv'
  BY <1>7 DEF attempts, Nudge, NudgeRecovery, flags, world
<1>8. ASSUME CallBroker PROVE BootInv'
  BY <1>8 DEF attempts, CallBroker, timers, flags, world
<1>14. ASSUME CallResumes PROVE BootInv'
  BY <1>14 DEF CallResumes, timers, flags, world, attempts
<1>9. ASSUME CallReturns PROVE BootInv'
  BY <1>9 DEF attempts, CallReturns, OnSuccess, OnFailure, StartRecovery, ScheduleRecoveryAttempt,
         world, timers
<1>10. ASSUME LinkDies PROVE BootInv'
  BY <1>10 DEF LinkDies, StartRecovery, ScheduleRecoveryAttempt, timers
<1>11. ASSUME LinkReturns PROVE BootInv'
  BY <1>11 DEF LinkReturns, NudgeRecovery, timers, flags
<1>12. ASSUME PrivateFlips PROVE BootInv'
  BY <1>12 DEF PrivateFlips, timers, flags
<1>13. ASSUME Close PROVE BootInv'
  BY <1>13 DEF Close, world
<1> QED
  BY <1>0, <1>1, <1>2, <1>3, <1>4, <1>5, <1>6, <1>7, <1>8, <1>9, <1>10, <1>11, <1>12,
     <1>13, <1>14 DEF Next

(* A recovery with its timer is alive, and so is one that goes on with the *)
(* timers and the attempts it had.                                         *)
LEMMA TrackedAlive ==
    ASSUME TypeOK', recovering' => tracked' = TRUE
    PROVE  RecoveryIsAlive'
<1>1. orphans' \in Nat /\ probes'.init \in Nat /\ probes'.account \in Nat
  BY DEF TypeOK
<1>2. recovering' => Armed' = orphans' + 1
  BY DEF Armed
<1>3. QED
  BY <1>1, <1>2 DEF RecoveryIsAlive, Waiting

LEMMA WaitingAlive ==
    ASSUME TypeOK', Waiting' \in Nat, Waiting' > 0
    PROVE  RecoveryIsAlive'
<1>1. orphans' \in Nat
  BY DEF TypeOK
<1>2. Armed' = orphans' \/ Armed' = orphans' + 1
  <2>1. (tracked' => Armed' = orphans' + 1) /\ (~tracked' => Armed' = orphans' + 0)
    BY DEF Armed
  <2>2. QED
    BY <1>1, <2>1
<1>3. Armed' + Waiting' > 0
  BY <1>1, <1>2
<1>4. QED
  BY <1>3 DEF RecoveryIsAlive

LEMMA CarriedAlive ==
    ASSUME TypeOK', RecoveryIsAlive, Carried, probes' = probes, closed' = closed
    PROVE  RecoveryIsAlive'
<1>1. CASE recovering' => tracked' = TRUE
  BY <1>1, TrackedAlive
<1>2. CASE recovering /\ UNCHANGED timers
  BY <1>2 DEF RecoveryIsAlive, Armed, Waiting, timers
<1>3. QED
  BY <1>1, <1>2 DEF Carried

(* An attempt that ends without success arms a timer, and a timer that     *)
(* fires begins an attempt.                                                *)
LEMMA AliveStep ==
    ASSUME TypeOK, TypeOK', RecoveryIsAlive, [Next]_vars
    PROVE  RecoveryIsAlive'
<1> USE DEF TypeOK, RecoveryIsAlive, Armed
<1>0. ASSUME UNCHANGED vars PROVE RecoveryIsAlive'
  BY <1>0 DEF vars, Waiting
<1>1. ASSUME ConnectInit PROVE RecoveryIsAlive'
  <2>1. Carried
    BY <1>1, SettlesEffect DEF ConnectInit, timers, Carried
  <2>2. QED
    BY <1>1, <2>1, CarriedAlive DEF ConnectInit
<1>2. ASSUME ConnectAccount PROVE RecoveryIsAlive'
  <2>1. Carried
    BY <1>2, SettlesEffect DEF attempts, ConnectAccount, Carried
  <2>2. QED
    BY <1>2, <2>1, CarriedAlive DEF attempts, ConnectAccount
<1>3. ASSUME ConnectSubAccounts PROVE RecoveryIsAlive'
  <2>1. Carried
    BY <1>3, TailEffect DEF attempts, ConnectSubAccounts, Carried
  <2>2. QED
    BY <1>3, <2>1, CarriedAlive DEF attempts, ConnectSubAccounts
<1>4. ASSUME TimerFires PROVE RecoveryIsAlive'
  <2>1. /\ probes.init \in Nat /\ probes.account \in Nat
        /\ probes'.init = probes.init + 1 /\ probes'.account = probes.account
    BY <1>4 DEF TimerFires
  <2>2. Waiting' \in Nat /\ Waiting' > 0
    BY <2>1 DEF Waiting
  <2>3. QED
    BY <2>2, WaitingAlive
<1>5. ASSUME ProbeInit PROVE RecoveryIsAlive'
  <2>1. CASE \E reach : ProbeSettles(reach)
    BY <2>1, ProbeEffect, TrackedAlive
  <2>2. CASE /\ probes' = [probes EXCEPT !.init = @ - 1, !.account = @ + 1]
             /\ UNCHANGED <<recovering, timers>>
    <3>1. probes.init \in Nat /\ probes.account \in Nat /\ Waiting' = Waiting
      BY <2>2 DEF Waiting
    <3>2. QED
      BY <1>5, <2>2, <3>1 DEF ProbeInit, timers
  <2>3. QED
    BY <1>5, <2>1, <2>2 DEF ProbeInit
<1>6. ASSUME ProbeAccount PROVE RecoveryIsAlive'
  BY <1>6, ProbeEffect, TrackedAlive DEF ProbeAccount
<1>7. ASSUME Nudge PROVE RecoveryIsAlive'
  BY <1>7 DEF attempts, Nudge, NudgeRecovery, flags, world, Waiting
<1>8. ASSUME CallBroker PROVE RecoveryIsAlive'
  BY <1>8 DEF attempts, CallBroker, timers, flags, world, Waiting
<1>14. ASSUME CallResumes PROVE RecoveryIsAlive'
  BY <1>14 DEF CallResumes, timers, flags, world, attempts, Waiting
<1>9. ASSUME CallReturns PROVE RecoveryIsAlive'
  <2>1. Carried
    BY <1>9, SuccessEffect, FailureEffect DEF attempts, CallReturns, Carried
  <2>2. QED
    BY <1>9, <2>1, CarriedAlive DEF attempts, CallReturns
<1>10. ASSUME LinkDies PROVE RecoveryIsAlive'
  <2>1. Carried
    BY <1>10, StartEffect DEF LinkDies, timers, Carried
  <2>2. QED
    BY <1>10, <2>1, CarriedAlive DEF LinkDies
<1>11. ASSUME LinkReturns PROVE RecoveryIsAlive'
  BY <1>11 DEF LinkReturns, NudgeRecovery, timers, flags, Waiting
<1>12. ASSUME PrivateFlips PROVE RecoveryIsAlive'
  BY <1>12 DEF PrivateFlips, timers, flags, Waiting
<1>13. ASSUME Close PROVE RecoveryIsAlive'
  BY <1>13 DEF Close, world, Waiting
<1> QED
  BY <1>0, <1>1, <1>2, <1>3, <1>4, <1>5, <1>6, <1>7, <1>8, <1>9, <1>10, <1>11, <1>12,
     <1>13, <1>14 DEF Next

(* The count reaches the threshold with a recovery, and recovery ends with *)
(* the count at zero, or the account disabled or closed.                   *)
LEMMA OfflineStep ==
    ASSUME TypeOK, BootInv, OfflineByFailuresRecovers, [Next]_vars
    PROVE  OfflineByFailuresRecovers'
<1> USE HealthConstants DEF TypeOK, BootInv, OfflineByFailuresRecovers, Health
<1>0. ASSUME UNCHANGED vars PROVE OfflineByFailuresRecovers'
  BY <1>0 DEF vars
<1>1. ASSUME ConnectInit PROVE OfflineByFailuresRecovers'
  BY <1>1 DEF ConnectInit, ConnectSettles, ConnectTail, OnSuccess, StartRecovery,
         ScheduleRecoveryAttempt, NotePermanent, timers, world
<1>2. ASSUME ConnectAccount PROVE OfflineByFailuresRecovers'
  BY <1>2 DEF attempts, ConnectAccount, ConnectSettles, ConnectTail, OnSuccess, StartRecovery,
         ScheduleRecoveryAttempt, NotePermanent, world, timers
<1>3. ASSUME ConnectSubAccounts PROVE OfflineByFailuresRecovers'
  BY <1>3 DEF attempts, ConnectSubAccounts, ConnectTail, OnSuccess, StartRecovery,
         ScheduleRecoveryAttempt, world, timers
<1>4. ASSUME TimerFires PROVE OfflineByFailuresRecovers'
  BY <1>4 DEF TimerFires, flags, world
<1>5. ASSUME ProbeInit PROVE OfflineByFailuresRecovers'
  BY <1>5 DEF ProbeInit, NotePermanent, ProbeSettles, OnSuccess,
         ScheduleRecoveryAttempt, timers, world
<1>6. ASSUME ProbeAccount PROVE OfflineByFailuresRecovers'
  BY <1>6 DEF ProbeAccount, NotePermanent, ProbeSettles, OnSuccess,
         ScheduleRecoveryAttempt, world, timers
<1>7. ASSUME Nudge PROVE OfflineByFailuresRecovers'
  BY <1>7 DEF attempts, Nudge, NudgeRecovery, flags, world
<1>8. ASSUME CallBroker PROVE OfflineByFailuresRecovers'
  BY <1>8 DEF attempts, CallBroker, timers, flags, world
<1>14. ASSUME CallResumes PROVE OfflineByFailuresRecovers'
  BY <1>14 DEF CallResumes, timers, flags, world, attempts
<1>9. ASSUME CallReturns PROVE OfflineByFailuresRecovers'
  BY <1>9 DEF attempts, CallReturns, OnSuccess, OnFailure, StartRecovery, ScheduleRecoveryAttempt,
         world, timers
<1>10. ASSUME LinkDies PROVE OfflineByFailuresRecovers'
  BY <1>10 DEF LinkDies, StartRecovery, ScheduleRecoveryAttempt, timers
<1>11. ASSUME LinkReturns PROVE OfflineByFailuresRecovers'
  BY <1>11 DEF LinkReturns, NudgeRecovery, timers, flags
<1>12. ASSUME PrivateFlips PROVE OfflineByFailuresRecovers'
  BY <1>12 DEF PrivateFlips, timers, flags
<1>13. ASSUME Close PROVE OfflineByFailuresRecovers'
  BY <1>13 DEF Close, world
<1> QED
  BY <1>0, <1>1, <1>2, <1>3, <1>4, <1>5, <1>6, <1>7, <1>8, <1>9, <1>10, <1>11, <1>12,
     <1>13, <1>14 DEF Next

LEMMA InitInv == Init => IInv
<1> SUFFICES ASSUME Init PROVE IInv
  OBVIOUS
<1>1. TypeOK
  <2>1. /\ currentReach \in {Down, Connected, Readable}
        /\ consecutiveFailures \in 0..OFFLINE_THRESHOLD
        /\ budget \in [flaps: Nat, calls: Nat, nudges: Nat]
    BY HealthConstants, Bounds, TargetType DEF Init
  <2>2. /\ probes \in [init: Nat, account: Nat]
        /\ crossed \in [init: Nat, account: Nat, boot: BOOLEAN]
        /\ orphans \in Nat /\ waitingCalls \in Nat /\ callsInFlight \in Nat
    BY DEF Init
  <2>3. QED
    BY <2>1, <2>2 DEF Init, TypeOK
<1>2. BootInv /\ RecoveryIsAlive /\ OfflineByFailuresRecovers
  BY HealthConstants DEF Init, BootInv, RecoveryIsAlive, OfflineByFailuresRecovers
<1>3. QED
  BY <1>1, <1>2 DEF IInv

LEMMA Inductive == IInv /\ [Next]_vars => IInv'
  BY TypeStep, BootStep, AliveStep, OfflineStep DEF IInv

\* The account's fields keep their types.
THEOREM HealthTypeCorrect == Spec => []TypeOK
<1>1. IInv => TypeOK
  BY DEF IInv
<1>2. QED
  BY InitInv, Inductive, <1>1, PTL DEF Spec

(* An open account that says it is recovering has a timer armed or an      *)
(* attempt waiting, whatever interleaving of probes, calls, nudges and     *)
(* events led there.                                                       *)
THEOREM RecoveryNeverStalls == Spec => []RecoveryIsAlive
<1>1. IInv => RecoveryIsAlive
  BY DEF IInv
<1>2. QED
  BY InitInv, Inductive, <1>1, PTL DEF Spec

(* An open account that its failures took offline is recovering, once its  *)
(* initial connect has ended.                                              *)
THEOREM FailuresStartRecovery == Spec => []OfflineByFailuresRecovers
<1>1. IInv => OfflineByFailuresRecovers
  BY DEF IInv
<1>2. QED
  BY InitInv, Inductive, <1>1, PTL DEF Spec

\* The step that DisabledIsFinal allows, and that every step is one.
Final ==
    disabled =>
       /\ disabled' /\ health' = "offline"
       /\ (Waiting = 0 /\ waitingCalls = 0 /\ callsInFlight = 0 /\ boot = "done")
             => Armed' <= Armed

LEMMA FinalStep ==
    ASSUME TypeOK, [Next]_vars
    PROVE  Final
<1> USE HealthConstants DEF TypeOK, Final, health, Health, Armed, Waiting
<1>0. ASSUME UNCHANGED vars PROVE Final
  BY <1>0 DEF vars
<1>1. ASSUME ConnectInit PROVE Final
  BY <1>1 DEF ConnectInit, ConnectSettles, ConnectTail, OnSuccess, StartRecovery,
         ScheduleRecoveryAttempt, NotePermanent, timers, world
<1>2. ASSUME ConnectAccount PROVE Final
  BY <1>2 DEF attempts, ConnectAccount, ConnectSettles, ConnectTail, OnSuccess, StartRecovery,
         ScheduleRecoveryAttempt, NotePermanent, world, timers
<1>3. ASSUME ConnectSubAccounts PROVE Final
  BY <1>3 DEF attempts, ConnectSubAccounts, ConnectTail, OnSuccess, StartRecovery,
         ScheduleRecoveryAttempt, world, timers
<1>4. ASSUME TimerFires PROVE Final
  BY <1>4 DEF TimerFires, flags, world
<1>5. ASSUME ProbeInit PROVE Final
  <2>1. disabled = TRUE => disabled' = TRUE
    BY <1>5, PermanentEffect DEF ProbeInit
  <2>2. /\ probes.init \in Nat /\ probes.account \in Nat
        /\ Waiting > 0
    BY <1>5 DEF ProbeInit
  <2>3. QED
    BY <2>1, <2>2, BooleanFields
<1>6. ASSUME ProbeAccount PROVE Final
  <2>1. disabled = TRUE => disabled' = TRUE
    BY <1>6, PermanentEffect DEF ProbeAccount
  <2>2. /\ probes.init \in Nat /\ probes.account \in Nat
        /\ Waiting > 0
    BY <1>6 DEF ProbeAccount
  <2>3. QED
    BY <2>1, <2>2, BooleanFields
<1>7. ASSUME Nudge PROVE Final
  BY <1>7 DEF attempts, Nudge, NudgeRecovery, flags, world
<1>8. ASSUME CallBroker PROVE Final
  BY <1>8 DEF attempts, CallBroker, timers, flags, world
<1>14. ASSUME CallResumes PROVE Final
  BY <1>14 DEF CallResumes, timers, flags, world, attempts
<1>9. ASSUME CallReturns PROVE Final
  BY <1>9 DEF attempts, CallReturns, OnSuccess, OnFailure, StartRecovery, ScheduleRecoveryAttempt,
         world, timers
<1>10. ASSUME LinkDies PROVE Final
  BY <1>10 DEF LinkDies, StartRecovery, ScheduleRecoveryAttempt, timers
<1>11. ASSUME LinkReturns PROVE Final
  BY <1>11 DEF LinkReturns, NudgeRecovery, timers, flags
<1>12. ASSUME PrivateFlips PROVE Final
  BY <1>12 DEF PrivateFlips, timers, flags
<1>13. ASSUME Close PROVE Final
  BY <1>13 DEF Close, world
<1> QED
  BY <1>0, <1>1, <1>2, <1>3, <1>4, <1>5, <1>6, <1>7, <1>8, <1>9, <1>10, <1>11, <1>12,
     <1>13, <1>14 DEF Next

(* A permanent error is final: no step makes a disabled account anything   *)
(* but offline, and no event arms a timer for it once what was in progress *)
(* has ended.                                                              *)
THEOREM PermanentIsFinal == Spec => DisabledIsFinal
<1>1. IInv /\ [Next]_vars => [Final]_vars
  BY FinalStep DEF IInv
<1>2. QED
  BY InitInv, Inductive, <1>1, PTL DEF Spec, DisabledIsFinal, Final
=============================================================================
