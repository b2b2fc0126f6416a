---------------------------- MODULE AccountHealth ----------------------------
(***************************************************************************)
(* Connection health of one account: the initial connect, the recovery     *)
(* loop, live broker calls and the broker's heartbeat events               *)
(* (services/uta/src/domain/trading/UnifiedTradingAccount.ts).             *)
(*                                                                         *)
(* An action is what runs between two awaits.  A probe in progress is      *)
(* waiting for broker.init() or broker.getAccount(), and its answer may be *)
(* older than an event; a timer is armed by setTimeout and either          *)
(* referenced by _recoveryTimer or not referenced by anything, when a      *)
(* later schedule overwrote the field.                                     *)
(***************************************************************************)
EXTENDS Naturals

CONSTANTS
    Keyless,              \* TRUE: a public-data account, whose target is "connected"
    DEGRADED_THRESHOLD, OFFLINE_THRESHOLD,
    MayDisable,           \* TRUE: the broker may report a permanent error
    MayClose,             \* TRUE: the account may be closed
    MaxFlaps,             \* bound: changes of the link and of the private read
    MaxCalls,             \* bound: live broker calls
    MaxNudges             \* bound: calls of nudgeRecovery

ASSUME HealthConstants ==
    /\ {Keyless, MayDisable, MayClose} \subseteq BOOLEAN
    /\ DEGRADED_THRESHOLD \in Nat \ {0}
    /\ OFFLINE_THRESHOLD \in Nat \ {0} /\ DEGRADED_THRESHOLD <= OFFLINE_THRESHOLD
    /\ MaxFlaps \in Nat /\ MaxCalls \in Nat /\ MaxNudges \in Nat

VARIABLES
    currentReach,         \* 0 down, 1 connected, 2 readable
    consecutiveFailures,  \* saturates at OFFLINE_THRESHOLD
    recovering, disabled, connecting, closed,
    boot,                 \* where _connect is: "init", "account", "subs", "done"
    tracked,              \* a timer is armed and _recoveryTimer refers to it
    orphans,              \* timers armed that _recoveryTimer does not refer to
    probes,               \* recovery attempts waiting, per stage
    crossed,              \* of them, and _connect: asked before the venue changed
    waitingCalls,         \* calls that wait for _connect or the end of their grace
    callsInFlight,
    link, private,        \* the transport works; the private read works
    budget

flags == <<recovering, disabled, connecting, closed>>
timers == <<tracked, orphans>>
attempts == <<probes, crossed>>
calls == <<waitingCalls, callsInFlight>>
world == <<link, private>>
vars == <<currentReach, consecutiveFailures, recovering, disabled, connecting,
          closed, boot, tracked, orphans, probes, crossed, waitingCalls,
          callsInFlight, link, private, budget>>

Down == 0
Connected == 1
Readable == 2

targetReach == IF Keyless THEN Connected ELSE Readable

Health(reach, failures, off) ==
    IF off \/ reach = Down \/ failures >= OFFLINE_THRESHOLD THEN "offline"
    ELSE IF reach < targetReach \/ failures >= DEGRADED_THRESHOLD THEN "degraded"
    ELSE "healthy"

health == Health(currentReach, consecutiveFailures, disabled)

Waiting == probes.init + probes.account
Armed == orphans + (IF tracked THEN 1 ELSE 0)

Init ==
    /\ currentReach = targetReach     \* the constructor is optimistic
    /\ consecutiveFailures = 0
    /\ recovering = FALSE /\ disabled = FALSE /\ connecting = TRUE /\ closed = FALSE
    /\ boot = "init"
    /\ tracked = FALSE /\ orphans = 0
    /\ probes = [init |-> 0, account |-> 0]
    /\ crossed = [init |-> 0, account |-> 0, boot |-> FALSE]
    /\ waitingCalls = 0 /\ callsInFlight = 0
    /\ link \in BOOLEAN /\ private \in BOOLEAN
    /\ budget = [flaps |-> MaxFlaps, calls |-> MaxCalls, nudges |-> MaxNudges]

-----------------------------------------------------------------------------
(* Effects shared by the handlers.                                         *)

\* _scheduleRecoveryAttempt: the field is overwritten, not cleared first.
ScheduleRecoveryAttempt ==
    /\ tracked' = TRUE
    /\ orphans' = orphans + (IF tracked THEN 1 ELSE 0)

\* _startRecovery: the loop is only started when the flag is down.
StartRecovery ==
    IF recovering
    THEN UNCHANGED <<recovering, timers>>
    ELSE /\ recovering' = TRUE
         /\ ScheduleRecoveryAttempt

\* _onSuccess: the referenced timer is cleared; currentReach is not touched.
OnSuccess ==
    /\ consecutiveFailures' = 0
    /\ tracked' = FALSE
    /\ recovering' = FALSE
    /\ UNCHANGED orphans

\* _onFailure.
OnFailure ==
    /\ consecutiveFailures' =
          IF consecutiveFailures < OFFLINE_THRESHOLD
          THEN consecutiveFailures + 1 ELSE consecutiveFailures
    /\ IF Health(currentReach, consecutiveFailures', disabled) = "offline"
       THEN StartRecovery ELSE UNCHANGED <<recovering, timers>>

\* An answer that crossed a change of the venue may be from either side of it.
Answers(old, now) == IF old THEN BOOLEAN ELSE {now}

\* A permanent BrokerError disables the account for good.
NotePermanent(failed) ==
    \/ UNCHANGED disabled
    \/ failed /\ MayDisable /\ disabled' = TRUE

-----------------------------------------------------------------------------
(* _connect, split at its awaits.                                          *)

\* Mutant of ConnectTail: an unreachable account does not start recovery.
ConnectTailGivesUp ==
    /\ boot' = "done"
    /\ IF disabled'
       THEN UNCHANGED <<consecutiveFailures, recovering, timers>>
       ELSE IF currentReach' >= targetReach
       THEN OnSuccess
       ELSE /\ consecutiveFailures' = OFFLINE_THRESHOLD
            /\ UNCHANGED <<recovering, timers>>

\* The tail of _connect once the probe has settled and nothing is awaited.
ConnectTail ==
    /\ boot' = "done"
    /\ IF disabled'
       THEN UNCHANGED <<consecutiveFailures, recovering, timers>>
       ELSE IF currentReach' >= targetReach
       THEN OnSuccess
       ELSE /\ consecutiveFailures' = IF currentReach' = Down THEN OFFLINE_THRESHOLD
                                      ELSE consecutiveFailures
            /\ StartRecovery

\* Mutant of ConnectSettles: connecting is only cleared when the broker answered.
ConnectSettlesIfUp(reach) ==
    /\ currentReach' = reach
    /\ connecting' = (reach = Down)
    /\ IF ~disabled' /\ reach # Down
       THEN boot' = "subs" /\ UNCHANGED <<consecutiveFailures, recovering, timers>>
       ELSE ConnectTail

\* _attemptReach has its answer: connecting ends, and the wallet list is read.
ConnectSettles(reach) ==
    /\ currentReach' = reach
    /\ connecting' = FALSE
    /\ IF ~disabled' /\ reach # Down
       THEN boot' = "subs" /\ UNCHANGED <<consecutiveFailures, recovering, timers>>
       ELSE ConnectTail

ConnectInit ==
    /\ boot = "init"
    /\ \E ok \in Answers(crossed.boot, link) :
          /\ NotePermanent(~ok)
          /\ IF ~ok \/ Keyless
             THEN ConnectSettles(IF ok THEN Connected ELSE Down) /\ UNCHANGED crossed
             ELSE /\ boot' = "account"
                  /\ crossed' = [crossed EXCEPT !.boot = FALSE]
                  /\ UNCHANGED <<currentReach, connecting, consecutiveFailures,
                                 recovering, timers>>
    /\ UNCHANGED <<closed, probes, calls, world, budget>>

ConnectAccount ==
    /\ boot = "account"
    /\ \E ok \in Answers(crossed.boot, link /\ private) :
          /\ NotePermanent(~ok)
          /\ ConnectSettles(IF ok THEN Readable ELSE Connected)
    /\ UNCHANGED <<closed, attempts, calls, world, budget>>

ConnectSubAccounts ==
    /\ boot = "subs"
    /\ UNCHANGED <<currentReach, disabled, connecting, closed, attempts, calls, world,
                   budget>>
    /\ ConnectTail

-----------------------------------------------------------------------------
(* The recovery loop.                                                      *)

\* The callback clears the field whichever timer it belongs to.
TimerFires ==
    /\ \/ tracked /\ UNCHANGED orphans
       \/ /\ orphans > 0
          /\ orphans' = orphans - 1 + (IF tracked THEN 1 ELSE 0)
    /\ tracked' = FALSE
    /\ probes' = [probes EXCEPT !.init = @ + 1]
    /\ UNCHANGED <<currentReach, consecutiveFailures, flags, boot, crossed, calls,
                   world, budget>>

\* Mutant of ProbeSettles: partial progress ends the loop.
ProbeSettlesForLess(reach) ==
    /\ currentReach' = reach
    /\ IF disabled'
       THEN recovering' = FALSE /\ UNCHANGED <<consecutiveFailures, timers>>
       ELSE IF reach >= Connected
       THEN OnSuccess
       ELSE ScheduleRecoveryAttempt /\ UNCHANGED <<consecutiveFailures, recovering>>

\* The code after `await this._attemptReach()`; it does not look at closed.
ProbeSettles(reach) ==
    /\ currentReach' = reach
    /\ IF disabled'
       THEN recovering' = FALSE /\ UNCHANGED <<consecutiveFailures, timers>>
       ELSE IF reach >= targetReach
       THEN OnSuccess
       ELSE ScheduleRecoveryAttempt /\ UNCHANGED <<consecutiveFailures, recovering>>

\* An attempt at this stage has its answer; it may have crossed a change.
Answered(stage, now, ok) ==
    \/ probes[stage] > crossed[stage] /\ ok = now /\ UNCHANGED crossed
    \/ crossed[stage] > 0 /\ crossed' = [crossed EXCEPT ![stage] = @ - 1]

ProbeInit ==
    /\ probes.init > 0
    /\ \E ok \in BOOLEAN :
          /\ Answered("init", link, ok)
          /\ NotePermanent(~ok)
          /\ IF ~ok \/ Keyless
             THEN /\ ProbeSettles(IF ok THEN Connected ELSE Down)
                  /\ probes' = [probes EXCEPT !.init = @ - 1]
             ELSE /\ probes' = [probes EXCEPT !.init = @ - 1, !.account = @ + 1]
                  /\ UNCHANGED <<currentReach, consecutiveFailures, recovering, timers>>
    /\ UNCHANGED <<connecting, closed, boot, calls, world, budget>>

ProbeAccount ==
    /\ probes.account > 0
    /\ \E ok \in BOOLEAN :
          /\ Answered("account", link /\ private, ok)
          /\ NotePermanent(~ok)
          /\ ProbeSettles(IF ok THEN Readable ELSE Connected)
    /\ probes' = [probes EXCEPT !.account = @ - 1]
    /\ UNCHANGED <<connecting, closed, boot, calls, world, budget>>

\* Mutant of NudgeRecovery: the timer is cleared and not armed again.
NudgeOnlyClears ==
    /\ tracked' = FALSE
    /\ UNCHANGED orphans

\* Mutant of NudgeRecovery: the guard is dropped.
NudgeUnguarded ==
    /\ tracked' = TRUE
    /\ UNCHANGED orphans

\* nudgeRecovery: a retry at once, even while an attempt is waiting.
NudgeRecovery ==
    /\ tracked' = (tracked \/ (recovering /\ ~disabled))
    /\ UNCHANGED orphans

Nudge ==
    /\ budget.nudges > 0
    /\ budget' = [budget EXCEPT !.nudges = @ - 1]
    /\ NudgeRecovery
    /\ UNCHANGED <<currentReach, consecutiveFailures, flags, boot, attempts, calls, world>>

-----------------------------------------------------------------------------
(* Live calls, the heartbeat and the world.                                *)

Reconnecting == health = "offline" /\ recovering

(* _callBroker up to its first await; a refusal changes nothing.  During   *)
(* the initial connect the call waits, and otherwise it goes out.          *)
CallBroker ==
    /\ budget.calls > 0
    /\ ~disabled
    /\ IF connecting
       THEN waitingCalls' = waitingCalls + 1 /\ UNCHANGED callsInFlight
       ELSE /\ ~Reconnecting
            /\ callsInFlight' = callsInFlight + 1 /\ UNCHANGED waitingCalls
    /\ budget' = [budget EXCEPT !.calls = @ - 1]
    /\ UNCHANGED <<currentReach, consecutiveFailures, flags, boot, timers, attempts, world>>

(* _connect has settled or the grace is over: the call is refused while    *)
(* the account connects or reconnects, and goes out otherwise, whether or  *)
(* not the account was disabled meanwhile.                                 *)
CallResumes ==
    /\ waitingCalls > 0
    /\ waitingCalls' = waitingCalls - 1
    /\ callsInFlight' = IF connecting \/ Reconnecting THEN callsInFlight
                        ELSE callsInFlight + 1
    /\ UNCHANGED <<currentReach, consecutiveFailures, flags, boot, timers, attempts,
                   world, budget>>

\* The answer may be older than an outage, and a call may fail on its own.
CallReturns ==
    /\ callsInFlight > 0
    /\ callsInFlight' = callsInFlight - 1
    /\ OnSuccess \/ OnFailure
    /\ UNCHANGED <<currentReach, disabled, connecting, closed, boot, attempts,
                   waitingCalls, world, budget>>

\* The transport changes under every attempt, the private read under its last stage.
AllCross == crossed' = [init |-> probes.init, account |-> probes.account, boot |-> TRUE]
ReadsCross == crossed' = [crossed EXCEPT !.account = probes.account,
                                         !.boot = @ \/ boot = "account"]

\* _onBrokerConnectionState with state dead; an unplugged broker may stay silent.
LinkDies ==
    /\ link /\ budget.flaps > 0
    /\ link' = FALSE
    /\ AllCross
    /\ budget' = [budget EXCEPT !.flaps = @ - 1]
    /\ \/ UNCHANGED <<currentReach, consecutiveFailures, recovering, timers>>
       \/ /\ ~disabled /\ ~closed
          /\ currentReach' = Down
          /\ consecutiveFailures' = OFFLINE_THRESHOLD
          /\ IF connecting THEN UNCHANGED <<recovering, timers>> ELSE StartRecovery
    /\ UNCHANGED <<disabled, connecting, closed, boot, probes, calls, private>>

\* The link comes back, with or without a restored event.
LinkReturns ==
    /\ ~link /\ budget.flaps > 0
    /\ link' = TRUE
    /\ AllCross
    /\ budget' = [budget EXCEPT !.flaps = @ - 1]
    /\ \/ UNCHANGED timers
       \/ ~closed /\ NudgeRecovery
    /\ UNCHANGED <<currentReach, consecutiveFailures, flags, boot, probes, calls, private>>

PrivateFlips ==
    /\ budget.flaps > 0
    /\ private' = ~private
    /\ ReadsCross
    /\ budget' = [budget EXCEPT !.flaps = @ - 1]
    /\ UNCHANGED <<currentReach, consecutiveFailures, flags, boot, timers, probes, calls,
                   link>>

\* close: the listener goes; only a referenced timer is cancelled.
Close ==
    /\ MayClose /\ ~closed
    /\ closed' = TRUE
    /\ tracked' = FALSE
    /\ recovering' = IF tracked THEN FALSE ELSE recovering
    /\ UNCHANGED <<currentReach, consecutiveFailures, disabled, connecting, boot,
                   orphans, attempts, calls, world, budget>>

Next ==
    \/ ConnectInit \/ ConnectAccount \/ ConnectSubAccounts
    \/ TimerFires \/ ProbeInit \/ ProbeAccount \/ Nudge
    \/ CallBroker \/ CallResumes \/ CallReturns
    \/ LinkDies \/ LinkReturns \/ PrivateFlips \/ Close

(* Timers fire, the grace of a waiting call ends, and broker calls return  *)
(* or time out.  Nothing makes the link come back, a caller call, or       *)
(* anybody nudge or close.                                                 *)
Fairness ==
    /\ WF_vars(ConnectInit \/ ConnectAccount \/ ConnectSubAccounts)
    /\ WF_vars(TimerFires) /\ WF_vars(ProbeInit) /\ WF_vars(ProbeAccount)
    /\ WF_vars(CallResumes) /\ WF_vars(CallReturns)

Spec == Init /\ [][Next]_vars /\ Fairness

-----------------------------------------------------------------------------
(* Properties.                                                             *)

\* The fields of the account, its timers, probes and calls.
TypeOK ==
    /\ currentReach \in {Down, Connected, Readable}
    /\ consecutiveFailures \in 0..OFFLINE_THRESHOLD
    /\ {recovering, disabled, connecting, closed, tracked, link, private} \subseteq BOOLEAN
    /\ boot \in {"init", "account", "subs", "done"}
    /\ orphans \in Nat /\ waitingCalls \in Nat /\ callsInFlight \in Nat
    /\ probes \in [init: Nat, account: Nat]
    /\ crossed \in [init: Nat, account: Nat, boot: BOOLEAN]
    /\ budget \in [flaps: Nat, calls: Nat, nudges: Nat]

(* Nobody waits for a recovery that is not running: while an open account  *)
(* says it is recovering, and so refuses calls, a timer is armed or an     *)
(* attempt is waiting for the broker.                                      *)
RecoveryIsAlive == recovering /\ ~closed => Armed + Waiting > 0

(* An account that its failures took offline is recovering: whichever of   *)
(* the initial connect, a live call or a dead link brought the count to    *)
(* the threshold, and whatever else was in progress.                       *)
OfflineByFailuresRecovers ==
    consecutiveFailures = OFFLINE_THRESHOLD /\ boot = "done" /\ ~disabled /\ ~closed
        => recovering

(* A disabled account stays disabled and offline, and once the attempts    *)
(* and calls that were in progress have ended, no event arms a timer for   *)
(* it again.                                                               *)
DisabledIsFinal ==
    [][disabled =>
         /\ disabled' /\ health' = "offline"
         /\ (Waiting = 0 /\ waitingCalls = 0 /\ callsInFlight = 0 /\ boot = "done")
               => Armed' <= Armed]_vars

(* Below its target reach the account recovers toward it: once the initial *)
(* connect has settled, a recovery is under way.  It does not hold: a live *)
(* call that succeeds ends the recovery of an account below its target.    *)
BelowTargetRecovers ==
    boot = "done" /\ currentReach < targetReach /\ ~disabled /\ ~closed
        => recovering \/ Armed + Waiting > 0

(* A broker that works again, for good, is found by the recovery loop: the *)
(* account becomes and stays healthy, however often the link or the        *)
(* private read failed before and whether or not events announced it.  No  *)
(* live call is needed for it; one that succeeds early may end recovery    *)
(* below the target, see BelowTargetRecovers.                              *)
Recovers ==
    <>[](link /\ private /\ ~disabled /\ ~closed /\ budget.calls = MaxCalls)
        => <>[](health = "healthy")

\* The initial connect always settles, so reads stop being told to wait.
ConnectSettlesAtLast == <>(~connecting)
=============================================================================
