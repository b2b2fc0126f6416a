--------------------------- MODULE AutoTradingRisk ---------------------------
(***************************************************************************)
(* The envelope around automated pushes: UnifiedTradingAccount.push with   *)
(* its _automatedPushActive flag, the dispatcher that consults it, and     *)
(* AutoTradingRiskController with its state file                           *)
(* (UnifiedTradingAccount.ts and auto-trading-risk.ts).                    *)
(*                                                                         *)
(* A push call runs from one await to the next.  The write lock of the git *)
(* stands for TradingGit (module TradingGit), and pending for its staged,  *)
(* committed operations, all of them limit orders; the rules about prices, *)
(* quotes, exposure and losses are one nondeterministic denial.  A tick of *)
(* the clock is a fraction of an hour.                                     *)
(***************************************************************************)
EXTENDS Naturals, Sequences, FiniteSets

CONSTANTS
    Automated, Manual,   \* the callers of push, with and without {automated: true}
    Batch,               \* operations in a commit
    MaxOrdersPerHour, MaxOrdersPerDay, PauseAfterConsecutiveErrors,
    Hour, DayLength,     \* in ticks
    MaxTime,             \* bound: ticks of the clock
    MaxPushes,           \* bound: push calls
    MaxEvents            \* bound: dead connections that pause automation, resets of
                         \* the pause, outages of the account and crashes, together

Callers == Automated \cup Manual

ASSUME RiskConstants ==
    /\ Automated \cap Manual = {}
    /\ {Batch, MaxOrdersPerHour, MaxOrdersPerDay, PauseAfterConsecutiveErrors,
        Hour, DayLength} \subseteq Nat \ {0}
    /\ {MaxTime, MaxPushes, MaxEvents} \subseteq Nat

VARIABLES
    now, online,
    active,      \* _automatedPushActive
    inflight, pending,      \* the git: its write lock, its committed operations
    call,        \* per caller: where its push is
    risk,        \* the controller's state
    load,        \* load(): "reading", "read" with what it read, "done"
    disk, writes,           \* automation-risk.json and the persists in progress
    placed,      \* history: the orders sent to the broker
    calm,        \* history: no crash, and no push before load() had ended
    budget

vars == <<now, online, active, inflight, pending, call, risk, load, disk, writes,
          placed, calm, budget>>

Day(t) == t \div DayLength
NoFile == [day |-> 0, stamps |-> <<>>, errors |-> 0, paused |-> FALSE, file |-> FALSE]
Fresh == [day |-> Day(now), stamps |-> <<>>, errors |-> 0, paused |-> FALSE]
Content(s) == [day |-> s.day, stamps |-> s.stamps, errors |-> s.errors,
               paused |-> s.paused, file |-> TRUE]
Idle == [at |-> "idle", left |-> 0, rejected |-> FALSE, disturbed |-> FALSE, slot |-> 0]

Init ==
    /\ now = 0 /\ online = TRUE
    /\ active = FALSE /\ inflight = FALSE /\ pending = 0
    /\ call = [c \in Callers |-> Idle]
    /\ risk = Fresh
    /\ load = [at |-> "reading", found |-> NoFile]
    /\ disk = NoFile /\ writes = {}
    /\ placed = <<>> /\ calm = TRUE
    /\ budget = [pushes |-> MaxPushes, events |-> MaxEvents]

-----------------------------------------------------------------------------
(* persist: mkdir is awaited, then the state of that moment is written.    *)
(* Nothing orders two writes.                                              *)

Persist(owner) == writes' = writes \cup {[owner |-> owner, at |-> "mkdir", content |-> NoFile]}

Settled(owner) == \A w \in writes : w.owner # owner

FileSystem ==
    /\ \E w \in writes :
          \/ /\ w.at = "mkdir"
             /\ writes' = (writes \ {w}) \cup {[w EXCEPT !.at = "write", !.content = Content(risk)]}
             /\ UNCHANGED disk
          \/ /\ w.at = "write"
             /\ writes' = writes \ {w}
             /\ disk' = w.content
    /\ UNCHANGED <<now, online, active, inflight, pending, call, risk, load, placed,
                   calm, budget>>

\* rollDay: a new day clears the counters and keeps the pause.
RollDay(state, owner) ==
    IF state.day = Day(now)
    THEN risk' = state /\ UNCHANGED writes
    ELSE risk' = [Fresh EXCEPT !.paused = state.paused] /\ Persist(owner)

\* load, started by the constructor: the file is read, then replaces the state.
LoadRead ==
    /\ load.at = "reading"
    /\ load' = [at |-> "read", found |-> disk]
    /\ UNCHANGED <<now, online, active, inflight, pending, call, risk, disk, writes,
                   placed, calm, budget>>

LoadApply ==
    LET f == load.found IN
    /\ load.at = "read"
    /\ load' = [at |-> "done", found |-> NoFile]
    /\ RollDay(IF f.file THEN [day |-> f.day, stamps |-> f.stamps, errors |-> f.errors,
                               paused |-> f.paused]
               ELSE risk, "load")
    /\ UNCHANGED <<now, online, active, inflight, pending, call, disk, placed, calm, budget>>

-----------------------------------------------------------------------------
(* push.                                                                   *)

Go(c, at) == call' = [call EXCEPT ![c].at = at]

\* The finally of a push that ends: the flag falls under every other push.
EndPush(c, next) ==
    /\ active' = FALSE
    /\ call' = [d \in Callers |-> IF d = c THEN next ELSE [call[d] EXCEPT !.disturbed = TRUE]]

(* The rest of push up to the first await inside git.push: an offline      *)
(* account throws before the try; a lock, an empty stage or a stale hash   *)
(* throws inside it.                                                       *)
EnterPush(c, flag) ==
    \/ /\ ~online
       /\ active' = flag /\ Go(c, "idle")
       /\ UNCHANGED inflight
    \/ /\ online
       /\ EndPush(c, Idle)
       /\ UNCHANGED inflight
    \/ /\ online /\ ~inflight /\ pending > 0
       /\ inflight' = TRUE /\ active' = flag
       /\ call' = [call EXCEPT ![c] = [Idle EXCEPT !.at = "op", !.left = pending]]

Push(c) ==
    /\ budget.pushes > 0 /\ call[c].at = "idle"
    /\ calm' = (calm /\ load.at = "done")
    /\ budget' = [budget EXCEPT !.pushes = @ - 1]
    /\ IF c \in Automated
       THEN Go(c, "stop") /\ UNCHANGED <<active, inflight>>
       ELSE EnterPush(c, active)
    /\ UNCHANGED <<now, online, pending, risk, load, disk, writes, placed>>

\* The emergency stop was read; a set one throws, before the flag is raised.
EmergencyStopRead(c) ==
    /\ call[c].at = "stop"
    /\ \/ Go(c, "idle") /\ UNCHANGED <<active, inflight>>
       \/ EnterPush(c, TRUE)
    /\ UNCHANGED <<now, online, pending, risk, load, disk, writes, placed, calm, budget>>

Send(c, checked) ==
    placed' = Append(placed, [by |-> c, checked |-> checked, slot |-> call[c].slot,
                              day |-> risk.day, disturbed |-> call[c].disturbed])

\* Mutant of Dispatch: an operation is sent without a look at the flag.
DispatchUnchecked(c) ==
    /\ call[c].at = "op" /\ call[c].left > 0
    /\ Send(c, FALSE) /\ Go(c, "sent") /\ UNCHANGED <<risk, writes>>
    /\ UNCHANGED <<now, online, active, inflight, pending, load, disk, calm, budget>>

\* The dispatcher, for the next operation: the flag decides, the caller is not known.
Dispatch(c) ==
    /\ call[c].at = "op" /\ call[c].left > 0
    /\ IF active
       THEN RollDay(risk, c) /\ Go(c, "rolled") /\ UNCHANGED placed
       ELSE Send(c, FALSE) /\ Go(c, "sent") /\ UNCHANGED <<risk, writes>>
    /\ UNCHANGED <<now, online, active, inflight, pending, load, disk, calm, budget>>

\* executePush's catch: the operation is recorded as rejected and the next one follows.
Refuse(c) == call' = [call EXCEPT ![c].at = "op", ![c].left = @ - 1, ![c].rejected = TRUE]

\* check, after rollDay: the pause, then the rules that need no quote.
CheckPause(c) ==
    /\ call[c].at = "rolled" /\ Settled(c)
    /\ Refuse(c) \/ (~risk.paused /\ Go(c, "quoting"))
    /\ UNCHANGED <<now, online, active, inflight, pending, risk, load, disk, writes,
                   placed, calm, budget>>

LastHour == {i \in 1..Len(risk.stamps) : risk.stamps[i] + Hour >= now}

\* Mutant of WithinLimits: the limits themselves are still allowed.
WithinLimitsInclusive ==
    Cardinality(LastHour) <= MaxOrdersPerHour /\ Len(risk.stamps) <= MaxOrdersPerDay

WithinLimits ==
    Cardinality(LastHour) < MaxOrdersPerHour /\ Len(risk.stamps) < MaxOrdersPerDay

\* check, after the broker's answers: the limits are tested and a slot reserved.
CheckLimits(c) ==
    /\ call[c].at = "quoting"
    /\ \/ Refuse(c) /\ UNCHANGED <<risk, writes>>
       \/ /\ WithinLimits
          /\ risk' = [risk EXCEPT !.stamps = Append(@, now)]
          /\ Persist(c)
          /\ call' = [call EXCEPT ![c].at = "reserved", ![c].slot = now]
    /\ UNCHANGED <<now, online, active, inflight, pending, load, disk, placed, calm, budget>>

\* The slot is persisted: the order goes to the broker.
SendReserved(c) ==
    /\ call[c].at = "reserved" /\ Settled(c)
    /\ Send(c, TRUE) /\ Go(c, "sent")
    /\ UNCHANGED <<now, online, active, inflight, pending, risk, load, disk, writes,
                   calm, budget>>

BrokerAnswers(c) ==
    /\ call[c].at = "sent"
    /\ Refuse(c) \/ call' = [call EXCEPT ![c].at = "op", ![c].left = @ - 1]
    /\ UNCHANGED <<now, online, active, inflight, pending, risk, load, disk, writes,
                   placed, calm, budget>>

\* Mutant of RecordFailure: the breaker trips one error late.
RecordFailureLate(c) ==
    /\ risk' = [risk EXCEPT !.errors = @ + 1,
                            !.paused = @ \/ risk.errors >= PauseAfterConsecutiveErrors]
    /\ Persist(c)

\* recordFailure.
RecordFailure(c) ==
    /\ risk' = [risk EXCEPT !.errors = @ + 1,
                            !.paused = @ \/ risk.errors + 1 >= PauseAfterConsecutiveErrors]
    /\ Persist(c)

(* All operations have run and the broker's state is read and saved: the   *)
(* push is over.  Only its rejections are reported to the controller; no   *)
(* push calls recordSuccess.  A failing read or save throws instead.       *)
FinishPush(c) ==
    LET failed == c \in Automated /\ call[c].rejected IN
    /\ call[c].at = "op" /\ call[c].left = 0
    /\ inflight' = FALSE
    /\ \/ /\ EndPush(c, Idle)
          /\ UNCHANGED <<pending, risk, writes>>
       \/ /\ pending' = 0
          /\ EndPush(c, IF failed THEN [Idle EXCEPT !.at = "failsave"] ELSE Idle)
          /\ IF failed THEN RecordFailure(c) ELSE UNCHANGED <<risk, writes>>
    /\ UNCHANGED <<now, online, load, disk, placed, calm, budget>>

\* The failure is on disk and push returns.
FailureSaved(c) ==
    /\ call[c].at = "failsave" /\ Settled(c)
    /\ Go(c, "idle")
    /\ UNCHANGED <<now, online, active, inflight, pending, risk, load, disk, writes,
                   placed, calm, budget>>

-----------------------------------------------------------------------------
(* Everybody else.                                                         *)

Event == budget.events > 0 /\ budget' = [budget EXCEPT !.events = @ - 1]

\* TradingGit.add and commit: refused while a write is in progress.
Commit ==
    /\ ~inflight /\ pending = 0
    /\ pending' = Batch
    /\ UNCHANGED <<now, online, active, inflight, call, risk, load, disk, writes,
                   placed, calm, budget>>

\* pause, from a dead connection; nobody awaits it.
Pause ==
    /\ Event
    /\ risk' = [risk EXCEPT !.paused = TRUE]
    /\ Persist("pause")
    /\ UNCHANGED <<now, online, active, inflight, pending, call, load, disk, placed,
                   calm>>

\* resetPause, from the user.
ResetPause ==
    /\ Event
    /\ risk' = [risk EXCEPT !.paused = FALSE, !.errors = 0]
    /\ Persist("reset")
    /\ UNCHANGED <<now, online, active, inflight, pending, call, load, disk, placed,
                   calm>>

\* The account's health changes (module AccountHealth).
HealthChanges ==
    /\ online' = ~online
    /\ IF online THEN Event ELSE UNCHANGED budget
    /\ UNCHANGED <<now, active, inflight, pending, call, risk, load, disk, writes,
                   placed, calm>>

Tick ==
    /\ now < MaxTime
    /\ now' = now + 1
    /\ UNCHANGED <<online, active, inflight, pending, call, risk, load, disk, writes,
                   placed, calm, budget>>

\* The process dies, a write in progress leaving no readable file, and is started again.
Crash ==
    /\ Event
    /\ disk' \in {disk} \cup (IF \E w \in writes : w.at = "write" THEN {NoFile} ELSE {})
    /\ writes' = {} /\ risk' = Fresh
    /\ load' = [at |-> "reading", found |-> NoFile]
    /\ active' = FALSE /\ inflight' = FALSE /\ pending' = 0
    /\ call' = [c \in Callers |-> Idle]
    /\ calm' = FALSE
    /\ UNCHANGED <<now, online, placed>>

PushStep(c) ==
    \/ EmergencyStopRead(c) \/ Dispatch(c) \/ CheckPause(c) \/ CheckLimits(c)
    \/ SendReserved(c) \/ BrokerAnswers(c) \/ FinishPush(c) \/ FailureSaved(c)

Next ==
    \/ \E c \in Callers : Push(c) \/ PushStep(c)
    \/ FileSystem \/ LoadRead \/ LoadApply
    \/ Commit \/ Pause \/ ResetPause \/ HealthChanges \/ Tick \/ Crash

Spec == Init /\ [][Next]_vars

-----------------------------------------------------------------------------
(* Properties.                                                             *)

RiskStates == [day: Nat, stamps: Seq(Nat), errors: Nat, paused: BOOLEAN]
Files == [day: Nat, stamps: Seq(Nat), errors: Nat, paused: BOOLEAN, file: BOOLEAN]

\* The clock, the push calls, the controller's state and its file.
TypeOK ==
    /\ now \in Nat /\ pending \in Nat
    /\ {online, active, inflight, calm} \subseteq BOOLEAN
    /\ call \in [Callers -> [at: {"idle", "stop", "op", "rolled", "quoting", "reserved",
                                  "sent", "failsave"},
                             left: Nat, rejected: BOOLEAN, disturbed: BOOLEAN, slot: Nat]]
    /\ risk \in RiskStates
    /\ disk \in Files
    /\ load \in [at: {"reading", "read", "done"}, found: Files]
    /\ writes \subseteq [owner: Callers \cup {"pause", "reset", "load"},
                         at: {"mkdir", "write"}, content: Files]
    /\ placed \in Seq([by: Callers, checked: BOOLEAN, slot: Nat, day: Nat,
                       disturbed: BOOLEAN])

CheckedOf(d) == {i \in 1..Len(placed) : placed[i].checked /\ placed[i].day = d}

(* Without a restart, and unless a push met the load at boot, the caps     *)
(* hold within the controller's day, whatever pushes, pauses and retries   *)
(* overlap: never more checked orders than the daily limit, nor than the   *)
(* hourly limit in any hour of it.                                         *)
CapsHold ==
    calm => \A d \in 0..Day(MaxTime) :
        /\ Cardinality(CheckedOf(d)) <= MaxOrdersPerDay
        /\ \A t \in 0..MaxTime :
              Cardinality({i \in CheckedOf(d) : placed[i].slot \in t..(t + Hour)})
                  <= MaxOrdersPerHour

(* An automated order escapes the check only when another push call ended  *)
(* while its own push was running and took the shared flag down.           *)
OnlyDisturbedEscape ==
    \A i \in 1..Len(placed) :
        placed[i].by \in Automated /\ ~placed[i].checked => placed[i].disturbed

\* The breaker is never past its threshold without having paused automation.
BreakerTrips == risk.errors >= PauseAfterConsecutiveErrors => risk.paused

(* Every automated placement passes the mandatory controls or is rejected: *)
(* none is sent unchecked.                                                 *)
EveryAutomatedIsChecked ==
    \A i \in 1..Len(placed) : placed[i].by \in Automated => placed[i].checked
=============================================================================
