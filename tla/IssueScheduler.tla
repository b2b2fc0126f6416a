---------------------------- MODULE IssueScheduler ----------------------------
(***************************************************************************)
(* The scanner that fires the scheduled Issues of a workspace              *)
(* (workspaces/schedule/scanner.ts), its marker file (marker-store.ts) and *)
(* the requests to run or retry an Issue now (workspaces/service.ts).      *)
(*                                                                         *)
(* One workspace: its Issues are scanned one after the other.  Time is     *)
(* counted in units of half a scan interval and goes on during every       *)
(* await.  A step runs from one await to the next; Alice may crash between *)
(* any two and start again from the marker file.                           *)
(***************************************************************************)
EXTENDS Naturals, FiniteSets

CONSTANTS
    Issues,        \* number of Issues; they are scanned in order
    At,            \* the time of the one-shots
    Period,        \* of "every", and between the slots of a cron
    Interval,      \* of the scan
    Start,
    MaxTime,       \* bound: the clock stops here
    MaxFaults,     \* bound: unreadable files, failed writes, crashes
    MaxRefusals,   \* bound: dispatches refused (capacity, busy)
    MaxManual      \* bound: requests to run an Issue now

Issue == 1..Issues
Never == MaxTime + Period + 1

ASSUME SchedulerConstants ==
    /\ Issues \in Nat \ {0}
    /\ {At, Start, MaxTime, MaxFaults, MaxRefusals, MaxManual} \subseteq Nat
    /\ {Period, Interval} \subseteq Nat \ {0}
    /\ Interval < Start /\ Start <= MaxTime

VARIABLES
    kind,       \* of the `when' of each Issue; "calendar" is a cron without catch-up
    now,
    scan,       \* the scanner: its step, its Issue, its time, what it has seen
    rested,     \* when the last scan ended
    marker,     \* the records of the marker store
    disk,       \* the marker file
    done,       \* the Issues with a terminal status
    unclaimed,  \* the Issues assigned to @new-then-resume
    locked,     \* dispatchingIssues
    retrying,   \* retryingIssueKeys
    manual,     \* the request to run an Issue now that is under way
    live,       \* the runs in progress: <<Issue, "newest" or "older">>
    budget,     \* [faults, refusals, manual]
    settled,    \* history: the time up to which slots were fired or consumed
    lost,       \* history: the marker of what was settled is lost
    owed,       \* history: refused since the last fire
    again       \* history: recruited for, though a Session had claimed them

vars == <<kind, now, scan, rested, marker, disk, done, unclaimed, locked, retrying, manual,
          live, budget, settled, lost, owed, again>>

NoTime == 0            \* no marker; a never-fired Issue counts from the epoch
NoMark == [fired |-> NoTime, held |-> NoTime]
Resting == [pc |-> "rest", issue |-> 0, at |-> 0, seen |-> {}, read |-> {}, first |-> {}]
NoRequest == [pc |-> "none", issue |-> 0, first |-> FALSE]

Init ==
    /\ kind \in [Issue -> {"at", "every", "cron", "calendar"}]
    /\ now = Start /\ scan = Resting /\ rested = Start
    /\ marker = [i \in Issue |-> NoMark] /\ disk = marker
    /\ done = {} /\ locked = {} /\ retrying = {} /\ manual = NoRequest
    /\ unclaimed = Issue /\ live = {}
    /\ budget = [faults |-> MaxFaults, refusals |-> MaxRefusals, manual |-> MaxManual]
    /\ settled = [i \in Issue |-> NoTime] /\ lost = {} /\ owed = {}
    /\ again = {}

-----------------------------------------------------------------------------
(* Due-ness: computeNextRun and fireBase.                                  *)

\* The first slot of i strictly after t.
NextRun(i, t) ==
    CASE kind[i] = "at" -> IF At > t THEN At ELSE Never
      [] kind[i] = "every" -> t + Period
      [] OTHER -> ((t \div Period) + 1) * Period

FireBase(i, m, t) ==
    IF kind[i] \in {"at", "every"} THEN m.fired
    ELSE IF m.held # NoTime /\ m.held >= m.fired THEN m.held
    ELSE IF m.fired # NoTime THEN m.fired
    ELSE t - Interval

IsDue(i, t) == NextRun(i, FireBase(i, marker[i], t)) <= t

-----------------------------------------------------------------------------
(* The scan.                                                               *)

Spend(what) == budget[what] > 0 /\ budget' = [budget EXCEPT ![what] = @ - 1]
ScanAt(s) == scan' = [scan EXCEPT !.pc = s]
NextIssue == [scan EXCEPT !.pc = "loop", !.issue = @ + 1]
work == <<done, unclaimed, locked, retrying, manual, live>>
history == <<settled, lost, owed, again>>

(* The timer of tickAndRearm, armed when the scan before ended; scans go   *)
(* on when the clock of the model has stopped.                             *)
ScanBegin ==
    /\ scan.pc = "rest"
    /\ now >= rested + Interval \/ now = MaxTime
    /\ scan' = [Resting EXCEPT !.pc = "read", !.at = now]
    /\ UNCHANGED <<kind, now, rested, marker, disk, work, budget, history>>

\* readWorkspaceIssues: a file, or the directory, may not read this time.
ScanRead ==
    /\ scan.pc = "read"
    /\ \E ok \in SUBSET Issue :
         /\ IF ok = Issue THEN UNCHANGED budget ELSE Spend("faults")
         /\ scan' = [scan EXCEPT !.pc = "loop", !.issue = 1, !.seen = ok,
                                 !.read = ok \ done, !.first = ok \cap unclaimed]
    /\ UNCHANGED <<kind, now, rested, marker, disk, work, history>>

\* A due Issue is fired: dispatchIssue takes the Issue's dispatch lock.
ScanIssue ==
    /\ scan.pc = "loop" /\ scan.issue \in Issue
    /\ LET i == scan.issue IN
       \/ /\ ~(i \in scan.read /\ IsDue(i, scan.at))
          /\ scan' = NextIssue
          /\ UNCHANGED locked
       \/ /\ i \in scan.read /\ IsDue(i, scan.at)
          /\ ScanAt(IF i \in locked THEN "miss" ELSE "dispatch")
          /\ locked' = locked \cup {i}
    /\ UNCHANGED <<kind, now, rested, marker, disk, done, unclaimed, retrying, manual, live, budget, history>>

\* A run is registered; `first': a Session is recruited for @new-then-resume.
StartRun(i, first) ==
    /\ live' = live \cup {<<i, "newest">>}
                    \cup (IF <<i, "newest">> \in live THEN {<<i, "older">>} ELSE {})
    /\ again' = (IF first /\ i \notin unclaimed THEN again \cup {i} ELSE again)

ScanDispatch ==
    /\ scan.pc = "dispatch"
    /\ LET i == scan.issue IN
       \/ /\ StartRun(i, i \in scan.first)
          /\ settled' = [settled EXCEPT ![i] = scan.at]
          /\ owed' = owed \ {i}
          /\ ScanAt("claim")
          /\ UNCHANGED <<locked, budget>>
       \/ /\ Spend("refusals")
          /\ locked' = locked \ {i}
          /\ owed' = owed \cup {i}
          /\ ScanAt("miss")
          /\ UNCHANGED <<live, settled, again>>
    /\ UNCHANGED <<kind, now, rested, marker, disk, done, unclaimed, retrying, manual, lost>>

\* claimFreshSession, if the file still says so; the write may fail.
Claim(i, first) ==
    \/ unclaimed' = (IF first THEN unclaimed \ {i} ELSE unclaimed) /\ UNCHANGED budget
    \/ first /\ i \in unclaimed /\ Spend("faults") /\ UNCHANGED unclaimed

\* Mutant of ScanMark: only a first fire is marked.
ScanMarkFirst ==
    /\ scan.pc = "claim"
    /\ LET i == scan.issue IN
       /\ Claim(i, i \in scan.first)
       /\ locked' = locked \ {i}
       /\ marker' = (IF marker[i].fired = NoTime
                     THEN [marker EXCEPT ![i] = [fired |-> scan.at, held |-> NoTime]] ELSE marker)
       /\ lost' = lost \ {i}
    /\ ScanAt("flush")
    /\ UNCHANGED <<kind, now, rested, disk, done, retrying, manual, live, settled, owed, again>>

\* The claim, the end of the dispatch, and markers.set.
ScanMark ==
    /\ scan.pc = "claim"
    /\ LET i == scan.issue IN
       /\ Claim(i, i \in scan.first)
       /\ locked' = locked \ {i}
       /\ marker' = [marker EXCEPT ![i] = [fired |-> scan.at, held |-> NoTime]]
       /\ lost' = lost \ {i}
    /\ ScanAt("flush")
    /\ UNCHANGED <<kind, now, rested, disk, done, retrying, manual, live, settled, owed, again>>

\* Mutant of ScanMiss: a catch-up cron consumes the slot as well.
ScanMissConsumes ==
    /\ scan.pc = "miss"
    /\ LET i == scan.issue IN
       \/ /\ kind[i] \notin {"cron", "calendar"}
          /\ scan' = NextIssue /\ UNCHANGED <<marker, settled>>
       \/ /\ kind[i] \in {"cron", "calendar"}
          /\ marker' = [marker EXCEPT ![i].held = scan.at]
          /\ settled' = (IF kind[i] = "cron" THEN settled ELSE [settled EXCEPT ![i] = scan.at])
          /\ ScanAt("flush")
    /\ UNCHANGED <<kind, now, rested, disk, work, budget, lost, owed, again>>

(* noteCronMiss: a catch-up cron that never fired holds its slot, a        *)
(* calendar-only one consumes every slot up to now.                        *)
ScanMiss ==
    /\ scan.pc = "miss"
    /\ LET i == scan.issue
           holds == \/ kind[i] = "calendar"
                    \/ kind[i] = "cron" /\ marker[i].fired = NoTime
           slot == NextRun(i, FireBase(i, marker[i], scan.at))
       IN
       \/ /\ ~(holds /\ slot <= scan.at)
          /\ scan' = NextIssue
          /\ UNCHANGED <<marker, settled>>
       \/ /\ holds /\ slot <= scan.at
          /\ marker' = [marker EXCEPT ![i].held =
                          IF kind[i] = "calendar" THEN scan.at ELSE slot - 1]
          /\ settled' = (IF kind[i] = "calendar"
                         THEN [settled EXCEPT ![i] = scan.at] ELSE settled)
          /\ ScanAt("flush")
    /\ UNCHANGED <<kind, now, rested, disk, work, budget, lost, owed, again>>

\* flush of set or hold; an error is logged and nothing else.
ScanFlush ==
    /\ scan.pc = "flush"
    /\ \/ disk' = marker /\ UNCHANGED budget
       \/ Spend("faults") /\ UNCHANGED disk
    /\ scan' = NextIssue
    /\ UNCHANGED <<kind, now, rested, marker, work, history>>

\* The timer is armed for the next scan.
ScanRests == scan' = Resting /\ rested' = now

\* markers.prune: what this scan did not see is forgotten.
ScanPrune ==
    /\ scan.pc = "loop" /\ scan.issue \notin Issue
    /\ marker' = [i \in Issue |-> IF i \in scan.seen THEN marker[i] ELSE NoMark]
    /\ lost' = lost \cup {i \in Issue : marker'[i] # marker[i]}
    /\ \/ marker' # marker /\ ScanAt("pruned") /\ UNCHANGED rested
       \/ marker' = marker /\ ScanRests
    /\ UNCHANGED <<kind, now, disk, work, budget, settled, owed, again>>

\* Only a prune that forgot something writes the file, or fails to.
ScanEnd ==
    /\ scan.pc = "pruned"
    /\ \/ disk' = marker /\ UNCHANGED budget
       \/ disk # marker /\ Spend("faults") /\ UNCHANGED disk
    /\ ScanRests
    /\ UNCHANGED <<kind, now, marker, work, history>>

-----------------------------------------------------------------------------
(* dispatchScheduledIssueNow and runIssueNow.                              *)

ManualAt(s) == manual' = [manual EXCEPT !.pc = s]
clock == <<kind, now, scan, rested, marker, disk>>

\* Refused while the newest run of the Issue is in progress.
ManualBegin(i) ==
    /\ manual.pc = "none" /\ Spend("manual")
    /\ i \notin done /\ i \notin retrying /\ <<i, "newest">> \notin live
    /\ retrying' = retrying \cup {i}
    /\ manual' = [pc |-> "read", issue |-> i, first |-> FALSE]
    /\ UNCHANGED <<clock, done, unclaimed, locked, live, history>>

ManualRefuse ==
    /\ manual' = NoRequest
    /\ retrying' = retrying \ {manual.issue}

\* The Issue is read again, then the dispatch lock is taken or the call throws.
ManualRead ==
    /\ manual.pc = "read"
    /\ LET i == manual.issue IN
       \/ i \in done \cup locked /\ ManualRefuse /\ UNCHANGED locked
       \/ /\ i \notin done \cup locked
          /\ locked' = locked \cup {i}
          /\ manual' = [manual EXCEPT !.pc = "dispatch", !.first = i \in unclaimed]
          /\ UNCHANGED retrying
    /\ UNCHANGED <<clock, done, unclaimed, live, budget, history>>

ManualDispatch ==
    /\ manual.pc = "dispatch"
    /\ \/ /\ StartRun(manual.issue, manual.first)
          /\ ManualAt("claim")
          /\ UNCHANGED <<locked, retrying, budget>>
       \/ /\ Spend("refusals")
          /\ locked' = locked \ {manual.issue}
          /\ ManualRefuse
          /\ UNCHANGED <<live, again>>
    /\ UNCHANGED <<clock, done, unclaimed, settled, lost, owed>>

ManualEnd ==
    /\ manual.pc = "claim"
    /\ Claim(manual.issue, manual.first)
    /\ locked' = locked \ {manual.issue}
    /\ ManualRefuse
    /\ UNCHANGED <<clock, done, live, history>>

-----------------------------------------------------------------------------
(* completeOneShotIssueAfterRun, the clock and crashes.                    *)

\* A run ends; a one-shot whose run succeeded is done.
RunEnds(r) ==
    /\ r \in live
    /\ live' = live \ {r}
    /\ \/ done' = (IF kind[r[1]] = "at" THEN done \cup {r[1]} ELSE done)
       \/ UNCHANGED done
    /\ UNCHANGED <<clock, unclaimed, locked, retrying, manual, budget, history>>

Tick ==
    /\ now < MaxTime
    /\ now' = now + 1
    /\ UNCHANGED <<kind, scan, rested, marker, disk, work, budget, history>>

(* A crash: the runs are interrupted, and the markers are what the file    *)
(* holds.  A fire or a miss that was not yet marked is lost too.           *)
Crash ==
    /\ Spend("faults")
    /\ scan' = Resting /\ rested' = now /\ manual' = NoRequest
    /\ locked' = {} /\ retrying' = {} /\ live' = {}
    /\ marker' = disk
    /\ lost' = lost \cup {i \in Issue : disk[i] # marker[i]}
                    \cup (IF scan.pc \in {"claim", "miss"} THEN {scan.issue} ELSE {})
    /\ UNCHANGED <<kind, now, disk, done, unclaimed, settled, owed, again>>

Scan == \/ ScanBegin \/ ScanRead \/ ScanIssue \/ ScanDispatch \/ ScanMark
        \/ ScanMiss \/ ScanFlush \/ ScanPrune \/ ScanEnd
Manual == ManualRead \/ ManualDispatch \/ ManualEnd

Next ==
    \/ Scan \/ Manual \/ Tick \/ Crash
    \/ \E i \in Issue : ManualBegin(i)
    \/ \E r \in live : RunEnds(r)

\* The scan timer fires and what is awaited settles; time goes on.
Spec == Init /\ [][Next]_vars /\ WF_vars(Scan) /\ WF_vars(Manual) /\ WF_vars(Tick)

-----------------------------------------------------------------------------
\* The types of the scanner, its stores and the clock.
TypeOK ==
    /\ now \in Start..MaxTime /\ rested \in Start..MaxTime
    /\ scan.pc \in {"rest", "read", "loop", "dispatch", "claim", "miss", "flush", "pruned"}
    /\ scan.issue \in 0..(Issues + 1) /\ scan.at \in 0..MaxTime
    /\ scan.seen \subseteq Issue /\ scan.read \subseteq scan.seen /\ scan.first \subseteq scan.seen
    /\ marker \in [Issue -> [fired : 0..MaxTime, held : 0..MaxTime]]
    /\ disk \in [Issue -> [fired : 0..MaxTime, held : 0..MaxTime]]
    /\ {done, unclaimed, locked, retrying, lost, owed} \subseteq SUBSET Issue
    /\ live \subseteq Issue \X {"newest", "older"}

(* A slot is fired, or consumed by a calendar-only cron, once: the scanner *)
(* starts a run of an Issue only for a slot after the last settled one,    *)
(* however scans, manual runs, refusals and restarts interleave; unless    *)
(* the marker was lost to a crash, or pruned because the file did not read *)
(* in one scan.                                                            *)
SlotFiresOnce ==
    [][\A i \in Issue :
         scan.pc = "dispatch" /\ scan'.pc = "claim" /\ scan.issue = i /\ i \notin lost
           => NextRun(i, settled[i]) <= scan.at]_vars

(* A slot that was refused (capacity, a busy Session) is fired later, for  *)
(* every kind but the calendar-only cron; unless its cursor was lost or    *)
(* the Issue is done.                                                      *)
RefusedIsRetried ==
    \A i \in Issue : kind[i] # "calendar" =>
        (i \in owed ~> i \notin owed \/ i \in lost \cup done)

(* "@new-then-resume recruits once".  It does not hold: a scan acts on the *)
(* Issues it read at its start, and a request may claim one meanwhile.     *)
RecruitsOnce == again = {}

(* "The lookback catches an occurrence that just passed": a cron without a *)
(* marker is due at the scan after a slot.  It does not hold: two scans    *)
(* may be further apart than the interval.                                 *)
LookbackCatches ==
    scan.pc = "read" =>
        \A i \in Issue : kind[i] = "cron" /\ marker[i] = NoMark /\ NextRun(i, Start) <= scan.at
            => IsDue(i, scan.at) \/ settled[i] # NoTime
=============================================================================
