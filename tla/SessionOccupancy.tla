--------------------------- MODULE SessionOccupancy ---------------------------
(***************************************************************************)
(* Who may run on one conversation (one resumeId and its SessionRecord):   *)
(* headless turns (workspaces/service.ts), terminals opened or resumed and *)
(* WebPi hosts (webui/routes/workspaces.ts), and the changes of presence.  *)
(*                                                                         *)
(* A call is one request; calls are numbered in the order they arrive, and *)
(* a request that is refused before it changes anything is no call.  A     *)
(* step runs from one await to the next.  Loads of registries that are     *)
(* already loaded yield to nobody.  A PTY or a Pi host is named after the  *)
(* call that started it.                                                   *)
(***************************************************************************)
EXTENDS Naturals, FiniteSets

CONSTANT MaxCalls       \* bound: requests on the conversation

ASSUME CallsAssumption == MaxCalls \in Nat

VARIABLES
    pc,         \* where a call is
    lease,      \* activeResumeIds has the conversation
    record,     \* state of the SessionRecord
    presence,   \* of the resume identity
    tasks,      \* the calls whose headless task is recorded as running
    latest,     \* the newest headless task
    linked,     \* latestTaskId of the identity
    guard,      \* the workspace operation guard
    inFlight,   \* resumeInFlight
    awaited,    \* the resume whose end a call waits for
    pool,       \* the pool's entry
    ptys,       \* the terminals that run
    webPi,      \* the WebPi host's entry
    pis,        \* the Pi hosts that run
    stopping,   \* the Pi hosts told to stop
    leaked      \* history: a call ended and kept the lease

vars == <<pc, lease, record, presence, tasks, latest, linked, guard, inFlight,
          awaited, pool, ptys, webPi, pis, stopping, leaked>>

Call == 1..MaxCalls
None == 0
Opt == Call \cup {None}

HeadSteps == {"bind", "ensure", "create", "link", "undo", "run", "prepare", "child",
              "complete", "rest"}
OpenSteps == {"openPrepare", "openEnsure", "openSpawn", "openLog", "openUndo"}
ResumeSteps == {"wait", "handoff", "resumePrepare", "watch"}
WebSteps == {"webPrepare", "webBind", "webStart", "webStop", "webFail"}
EditSteps == {"archive", "flush"}
Steps == {"idle", "done", "unlease", "pauseStop"}
         \cup HeadSteps \cup OpenSteps \cup ResumeSteps \cup WebSteps \cup EditSteps

\* The calls, the stores they change and what runs on the conversation.
TypeOK ==
    /\ pc \in [Call -> Steps]
    /\ lease \in BOOLEAN
    /\ record \in {"running", "paused"}
    /\ presence \in {"active", "archived", "deleted"}
    /\ tasks \subseteq Call /\ latest \in Opt /\ linked \in Opt
    /\ guard \in Opt /\ inFlight \in Opt
    /\ awaited \in [Call -> Opt]
    /\ pool \in Opt /\ ptys \subseteq Call
    /\ webPi \in Opt /\ pis \subseteq Call /\ stopping \subseteq pis
    /\ leaked \in BOOLEAN

\* A conversation that had a turn and is paused.
Init ==
    /\ pc = [c \in Call |-> "idle"]
    /\ lease = FALSE /\ record = "paused" /\ presence = "active"
    /\ tasks = {} /\ latest = None /\ linked = None
    /\ guard = None /\ inFlight = None
    /\ awaited = [c \in Call |-> None]
    /\ pool = None /\ ptys = {}
    /\ webPi = None /\ pis = {} /\ stopping = {}
    /\ leaked = FALSE

Arrives(c) == pc[c] = "idle" /\ \A d \in Call : d < c => pc[d] # "idle"
Goto(c, s) == pc' = [pc EXCEPT ![c] = s]
\* The call returns; its finally blocks give back the guard and the slot.
Finish(c) ==
    /\ Goto(c, "done")
    /\ guard' = (IF guard = c THEN None ELSE guard)
    /\ inFlight' = (IF inFlight = c THEN None ELSE inFlight)

runs == <<pool, ptys, webPi, pis, stopping>>
slots == <<guard, inFlight>>
turn == <<tasks, latest, linked>>

-----------------------------------------------------------------------------
(* dispatchHeadlessTask with a resumeId.                                   *)

\* Mutant of HeadClaim: the claim waits for no lease.
HeadClaimAnyway(c) ==
    /\ Arrives(c)
    /\ presence # "deleted" /\ record # "running"
    /\ lease' = TRUE
    /\ Goto(c, "bind")
    /\ UNCHANGED <<record, presence, turn, slots, awaited, runs, leaked>>

\* The checks and claimResume.
HeadClaim(c) ==
    /\ Arrives(c)
    /\ presence # "deleted" /\ record # "running" /\ ~lease
    /\ lease' = TRUE
    /\ Goto(c, "bind")
    /\ UNCHANGED <<record, presence, turn, slots, awaited, runs, leaked>>

(* A selection that a resumed Session may not have, or a binding that does *)
(* not resolve, throws outside the try block: the lease stays.             *)
HeadBind(c) ==
    /\ pc[c] = "bind"
    /\ \/ Goto(c, "ensure") /\ UNCHANGED <<slots, leaked>>
       \/ Finish(c) /\ leaked' = TRUE
    /\ UNCHANGED <<lease, record, presence, turn, awaited, runs>>

(* sessionCoordinator.ensure.  A write of the identity that fails leaves   *)
(* the record, one of the record leaves it running in memory; nothing      *)
(* undoes either.  A workspace no longer active is undone.                 *)
HeadEnsure(c) ==
    /\ pc[c] = "ensure"
    /\ \/ record' = "running" /\ Goto(c, "create")
       \/ record' = "running" /\ Goto(c, "undo")
       \/ record' \in {record, "running"} /\ Goto(c, "unlease")
    /\ UNCHANGED <<lease, presence, turn, slots, awaited, runs, leaked>>

\* headlessTasks.create: in memory first, then on disk.
HeadCreate(c) ==
    /\ pc[c] = "create"
    /\ tasks' = tasks \cup {c} /\ latest' = c
    /\ \E s \in {"link", "undo"} : Goto(c, s)
    /\ UNCHANGED <<lease, record, presence, linked, slots, awaited, runs, leaked>>

\* resumeRegistry.ensure and the transition to running.
HeadLink(c) ==
    /\ pc[c] = "link"
    /\ linked' = c
    /\ \/ record' = "running" /\ \E s \in {"run", "undo"} : Goto(c, s)
       \/ UNCHANGED record /\ Goto(c, "undo")
    /\ UNCHANGED <<lease, presence, tasks, latest, slots, awaited, runs, leaked>>

\* The catch block's, or the finally block's, transition to paused.
HeadRest(c) ==
    /\ pc[c] \in {"undo", "rest"}
    /\ record' = "paused"
    /\ Goto(c, "unlease")
    /\ UNCHANGED <<lease, presence, turn, slots, awaited, runs, leaked>>

\* runHeadlessTask: the operation guard, unless another operation has it.
HeadRun(c) ==
    /\ pc[c] = "run"
    /\ \/ guard = None /\ guard' = c /\ Goto(c, "prepare")
       \/ UNCHANGED guard /\ Goto(c, "complete")
    /\ UNCHANGED <<lease, record, presence, turn, inFlight, awaited, runs, leaked>>

\* The child is spawned, or preparing or spawning it failed.
HeadSpawn(c) ==
    /\ pc[c] = "prepare"
    /\ \E s \in {"child", "complete"} : Goto(c, s)
    /\ guard' = None
    /\ UNCHANGED <<lease, record, presence, turn, inFlight, awaited, runs, leaked>>

ChildExits(c) ==
    /\ pc[c] = "child"
    /\ Goto(c, "complete")
    /\ UNCHANGED <<lease, record, presence, turn, slots, awaited, runs, leaked>>

HeadComplete(c) ==
    /\ pc[c] = "complete"
    /\ tasks' = tasks \ {c}
    /\ Goto(c, "rest")
    /\ UNCHANGED <<lease, record, presence, latest, linked, slots, awaited, runs, leaked>>

\* Mutant of Unlease: an error path that forgets the lease.
UnleaseNot(c) ==
    /\ pc[c] = "unlease"
    /\ Finish(c)
    /\ UNCHANGED <<lease, record, presence, turn, awaited, runs, leaked>>

\* activeResumeIds.delete, releaseClaim.
Unlease(c) ==
    /\ pc[c] = "unlease"
    /\ lease' = FALSE
    /\ Finish(c)
    /\ UNCHANGED <<record, presence, turn, awaited, runs, leaked>>

-----------------------------------------------------------------------------
(* Terminals.                                                              *)

\* pool.spawn replaces the entry, whatever it was.
Spawn(c) ==
    /\ ptys' = ptys \cup {c} /\ pool' = c
    /\ UNCHANGED <<webPi, pis, stopping>>
\* pool.disposeToken ends the terminal of the entry.
Dispose == ptys' = ptys \ {pool} /\ pool' = None

\* webPi.stop: the entry goes and the host is told; the call waits a while.
StopWebPi ==
    /\ webPi' = None
    /\ stopping' = stopping \cup ({webPi} \ {None})

\* openResumeAsSession and the checks of spawnInteractiveSession.
Open(c) ==
    /\ Arrives(c)
    /\ pool = None /\ webPi = None /\ linked \notin tasks
    /\ guard = None /\ ~lease
    /\ guard' = c
    /\ Goto(c, "openPrepare")
    /\ UNCHANGED <<lease, record, presence, turn, inFlight, awaited, runs, leaked>>

\* The binding and the workspace are ready, or not; then claimResume.
OpenClaim(c) ==
    /\ pc[c] = "openPrepare"
    /\ \/ ~lease /\ lease' = TRUE /\ Goto(c, "openEnsure") /\ UNCHANGED slots
       \/ UNCHANGED lease /\ Finish(c)
    /\ UNCHANGED <<record, presence, turn, awaited, runs, leaked>>

OpenEnsure(c) ==
    /\ pc[c] = "openEnsure"
    /\ \/ record' = "running" /\ Goto(c, "openSpawn")
       \/ record' \in {record, "running"} /\ Goto(c, "unlease")
    /\ UNCHANGED <<lease, presence, turn, slots, awaited, runs, leaked>>

OpenSpawn(c) ==
    /\ pc[c] = "openSpawn"
    /\ \/ Spawn(c) /\ Goto(c, "openLog") /\ UNCHANGED lease
       \/ lease' = FALSE /\ Goto(c, "openUndo") /\ UNCHANGED runs
    /\ UNCHANGED <<record, presence, turn, slots, awaited, leaked>>

OpenLog(c) ==
    /\ pc[c] = "openLog"
    /\ lease' = FALSE
    /\ Finish(c)
    /\ UNCHANGED <<record, presence, turn, awaited, runs, leaked>>

OpenUndo(c) ==
    /\ pc[c] = "openUndo"
    /\ record' = "paused"
    /\ Finish(c)
    /\ UNCHANGED <<lease, presence, turn, awaited, runs, leaked>>

\* The resume route: a resume in flight is waited for.
Resume(c) ==
    /\ Arrives(c)
    /\ awaited' = [awaited EXCEPT ![c] = inFlight]
    /\ Goto(c, "wait")
    /\ UNCHANGED <<lease, record, presence, turn, slots, runs, leaked>>

(* doResume: refused under a lease or with a terminal in the pool, which   *)
(* leaves the slot empty whoever had it; a WebPi host is stopped first.    *)
DoResume(c) ==
    /\ pc[c] = "wait"
    /\ awaited[c] # None => pc[awaited[c]] = "done"
    /\ \/ /\ lease \/ pool # None
          /\ inFlight' = None
          /\ Goto(c, "done")
          /\ UNCHANGED runs
       \/ /\ ~lease /\ pool = None
          /\ inFlight' = c
          /\ Goto(c, "handoff")
          /\ StopWebPi
          /\ UNCHANGED <<pool, ptys, pis>>
    /\ awaited' = [awaited EXCEPT ![c] = None]
    /\ UNCHANGED <<lease, record, presence, turn, guard, leaked>>

(* webPi.stop has returned: the host has exited, or two seconds have       *)
(* passed and it was sent a signal that it may not have got yet.           *)
Handoff(c) ==
    /\ pc[c] = "handoff"
    /\ Goto(c, "resumePrepare")
    /\ UNCHANGED <<lease, record, presence, turn, slots, awaited, runs, leaked>>

\* Mutant of ResumeSpawn: the claim's answer is ignored.
ResumeSpawnAnyway(c) ==
    /\ pc[c] = "resumePrepare"
    /\ lease' = TRUE /\ Spawn(c) /\ Goto(c, "watch")
    /\ UNCHANGED <<record, presence, turn, slots, awaited, leaked>>

\* claimResume and pool.spawn; or one of the preparations, or either, fails.
ResumeSpawn(c) ==
    /\ pc[c] = "resumePrepare"
    /\ \/ ~lease /\ lease' = TRUE /\ Spawn(c) /\ Goto(c, "watch") /\ UNCHANGED slots
       \/ UNCHANGED <<lease, runs>> /\ Finish(c)
    /\ UNCHANGED <<record, presence, turn, awaited, leaked>>

\* waitForFirstExit: the terminal stays up, or the entry is disposed of.
Watch(c) ==
    /\ pc[c] = "watch"
    /\ \/ record' = "running" /\ UNCHANGED <<pool, ptys>>
       \/ record' = "paused" /\ Dispose
    /\ Goto(c, "unlease")
    /\ UNCHANGED <<lease, presence, turn, slots, awaited, webPi, pis, stopping, leaked>>

\* The pause and stop routes.
Pause(c) ==
    /\ Arrives(c)
    /\ Dispose
    /\ StopWebPi
    /\ \/ webPi # None /\ Goto(c, "pauseStop") /\ UNCHANGED record
       \/ webPi = None /\ record' = "paused" /\ Goto(c, "done")
    /\ UNCHANGED <<lease, presence, turn, slots, awaited, pis, leaked>>

\* webPi.stop has returned here, on the same terms.
PauseStopped(c) ==
    /\ pc[c] = "pauseStop"
    /\ record' = "paused"
    /\ Goto(c, "done")
    /\ UNCHANGED <<lease, presence, turn, slots, awaited, runs, leaked>>

(* The respawn breaker gives up: the pool forgets the entry of the record, *)
(* whichever terminal it names, and the record stays as it was.            *)
PtyEnds(c) ==
    /\ c \in ptys
    /\ ptys' = ptys \ {c} /\ pool' = None
    /\ UNCHANGED <<pc, lease, record, presence, turn, slots, awaited, webPi, pis, stopping, leaked>>

-----------------------------------------------------------------------------
(* WebPi: the open route and startWebPiSession, which take no lease.       *)

WebOpen(c) ==
    /\ Arrives(c) /\ ~lease
    /\ Goto(c, "webPrepare")
    /\ UNCHANGED <<lease, record, presence, turn, slots, awaited, runs, leaked>>

\* Mutant of WebHandoff: the start does not take the operation guard.
WebHandoffUnguarded(c) ==
    /\ pc[c] = "webPrepare"
    /\ Dispose /\ Goto(c, "webBind")
    /\ UNCHANGED <<lease, record, presence, turn, slots, awaited, webPi, pis, stopping, leaked>>

\* The terminal is disposed of; then the operation guard, or an error.
WebHandoff(c) ==
    /\ pc[c] = "webPrepare"
    /\ \/ Dispose /\ guard = None /\ guard' = c /\ Goto(c, "webBind")
       \/ Dispose /\ UNCHANGED guard /\ Goto(c, "webFail")
       \/ UNCHANGED <<pool, ptys, guard>> /\ Goto(c, "webFail")
    /\ UNCHANGED <<lease, record, presence, turn, inFlight, awaited, webPi, pis, stopping, leaked>>

\* WebPiSessionHost.start: a host that is there is taken as it is.
WebStart(c) ==
    /\ pc[c] = "webBind"
    /\ \/ webPi # None /\ record' = "running" /\ Finish(c) /\ UNCHANGED <<webPi, pis>>
       \/ /\ webPi = None
          /\ webPi' = c /\ pis' = pis \cup {c}
          /\ Goto(c, "webStart")
          /\ UNCHANGED <<record, slots>>
       \/ guard' = None /\ Goto(c, "webFail") /\ UNCHANGED <<record, inFlight, webPi, pis>>
    /\ UNCHANGED <<lease, presence, turn, awaited, pool, ptys, stopping, leaked>>

(* The host answers, or it does not: the entry is deleted, whichever host  *)
(* it names, and the own one is told to stop.                              *)
WebStarted(c) ==
    /\ pc[c] = "webStart"
    /\ \/ /\ c \in pis
          /\ record' = "running" /\ Finish(c)
          /\ UNCHANGED <<webPi, pis, stopping>>
       \/ /\ webPi' = None /\ stopping' = stopping \cup ({c} \cap pis)
          /\ Goto(c, "webStop")
          /\ UNCHANGED <<record, slots, pis>>
    /\ UNCHANGED <<lease, presence, turn, awaited, pool, ptys, leaked>>

\* The stop has returned, and startWebPiSession gives the guard back.
WebStopped(c) ==
    /\ pc[c] = "webStop"
    /\ guard' = None /\ Goto(c, "webFail")
    /\ UNCHANGED <<lease, record, presence, turn, inFlight, awaited, runs, leaked>>

WebFail(c) ==
    /\ pc[c] = "webFail"
    /\ record' = "paused"
    /\ Goto(c, "done")
    /\ UNCHANGED <<lease, presence, turn, slots, awaited, runs, leaked>>

\* onExit: only an exit nobody asked for pauses the record.
PiExits(c) ==
    /\ c \in pis
    /\ pis' = pis \ {c} /\ stopping' = stopping \ {c}
    /\ webPi' = (IF webPi = c THEN None ELSE webPi)
    /\ record' = (IF c \in stopping THEN record ELSE "paused")
    /\ UNCHANGED <<pc, lease, presence, turn, slots, awaited, pool, ptys, leaked>>

-----------------------------------------------------------------------------
(* Presence.                                                               *)

\* Nothing runs, as far as the record and the newest task tell.
Quiet == record # "running" /\ latest \notin tasks

\* Mutant of SetPresence: a deletion that does not look for a turn.
SetPresenceUnleased(c) ==
    /\ Arrives(c)
    /\ Quiet
    /\ presence' = "deleted"
    /\ Goto(c, "done")
    /\ UNCHANGED <<lease, record, turn, slots, awaited, runs, leaked>>

\* setSessionPresence (archive or restore) and deleteSessionPresence.
SetPresence(c) ==
    /\ Arrives(c) /\ ~lease /\ Quiet
    /\ lease' = TRUE
    /\ \/ /\ presence' = (IF presence = "archived" THEN "active" ELSE "archived")
          /\ Goto(c, "flush")
       \/ /\ presence = "active" /\ presence' = "archived"
          /\ Goto(c, "archive")
       \/ /\ presence = "archived" /\ presence' = "deleted"
          /\ Goto(c, "flush")
    /\ UNCHANGED <<record, turn, slots, awaited, runs, leaked>>

\* The first half of a deletion is on disk, or the write failed.
DeleteArchived(c) ==
    /\ pc[c] = "archive"
    /\ \/ presence' = "deleted" /\ Goto(c, "flush") /\ UNCHANGED <<lease, slots>>
       \/ UNCHANGED presence /\ lease' = FALSE /\ Finish(c)
    /\ UNCHANGED <<record, turn, awaited, runs, leaked>>

PresenceFlushed(c) ==
    /\ pc[c] = "flush"
    /\ lease' = FALSE
    /\ Finish(c)
    /\ UNCHANGED <<record, presence, turn, awaited, runs, leaked>>

-----------------------------------------------------------------------------
\* The steps a call takes on its own once it has begun.
Proceeds(c) ==
    \/ HeadBind(c) \/ HeadEnsure(c) \/ HeadCreate(c) \/ HeadLink(c) \/ HeadRest(c)
    \/ HeadRun(c) \/ HeadSpawn(c) \/ ChildExits(c) \/ HeadComplete(c) \/ Unlease(c)
    \/ OpenClaim(c) \/ OpenEnsure(c) \/ OpenSpawn(c) \/ OpenLog(c) \/ OpenUndo(c)
    \/ DoResume(c) \/ Handoff(c) \/ ResumeSpawn(c) \/ Watch(c) \/ PauseStopped(c)
    \/ WebHandoff(c) \/ WebStart(c) \/ WebStarted(c) \/ WebStopped(c)
    \/ WebFail(c)
    \/ DeleteArchived(c) \/ PresenceFlushed(c)

Begins(c) == HeadClaim(c) \/ Open(c) \/ Resume(c) \/ Pause(c) \/ WebOpen(c) \/ SetPresence(c)

Next == \E c \in Call : Begins(c) \/ Proceeds(c) \/ PtyEnds(c) \/ PiExits(c)

(* Awaited file writes and spawns settle, a headless child exits or is     *)
(* killed at its timeout, and a Pi host told to stop is killed.            *)
Spec ==
    /\ Init /\ [][Next]_vars
    /\ \A c \in Call : WF_vars(Proceeds(c)) /\ WF_vars(c \in stopping /\ PiExits(c))

-----------------------------------------------------------------------------
InChild(c) == pc[c] = "child"

(* Two headless turns never run on one transcript at the same time.        *)
OneTurn == \A c, d \in Call : InChild(c) /\ InChild(d) => c = d

(* No terminal is started while a headless turn runs: the open and resume  *)
(* routes spawn under a lease of their own, several awaits after they      *)
(* looked whether there was one.                                           *)
TurnsExclude ==
    [][(\E c \in Call : InChild(c)) => ptys' \subseteq ptys]_vars

(* A deleted conversation has no headless turn: a turn that is under way   *)
(* stops a deletion, and a deletion stops a turn, at every await of both.  *)
DeletedStaysQuiet ==
    presence = "deleted" => \A c \in Call : pc[c] \notin {"run", "prepare", "child"}

(* A Pi host that runs is the one WebPi knows, or is being stopped: no     *)
(* host is left that nothing can reach.                                    *)
NoOrphanPi == pis \subseteq {webPi} \cup stopping

(* The lease is given back, unless a dispatch threw outside its try block. *)
LeaseReturns == lease ~> (~lease \/ leaked)

(* "True while a headless turn owns this conversation transcript": a lease *)
(* has a call that will give it back.  It does not hold: a dispatch that   *)
(* throws in HeadBind keeps its lease.                                     *)
LeaseHasHolder == lease => \E c \in Call : pc[c] \notin {"idle", "done"}

(* A resume beside another "yields alreadyRunning instead of a second      *)
(* spawn": one terminal runs on the transcript.  It does not hold: a       *)
(* resume does not look at the pool again after its awaits, and the pool   *)
(* replaces the entry.                                                     *)
OneTerminal == \A c, d \in ptys : c = d

(* "Never leave Pi's RPC host and PTY alive against the same native        *)
(* session file".  It does not hold: WebPi takes no lease.                 *)
OneSurface == ptys = {} \/ pis \subseteq stopping
=============================================================================
