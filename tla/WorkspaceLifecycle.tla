-------------------------- MODULE WorkspaceLifecycle --------------------------
(***************************************************************************)
(* One workspace between the office floor and the archive: offboard,       *)
(* restore, purge and absorb (workspace-lifecycle.ts, workspace-absorb.ts) *)
(* over the catalog, the registry, the resume identities and the two       *)
(* directories, with the recovery at launch.  Another, active, workspace   *)
(* is the target of absorb.                                                *)
(*                                                                         *)
(* A call is one request; Boot is the launch.  A step is one file          *)
(* operation and the code from there to the next: memory is changed at     *)
(* once and its file written by the step after.  A crash may fall between  *)
(* any two steps.  Offboarding and absorb hold the operation guard; restore*)
(* and purge do not.                                                       *)
(***************************************************************************)
EXTENDS Naturals

CONSTANTS
    MaxCalls,       \* bound: requests
    MaxCrashes,     \* bound: crashes of the process
    MaxFaults       \* bound: moves, copies, removals, handoff writes and git calls that fail

ASSUME BoundsAssumption == /\ MaxCalls \in Nat
                           /\ MaxCrashes \in Nat
                           /\ MaxFaults \in Nat

VARIABLES
    pc,         \* where a call is
    job,        \* what it was asked for
    frame,      \* the function it is in, and how that was reached
    guard,      \* the operation guard's entry of the workspace
    catalog,    \* lifecycle of its catalog row in memory, and on disk
    registry,   \* whether the registry has it, in memory and on disk
    retired,    \* whether its resume identities are retired, likewise
    dir,        \* what is at activeDir and at departedDir
    otherDisk,  \* activeDir lives on another file system
    journal,    \* the target holds an absorb journal
    target,     \* the copied files in the target
    run,        \* a headless run in the workspace
    terminal,   \* a terminal of the workspace is open
    crashes,
    faults,
    left,       \* history: what failed since the launch and waits for the next one
    upset       \* history: two calls overlapped past the guard, a recovery of the
                \* row threw, or an absorb began over the journal of another

calls == <<pc, job, frame, guard>>
stores == <<catalog, registry, retired>>
disk == <<dir, otherDisk, journal, target>>
work == <<run, terminal>>
mishaps == <<crashes, faults, left>>
vars == <<calls, stores, disk, work, mishaps, upset>>

Boot == 0
Call == 1..MaxCalls
None == MaxCalls + 1
Run == MaxCalls + 2

Transit == {"offboarding", "restoring", "purging"}
Stable == {"active", "departed", "purged"}
Jobs == {"offboard", "restore", "purge", "absorb", "boot"}
Frames == {"offboard", "restore", "purge", "recover", "offboardFailed", "restoreFailed"}
Steps == {"idle", "done", "offPrepare", "offLate", "offCancel", "offHandoff", "offRemove",
          "move", "rmActive", "retire", "resSave", "moveBack", "rmDeparted", "add", "recall",
          "mark", "rec", "recRemove", "recHandoff", "purgeSave", "purgeRm",
          "load", "bootAbsorb", "absJournal", "absCopy", "absCommit", "absMark", "absClean",
          "absUndo", "absUndone"}

Stored(S) == [mem : S, file : S]

\* The types of the calls, the stores, the disk and the work.
TypeOK ==
    /\ pc \in [Call \cup {Boot} -> Steps]
    /\ job \in [Call \cup {Boot} -> Jobs]
    /\ frame \in [Call \cup {Boot} -> Frames]
    /\ guard \in Call \cup {None, Run}
    /\ catalog \in Stored(Transit \cup Stable)
    /\ registry \in Stored(BOOLEAN) /\ retired \in Stored(BOOLEAN)
    /\ dir \in [{"active", "departed"} -> {"none", "husk", "whole"}]
    /\ otherDisk \in BOOLEAN /\ journal \in BOOLEAN
    /\ target \in {"clean", "dirty", "committed"}
    /\ run \in {"none", "asked", "recorded", "starting", "live"}
    /\ terminal \in BOOLEAN /\ upset \in BOOLEAN
    /\ crashes \in 0..MaxCrashes /\ faults \in 0..MaxFaults
    /\ left \subseteq {"purge", "absorb"}

Init ==
    /\ pc = [c \in Call \cup {Boot} |-> IF c = Boot THEN "done" ELSE "idle"]
    /\ job = [c \in Call \cup {Boot} |-> "boot"]
    /\ frame = [c \in Call \cup {Boot} |-> "recover"]
    /\ guard = None
    /\ catalog = [mem |-> "active", file |-> "active"]
    /\ registry = [mem |-> TRUE, file |-> TRUE]
    /\ retired = [mem |-> FALSE, file |-> FALSE]
    /\ dir = [active |-> "whole", departed |-> "none"]
    /\ otherDisk \in BOOLEAN
    /\ journal = FALSE /\ target = "clean"
    /\ run = "none" /\ terminal = FALSE
    /\ crashes = 0 /\ faults = 0 /\ left = {} /\ upset = FALSE

-----------------------------------------------------------------------------
(* What steps share.                                                       *)

Up == pc[Boot] = "done"
InFlight(c) == pc[c] \notin {"idle", "done"}
Busy == \E c \in Call : InFlight(c)
Quiet == Up /\ ~Busy

At(c, step) == pc[c] = step
Goto(c, step) == pc' = [pc EXCEPT ![c] = step]
GotoIn(c, step, f) == Goto(c, step) /\ frame' = [frame EXCEPT ![c] = f]

Set(store, v) == [store EXCEPT !.mem = v]
Saved(store) == [store EXCEPT !.file = store.mem]

Fault == faults < MaxFaults /\ faults' = faults + 1

\* An operation fails, its error is logged or answered, and nothing here retries it.
LeftUndone(what) == Fault /\ left' = left \cup {what}
NothingFails == UNCHANGED <<faults, left>>

\* The last line of a call, and the guard it held.
Finish(c) ==
    /\ Goto(c, "done")
    /\ guard' = IF guard = c THEN None ELSE guard
    /\ UNCHANGED <<job, frame>>

\* offboardLocked returns an error: to the route, or into the catch of absorb.
Refuse(c) ==
    IF job[c] = "absorb" THEN Goto(c, "absUndo") /\ UNCHANGED <<job, frame, guard>>
                         ELSE Finish(c)

\* The function of this frame returns.
Return(c) ==
    CASE frame[c] = "offboard" /\ job[c] = "absorb" ->
             Goto(c, "absCopy") /\ UNCHANGED <<job, frame, guard>>
      [] frame[c] = "offboardFailed" -> Refuse(c)
      [] frame[c] = "recover" ->
             Goto(c, "bootAbsorb") /\ UNCHANGED <<job, frame, guard>>
      [] OTHER -> Finish(c)

\* The function of this frame throws: offboard and restore catch it and
\* recover the row, a recovery's own error is logged.
Throw(c) ==
    CASE frame[c] = "offboard" ->
             GotoIn(c, "rec", "offboardFailed") /\ UNCHANGED <<job, guard, upset>>
      [] frame[c] = "restore" ->
             GotoIn(c, "rec", "restoreFailed") /\ UNCHANGED <<job, guard, upset>>
      [] OTHER -> Return(c) /\ upset' = TRUE

\* A request arrives; requests are numbered in that order.
Begin(c, kind, step, f, crossed) ==
    /\ Up /\ At(c, "idle") /\ \A d \in Call : d < c => pc[d] # "idle"
    /\ GotoIn(c, step, f)
    /\ job' = [job EXCEPT ![c] = kind]
    /\ upset' = (upset \/ crossed)

\* What assess counts as headless runs.
Working == run \in {"recorded", "starting", "live"}

Unguarded == \E c \in Call : InFlight(c) /\ job[c] \in {"restore", "purge"}

-----------------------------------------------------------------------------
(* Offboarding.                                                            *)

\* offboard takes the guard; assess finds the workspace and no headless run.
OffBegin(c) ==
    /\ guard = None /\ ~Working
    /\ catalog.mem \notin {"departed", "purged"} /\ registry.mem
    /\ Begin(c, "offboard", "offPrepare", "offboard", Unguarded)
    /\ guard' = c
    /\ UNCHANGED <<stores, disk, work, mishaps>>

\* After assess has read the issues and the git status.
OffPrepare(c) ==
    /\ At(c, "offPrepare")
    /\ \/ /\ dir["departed"] # "none"
          /\ Refuse(c)
          /\ UNCHANGED stores
       \/ /\ dir["departed"] = "none"
          /\ catalog' = Set(catalog, "offboarding")
          /\ Goto(c, "offLate")
          /\ UNCHANGED <<job, frame, guard, registry, retired>>
    /\ UNCHANGED <<disk, work, mishaps, upset>>

\* beginOffboarding is on disk; a run that came meanwhile cancels.
OffLate(c) ==
    /\ At(c, "offLate")
    /\ \/ /\ Working
          /\ catalog' = Set(Saved(catalog), "active")
          /\ Goto(c, "offCancel")
       \/ /\ ~Working
          /\ catalog' = Saved(catalog)
          /\ Goto(c, "offHandoff")
    /\ UNCHANGED <<job, frame, guard, registry, retired, disk, work, mishaps, upset>>

OffCancel(c) ==
    /\ At(c, "offCancel")
    /\ catalog' = Saved(catalog)
    /\ Refuse(c)
    /\ UNCHANGED <<registry, retired, disk, work, mishaps, upset>>

\* writeHandoffFiles makes the directory when it is not there.
HandedOff == [dir EXCEPT !["active"] = IF @ = "none" THEN "husk" ELSE @]

OffHandoff(c) ==
    /\ At(c, "offHandoff")
    /\ \/ /\ dir' = HandedOff
          /\ registry' = Set(registry, FALSE)
          /\ Goto(c, "offRemove")
          /\ UNCHANGED <<catalog, faults>>
       \/ /\ Fault
          /\ catalog' = Set(catalog, "active")
          /\ Goto(c, "offCancel")
          /\ UNCHANGED <<registry, dir>>
    /\ UNCHANGED <<job, frame, guard, retired, otherDisk, journal, target, work, crashes,
                   left, upset>>

\* Mutant of OffRemove: the move without the pause.
OffRemoveUnpaused(c) ==
    /\ At(c, "offRemove")
    /\ registry' = Saved(registry)
    /\ Goto(c, "move")
    /\ UNCHANGED <<job, frame, guard, catalog, retired, disk, work, mishaps, upset>>

\* The registry is on disk, then pauseWorkspaceSessions.
OffRemove(c) ==
    /\ At(c, "offRemove")
    /\ registry' = Saved(registry)
    /\ terminal' = FALSE
    /\ Goto(c, "move")
    /\ UNCHANGED <<job, frame, guard, catalog, retired, disk, run, mishaps, upset>>

\* moveDirectory: a rename, or across file systems a copy and a removal.
Movable(from, to) == dir[from] # "none" /\ dir[to] = "none"
Moved(from, to) == [dir EXCEPT ![to] = dir[from], ![from] = "none"]
Copied(from, to) == [dir EXCEPT ![to] = dir[from]]

MoveFails(c, from, to) ==
    /\ IF Movable(from, to) THEN Fault ELSE UNCHANGED faults
    /\ Throw(c)
    /\ UNCHANGED <<stores, dir>>

\* Mutant of Move: the copy grows in place, without the staging directory.
MoveUnstaged(c) ==
    /\ At(c, "move")
    /\ \/ /\ Movable("active", "departed")
          /\ dir' = [dir EXCEPT !["departed"] = "husk"]
          /\ UNCHANGED <<calls, retired>>
       \/ /\ dir["active"] # "none" /\ dir["departed"] = "husk"
          /\ dir' = Copied("active", "departed")
          /\ Goto(c, "rmActive")
          /\ UNCHANGED <<job, frame, guard, retired>>
    /\ UNCHANGED <<catalog, registry, otherDisk, journal, target, work, mishaps, upset>>

\* What follows the move to the archive: retireWorkspace.
Move(c) ==
    /\ At(c, "move")
    /\ \/ /\ Movable("active", "departed")
          /\ \/ /\ ~otherDisk
                /\ dir' = Moved("active", "departed")
                /\ retired' = Set(retired, TRUE)
                /\ Goto(c, "retire")
             \/ /\ otherDisk
                /\ dir' = Copied("active", "departed")
                /\ Goto(c, "rmActive")
                /\ UNCHANGED retired
          /\ UNCHANGED <<job, frame, guard, catalog, registry, faults, upset>>
       \/ MoveFails(c, "active", "departed")
    /\ UNCHANGED <<otherDisk, journal, target, work, crashes, left>>

\* A removal that throws has taken nothing, or a part.
RemovalFails(c, place) ==
    /\ Fault
    /\ dir' \in {dir, [dir EXCEPT ![place] = IF @ = "none" THEN @ ELSE "husk"]}
    /\ Throw(c)
    /\ UNCHANGED stores

RmActive(c) ==
    /\ At(c, "rmActive")
    /\ \/ /\ dir' = [dir EXCEPT !["active"] = "none"]
          /\ retired' = Set(retired, TRUE)
          /\ Goto(c, "retire")
          /\ UNCHANGED <<job, frame, guard, catalog, registry, faults, upset>>
       \/ RemovalFails(c, "active")
    /\ UNCHANGED <<otherDisk, journal, target, work, crashes, left>>

Retire(c) ==
    /\ At(c, "retire")
    /\ retired' = Saved(retired)
    /\ catalog' = Set(catalog, "departed")
    /\ Goto(c, "mark")
    /\ UNCHANGED <<job, frame, guard, registry, disk, work, mishaps, upset>>

\* The last save: markDeparted, markActive or markPurged.
Mark(c) ==
    /\ At(c, "mark")
    /\ catalog' = Saved(catalog)
    /\ IF frame[c] = "restore" /\ ~registry.mem
          THEN Throw(c)
          ELSE Return(c) /\ UNCHANGED upset
    /\ UNCHANGED <<registry, retired, disk, work, mishaps>>

-----------------------------------------------------------------------------
(* Restore and purge.                                                      *)

Restorable ==
    /\ catalog.mem \in {"offboarding", "departed", "restoring"}
    /\ dir["departed"] # "none" /\ dir["active"] = "none" /\ ~registry.mem

ResBegin(c) ==
    /\ Restorable
    /\ Begin(c, "restore", "resSave", "restore", Busy)
    /\ catalog' = Set(catalog, "restoring")
    /\ UNCHANGED <<guard, registry, retired, disk, work, mishaps>>

ResSave(c) ==
    /\ At(c, "resSave")
    /\ catalog' = Saved(catalog)
    /\ Goto(c, "moveBack")
    /\ UNCHANGED <<job, frame, guard, registry, retired, disk, work, mishaps, upset>>

\* registry.add, or its throw when the id is there; recovery asks first.
Add(c) ==
    \/ /\ ~registry.mem
       /\ registry' = Set(registry, TRUE)
       /\ Goto(c, "add")
       /\ UNCHANGED <<job, frame, guard, retired, upset>>
    \/ /\ registry.mem /\ frame[c] # "restore"
       /\ retired' = Set(retired, FALSE)
       /\ Goto(c, "recall")
       /\ UNCHANGED <<job, frame, guard, registry, upset>>
    \/ /\ registry.mem /\ frame[c] = "restore"
       /\ Throw(c)
       /\ UNCHANGED <<registry, retired>>

MoveBack(c) ==
    /\ At(c, "moveBack")
    /\ \/ /\ Movable("departed", "active") /\ ~otherDisk
          /\ dir' = Moved("departed", "active")
          /\ Add(c)
          /\ UNCHANGED <<catalog, faults>>
       \/ /\ Movable("departed", "active") /\ otherDisk
          /\ dir' = Copied("departed", "active")
          /\ Goto(c, "rmDeparted")
          /\ UNCHANGED <<job, frame, guard, stores, faults, upset>>
       \/ MoveFails(c, "departed", "active")
    /\ UNCHANGED <<otherDisk, journal, target, work, crashes, left>>

RmDeparted(c) ==
    /\ At(c, "rmDeparted")
    /\ \/ /\ dir' = [dir EXCEPT !["departed"] = "none"]
          /\ Add(c)
          /\ UNCHANGED <<catalog, faults>>
       \/ RemovalFails(c, "departed")
    /\ UNCHANGED <<otherDisk, journal, target, work, crashes, left>>

Added(c) ==
    /\ At(c, "add")
    /\ registry' = Saved(registry)
    /\ retired' = Set(retired, FALSE)
    /\ Goto(c, "recall")
    /\ UNCHANGED <<job, frame, guard, catalog, disk, work, mishaps, upset>>

Recall(c) ==
    /\ At(c, "recall")
    /\ retired' = Saved(retired)
    /\ catalog' = Set(catalog, "active")
    /\ Goto(c, "mark")
    /\ UNCHANGED <<job, frame, guard, registry, disk, work, mishaps, upset>>

PurgeBegin(c) ==
    /\ catalog.mem \in {"departed", "purging"}
    /\ Begin(c, "purge", "purgeSave", "purge", Busy)
    /\ catalog' = Set(catalog, "purging")
    /\ left' = left \ {"purge"}
    /\ UNCHANGED <<guard, registry, retired, disk, work, crashes, faults>>

PurgeSave(c) ==
    /\ At(c, "purgeSave")
    /\ catalog' = Saved(catalog)
    /\ Goto(c, "purgeRm")
    /\ UNCHANGED <<job, frame, guard, registry, retired, disk, work, mishaps, upset>>

\* The archive goes, the session records and the scrollback after it.  Nothing
\* catches an error of these: it ends the request, or is logged at the launch,
\* wherever the removals were, and the row keeps the transition.
PurgeRm(c) ==
    /\ At(c, "purgeRm")
    /\ \/ /\ dir' = [dir EXCEPT !["departed"] = "none"]
          /\ catalog' = Set(catalog, "purged")
          /\ Goto(c, "mark")
          /\ NothingFails
          /\ UNCHANGED <<job, frame, guard>>
       \/ /\ LeftUndone("purge")
          /\ \E rest \in {dir["departed"], "husk", "none"} :
                /\ dir["departed"] = "none" => rest = "none"
                /\ dir' = [dir EXCEPT !["departed"] = rest]
          /\ Return(c)
          /\ UNCHANGED catalog
    /\ UNCHANGED <<registry, retired, otherDisk, journal, target, work, crashes, upset>>

-----------------------------------------------------------------------------
(* recoverRecord, in a catch or at the launch.                             *)

Rec(c) ==
    /\ At(c, "rec")
    /\ CASE catalog.mem = "offboarding" ->
              /\ registry' = Set(registry, FALSE)
              /\ Goto(c, "recRemove")
              /\ UNCHANGED <<job, frame, guard, retired, upset>>
         [] catalog.mem = "restoring" /\ dir["active"] = "none" /\ dir["departed"] = "none" ->
              Throw(c) /\ UNCHANGED <<registry, retired>>
         [] catalog.mem = "restoring" /\ dir["active"] # "none" /\ dir["departed"] = "none" ->
              Add(c)
         [] catalog.mem = "restoring" /\ dir["departed"] # "none" ->
              /\ Goto(c, IF dir["active"] = "none" THEN "moveBack" ELSE "rmDeparted")
              /\ UNCHANGED <<job, frame, guard, registry, retired, upset>>
         [] catalog.mem = "purging" ->
              Goto(c, "purgeRm") /\ UNCHANGED <<job, frame, guard, registry, retired, upset>>
         [] OTHER ->
              Return(c) /\ UNCHANGED <<registry, retired, upset>>
    /\ UNCHANGED <<catalog, disk, work, mishaps>>

RecRemove(c) ==
    /\ At(c, "recRemove")
    /\ registry' = Saved(registry)
    /\ terminal' = FALSE
    /\ Goto(c, "recHandoff")
    /\ UNCHANGED <<job, frame, guard, catalog, retired, disk, run, mishaps, upset>>

\* Mutant of RecHandoff: a source that was copied is left where it is.
RecHandoffLeaves(c) ==
    /\ At(c, "recHandoff")
    /\ \/ /\ dir["departed"] = "none"
          /\ Goto(c, "move")
          /\ UNCHANGED retired
       \/ /\ dir["departed"] # "none"
          /\ retired' = Set(retired, TRUE)
          /\ Goto(c, "retire")
    /\ UNCHANGED <<job, frame, guard, catalog, registry, disk, work, mishaps, upset>>

\* The handoff again while the checkout is at its desk, and where it goes from there.
RecHandoff(c) ==
    /\ At(c, "recHandoff")
    /\ \/ /\ dir["active"] # "none"
          /\ Goto(c, IF dir["departed"] = "none" THEN "move" ELSE "rmActive")
          /\ UNCHANGED <<job, frame, guard, retired, faults, upset>>
       \/ /\ dir["active"] = "none" /\ dir["departed"] # "none"
          /\ retired' = Set(retired, TRUE)
          /\ Goto(c, "retire")
          /\ UNCHANGED <<job, frame, guard, faults, upset>>
       \/ /\ IF dir["active"] = "none" THEN dir["departed"] = "none" /\ UNCHANGED faults
                                        ELSE Fault
          /\ Throw(c)
          /\ UNCHANGED retired
    /\ UNCHANGED <<catalog, registry, disk, work, crashes, left>>

-----------------------------------------------------------------------------
(* Absorb.                                                                 *)

\* apply takes both leases; the plan is not blocked.  A journal that an earlier
\* absorb left is not looked for.
AbsBegin(c) ==
    /\ guard = None /\ run # "live" /\ ~terminal
    /\ catalog.mem = "active" /\ registry.mem
    /\ Begin(c, "absorb", "absJournal", "offboard", Unguarded \/ journal)
    /\ guard' = c
    /\ UNCHANGED <<stores, disk, work, mishaps>>

\* The journal is on disk; offboardWithinOperation.
AbsJournal(c) ==
    /\ At(c, "absJournal")
    /\ journal' = TRUE /\ target' = "clean"
    /\ Goto(c, CASE catalog.mem = "departed" -> "absCopy"
                [] catalog.mem \notin {"departed", "purged"} /\ registry.mem /\ ~Working ->
                       "offPrepare"
                [] OTHER -> "absUndo")
    /\ UNCHANGED <<job, frame, guard, stores, dir, otherDisk, work, mishaps, upset>>

AbsCopy(c) ==
    /\ At(c, "absCopy")
    /\ \/ /\ dir["departed"] # "none"
          /\ target' = "dirty"
          /\ Goto(c, "absCommit")
          /\ UNCHANGED faults
       \/ /\ IF dir["departed"] = "none" THEN UNCHANGED <<faults, target>>
                                          ELSE Fault /\ target' = "dirty"
          /\ Goto(c, "absUndo")
    /\ UNCHANGED <<job, frame, guard, stores, dir, otherDisk, journal, work, crashes, left,
                   upset>>

\* git commit, then markAbsorbed; an error may come before the commit or after it.
AbsCommit(c) ==
    /\ At(c, "absCommit")
    /\ \/ /\ target' = "committed"
          /\ catalog' = Set(catalog, "departed")
          /\ Goto(c, "absMark")
          /\ UNCHANGED faults
       \/ /\ Fault
          /\ target' \in {target, "committed"}
          /\ Goto(c, "absUndo")
          /\ UNCHANGED catalog
    /\ UNCHANGED <<job, frame, guard, registry, retired, dir, otherDisk, journal, work,
                   crashes, left, upset>>

AbsMark(c) ==
    /\ At(c, "absMark")
    /\ catalog' = Saved(catalog)
    /\ Goto(c, "absClean")
    /\ UNCHANGED <<job, frame, guard, registry, retired, disk, work, mishaps, upset>>

\* The transaction directory goes; an error of that is in the try of applyLocked,
\* or ends recoverTarget.
AbsClean(c) ==
    /\ At(c, "absClean")
    /\ \/ /\ journal' = FALSE
          /\ Finish(c)
          /\ NothingFails
       \/ /\ job[c] = "absorb"
          /\ Fault
          /\ Goto(c, "absUndo")
          /\ UNCHANGED <<job, frame, guard, journal, left>>
       \/ /\ job[c] # "absorb"
          /\ LeftUndone("absorb")
          /\ Finish(c)
          /\ UNCHANGED journal
    /\ UNCHANGED <<stores, dir, otherDisk, target, work, crashes, upset>>

\* A source that the catalog has as departed is restored.
SourceBack(c) ==
    \/ /\ catalog.mem = "departed" /\ Restorable
       /\ catalog' = Set(catalog, "restoring")
       /\ GotoIn(c, "resSave", "restore")
       /\ UNCHANGED <<job, guard>>
    \/ /\ ~(catalog.mem = "departed" /\ Restorable)
       /\ Finish(c)
       /\ UNCHANGED catalog

\* restoreTargetTransaction throws.  applyLocked logs it and restores the source
\* all the same, recover logs the error of the whole recoverTarget.
RollbackFails(c) ==
    /\ LeftUndone("absorb")
    /\ \/ job[c] = "absorb" /\ SourceBack(c)
       \/ job[c] # "absorb" /\ Finish(c) /\ UNCHANGED catalog
    /\ UNCHANGED journal

\* restoreTargetTransaction: the commit is reset and the paths come back, unless
\* the target's HEAD is another's or one of the operations fails on the way.
AbsUndo(c) ==
    /\ At(c, "absUndo")
    /\ \/ /\ target' = "clean"
          /\ Goto(c, "absUndone")
          /\ NothingFails
          /\ UNCHANGED <<job, frame, guard, catalog, journal>>
       \/ /\ target' \in {target, "dirty"}
          /\ RollbackFails(c)
    /\ UNCHANGED <<registry, retired, dir, otherDisk, work, crashes, upset>>

\* Then the journal goes.
AbsUndone(c) ==
    /\ At(c, "absUndone")
    /\ \/ /\ journal' = FALSE
          /\ SourceBack(c)
          /\ NothingFails
       \/ RollbackFails(c)
    /\ UNCHANGED <<registry, retired, dir, otherDisk, target, work, crashes, upset>>

-----------------------------------------------------------------------------
(* The launch.                                                             *)

Crash ==
    /\ crashes < MaxCrashes
    /\ crashes' = crashes + 1
    /\ pc' = [c \in Call \cup {Boot} |-> IF c = Boot THEN "load"
                                         ELSE IF pc[c] = "idle" THEN "idle" ELSE "done"]
    /\ guard' = None /\ run' = "none" /\ terminal' = FALSE
    /\ UNCHANGED <<job, frame, stores, disk, faults, left, upset>>

\* The stores load; a restore the registry knows of is taken for complete.
Load ==
    /\ At(Boot, "load")
    /\ registry' = [registry EXCEPT !.mem = registry.file]
    /\ retired' = [retired EXCEPT !.mem = retired.file]
    /\ LET loaded == IF catalog.file = "restoring" /\ registry.file
                       THEN "active" ELSE catalog.file
       IN  catalog' = [mem |-> loaded, file |-> loaded]
    /\ left' = {}
    /\ GotoIn(Boot, "rec", "recover")
    /\ UNCHANGED <<job, guard, disk, work, crashes, faults, upset>>

\* Mutant of BootAbsorb: the launch finishes a commit and rolls nothing back.
BootAbsorbForward ==
    /\ At(Boot, "bootAbsorb")
    /\ Goto(Boot, IF journal /\ target = "committed" /\ catalog.mem = "departed"
                  THEN "absMark" ELSE "done")
    /\ UNCHANGED <<job, frame, guard, stores, disk, work, mishaps, upset>>

BootAbsorb ==
    /\ At(Boot, "bootAbsorb")
    /\ Goto(Boot, IF ~journal THEN "done"
                  ELSE IF target = "committed" /\ catalog.mem = "departed" THEN "absMark"
                  ELSE "absUndo")
    /\ UNCHANGED <<job, frame, guard, stores, disk, work, mishaps, upset>>

-----------------------------------------------------------------------------
(* Work in the workspace.                                                  *)

\* A caller finds the workspace in the registry and hands it on.
RunAsked ==
    /\ Up /\ run = "none" /\ registry.mem
    /\ run' = "asked"
    /\ UNCHANGED <<calls, stores, disk, terminal, mishaps, upset>>

\* dispatchHeadlessTask records the task, or refuses.
RunRecord ==
    /\ run = "asked"
    /\ run' = IF catalog.mem = "active" THEN "recorded" ELSE "none"
    /\ UNCHANGED <<calls, stores, disk, terminal, mishaps, upset>>

\* runHeadlessTask takes the guard for the start of the run; a run that is
\* waited for comes here without a record.
RunLease ==
    /\ run \in {"asked", "recorded"}
    /\ IF guard = None /\ catalog.mem = "active"
          THEN guard' = Run /\ run' = "starting"
          ELSE run' = "none" /\ UNCHANGED guard
    /\ UNCHANGED <<pc, job, frame, stores, disk, terminal, mishaps, upset>>

\* The row is looked at again before the child is spawned.
RunSpawn ==
    /\ run = "starting"
    /\ run' = IF catalog.mem = "active" THEN "live" ELSE "none"
    /\ guard' = None
    /\ UNCHANGED <<pc, job, frame, stores, disk, terminal, mishaps, upset>>

RunEnd ==
    /\ run = "live"
    /\ run' = "none"
    /\ UNCHANGED <<calls, stores, disk, terminal, mishaps, upset>>

\* pool.spawn finds the workspace in the registry.
TerminalSpawn ==
    /\ Up /\ ~terminal /\ registry.mem
    /\ terminal' = TRUE
    /\ UNCHANGED <<calls, stores, disk, run, mishaps, upset>>

TerminalEnd ==
    /\ terminal
    /\ terminal' = FALSE
    /\ UNCHANGED <<calls, stores, disk, run, mishaps, upset>>

Step(c) ==
    \/ OffPrepare(c) \/ OffLate(c) \/ OffCancel(c) \/ OffHandoff(c) \/ OffRemove(c)
    \/ Move(c) \/ RmActive(c) \/ Retire(c) \/ Mark(c)
    \/ ResSave(c) \/ MoveBack(c) \/ RmDeparted(c) \/ Added(c) \/ Recall(c)
    \/ PurgeSave(c) \/ PurgeRm(c)
    \/ Rec(c) \/ RecRemove(c) \/ RecHandoff(c)
    \/ AbsJournal(c) \/ AbsCopy(c) \/ AbsCommit(c) \/ AbsMark(c) \/ AbsClean(c)
    \/ AbsUndo(c) \/ AbsUndone(c)

Next ==
    \/ \E c \in Call : OffBegin(c) \/ ResBegin(c) \/ PurgeBegin(c) \/ AbsBegin(c)
    \/ \E c \in Call \cup {Boot} : Step(c)
    \/ Load \/ BootAbsorb \/ Crash
    \/ RunAsked \/ RunRecord \/ RunLease \/ RunSpawn \/ RunEnd \/ TerminalSpawn \/ TerminalEnd

Spec == Init /\ [][Next]_vars

-----------------------------------------------------------------------------
(* Properties.                                                             *)

\* The row is in no transition, the registry has the workspace iff the row is
\* active, and the checkout is at the place the row says and only there.
AtRest ==
    /\ catalog.mem \in Stable /\ registry.mem = (catalog.mem = "active")
    /\ dir = [active |-> IF catalog.mem = "active" THEN "whole" ELSE "none",
              departed |-> IF catalog.mem = "departed" THEN "whole" ELSE "none"]
    /\ catalog.mem = "departed" => retired.mem

\* The row still says that it is being purged: the purge failed since the launch,
\* nobody can reach the workspace, and the launch or another purge goes on with it.
PurgeStopped ==
    /\ catalog.mem = "purging" /\ "purge" \in left
    /\ ~registry.mem /\ dir["active"] = "none"

\* No request and no launch is under way: the workspace is at rest, or a purge of
\* it stopped half way, and the catalog and the registry are on disk as in memory.
Settled ==
    Quiet /\ ~upset =>
        /\ AtRest \/ PurgeStopped
        /\ catalog.mem = catalog.file /\ registry.mem = registry.file

\* Unless a purge was asked for, one of the two places holds the whole
\* checkout, at every step of a move, a failure or a recovery.
CheckoutSurvives ==
    ~upset /\ (\A c \in Call : job[c] # "purge") => "whole" \in {dir["active"], dir["departed"]}

\* A headless run or a terminal has the whole checkout under it.
WorkHasItsDesk == ~upset /\ (run = "live" \/ terminal) => dir["active"] = "whole"

\* Between requests the target of an absorb has no files that were copied and not
\* committed unless the journal to take them back is there, and the journal is
\* there only after a rollback failed since the launch: the next one has it.
NoHalfAbsorb ==
    Quiet /\ ~upset => /\ target = "dirty" => journal
                       /\ journal => "absorb" \in left

\* An active workspace has its sessions: restore recalls them, whatever it
\* takes the launch to finish.  It does not hold across a crash.
RestoredIsRecalled == Quiet /\ ~upset /\ catalog.mem = "active" => ~retired.mem

=============================================================================
