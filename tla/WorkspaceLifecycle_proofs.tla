----------------------- MODULE WorkspaceLifecycle_proofs -----------------------
(***************************************************************************)
(* Proofs about WorkspaceLifecycle, for any number of requests, crashes    *)
(* and faults.                                                             *)
(*                                                                         *)
(* As long as no two calls crossed past the guard and no recovery threw,   *)
(* at most one of the requests and the launch is under way.  The inductive *)
(* invariant is then a table: for every step that one can be at, what the  *)
(* catalog, the registry and the resume identities hold in memory and on   *)
(* disk, where the checkout is, and what became of the absorb's target.    *)
(* Every row of the table leaves on disk what the next launch can finish   *)
(* (Durable), which is what a crash needs.                                 *)
(***************************************************************************)
EXTENDS WorkspaceLifecycle, TLAPS

Proc == Call \cup {Boot}
Lives == Transit \cup Stable

-----------------------------------------------------------------------------
(* The inductive invariant.                                                *)

Ending == {"purging", "purged"}

Row(m, f) == catalog.mem = m /\ catalog.file = f
Listed == registry.mem = TRUE /\ registry.file = TRUE
Unlisted == registry.mem = FALSE /\ registry.file = FALSE
Retired == retired.mem = TRUE /\ retired.file = TRUE
Place(a, d) == dir["active"] = a /\ dir["departed"] = d
\* On the way to the archive, and back: what is not whole is a rest to remove.
Leaving == Place("whole", "none") \/ dir["departed"] = "whole"
Returning == Place("none", "whole") \/ dir["active"] = "whole"

\* The three states a workspace rests in, and a purge that stopped.
OnFloor == Row("active", "active") /\ Listed /\ Place("whole", "none")
Archived == Row("departed", "departed") /\ Unlisted /\ Retired /\ Place("none", "whole")
Gone == Row("purged", "purged") /\ Unlisted /\ Place("none", "none")
Stopped == /\ Row("purging", "purging") /\ Unlisted /\ dir["active"] = "none"
           /\ "purge" \in left
Rests == OnFloor \/ Archived \/ Gone \/ Stopped

\* What a crash finds on disk at any step.
Durable ==
    /\ catalog.file = "active" => registry.file = TRUE /\ Place("whole", "none")
    /\ catalog.file = "offboarding" => Leaving
    /\ catalog.file = "departed" => /\ registry.file = FALSE /\ retired.file = TRUE
                                    /\ Place("none", "whole")
    /\ catalog.file = "restoring" => /\ Returning
                                     /\ registry.file = TRUE => Place("whole", "none")
    /\ catalog.file = "purging" => registry.file = FALSE /\ dir["active"] = "none"
    /\ catalog.file = "purged" => registry.file = FALSE /\ Place("none", "none")

\* The rows of the table, by the function they belong to.
OffboardRows(w) ==
    /\ pc[w] = "offPrepare" => OnFloor
    /\ pc[w] = "offLate" => Row("offboarding", "active") /\ Listed /\ Place("whole", "none")
    /\ pc[w] = "offCancel" => Row("active", "offboarding") /\ Listed /\ Place("whole", "none")
    /\ pc[w] = "offHandoff" => /\ Row("offboarding", "offboarding") /\ Listed
                               /\ Place("whole", "none")
    /\ pc[w] = "offRemove" => /\ Row("offboarding", "offboarding") /\ registry.mem = FALSE
                              /\ Place("whole", "none")

ArchiveRows(w) ==
    /\ pc[w] = "move" => /\ Row("offboarding", "offboarding") /\ Unlisted
                         /\ Place("whole", "none")
    /\ pc[w] = "rmActive" => /\ Row("offboarding", "offboarding") /\ Unlisted
                             /\ dir["departed"] = "whole"
    /\ pc[w] = "retire" => /\ Row("offboarding", "offboarding") /\ Unlisted
                           /\ retired.mem = TRUE /\ Place("none", "whole")

RestoreRows(w) ==
    /\ pc[w] = "resSave" => /\ Row("restoring", "departed") /\ Unlisted /\ Retired
                            /\ Place("none", "whole")
    /\ pc[w] = "moveBack" => /\ Row("restoring", "restoring") /\ Unlisted
                             /\ Place("none", "whole")
    /\ pc[w] = "rmDeparted" => /\ Row("restoring", "restoring") /\ Unlisted
                               /\ dir["active"] = "whole"
    /\ pc[w] = "add" => /\ Row("restoring", "restoring") /\ registry.mem = TRUE
                        /\ Place("whole", "none")
    /\ pc[w] = "recall" => /\ Row("restoring", "restoring") /\ Listed
                           /\ Place("whole", "none")

PurgeRows(w) ==
    /\ pc[w] = "purgeSave" =>
           /\ catalog.mem = "purging" /\ Unlisted
           /\ \/ catalog.file = "departed" /\ Retired /\ Place("none", "whole")
              \/ catalog.file = "purging" /\ dir["active"] = "none"
    /\ pc[w] = "purgeRm" => /\ Row("purging", "purging") /\ Unlisted
                            /\ dir["active"] = "none"

MarkDeparted(w) == /\ frame[w] \in {"offboard", "offboardFailed", "recover"}
                   /\ Row("departed", "offboarding") /\ Unlisted /\ Retired
                   /\ Place("none", "whole")
MarkActive(w) == /\ frame[w] \in {"restore", "restoreFailed", "recover"}
                 /\ Row("active", "restoring") /\ Listed /\ Place("whole", "none")
MarkPurged(w) == /\ frame[w] \in {"purge", "recover"}
                 /\ Row("purged", "purging") /\ Unlisted /\ Place("none", "none")

MarkRows(w) == pc[w] = "mark" => MarkDeparted(w) \/ MarkActive(w) \/ MarkPurged(w)

RecoverRows(w) ==
    /\ pc[w] = "rec" /\ frame[w] = "recover" =>
           /\ Durable /\ catalog.mem = catalog.file
           /\ registry.mem = registry.file /\ retired.mem = retired.file
           /\ catalog.mem = "restoring" => registry.mem = FALSE
    /\ pc[w] = "rec" /\ frame[w] = "offboardFailed" =>
           Row("offboarding", "offboarding") /\ Unlisted /\ Leaving
    /\ pc[w] = "rec" /\ frame[w] = "restoreFailed" =>
           Row("restoring", "restoring") /\ Unlisted /\ Returning
    /\ pc[w] = "recRemove" =>
           Row("offboarding", "offboarding") /\ registry.mem = FALSE /\ Leaving
    /\ pc[w] = "recHandoff" =>
           Row("offboarding", "offboarding") /\ Unlisted /\ Leaving

AbsorbRows(w) ==
    /\ pc[w] = "absJournal" => OnFloor
    /\ pc[w] \in {"absCopy", "absCommit", "absMark", "absClean"} => Archived
    /\ pc[w] \in {"absUndo", "absUndone"} => Rests
    /\ pc[w] = "bootAbsorb" => Rests
    /\ pc[w] = "load" => Durable
    /\ pc[w] = "done" => Rests

Table(w) == /\ OffboardRows(w) /\ ArchiveRows(w) /\ RestoreRows(w) /\ PurgeRows(w)
            /\ MarkRows(w) /\ RecoverRows(w) /\ AbsorbRows(w)

\* Which function is at which step, and for which request.
FrameOf(w) ==
    /\ pc[w] \in {"offPrepare", "offLate", "offCancel", "offHandoff", "offRemove",
                  "absJournal", "absCopy", "absCommit"} =>
           frame[w] = "offboard"
    /\ pc[w] \in {"move", "rmActive", "retire"} =>
           frame[w] \in {"offboard", "offboardFailed", "recover"}
    /\ pc[w] = "resSave" => frame[w] = "restore"
    /\ pc[w] \in {"moveBack", "rmDeparted", "add", "recall"} =>
           frame[w] \in {"restore", "restoreFailed", "recover"}
    /\ pc[w] = "purgeSave" => frame[w] = "purge"
    /\ pc[w] = "purgeRm" => frame[w] \in {"purge", "recover"}
    /\ pc[w] = "rec" => frame[w] \in {"offboardFailed", "restoreFailed", "recover"}
    /\ pc[w] \in {"recRemove", "recHandoff"} => frame[w] \in {"offboardFailed", "recover"}
    /\ pc[w] \in {"absMark", "absClean"} => frame[w] \in {"offboard", "recover"}
    /\ pc[w] \in {"absUndo", "absUndone"} =>
           frame[w] \in {"offboard", "offboardFailed", "recover"}
    /\ pc[w] = "bootAbsorb" => frame[w] = "recover"

JobOf(w) ==
    /\ job[w] = "offboard" => frame[w] \in {"offboard", "offboardFailed"}
    /\ job[w] = "absorb" => frame[w] \in {"offboard", "offboardFailed", "restore", "restoreFailed"}
    /\ job[w] = "restore" => frame[w] \in {"restore", "restoreFailed"}
    /\ job[w] = "purge" => frame[w] = "purge"
    /\ job[w] = "boot" /\ pc[w] # "load" => frame[w] \in {"recover", "restore", "restoreFailed"}
    /\ pc[w] \in {"load", "bootAbsorb"} => job[w] = "boot"
    /\ pc[w] \in {"absJournal", "absCopy", "absCommit"} => job[w] = "absorb"
    /\ pc[w] \in {"absMark", "absClean", "absUndo", "absUndone"} => job[w] \in {"absorb", "boot"}

\* Offboarding and absorb hold the guard as long as they run.
GuardOf(w) ==
    /\ guard \in Call => guard = w /\ pc[w] # "done"
    /\ w \in Call /\ pc[w] # "done" /\ job[w] \in {"offboard", "absorb"} => guard = w

\* The journal is there as long as the target may have to be rolled back; it
\* outlives its absorb and the launch only if a rollback failed.
JournalOf(w) ==
    /\ target = "dirty" => journal = TRUE
    /\ job[w] = "absorb" /\ frame[w] \in {"offboard", "offboardFailed"}
       /\ pc[w] \notin {"absJournal", "done"} => journal = TRUE
    /\ pc[w] \in {"absUndo", "absUndone"} => journal = TRUE
    /\ pc[w] \in {"absUndone", "absClean", "absMark"} => target # "dirty"
    /\ journal = TRUE /\ "absorb" \notin left =>
           /\ job[w] \in {"absorb", "boot"} /\ pc[w] # "done"
           /\ pc[w] # "load" => frame[w] \notin {"restore", "restoreFailed"}

\* What runs in the workspace.
WorkOf(w) ==
    /\ run = "starting" => guard = Run
    /\ run = "live" => catalog.mem = "active" /\ guard \notin Call
    /\ terminal = TRUE => registry.mem = TRUE \/ pc[w] = "offRemove"
    /\ w = Boot /\ pc[w] # "done" => run = "none" /\ terminal = FALSE

\* The one that is under way, or was last.
Only(w) == pc[w] # "idle" /\ \A c \in Proc \ {w} : pc[c] \in {"idle", "done"}

Cond(w) == /\ Only(w) /\ Table(w) /\ FrameOf(w) /\ JobOf(w) /\ GuardOf(w)
           /\ JournalOf(w) /\ WorkOf(w)

\* Only a purge that was asked for leads to a purged row.
PurgeInv == (\A c \in Call : job[c] # "purge") =>
                catalog.mem \notin Ending /\ catalog.file \notin Ending

BootInv == /\ pc[Boot] # "idle" /\ job[Boot] = "boot"
           /\ \A c \in Call : (pc[c] = "idle" => job[c] = "boot")
           /\ \A c \in Call : (job[c] = "boot" => pc[c] = "idle")

IInv == /\ TypeOK /\ BootInv
        /\ ~upset => PurgeInv /\ \E w \in Proc : Cond(w)

-----------------------------------------------------------------------------
(* The control flow of a step.                                             *)

\* Of the calls and the launch, only c moves.
Flow(c) ==
    /\ pc' \in [Proc -> Steps] /\ pc'[c] # "idle" /\ \A d \in Proc \ {c} : pc'[d] = pc[d]
    /\ job' = job
    /\ frame' \in [Proc -> Frames] /\ \A d \in Proc \ {c} : frame'[d] = frame[d]

\* c gives back the guard if it holds it.
Released(c) == (guard = c => guard' = None) /\ (guard # c => guard' = guard)

LEMMA BootIsNoCall == Boot \notin Call /\ None \notin Proc /\ Run \notin Proc /\ None # Run
BY BoundsAssumption DEF Boot, Call, None, Run, Proc

LEMMA GotoFlow ==
    ASSUME TypeOK, NEW c \in Proc, NEW s \in Steps \ {"idle"}, Goto(c, s), UNCHANGED <<job, frame>>
    PROVE  Flow(c) /\ pc'[c] = s /\ frame'[c] = frame[c]
BY DEF TypeOK, Goto, Flow, Proc

LEMMA GotoInFlow ==
    ASSUME TypeOK, NEW c \in Proc, NEW s \in Steps \ {"idle"}, NEW f \in Frames,
           GotoIn(c, s, f), UNCHANGED job
    PROVE  Flow(c) /\ pc'[c] = s /\ frame'[c] = f
BY DEF TypeOK, GotoIn, Goto, Flow, Proc

LEMMA FinishFlow ==
    ASSUME TypeOK, NEW c \in Proc, Finish(c)
    PROVE  Flow(c) /\ pc'[c] = "done" /\ frame'[c] = frame[c] /\ Released(c)
           /\ guard' \in Call \cup {None, Run}
BY GotoFlow DEF Finish, Released, Steps, TypeOK

LEMMA RefuseFlow ==
    ASSUME TypeOK, NEW c \in Proc, Refuse(c)
    PROVE  /\ Flow(c) /\ frame'[c] = frame[c] /\ guard' \in Call \cup {None, Run}
           /\ job[c] = "absorb" => pc'[c] = "absUndo" /\ guard' = guard
           /\ job[c] # "absorb" => pc'[c] = "done" /\ Released(c)
<1>1. CASE job[c] = "absorb"
  <2>1. Goto(c, "absUndo") /\ UNCHANGED <<job, frame, guard>>
    BY <1>1 DEF Refuse
  <2>. QED  BY <1>1, <2>1, GotoFlow DEF Steps, TypeOK
<1>2. CASE job[c] # "absorb"
  <2>1. Finish(c)
    BY <1>2 DEF Refuse
  <2>. QED  BY <1>2, <2>1, FinishFlow
<1>. QED  BY <1>1, <1>2

\* Where the function of a frame returns to.
LEMMA ReturnFlow ==
    ASSUME TypeOK, NEW c \in Proc, Return(c)
    PROVE  /\ Flow(c) /\ frame'[c] = frame[c] /\ guard' \in Call \cup {None, Run}
           /\ frame[c] = "offboard" /\ job[c] = "absorb" => pc'[c] = "absCopy" /\ guard' = guard
           /\ frame[c] = "offboardFailed" /\ job[c] = "absorb" =>
                  pc'[c] = "absUndo" /\ guard' = guard
           /\ frame[c] = "recover" => pc'[c] = "bootAbsorb" /\ guard' = guard
           /\ frame[c] \in {"offboard", "offboardFailed"} /\ job[c] # "absorb" =>
                  pc'[c] = "done" /\ Released(c)
           /\ frame[c] \in {"restore", "restoreFailed", "purge"} => pc'[c] = "done" /\ Released(c)
<1>0. frame[c] \in Frames
  BY DEF TypeOK, Proc
<1>1. CASE frame[c] = "offboard" /\ job[c] = "absorb"
  <2>1. Goto(c, "absCopy") /\ UNCHANGED <<job, frame, guard>>
    BY <1>1 DEF Return
  <2>. QED  BY <1>1, <2>1, GotoFlow DEF Steps, TypeOK
<1>2. CASE frame[c] = "offboardFailed"
  <2>1. Refuse(c)
    BY <1>2 DEF Return
  <2>. QED  BY <1>2, <2>1, RefuseFlow
<1>3. CASE frame[c] = "recover"
  <2>1. Goto(c, "bootAbsorb") /\ UNCHANGED <<job, frame, guard>>
    BY <1>3 DEF Return
  <2>. QED  BY <1>3, <2>1, GotoFlow DEF Steps, TypeOK
<1>4. CASE \/ frame[c] = "offboard" /\ job[c] # "absorb"
           \/ frame[c] \in {"restore", "restoreFailed", "purge"}
  <2>1. Finish(c)
    BY <1>4 DEF Return
  <2>. QED  BY <1>4, <2>1, FinishFlow
<1>. QED  BY <1>0, <1>1, <1>2, <1>3, <1>4 DEF Frames

\* Where its error goes.
LEMMA ThrowFlow ==
    ASSUME TypeOK, NEW c \in Proc, Throw(c)
    PROVE  /\ Flow(c) /\ guard' \in Call \cup {None, Run}
           /\ upset' \in BOOLEAN /\ (upset => upset')
           /\ frame[c] = "offboard" =>
                  pc'[c] = "rec" /\ frame'[c] = "offboardFailed" /\ guard' = guard
           /\ frame[c] = "restore" =>
                  pc'[c] = "rec" /\ frame'[c] = "restoreFailed" /\ guard' = guard
           /\ frame[c] \notin {"offboard", "restore"} => upset'
<1>1. CASE frame[c] = "offboard"
  <2>1. GotoIn(c, "rec", "offboardFailed") /\ UNCHANGED <<job, guard, upset>>
    BY <1>1 DEF Throw
  <2>. QED  BY <1>1, <2>1, GotoInFlow DEF Steps, Frames, TypeOK
<1>2. CASE frame[c] = "restore"
  <2>1. GotoIn(c, "rec", "restoreFailed") /\ UNCHANGED <<job, guard, upset>>
    BY <1>2 DEF Throw
  <2>. QED  BY <1>2, <2>1, GotoInFlow DEF Steps, Frames, TypeOK
<1>3. CASE frame[c] \notin {"offboard", "restore"}
  <2>1. Return(c) /\ upset' = TRUE
    BY <1>3 DEF Throw
  <2>. QED  BY <1>3, <2>1, ReturnFlow
<1>. QED  BY <1>1, <1>2, <1>3

\* What Set and Saved make of the three stores.
LEMMA SetStores ==
    ASSUME TypeOK
    PROVE  /\ \A v \in Lives : /\ Set(catalog, v) \in Stored(Lives)
                               /\ Set(catalog, v).mem = v
                               /\ Set(catalog, v).file = catalog.file
           /\ \A b \in BOOLEAN : /\ Set(registry, b) \in Stored(BOOLEAN)
                                 /\ Set(registry, b).mem = b
                                 /\ Set(registry, b).file = registry.file
           /\ \A b \in BOOLEAN : /\ Set(retired, b) \in Stored(BOOLEAN)
                                 /\ Set(retired, b).mem = b
                                 /\ Set(retired, b).file = retired.file
<1>1. catalog \in Stored(Lives) /\ registry \in Stored(BOOLEAN) /\ retired \in Stored(BOOLEAN)
  BY DEF TypeOK, Lives
<1>2. ASSUME NEW v \in Lives
      PROVE  /\ Set(catalog, v) \in Stored(Lives)
             /\ Set(catalog, v).mem = v
             /\ Set(catalog, v).file = catalog.file
  BY <1>1 DEF Stored, Set
<1>3. ASSUME NEW b \in BOOLEAN
      PROVE  /\ Set(registry, b) \in Stored(BOOLEAN)
             /\ Set(registry, b).mem = b
             /\ Set(registry, b).file = registry.file
  BY <1>1 DEF Stored, Set
<1>4. ASSUME NEW b \in BOOLEAN
      PROVE  /\ Set(retired, b) \in Stored(BOOLEAN)
             /\ Set(retired, b).mem = b
             /\ Set(retired, b).file = retired.file
  BY <1>1 DEF Stored, Set
<1>. QED  BY <1>2, <1>3, <1>4

LEMMA SavedStores ==
    ASSUME TypeOK
    PROVE  /\ Saved(catalog) \in Stored(Lives)
           /\ Saved(catalog).mem = catalog.mem /\ Saved(catalog).file = catalog.mem
           /\ Saved(registry) \in Stored(BOOLEAN)
           /\ Saved(registry).mem = registry.mem /\ Saved(registry).file = registry.mem
           /\ Saved(retired) \in Stored(BOOLEAN)
           /\ Saved(retired).mem = retired.mem /\ Saved(retired).file = retired.mem
           /\ Set(Saved(catalog), "active") \in Stored(Lives)
           /\ Set(Saved(catalog), "active").mem = "active"
           /\ Set(Saved(catalog), "active").file = catalog.mem
<1>1. catalog \in Stored(Lives) /\ registry \in Stored(BOOLEAN) /\ retired \in Stored(BOOLEAN)
  BY DEF TypeOK, Lives
<1>2. /\ Saved(catalog) \in Stored(Lives)
      /\ Saved(catalog).mem = catalog.mem /\ Saved(catalog).file = catalog.mem
  BY <1>1 DEF Stored, Saved
<1>3. /\ Saved(registry) \in Stored(BOOLEAN)
      /\ Saved(registry).mem = registry.mem /\ Saved(registry).file = registry.mem
  BY <1>1 DEF Stored, Saved
<1>4. /\ Saved(retired) \in Stored(BOOLEAN)
      /\ Saved(retired).mem = retired.mem /\ Saved(retired).file = retired.mem
  BY <1>1 DEF Stored, Saved
<1>5. "active" \in Lives
  BY DEF Lives, Stable
<1>6. /\ Set(Saved(catalog), "active") \in Stored(Lives)
      /\ Set(Saved(catalog), "active").mem = "active"
      /\ Set(Saved(catalog), "active").file = catalog.mem
  BY <1>2, <1>5 DEF Stored, Set
<1>. QED  BY <1>2, <1>3, <1>4, <1>6

\* The directories after a move, a copy and a removal.
Places == [{"active", "departed"} -> {"none", "husk", "whole"}]

LEMMA MovedPlaces ==
    ASSUME dir \in Places
    PROVE  /\ Moved("active", "departed") \in Places
           /\ Moved("active", "departed")["active"] = "none"
           /\ Moved("active", "departed")["departed"] = dir["active"]
           /\ Moved("departed", "active") \in Places
           /\ Moved("departed", "active")["departed"] = "none"
           /\ Moved("departed", "active")["active"] = dir["departed"]
BY DEF Places, Moved

LEMMA CopiedPlaces ==
    ASSUME dir \in Places
    PROVE  /\ Copied("active", "departed") \in Places
           /\ Copied("active", "departed")["active"] = dir["active"]
           /\ Copied("active", "departed")["departed"] = dir["active"]
           /\ Copied("departed", "active") \in Places
           /\ Copied("departed", "active")["departed"] = dir["departed"]
           /\ Copied("departed", "active")["active"] = dir["departed"]
BY DEF Places, Copied

LEMMA OtherPlaces ==
    ASSUME dir \in Places
    PROVE  /\ HandedOff \in Places
           /\ HandedOff["departed"] = dir["departed"]
           /\ dir["active"] # "none" => HandedOff["active"] = dir["active"]
           /\ [dir EXCEPT !["active"] = "none"] \in Places
           /\ [dir EXCEPT !["active"] = "none"]["active"] = "none"
           /\ [dir EXCEPT !["active"] = "none"]["departed"] = dir["departed"]
           /\ [dir EXCEPT !["departed"] = "none"] \in Places
           /\ [dir EXCEPT !["departed"] = "none"]["departed"] = "none"
           /\ [dir EXCEPT !["departed"] = "none"]["active"] = dir["active"]
BY DEF Places, HandedOff

-----------------------------------------------------------------------------
(* Types.                                                                  *)

\* The parts of TypeOK that are not about the calls.
StoreTypes == /\ catalog \in Stored(Lives) /\ registry \in Stored(BOOLEAN)
              /\ retired \in Stored(BOOLEAN)
DiskTypes == /\ dir \in Places /\ otherDisk \in BOOLEAN /\ journal \in BOOLEAN
             /\ target \in {"clean", "dirty", "committed"}
WorkTypes == /\ run \in {"none", "asked", "recorded", "starting", "live"}
             /\ terminal \in BOOLEAN
BoundTypes == /\ crashes \in 0..MaxCrashes /\ faults \in 0..MaxFaults
              /\ left \subseteq {"purge", "absorb"}

LEMMA TypeParts ==
    /\ TypeOK => StoreTypes /\ DiskTypes /\ WorkTypes /\ BoundTypes
    /\ /\ pc' \in [Proc -> Steps] /\ job' \in [Proc -> Jobs] /\ frame' \in [Proc -> Frames]
       /\ guard' \in Call \cup {None, Run} /\ upset' \in BOOLEAN
       /\ StoreTypes' /\ DiskTypes' /\ WorkTypes' /\ BoundTypes'
       => TypeOK'
BY DEF TypeOK, StoreTypes, DiskTypes, WorkTypes, BoundTypes, Proc, Lives, Places

LEMMA FaultBound ==
    ASSUME TypeOK, Fault
    PROVE  faults' \in 0..MaxFaults
BY BoundsAssumption DEF TypeOK, Fault

\* A step of c that moves nobody else keeps the types of the calls.
LEMMA FlowBoot ==
    ASSUME TypeOK, BootInv, NEW c \in Proc, pc[c] # "idle", Flow(c)
    PROVE  BootInv'
BY BootIsNoCall DEF TypeOK, BootInv, Flow, Proc

LEMMA FlowOnly ==
    ASSUME TypeOK, NEW c \in Proc, Only(c), Flow(c)
    PROVE  Only(c)'
BY DEF TypeOK, Only, Flow, Proc

LEMMA FlowType ==
    ASSUME TypeOK, BootInv, NEW c \in Proc, pc[c] # "idle", Flow(c),
           guard' \in Call \cup {None, Run}, upset' \in BOOLEAN,
           StoreTypes', DiskTypes', WorkTypes', BoundTypes'
    PROVE  TypeOK' /\ BootInv'
<1>1. job' \in [Proc -> Jobs]
  BY DEF TypeOK, Flow, Proc
<1>. QED  BY <1>1, FlowBoot, TypeParts DEF Flow

\* Add, wherever it is called from.
LEMMA AddType ==
    ASSUME TypeOK, NEW c \in Proc, Add(c)
    PROVE  /\ Flow(c) /\ guard' \in Call \cup {None, Run} /\ upset' \in BOOLEAN
           /\ upset => upset'
           /\ registry' \in Stored(BOOLEAN) /\ retired' \in Stored(BOOLEAN)
<1>0. StoreTypes
  BY TypeParts
<1>1. CASE registry' = Set(registry, TRUE) /\ Goto(c, "add")
           /\ UNCHANGED <<job, frame, guard, retired, upset>>
  <2>1. Flow(c)
    BY <1>1, GotoFlow DEF Steps
  <2>. QED  BY <1>0, <1>1, <2>1, SetStores DEF StoreTypes, TypeOK
<1>2. CASE retired' = Set(retired, FALSE) /\ Goto(c, "recall")
           /\ UNCHANGED <<job, frame, guard, registry, upset>>
  <2>1. Flow(c)
    BY <1>2, GotoFlow DEF Steps
  <2>. QED  BY <1>0, <1>2, <2>1, SetStores DEF StoreTypes, TypeOK
<1>3. CASE Throw(c) /\ UNCHANGED <<registry, retired>>
  BY <1>0, <1>3, ThrowFlow DEF StoreTypes
<1>. QED  BY <1>1, <1>2, <1>3 DEF Add

LEMMA MoveFailsType ==
    ASSUME TypeOK, NEW c \in Proc, NEW from, NEW to, MoveFails(c, from, to)
    PROVE  /\ Flow(c) /\ guard' \in Call \cup {None, Run} /\ upset' \in BOOLEAN
           /\ upset => upset'
           /\ faults' \in 0..MaxFaults /\ UNCHANGED <<stores, dir>>
<1>1. Throw(c) /\ UNCHANGED <<stores, dir>>
  BY DEF MoveFails
<1>2. faults' \in 0..MaxFaults
  BY FaultBound DEF MoveFails, TypeOK
<1>. QED  BY <1>1, <1>2, ThrowFlow

LEMMA RemovalFailsType ==
    ASSUME TypeOK, NEW c \in Proc, NEW place \in {"active", "departed"}, RemovalFails(c, place)
    PROVE  /\ Flow(c) /\ guard' \in Call \cup {None, Run} /\ upset' \in BOOLEAN
           /\ upset => upset'
           /\ faults' \in 0..MaxFaults /\ UNCHANGED stores
           /\ dir' \in Places /\ \A p \in {"active", "departed"} \ {place} : dir'[p] = dir[p]
<1>1. Throw(c) /\ UNCHANGED stores
  BY DEF RemovalFails
<1>2. faults' \in 0..MaxFaults
  BY FaultBound DEF RemovalFails
<1>3. dir \in Places
  BY DEF TypeOK, Places
<1>4. \/ dir' = dir
      \/ dir' = [dir EXCEPT ![place] = IF @ = "none" THEN @ ELSE "husk"]
  BY DEF RemovalFails
<1>5. dir' \in Places /\ \A p \in {"active", "departed"} \ {place} : dir'[p] = dir[p]
  BY <1>3, <1>4 DEF Places
<1>. QED  BY <1>1, <1>2, <1>5, ThrowFlow

LEMMA LeftType ==
    ASSUME TypeOK, NEW what \in {"purge", "absorb"}, LeftUndone(what) \/ NothingFails
    PROVE  faults' \in 0..MaxFaults /\ left' \subseteq {"purge", "absorb"}
BY FaultBound DEF LeftUndone, NothingFails, TypeOK

\* What is left of the archive when its removal fails.
LEMMA RestPlaces ==
    ASSUME dir \in Places, NEW rest \in {dir["departed"], "husk", "none"}
    PROVE  /\ [dir EXCEPT !["departed"] = rest] \in Places
           /\ [dir EXCEPT !["departed"] = rest]["active"] = dir["active"]
BY DEF Places

LEMMA SourceBackType ==
    ASSUME TypeOK, NEW c \in Proc, SourceBack(c)
    PROVE  /\ Flow(c) /\ guard' \in Call \cup {None, Run}
           /\ catalog' \in Stored(Lives)
<1>1. CASE catalog' = Set(catalog, "restoring") /\ GotoIn(c, "resSave", "restore")
             /\ UNCHANGED <<job, guard>>
  <2>1. Flow(c)
    BY <1>1, GotoInFlow DEF Steps, Frames
  <2>. QED  BY <1>1, <2>1, SetStores DEF TypeOK, Lives, Transit
<1>2. CASE Finish(c) /\ UNCHANGED catalog
  BY <1>2, FinishFlow, TypeParts DEF StoreTypes
<1>. QED  BY <1>1, <1>2 DEF SourceBack

LEMMA RollbackFailsType ==
    ASSUME TypeOK, NEW c \in Proc, RollbackFails(c)
    PROVE  /\ Flow(c) /\ guard' \in Call \cup {None, Run}
           /\ catalog' \in Stored(Lives) /\ journal' = journal
           /\ faults' \in 0..MaxFaults /\ left' \subseteq {"purge", "absorb"}
<1>1. LeftUndone("absorb") /\ journal' = journal
  BY DEF RollbackFails
<1>2. CASE SourceBack(c)
  BY <1>1, <1>2, SourceBackType, LeftType
<1>3. CASE Finish(c) /\ UNCHANGED catalog
  BY <1>1, <1>3, FinishFlow, LeftType, TypeParts DEF StoreTypes
<1>. QED  BY <1>2, <1>3 DEF RollbackFails

LEMMA StepType ==
    ASSUME TypeOK, BootInv, NEW c \in Proc, Step(c)
    PROVE  TypeOK' /\ BootInv' /\ (upset => upset') /\ job' = job
<1>0. /\ StoreTypes /\ DiskTypes /\ WorkTypes /\ BoundTypes
      /\ guard \in Call \cup {None, Run} /\ upset \in BOOLEAN
  BY TypeParts DEF TypeOK
<1>1. CASE OffPrepare(c)
  <2>1. Flow(c) /\ pc[c] # "idle"
    BY <1>1, GotoFlow, RefuseFlow DEF OffPrepare, At, Steps
  <2>2. guard' \in Call \cup {None, Run} /\ upset' \in BOOLEAN /\ (upset => upset')
    BY <1>0, <1>1, RefuseFlow DEF OffPrepare
  <2>3. StoreTypes'
    BY <1>0, <1>1, SetStores, SavedStores DEF OffPrepare, StoreTypes, stores, Lives, Transit, Stable
  <2>4. DiskTypes'
    BY <1>0, <1>1, MovedPlaces, CopiedPlaces, OtherPlaces DEF OffPrepare, DiskTypes, disk
  <2>5. WorkTypes' /\ BoundTypes'
    BY <1>0, <1>1, FaultBound DEF OffPrepare, WorkTypes, BoundTypes, work, mishaps
  <2>. QED  BY <2>1, <2>2, <2>3, <2>4, <2>5, FlowType DEF Flow
<1>2. CASE OffLate(c)
  <2>1. Flow(c) /\ pc[c] # "idle"
    BY <1>2, GotoFlow DEF OffLate, At, Steps
  <2>2. guard' \in Call \cup {None, Run} /\ upset' \in BOOLEAN /\ (upset => upset')
    BY <1>0, <1>2 DEF OffLate
  <2>3. StoreTypes'
    BY <1>0, <1>2, SetStores, SavedStores DEF OffLate, StoreTypes, stores, Lives, Transit, Stable
  <2>4. DiskTypes'
    BY <1>0, <1>2, MovedPlaces, CopiedPlaces, OtherPlaces DEF OffLate, DiskTypes, disk
  <2>5. WorkTypes' /\ BoundTypes'
    BY <1>0, <1>2, FaultBound DEF OffLate, WorkTypes, BoundTypes, work, mishaps
  <2>. QED  BY <2>1, <2>2, <2>3, <2>4, <2>5, FlowType DEF Flow
<1>3. CASE OffCancel(c)
  <2>1. Flow(c) /\ pc[c] # "idle"
    BY <1>3, RefuseFlow DEF OffCancel, At, Steps
  <2>2. guard' \in Call \cup {None, Run} /\ upset' \in BOOLEAN /\ (upset => upset')
    BY <1>0, <1>3, RefuseFlow DEF OffCancel
  <2>3. StoreTypes'
    BY <1>0, <1>3, SetStores, SavedStores DEF OffCancel, StoreTypes, stores, Lives, Transit, Stable
  <2>4. DiskTypes'
    BY <1>0, <1>3, MovedPlaces, CopiedPlaces, OtherPlaces DEF OffCancel, DiskTypes, disk
  <2>5. WorkTypes' /\ BoundTypes'
    BY <1>0, <1>3, FaultBound DEF OffCancel, WorkTypes, BoundTypes, work, mishaps
  <2>. QED  BY <2>1, <2>2, <2>3, <2>4, <2>5, FlowType DEF Flow
<1>4. CASE OffHandoff(c)
  <2>1. Flow(c) /\ pc[c] # "idle"
    BY <1>4, GotoFlow DEF OffHandoff, At, Steps
  <2>2. guard' \in Call \cup {None, Run} /\ upset' \in BOOLEAN /\ (upset => upset')
    BY <1>0, <1>4 DEF OffHandoff
  <2>3. StoreTypes'
    BY <1>0, <1>4, SetStores, SavedStores DEF OffHandoff, StoreTypes, stores, Lives, Transit, Stable
  <2>4. DiskTypes'
    BY <1>0, <1>4, MovedPlaces, CopiedPlaces, OtherPlaces DEF OffHandoff, DiskTypes, disk
  <2>5. WorkTypes' /\ BoundTypes'
    BY <1>0, <1>4, FaultBound DEF OffHandoff, WorkTypes, BoundTypes, work, mishaps
  <2>. QED  BY <2>1, <2>2, <2>3, <2>4, <2>5, FlowType DEF Flow
<1>5. CASE OffRemove(c)
  <2>1. Flow(c) /\ pc[c] # "idle"
    BY <1>5, GotoFlow DEF OffRemove, At, Steps
  <2>2. guard' \in Call \cup {None, Run} /\ upset' \in BOOLEAN /\ (upset => upset')
    BY <1>0, <1>5 DEF OffRemove
  <2>3. StoreTypes'
    BY <1>0, <1>5, SetStores, SavedStores DEF OffRemove, StoreTypes, stores, Lives, Transit, Stable
  <2>4. DiskTypes'
    BY <1>0, <1>5, MovedPlaces, CopiedPlaces, OtherPlaces DEF OffRemove, DiskTypes, disk
  <2>5. WorkTypes' /\ BoundTypes'
    BY <1>0, <1>5, FaultBound DEF OffRemove, WorkTypes, BoundTypes, work, mishaps
  <2>. QED  BY <2>1, <2>2, <2>3, <2>4, <2>5, FlowType DEF Flow
<1>6. CASE Move(c)
  <2>1. Flow(c) /\ pc[c] # "idle"
    BY <1>6, GotoFlow, MoveFailsType DEF Move, At, Steps
  <2>2. guard' \in Call \cup {None, Run} /\ upset' \in BOOLEAN /\ (upset => upset')
    <3>1. CASE UNCHANGED <<guard, upset>>
      BY <1>0, <3>1
    <3>2. CASE MoveFails(c, "active", "departed")
      BY <3>2, MoveFailsType
    <3>. QED  BY <1>6, <3>1, <3>2 DEF Move
  <2>3. StoreTypes'
    BY <1>0, <1>6, SetStores, SavedStores, AddType, MoveFailsType DEF Move, StoreTypes, stores,
       Lives, Transit, Stable
  <2>4. DiskTypes'
    BY <1>0, <1>6, MovedPlaces, CopiedPlaces, OtherPlaces, MoveFailsType DEF Move, DiskTypes, disk
  <2>5. WorkTypes' /\ BoundTypes'
    BY <1>0, <1>6, FaultBound, MoveFailsType DEF Move, WorkTypes, BoundTypes, work, mishaps
  <2>. QED  BY <2>1, <2>2, <2>3, <2>4, <2>5, FlowType DEF Flow
<1>7. CASE RmActive(c)
  <2>1. CASE RemovalFails(c, "active")
    <3>1. Flow(c) /\ pc[c] # "idle" /\ UNCHANGED stores /\ upset' \in BOOLEAN
      BY <1>7, <2>1, RemovalFailsType DEF RmActive, At
    <3>2. guard' \in Call \cup {None, Run} /\ (upset => upset') /\ faults' \in 0..MaxFaults
      BY <2>1, RemovalFailsType
    <3>3. dir' \in Places
      BY <2>1, RemovalFailsType
    <3>4. StoreTypes' /\ DiskTypes' /\ WorkTypes' /\ BoundTypes'
      BY <1>0, <1>7, <3>1, <3>2, <3>3 DEF RmActive, StoreTypes, DiskTypes, WorkTypes, BoundTypes,
         stores, work
    <3>. QED  BY <3>1, <3>2, <3>4, FlowType DEF Flow
  <2>2. CASE /\ dir' = [dir EXCEPT !["active"] = "none"]
           /\ retired' = Set(retired, TRUE) /\ Goto(c, "retire")
           /\ UNCHANGED <<job, frame, guard, catalog, registry, faults, upset>>
    <3>1. Flow(c) /\ pc[c] # "idle"
      BY <1>7, <2>2, GotoFlow, AddType DEF RmActive, At, Steps
    <3>2. guard' \in Call \cup {None, Run} /\ upset' \in BOOLEAN /\ (upset => upset')
      BY <1>0, <2>2, AddType
    <3>3. StoreTypes'
      BY <1>0, <2>2, SetStores, AddType DEF StoreTypes
    <3>4. DiskTypes' /\ WorkTypes' /\ BoundTypes'
      BY <1>0, <1>7, <2>2, OtherPlaces DEF RmActive, DiskTypes, WorkTypes, BoundTypes, work
    <3>. QED  BY <3>1, <3>2, <3>3, <3>4, FlowType DEF Flow
  <2>. QED  BY <1>7, <2>1, <2>2 DEF RmActive
<1>8. CASE Retire(c)
  <2>1. Flow(c) /\ pc[c] # "idle"
    BY <1>8, GotoFlow DEF Retire, At, Steps
  <2>2. guard' \in Call \cup {None, Run} /\ upset' \in BOOLEAN /\ (upset => upset')
    BY <1>0, <1>8 DEF Retire
  <2>3. StoreTypes'
    BY <1>0, <1>8, SetStores, SavedStores DEF Retire, StoreTypes, stores, Lives, Transit, Stable
  <2>4. DiskTypes'
    BY <1>0, <1>8, MovedPlaces, CopiedPlaces, OtherPlaces DEF Retire, DiskTypes, disk
  <2>5. WorkTypes' /\ BoundTypes'
    BY <1>0, <1>8, FaultBound DEF Retire, WorkTypes, BoundTypes, work, mishaps
  <2>. QED  BY <2>1, <2>2, <2>3, <2>4, <2>5, FlowType DEF Flow
<1>9. CASE Mark(c)
  <2>1. Flow(c) /\ pc[c] # "idle"
    BY <1>9, ReturnFlow, ThrowFlow DEF Mark, At, Steps
  <2>2. guard' \in Call \cup {None, Run} /\ upset' \in BOOLEAN /\ (upset => upset')
    BY <1>0, <1>9, ReturnFlow, ThrowFlow DEF Mark
  <2>3. StoreTypes'
    BY <1>0, <1>9, SetStores, SavedStores DEF Mark, StoreTypes, stores, Lives, Transit, Stable
  <2>4. DiskTypes'
    BY <1>0, <1>9, MovedPlaces, CopiedPlaces, OtherPlaces DEF Mark, DiskTypes, disk
  <2>5. WorkTypes' /\ BoundTypes'
    BY <1>0, <1>9, FaultBound DEF Mark, WorkTypes, BoundTypes, work, mishaps
  <2>. QED  BY <2>1, <2>2, <2>3, <2>4, <2>5, FlowType DEF Flow
<1>10. CASE ResSave(c)
  <2>1. Flow(c) /\ pc[c] # "idle"
    BY <1>10, GotoFlow DEF ResSave, At, Steps
  <2>2. guard' \in Call \cup {None, Run} /\ upset' \in BOOLEAN /\ (upset => upset')
    BY <1>0, <1>10 DEF ResSave
  <2>3. StoreTypes'
    BY <1>0, <1>10, SetStores, SavedStores DEF ResSave, StoreTypes, stores, Lives, Transit, Stable
  <2>4. DiskTypes'
    BY <1>0, <1>10, MovedPlaces, CopiedPlaces, OtherPlaces DEF ResSave, DiskTypes, disk
  <2>5. WorkTypes' /\ BoundTypes'
    BY <1>0, <1>10, FaultBound DEF ResSave, WorkTypes, BoundTypes, work, mishaps
  <2>. QED  BY <2>1, <2>2, <2>3, <2>4, <2>5, FlowType DEF Flow
<1>11. CASE MoveBack(c)
  <2>1. Flow(c) /\ pc[c] # "idle"
    BY <1>11, GotoFlow, AddType, MoveFailsType DEF MoveBack, At, Steps
  <2>2. guard' \in Call \cup {None, Run} /\ upset' \in BOOLEAN /\ (upset => upset')
    BY <1>0, <1>11, AddType, MoveFailsType DEF MoveBack
  <2>3. StoreTypes'
    BY <1>0, <1>11, SetStores, SavedStores, AddType, MoveFailsType DEF MoveBack, StoreTypes, stores,
       Lives, Transit, Stable
  <2>4. DiskTypes'
    BY <1>0, <1>11, MovedPlaces, CopiedPlaces, OtherPlaces, MoveFailsType DEF MoveBack, DiskTypes,
       disk
  <2>5. WorkTypes' /\ BoundTypes'
    BY <1>0, <1>11, FaultBound, MoveFailsType DEF MoveBack, WorkTypes, BoundTypes, work, mishaps
  <2>. QED  BY <2>1, <2>2, <2>3, <2>4, <2>5, FlowType DEF Flow
<1>12. CASE RmDeparted(c)
  <2>1. CASE RemovalFails(c, "departed")
    <3>1. Flow(c) /\ pc[c] # "idle" /\ UNCHANGED stores /\ upset' \in BOOLEAN
      BY <1>12, <2>1, RemovalFailsType DEF RmDeparted, At
    <3>2. guard' \in Call \cup {None, Run} /\ (upset => upset') /\ faults' \in 0..MaxFaults
      BY <2>1, RemovalFailsType
    <3>3. dir' \in Places
      BY <2>1, RemovalFailsType
    <3>4. StoreTypes' /\ DiskTypes' /\ WorkTypes' /\ BoundTypes'
      BY <1>0, <1>12, <3>1, <3>2, <3>3 DEF RmDeparted, StoreTypes, DiskTypes, WorkTypes, BoundTypes,
         stores, work
    <3>. QED  BY <3>1, <3>2, <3>4, FlowType DEF Flow
  <2>2. CASE /\ dir' = [dir EXCEPT !["departed"] = "none"]
           /\ Add(c) /\ UNCHANGED <<catalog, faults>>
    <3>1. Flow(c) /\ pc[c] # "idle"
      BY <1>12, <2>2, GotoFlow, AddType DEF RmDeparted, At, Steps
    <3>2. guard' \in Call \cup {None, Run} /\ upset' \in BOOLEAN /\ (upset => upset')
      BY <1>0, <2>2, AddType
    <3>3. StoreTypes'
      BY <1>0, <2>2, SetStores, AddType DEF StoreTypes
    <3>4. DiskTypes' /\ WorkTypes' /\ BoundTypes'
      BY <1>0, <1>12, <2>2, OtherPlaces DEF RmDeparted, DiskTypes, WorkTypes, BoundTypes, work
    <3>. QED  BY <3>1, <3>2, <3>3, <3>4, FlowType DEF Flow
  <2>. QED  BY <1>12, <2>1, <2>2 DEF RmDeparted
<1>13. CASE Added(c)
  <2>1. Flow(c) /\ pc[c] # "idle"
    BY <1>13, GotoFlow DEF Added, At, Steps
  <2>2. guard' \in Call \cup {None, Run} /\ upset' \in BOOLEAN /\ (upset => upset')
    BY <1>0, <1>13 DEF Added
  <2>3. StoreTypes'
    BY <1>0, <1>13, SetStores, SavedStores DEF Added, StoreTypes, stores, Lives, Transit, Stable
  <2>4. DiskTypes'
    BY <1>0, <1>13, MovedPlaces, CopiedPlaces, OtherPlaces DEF Added, DiskTypes, disk
  <2>5. WorkTypes' /\ BoundTypes'
    BY <1>0, <1>13, FaultBound DEF Added, WorkTypes, BoundTypes, work, mishaps
  <2>. QED  BY <2>1, <2>2, <2>3, <2>4, <2>5, FlowType DEF Flow
<1>14. CASE Recall(c)
  <2>1. Flow(c) /\ pc[c] # "idle"
    BY <1>14, GotoFlow DEF Recall, At, Steps
  <2>2. guard' \in Call \cup {None, Run} /\ upset' \in BOOLEAN /\ (upset => upset')
    BY <1>0, <1>14 DEF Recall
  <2>3. StoreTypes'
    BY <1>0, <1>14, SetStores, SavedStores DEF Recall, StoreTypes, stores, Lives, Transit, Stable
  <2>4. DiskTypes'
    BY <1>0, <1>14, MovedPlaces, CopiedPlaces, OtherPlaces DEF Recall, DiskTypes, disk
  <2>5. WorkTypes' /\ BoundTypes'
    BY <1>0, <1>14, FaultBound DEF Recall, WorkTypes, BoundTypes, work, mishaps
  <2>. QED  BY <2>1, <2>2, <2>3, <2>4, <2>5, FlowType DEF Flow
<1>15. CASE PurgeSave(c)
  <2>1. Flow(c) /\ pc[c] # "idle"
    BY <1>15, GotoFlow DEF PurgeSave, At, Steps
  <2>2. guard' \in Call \cup {None, Run} /\ upset' \in BOOLEAN /\ (upset => upset')
    BY <1>0, <1>15 DEF PurgeSave
  <2>3. StoreTypes'
    BY <1>0, <1>15, SetStores, SavedStores DEF PurgeSave, StoreTypes, stores, Lives, Transit, Stable
  <2>4. DiskTypes'
    BY <1>0, <1>15, MovedPlaces, CopiedPlaces, OtherPlaces DEF PurgeSave, DiskTypes, disk
  <2>5. WorkTypes' /\ BoundTypes'
    BY <1>0, <1>15, FaultBound DEF PurgeSave, WorkTypes, BoundTypes, work, mishaps
  <2>. QED  BY <2>1, <2>2, <2>3, <2>4, <2>5, FlowType DEF Flow
<1>16. CASE PurgeRm(c)
  <2>1. Flow(c) /\ pc[c] # "idle" /\ guard' \in Call \cup {None, Run}
    BY <1>0, <1>16, GotoFlow, ReturnFlow DEF PurgeRm, At, Steps
  <2>2. upset' \in BOOLEAN /\ (upset => upset')
    BY <1>0, <1>16 DEF PurgeRm
  <2>3. StoreTypes'
    BY <1>0, <1>16, SetStores DEF PurgeRm, StoreTypes, Lives, Stable
  <2>4. dir' \in Places
    BY <1>0, <1>16, OtherPlaces, RestPlaces DEF PurgeRm, DiskTypes
  <2>5. faults' \in 0..MaxFaults /\ left' \subseteq {"purge", "absorb"}
    BY <1>16, LeftType DEF PurgeRm
  <2>6. DiskTypes' /\ WorkTypes' /\ BoundTypes'
    BY <1>0, <1>16, <2>4, <2>5 DEF PurgeRm, DiskTypes, WorkTypes, BoundTypes, work
  <2>. QED  BY <2>1, <2>2, <2>3, <2>6, FlowType DEF Flow
<1>17. CASE Rec(c)
  <2>1. Flow(c) /\ pc[c] # "idle"
    BY <1>17, GotoFlow, ReturnFlow, ThrowFlow, AddType DEF Rec, At, Steps
  <2>2. guard' \in Call \cup {None, Run} /\ upset' \in BOOLEAN /\ (upset => upset')
    BY <1>0, <1>17, ReturnFlow, ThrowFlow, AddType DEF Rec
  <2>3. StoreTypes'
    BY <1>0, <1>17, SetStores, SavedStores, AddType, MoveFailsType DEF Rec, StoreTypes, stores,
       Lives, Transit, Stable
  <2>4. DiskTypes'
    BY <1>0, <1>17, MovedPlaces, CopiedPlaces, OtherPlaces DEF Rec, DiskTypes, disk
  <2>5. WorkTypes' /\ BoundTypes'
    BY <1>0, <1>17, FaultBound DEF Rec, WorkTypes, BoundTypes, work, mishaps
  <2>. QED  BY <2>1, <2>2, <2>3, <2>4, <2>5, FlowType DEF Flow
<1>18. CASE RecRemove(c)
  <2>1. Flow(c) /\ pc[c] # "idle"
    BY <1>18, GotoFlow DEF RecRemove, At, Steps
  <2>2. guard' \in Call \cup {None, Run} /\ upset' \in BOOLEAN /\ (upset => upset')
    BY <1>0, <1>18 DEF RecRemove
  <2>3. StoreTypes'
    BY <1>0, <1>18, SetStores, SavedStores DEF RecRemove, StoreTypes, stores, Lives, Transit, Stable
  <2>4. DiskTypes'
    BY <1>0, <1>18, MovedPlaces, CopiedPlaces, OtherPlaces DEF RecRemove, DiskTypes, disk
  <2>5. WorkTypes' /\ BoundTypes'
    BY <1>0, <1>18, FaultBound DEF RecRemove, WorkTypes, BoundTypes, work, mishaps
  <2>. QED  BY <2>1, <2>2, <2>3, <2>4, <2>5, FlowType DEF Flow
<1>19. CASE RecHandoff(c)
  <2>1. Flow(c) /\ pc[c] # "idle"
    BY <1>19, GotoFlow, ThrowFlow DEF RecHandoff, At, Steps
  <2>2. guard' \in Call \cup {None, Run} /\ upset' \in BOOLEAN /\ (upset => upset')
    <3>1. CASE UNCHANGED <<guard, upset>>
      BY <1>0, <3>1
    <3>2. CASE Throw(c)
      BY <3>2, ThrowFlow
    <3>. QED  BY <1>19, <3>1, <3>2 DEF RecHandoff
  <2>3. StoreTypes'
    BY <1>0, <1>19, SetStores, SavedStores DEF RecHandoff, StoreTypes, stores, Lives, Transit,
       Stable
  <2>4. DiskTypes'
    BY <1>0, <1>19, MovedPlaces, CopiedPlaces, OtherPlaces DEF RecHandoff, DiskTypes, disk
  <2>5. WorkTypes' /\ BoundTypes'
    BY <1>0, <1>19, FaultBound DEF RecHandoff, WorkTypes, BoundTypes, work, mishaps
  <2>. QED  BY <2>1, <2>2, <2>3, <2>4, <2>5, FlowType DEF Flow
<1>20. CASE AbsJournal(c)
  <2>1. Flow(c) /\ pc[c] # "idle"
    BY <1>20, GotoFlow DEF AbsJournal, At, Steps
  <2>2. guard' \in Call \cup {None, Run} /\ upset' \in BOOLEAN /\ (upset => upset')
    BY <1>0, <1>20 DEF AbsJournal
  <2>3. StoreTypes'
    BY <1>0, <1>20, SetStores, SavedStores DEF AbsJournal, StoreTypes, stores, Lives, Transit,
       Stable
  <2>4. DiskTypes'
    BY <1>0, <1>20, MovedPlaces, CopiedPlaces, OtherPlaces DEF AbsJournal, DiskTypes, disk
  <2>5. WorkTypes' /\ BoundTypes'
    BY <1>0, <1>20, FaultBound DEF AbsJournal, WorkTypes, BoundTypes, work, mishaps
  <2>. QED  BY <2>1, <2>2, <2>3, <2>4, <2>5, FlowType DEF Flow
<1>21. CASE AbsCopy(c)
  <2>1. Flow(c) /\ pc[c] # "idle"
    BY <1>21, GotoFlow DEF AbsCopy, At, Steps
  <2>2. guard' \in Call \cup {None, Run} /\ upset' \in BOOLEAN /\ (upset => upset')
    BY <1>0, <1>21 DEF AbsCopy
  <2>3. StoreTypes'
    BY <1>0, <1>21, SetStores, SavedStores DEF AbsCopy, StoreTypes, stores, Lives, Transit, Stable
  <2>4. DiskTypes'
    BY <1>0, <1>21, MovedPlaces, CopiedPlaces, OtherPlaces DEF AbsCopy, DiskTypes, disk
  <2>5. WorkTypes' /\ BoundTypes'
    BY <1>0, <1>21, FaultBound DEF AbsCopy, WorkTypes, BoundTypes, work, mishaps
  <2>. QED  BY <2>1, <2>2, <2>3, <2>4, <2>5, FlowType DEF Flow
<1>22. CASE AbsCommit(c)
  <2>1. Flow(c) /\ pc[c] # "idle"
    BY <1>22, GotoFlow DEF AbsCommit, At, Steps
  <2>2. guard' \in Call \cup {None, Run} /\ upset' \in BOOLEAN /\ (upset => upset')
    BY <1>0, <1>22 DEF AbsCommit
  <2>3. StoreTypes'
    BY <1>0, <1>22, SetStores, SavedStores DEF AbsCommit, StoreTypes, stores, Lives, Transit, Stable
  <2>4. DiskTypes'
    BY <1>0, <1>22, MovedPlaces, CopiedPlaces, OtherPlaces DEF AbsCommit, DiskTypes, disk
  <2>5. WorkTypes' /\ BoundTypes'
    BY <1>0, <1>22, FaultBound DEF AbsCommit, WorkTypes, BoundTypes, work, mishaps
  <2>. QED  BY <2>1, <2>2, <2>3, <2>4, <2>5, FlowType DEF Flow
<1>23. CASE AbsMark(c)
  <2>1. Flow(c) /\ pc[c] # "idle"
    BY <1>23, GotoFlow DEF AbsMark, At, Steps
  <2>2. guard' \in Call \cup {None, Run} /\ upset' \in BOOLEAN /\ (upset => upset')
    BY <1>0, <1>23 DEF AbsMark
  <2>3. StoreTypes'
    BY <1>0, <1>23, SetStores, SavedStores DEF AbsMark, StoreTypes, stores, Lives, Transit, Stable
  <2>4. DiskTypes'
    BY <1>0, <1>23, MovedPlaces, CopiedPlaces, OtherPlaces DEF AbsMark, DiskTypes, disk
  <2>5. WorkTypes' /\ BoundTypes'
    BY <1>0, <1>23, FaultBound DEF AbsMark, WorkTypes, BoundTypes, work, mishaps
  <2>. QED  BY <2>1, <2>2, <2>3, <2>4, <2>5, FlowType DEF Flow
<1>24. CASE AbsClean(c)
  <2>1. Flow(c) /\ pc[c] # "idle" /\ guard' \in Call \cup {None, Run}
    BY <1>0, <1>24, GotoFlow, FinishFlow DEF AbsClean, At, Steps
  <2>2. upset' \in BOOLEAN /\ (upset => upset')
    BY <1>0, <1>24 DEF AbsClean
  <2>3. StoreTypes'
    BY <1>0, <1>24 DEF AbsClean, StoreTypes, stores
  <2>4. faults' \in 0..MaxFaults /\ left' \subseteq {"purge", "absorb"}
    BY <1>0, <1>24, LeftType, FaultBound DEF AbsClean, BoundTypes
  <2>5. DiskTypes' /\ WorkTypes' /\ BoundTypes'
    BY <1>0, <1>24, <2>4 DEF AbsClean, DiskTypes, WorkTypes, BoundTypes, work
  <2>. QED  BY <2>1, <2>2, <2>3, <2>5, FlowType DEF Flow
<1>25. CASE AbsUndo(c)
  <2>1. Flow(c) /\ pc[c] # "idle" /\ guard' \in Call \cup {None, Run}
    BY <1>0, <1>25, GotoFlow, RollbackFailsType DEF AbsUndo, At, Steps
  <2>2. upset' \in BOOLEAN /\ (upset => upset')
    BY <1>0, <1>25 DEF AbsUndo
  <2>3. StoreTypes'
    BY <1>0, <1>25, RollbackFailsType DEF AbsUndo, StoreTypes
  <2>4. faults' \in 0..MaxFaults /\ left' \subseteq {"purge", "absorb"}
    BY <1>25, LeftType, RollbackFailsType DEF AbsUndo
  <2>5. DiskTypes' /\ WorkTypes' /\ BoundTypes'
    BY <1>0, <1>25, <2>4, RollbackFailsType DEF AbsUndo, DiskTypes, WorkTypes, BoundTypes, work
  <2>. QED  BY <2>1, <2>2, <2>3, <2>5, FlowType DEF Flow
<1>26. CASE AbsUndone(c)
  <2>1. Flow(c) /\ pc[c] # "idle" /\ guard' \in Call \cup {None, Run}
    BY <1>26, SourceBackType, RollbackFailsType DEF AbsUndone, At
  <2>2. upset' \in BOOLEAN /\ (upset => upset')
    BY <1>0, <1>26 DEF AbsUndone
  <2>3. StoreTypes'
    BY <1>0, <1>26, SourceBackType, RollbackFailsType DEF AbsUndone, StoreTypes
  <2>4. faults' \in 0..MaxFaults /\ left' \subseteq {"purge", "absorb"}
    BY <1>26, LeftType, RollbackFailsType DEF AbsUndone
  <2>5. DiskTypes' /\ WorkTypes' /\ BoundTypes'
    BY <1>0, <1>26, <2>4, RollbackFailsType DEF AbsUndone, DiskTypes, WorkTypes, BoundTypes, work
  <2>. QED  BY <2>1, <2>2, <2>3, <2>5, FlowType DEF Flow
<1>. QED  BY <1>1, <1>2, <1>3, <1>4, <1>5, <1>6, <1>7, <1>8, <1>9, <1>10, <1>11, <1>12, <1>13,
             <1>14, <1>15, <1>16, <1>17, <1>18, <1>19, <1>20, <1>21, <1>22, <1>23, <1>24, <1>25,
             <1>26 DEF Step
-----------------------------------------------------------------------------
(* The table is kept.                                                      *)

\* No row becomes a purged one by itself.
KeepsRow == /\ catalog'.mem \in Ending => catalog.mem \in Ending
            /\ catalog'.file \in Ending => catalog.mem \in Ending \/ catalog.file \in Ending

\* Offboarding and absorb: the guard is held and no run is starting or live.
LEMMA HoldsGuard ==
    ASSUME TypeOK, BootInv, NEW c \in Proc, Cond(c), pc[c] \notin {"done", "load"},
           frame[c] \in {"offboard", "offboardFailed"}
    PROVE  /\ c \in Call /\ guard = c /\ job[c] \in {"offboard", "absorb"}
           /\ run \notin {"starting", "live"}
<1>1. job[c] \in Jobs
  BY DEF TypeOK, Proc
<1>2. job[c] \in {"offboard", "absorb"}
  BY <1>1 DEF Cond, JobOf, Jobs
<1>3. c \in Call
  BY <1>2 DEF BootInv, Proc
<1>. QED  BY <1>2, <1>3, BootIsNoCall DEF Cond, GuardOf, WorkOf, Proc

\* The recovery of the frame recover is the launch's, and nothing runs yet.
LEMMA LaunchIsAlone ==
    ASSUME TypeOK, BootInv, NEW c \in Proc, Cond(c), pc[c] # "done", frame[c] = "recover"
    PROVE  c = Boot /\ job[c] = "boot" /\ run = "none" /\ terminal = FALSE
<1>1. job[c] \in Jobs
  BY DEF TypeOK, Proc
<1>2. job[c] = "boot"
  BY <1>1 DEF Cond, JobOf, Jobs
<1>3. pc[c] # "idle"
  BY DEF Cond, Only
<1>4. c = Boot
  BY <1>2, <1>3 DEF BootInv, Proc
<1>. QED  BY <1>2, <1>4 DEF Cond, WorkOf

\* registry.add where the workspace is not in the registry.
LEMMA AddFlow ==
    ASSUME TypeOK, NEW c \in Proc, Add(c), registry.mem = FALSE
    PROVE  /\ Flow(c) /\ pc'[c] = "add" /\ frame'[c] = frame[c] /\ guard' = guard
           /\ registry'.mem = TRUE /\ registry'.file = registry.file
           /\ retired' = retired /\ upset' = upset
<1>1. /\ registry' = Set(registry, TRUE) /\ Goto(c, "add")
      /\ UNCHANGED <<job, frame, guard, retired, upset>>
  BY DEF Add
<1>. QED  BY <1>1, GotoFlow, SetStores DEF Steps

\* The invariant of the one under way, from its parts after the step.
LEMMA FlowCond ==
    ASSUME TypeOK, NEW c \in Proc, Cond(c), Flow(c), Table(c)', FrameOf(c)', JobOf(c)',
           GuardOf(c)', JournalOf(c)', WorkOf(c)'
    PROVE  Cond(c)'
BY FlowOnly DEF Cond

LEMMA OffPrepareKeeps ==
    ASSUME TypeOK, BootInv, NEW c \in Proc, OffPrepare(c), Cond(c), ~upset'
    PROVE  Cond(c)' /\ KeepsRow
<1>1. pc[c] = "offPrepare" /\ OnFloor
  BY DEF OffPrepare, At, Cond, Table, OffboardRows, FrameOf
<1>2. c \in Call /\ guard = c /\ job[c] \in {"offboard", "absorb"}
        /\ run \notin {"starting", "live"}
  BY <1>1, HoldsGuard DEF Cond, FrameOf
<1>10. Flow(c) /\ pc'[c] = "offLate" /\ frame'[c] = frame[c]
  BY <1>1, <1>2, GotoFlow DEF OffPrepare, Steps, Frames, Row, Listed, Unlisted, Retired, Place,
     Leaving, Returning, OnFloor, Archived, Gone, Stopped, Rests
<1>11. Row("offboarding", "active")' /\ Listed' /\ Place("whole", "none")'
  BY <1>1, <1>2, <1>10, SetStores, SavedStores DEF OffPrepare, Row, Listed, Unlisted, Retired,
     Place, Leaving, Returning, OnFloor, Archived, Gone, Stopped, Rests, stores, disk, Lives,
     Transit, Stable
<1>12. UNCHANGED <<job, guard, run, terminal, journal, target, left>>
  BY <1>1, <1>2, <1>10 DEF mishaps, OffPrepare, work, disk, stores, Row, Listed, Unlisted, Retired,
     Place, Leaving, Returning, OnFloor, Archived, Gone, Stopped, Rests
<1>a. Table(c)'
  BY <1>1, <1>2, <1>10, <1>11, <1>12 DEF Table, OffboardRows, ArchiveRows, RestoreRows, PurgeRows,
     MarkRows, RecoverRows, AbsorbRows
<1>b. FrameOf(c)' /\ JobOf(c)'
  BY <1>1, <1>2, <1>10, <1>11, <1>12 DEF Cond, FrameOf, JobOf, Flow
<1>c. GuardOf(c)'
  BY <1>1, <1>2, <1>10, <1>11, <1>12, BootIsNoCall DEF Cond, GuardOf, Flow, Released, Proc
<1>d. KeepsRow
  BY <1>1, <1>2, <1>10, <1>11, <1>12 DEF KeepsRow, Ending, Row
<1>e. JournalOf(c)'
  BY <1>1, <1>2, <1>10, <1>11, <1>12, <1>d DEF Cond, JournalOf, Flow, disk, KeepsRow
<1>f. WorkOf(c)'
  BY <1>1, <1>2, <1>10, <1>11, <1>12, BootIsNoCall DEF Cond, WorkOf, GuardOf, Proc, Released, Row,
     Listed, Unlisted, Place, OnFloor, Archived, Gone, Stopped, Rests
<1>. QED  BY <1>1, <1>2, <1>10, <1>11, <1>12, <1>a, <1>b, <1>c, <1>d, <1>e, <1>f, FlowCond

LEMMA OffLateKeeps ==
    ASSUME TypeOK, BootInv, NEW c \in Proc, OffLate(c), Cond(c), ~upset'
    PROVE  Cond(c)' /\ KeepsRow
<1>1. pc[c] = "offLate" /\ Row("offboarding", "active") /\ Listed /\ Place("whole", "none")
  BY DEF OffLate, At, Cond, Table, OffboardRows, FrameOf
<1>2. c \in Call /\ guard = c /\ job[c] \in {"offboard", "absorb"}
        /\ run \notin {"starting", "live"}
  BY <1>1, HoldsGuard DEF Cond, FrameOf
<1>3. CASE Working
  <2>10. Flow(c) /\ pc'[c] = "offCancel" /\ frame'[c] = frame[c]
    BY <1>1, <1>2, <1>3, GotoFlow DEF OffLate, Steps
  <2>11. Row("active", "offboarding")' /\ Listed' /\ Place("whole", "none")'
    BY <1>1, <1>2, <1>3, <2>10, SetStores, SavedStores DEF OffLate, Row, Listed, Unlisted, Retired,
       Place, Leaving, Returning, OnFloor, Archived, Gone, Stopped, Rests, stores, disk, Lives,
       Transit, Stable
  <2>12. UNCHANGED <<job, guard, run, terminal, journal, target, left>>
    BY <1>1, <1>2, <1>3, <2>10 DEF mishaps, OffLate, work, disk, stores
  <2>a. Table(c)'
    BY <1>1, <1>2, <1>3, <2>10, <2>11, <2>12 DEF Table, OffboardRows, ArchiveRows, RestoreRows,
       PurgeRows, MarkRows, RecoverRows, AbsorbRows
  <2>b. FrameOf(c)' /\ JobOf(c)'
    BY <1>1, <1>2, <1>3, <2>10, <2>11, <2>12 DEF Cond, FrameOf, JobOf, Flow
  <2>c. GuardOf(c)'
    BY <1>1, <1>2, <1>3, <2>10, <2>11, <2>12, BootIsNoCall DEF Cond, GuardOf, Flow, Released, Proc
  <2>d. KeepsRow
    BY <1>1, <1>2, <1>3, <2>10, <2>11, <2>12 DEF KeepsRow, Ending, Row
  <2>e. JournalOf(c)'
    BY <1>1, <1>2, <1>3, <2>10, <2>11, <2>12, <2>d DEF Cond, JournalOf, Flow, disk, KeepsRow
  <2>f. WorkOf(c)'
    BY <1>1, <1>2, <1>3, <2>10, <2>11, <2>12, BootIsNoCall DEF Cond, WorkOf, GuardOf, Proc,
       Released, Row, Listed, Unlisted, Place, OnFloor, Archived, Gone, Stopped, Rests
  <2>. QED  BY <1>1, <1>2, <1>3, <2>10, <2>11, <2>12, <2>a, <2>b, <2>c, <2>d, <2>e, <2>f, FlowCond
<1>4. CASE ~Working
  <2>10. Flow(c) /\ pc'[c] = "offHandoff" /\ frame'[c] = frame[c]
    BY <1>1, <1>2, <1>4, GotoFlow DEF OffLate, Steps
  <2>11. Row("offboarding", "offboarding")' /\ Listed' /\ Place("whole", "none")'
    BY <1>1, <1>2, <1>4, <2>10, SetStores, SavedStores DEF OffLate, Row, Listed, Unlisted, Retired,
       Place, Leaving, Returning, OnFloor, Archived, Gone, Stopped, Rests, stores, disk, Lives,
       Transit, Stable
  <2>12. UNCHANGED <<job, guard, run, terminal, journal, target, left>>
    BY <1>1, <1>2, <1>4, <2>10 DEF mishaps, OffLate, work, disk, stores
  <2>a. Table(c)'
    BY <1>1, <1>2, <1>4, <2>10, <2>11, <2>12 DEF Table, OffboardRows, ArchiveRows, RestoreRows,
       PurgeRows, MarkRows, RecoverRows, AbsorbRows
  <2>b. FrameOf(c)' /\ JobOf(c)'
    BY <1>1, <1>2, <1>4, <2>10, <2>11, <2>12 DEF Cond, FrameOf, JobOf, Flow
  <2>c. GuardOf(c)'
    BY <1>1, <1>2, <1>4, <2>10, <2>11, <2>12, BootIsNoCall DEF Cond, GuardOf, Flow, Released, Proc
  <2>d. KeepsRow
    BY <1>1, <1>2, <1>4, <2>10, <2>11, <2>12 DEF KeepsRow, Ending, Row
  <2>e. JournalOf(c)'
    BY <1>1, <1>2, <1>4, <2>10, <2>11, <2>12, <2>d DEF Cond, JournalOf, Flow, disk, KeepsRow
  <2>f. WorkOf(c)'
    BY <1>1, <1>2, <1>4, <2>10, <2>11, <2>12, BootIsNoCall DEF Cond, WorkOf, GuardOf, Proc,
       Released, Row, Listed, Unlisted, Place, OnFloor, Archived, Gone, Stopped, Rests
  <2>. QED  BY <1>1, <1>2, <1>4, <2>10, <2>11, <2>12, <2>a, <2>b, <2>c, <2>d, <2>e, <2>f, FlowCond
<1>. QED  BY <1>3, <1>4

LEMMA OffCancelKeeps ==
    ASSUME TypeOK, BootInv, NEW c \in Proc, OffCancel(c), Cond(c), ~upset'
    PROVE  Cond(c)' /\ KeepsRow
<1>1. pc[c] = "offCancel" /\ Row("active", "offboarding") /\ Listed /\ Place("whole", "none")
  BY DEF OffCancel, At, Cond, Table, OffboardRows, FrameOf
<1>2. c \in Call /\ guard = c /\ job[c] \in {"offboard", "absorb"}
        /\ run \notin {"starting", "live"}
  BY <1>1, HoldsGuard DEF Cond, FrameOf
<1>10. /\ Flow(c) /\ frame'[c] = frame[c]
       /\ job[c] = "absorb" => pc'[c] = "absUndo" /\ guard' = guard
       /\ job[c] # "absorb" => pc'[c] = "done" /\ Released(c)
  BY <1>1, <1>2, RefuseFlow DEF OffCancel, Steps
<1>11. OnFloor'
  BY <1>1, <1>2, <1>10, SetStores, SavedStores DEF OffCancel, Row, Listed, Unlisted, Retired, Place,
     Leaving, Returning, OnFloor, Archived, Gone, Stopped, Rests, stores, disk, Lives, Transit,
     Stable
<1>12. UNCHANGED <<run, terminal, journal, target, left>>
  BY <1>1, <1>2, <1>10 DEF mishaps, OffCancel, work, disk, stores
<1>a. Table(c)'
  BY <1>1, <1>2, <1>10, <1>11, <1>12 DEF Table, OffboardRows, ArchiveRows, RestoreRows, PurgeRows,
     MarkRows, RecoverRows, AbsorbRows, OnFloor, Archived, Gone, Stopped, Rests, Row, Listed,
     Unlisted, Retired, Place, Leaving, Returning
<1>b. FrameOf(c)' /\ JobOf(c)'
  BY <1>1, <1>2, <1>10, <1>11, <1>12 DEF Cond, FrameOf, JobOf, Flow
<1>c. GuardOf(c)'
  BY <1>1, <1>2, <1>10, <1>11, <1>12, BootIsNoCall DEF Cond, GuardOf, Flow, Released, Proc
<1>d. KeepsRow
  BY <1>1, <1>2, <1>10, <1>11, <1>12 DEF KeepsRow, Ending, Row, OnFloor, Archived, Gone, Stopped,
     Rests
<1>e. JournalOf(c)'
  <2>1. JournalOf(c) /\ frame[c] = "offboard" /\ job' = job
    BY <1>1, <1>10 DEF Cond, FrameOf, Flow
  <2>2. CASE job[c] = "absorb"
    BY <1>1, <1>10, <1>12, <2>1, <2>2 DEF JournalOf
  <2>3. CASE job[c] = "offboard"
    BY <1>1, <1>10, <1>12, <2>1, <2>3 DEF JournalOf
  <2>. QED  BY <1>2, <2>2, <2>3
<1>f. WorkOf(c)'
  BY <1>1, <1>2, <1>10, <1>11, <1>12, BootIsNoCall DEF Cond, WorkOf, GuardOf, Proc, Released, Row,
     Listed, Unlisted, Place, OnFloor, Archived, Gone, Stopped, Rests
<1>. QED  BY <1>1, <1>2, <1>10, <1>11, <1>12, <1>a, <1>b, <1>c, <1>d, <1>e, <1>f, FlowCond

LEMMA OffHandoffKeeps ==
    ASSUME TypeOK, BootInv, NEW c \in Proc, OffHandoff(c), Cond(c), ~upset'
    PROVE  Cond(c)' /\ KeepsRow
<1>1. pc[c] = "offHandoff" /\ Row("offboarding", "offboarding") /\ Listed /\ Place("whole", "none")
  BY DEF OffHandoff, At, Cond, Table, OffboardRows, FrameOf
<1>2. c \in Call /\ guard = c /\ job[c] \in {"offboard", "absorb"}
        /\ run \notin {"starting", "live"}
  BY <1>1, HoldsGuard DEF Cond, FrameOf
<1>3. CASE dir' = HandedOff /\ registry' = Set(registry, FALSE) /\ Goto(c, "offRemove")
           /\ UNCHANGED catalog
  <2>10. Flow(c) /\ pc'[c] = "offRemove" /\ frame'[c] = frame[c]
    BY <1>1, <1>2, <1>3, GotoFlow DEF OffHandoff, Steps
  <2>11. Row("offboarding", "offboarding")' /\ registry'.mem = FALSE /\ Place("whole", "none")'
    BY <1>1, <1>2, <1>3, <2>10, TypeParts, SetStores, SavedStores, OtherPlaces DEF OffHandoff, Row,
       Listed, Unlisted, Retired, Place, Leaving, Returning, OnFloor, Archived, Gone, Stopped,
       Rests, StoreTypes, DiskTypes, stores, disk, Lives, Transit, Stable
  <2>12. UNCHANGED <<job, guard, run, terminal, journal, target, left>>
    BY <1>1, <1>2, <1>3, <2>10 DEF mishaps, OffHandoff, work, disk, stores
  <2>a. Table(c)'
    BY <1>1, <1>2, <1>3, <2>10, <2>11, <2>12 DEF Table, OffboardRows, ArchiveRows, RestoreRows,
       PurgeRows, MarkRows, RecoverRows, AbsorbRows
  <2>b. FrameOf(c)' /\ JobOf(c)'
    BY <1>1, <1>2, <1>3, <2>10, <2>11, <2>12 DEF Cond, FrameOf, JobOf, Flow
  <2>c. GuardOf(c)'
    BY <1>1, <1>2, <1>3, <2>10, <2>11, <2>12, BootIsNoCall DEF Cond, GuardOf, Flow, Released, Proc
  <2>d. KeepsRow
    BY <1>1, <1>2, <1>3, <2>10, <2>11, <2>12 DEF KeepsRow, Ending, Row
  <2>e. JournalOf(c)'
    BY <1>1, <1>2, <1>3, <2>10, <2>11, <2>12, <2>d DEF Cond, JournalOf, Flow, disk, KeepsRow
  <2>f. WorkOf(c)'
    BY <1>1, <1>2, <1>3, <2>10, <2>11, <2>12, BootIsNoCall DEF Cond, WorkOf, GuardOf, Proc, Released
  <2>. QED  BY <1>1, <1>2, <1>3, <2>10, <2>11, <2>12, <2>a, <2>b, <2>c, <2>d, <2>e, <2>f, FlowCond
<1>4. CASE catalog' = Set(catalog, "active") /\ Goto(c, "offCancel") /\ UNCHANGED <<registry, dir>>
  <2>10. Flow(c) /\ pc'[c] = "offCancel" /\ frame'[c] = frame[c]
    BY <1>1, <1>2, <1>4, GotoFlow DEF OffHandoff, Steps
  <2>11. Row("active", "offboarding")' /\ Listed' /\ Place("whole", "none")'
    BY <1>1, <1>2, <1>4, <2>10, SetStores, SavedStores DEF OffHandoff, Row, Listed, Unlisted,
       Retired, Place, Leaving, Returning, OnFloor, Archived, Gone, Stopped, Rests, stores, disk,
       Lives, Transit, Stable
  <2>12. UNCHANGED <<job, guard, run, terminal, journal, target, left>>
    BY <1>1, <1>2, <1>4, <2>10 DEF mishaps, OffHandoff, work, disk, stores
  <2>a. Table(c)'
    BY <1>1, <1>2, <1>4, <2>10, <2>11, <2>12 DEF Table, OffboardRows, ArchiveRows, RestoreRows,
       PurgeRows, MarkRows, RecoverRows, AbsorbRows
  <2>b. FrameOf(c)' /\ JobOf(c)'
    BY <1>1, <1>2, <1>4, <2>10, <2>11, <2>12 DEF Cond, FrameOf, JobOf, Flow
  <2>c. GuardOf(c)'
    BY <1>1, <1>2, <1>4, <2>10, <2>11, <2>12, BootIsNoCall DEF Cond, GuardOf, Flow, Released, Proc
  <2>d. KeepsRow
    BY <1>1, <1>2, <1>4, <2>10, <2>11, <2>12 DEF KeepsRow, Ending, Row
  <2>e. JournalOf(c)'
    BY <1>1, <1>2, <1>4, <2>10, <2>11, <2>12, <2>d DEF Cond, JournalOf, Flow, disk, KeepsRow
  <2>f. WorkOf(c)'
    BY <1>1, <1>2, <1>4, <2>10, <2>11, <2>12, BootIsNoCall DEF Cond, WorkOf, GuardOf, Proc, Released
  <2>. QED  BY <1>1, <1>2, <1>4, <2>10, <2>11, <2>12, <2>a, <2>b, <2>c, <2>d, <2>e, <2>f, FlowCond
<1>. QED  BY <1>3, <1>4 DEF OffHandoff

LEMMA OffRemoveKeeps ==
    ASSUME TypeOK, BootInv, NEW c \in Proc, OffRemove(c), Cond(c), ~upset'
    PROVE  Cond(c)' /\ KeepsRow
<1>1. pc[c] = "offRemove" /\ Row("offboarding", "offboarding") /\ registry.mem = FALSE
        /\ Place("whole", "none")
  BY DEF OffRemove, At, Cond, Table, OffboardRows, FrameOf
<1>2. c \in Call /\ guard = c /\ job[c] \in {"offboard", "absorb"}
        /\ run \notin {"starting", "live"}
  BY <1>1, HoldsGuard DEF Cond, FrameOf
<1>10. Flow(c) /\ pc'[c] = "move" /\ frame'[c] = frame[c]
  BY <1>1, <1>2, GotoFlow DEF OffRemove, Steps
<1>11. Row("offboarding", "offboarding")' /\ Unlisted' /\ Place("whole", "none")'
         /\ terminal' = FALSE
  BY <1>1, <1>2, <1>10, SetStores, SavedStores DEF OffRemove, Row, Listed, Unlisted, Retired, Place,
     Leaving, Returning, OnFloor, Archived, Gone, Stopped, Rests, stores, disk, Lives, Transit,
     Stable
<1>12. UNCHANGED <<job, guard, run, journal, target, left>>
  BY <1>1, <1>2, <1>10 DEF mishaps, OffRemove, work, disk, stores
<1>a. Table(c)'
  BY <1>1, <1>2, <1>10, <1>11, <1>12 DEF Table, OffboardRows, ArchiveRows, RestoreRows, PurgeRows,
     MarkRows, RecoverRows, AbsorbRows
<1>b. FrameOf(c)' /\ JobOf(c)'
  BY <1>1, <1>2, <1>10, <1>11, <1>12 DEF Cond, FrameOf, JobOf, Flow
<1>c. GuardOf(c)'
  BY <1>1, <1>2, <1>10, <1>11, <1>12, BootIsNoCall DEF Cond, GuardOf, Flow, Released, Proc
<1>d. KeepsRow
  BY <1>1, <1>2, <1>10, <1>11, <1>12 DEF KeepsRow, Ending, Row
<1>e. JournalOf(c)'
  BY <1>1, <1>2, <1>10, <1>11, <1>12, <1>d DEF Cond, JournalOf, Flow, disk, KeepsRow
<1>f. WorkOf(c)'
  BY <1>1, <1>2, <1>10, <1>11, <1>12, BootIsNoCall DEF Cond, WorkOf, GuardOf, Proc, Released
<1>. QED  BY <1>1, <1>2, <1>10, <1>11, <1>12, <1>a, <1>b, <1>c, <1>d, <1>e, <1>f, FlowCond

LEMMA MoveKeeps ==
    ASSUME TypeOK, BootInv, NEW c \in Proc, Move(c), Cond(c), ~upset'
    PROVE  Cond(c)' /\ KeepsRow
<1>1. pc[c] = "move" /\ Row("offboarding", "offboarding") /\ Unlisted
        /\ Place("whole", "none") /\ frame[c] \in {"offboard", "offboardFailed", "recover"}
  BY DEF Move, At, Cond, Table, ArchiveRows, FrameOf
<1>2. \/ c \in Call /\ guard = c /\ job[c] \in {"offboard", "absorb"}
        /\ run \notin {"starting", "live"}
      \/ frame[c] = "recover" /\ c = Boot /\ job[c] = "boot" /\ run = "none" /\ terminal = FALSE
  BY <1>1, HoldsGuard, LaunchIsAlone DEF Cond, FrameOf
<1>3. CASE dir' = Moved("active", "departed") /\ retired' = Set(retired, TRUE) /\ Goto(c, "retire")
           /\ UNCHANGED <<job, frame, guard, catalog, registry>>
  <2>10. Flow(c) /\ pc'[c] = "retire" /\ frame'[c] = frame[c]
    BY <1>1, <1>2, <1>3, GotoFlow DEF Move, Steps
  <2>11. Row("offboarding", "offboarding")' /\ Unlisted' /\ retired'.mem = TRUE
           /\ Place("none", "whole")'
    BY <1>1, <1>2, <1>3, <2>10, TypeParts, SetStores, SavedStores, MovedPlaces DEF Move, Row,
       Listed, Unlisted, Retired, Place, Leaving, Returning, OnFloor, Archived, Gone, Stopped,
       Rests, StoreTypes, DiskTypes, stores, disk, Lives, Transit, Stable
  <2>12. UNCHANGED <<job, guard, run, terminal, journal, target, left>>
    BY <1>1, <1>2, <1>3, <2>10 DEF mishaps, Move, work, disk, stores
  <2>a. Table(c)'
    BY <1>1, <1>2, <1>3, <2>10, <2>11, <2>12 DEF Table, OffboardRows, ArchiveRows, RestoreRows,
       PurgeRows, MarkRows, RecoverRows, AbsorbRows
  <2>b. FrameOf(c)' /\ JobOf(c)'
    BY <1>1, <1>2, <1>3, <2>10, <2>11, <2>12 DEF Cond, FrameOf, JobOf, Flow
  <2>c. GuardOf(c)'
    BY <1>1, <1>2, <1>3, <2>10, <2>11, <2>12, BootIsNoCall DEF Cond, GuardOf, Flow, Released, Proc
  <2>d. KeepsRow
    BY <1>1, <1>2, <1>3, <2>10, <2>11, <2>12 DEF KeepsRow, Ending, Row
  <2>e. JournalOf(c)'
    BY <1>1, <1>2, <1>3, <2>10, <2>11, <2>12, <2>d DEF Cond, JournalOf, Flow, disk, KeepsRow
  <2>f. WorkOf(c)'
    BY <1>1, <1>2, <1>3, <2>10, <2>11, <2>12, BootIsNoCall DEF Cond, WorkOf, GuardOf, Proc, Released
  <2>. QED  BY <1>1, <1>2, <1>3, <2>10, <2>11, <2>12, <2>a, <2>b, <2>c, <2>d, <2>e, <2>f, FlowCond
<1>4. CASE dir' = Copied("active", "departed") /\ Goto(c, "rmActive")
           /\ UNCHANGED <<job, frame, guard, catalog, registry, retired>>
  <2>10. Flow(c) /\ pc'[c] = "rmActive" /\ frame'[c] = frame[c]
    BY <1>1, <1>2, <1>4, GotoFlow DEF Move, Steps
  <2>11. Row("offboarding", "offboarding")' /\ Unlisted' /\ Place("whole", "whole")'
    BY <1>1, <1>2, <1>4, <2>10, TypeParts, SetStores, SavedStores, CopiedPlaces DEF Move, Row,
       Listed, Unlisted, Retired, Place, Leaving, Returning, OnFloor, Archived, Gone, Stopped,
       Rests, StoreTypes, DiskTypes, stores, disk, Lives, Transit, Stable
  <2>12. UNCHANGED <<job, guard, run, terminal, journal, target, left>>
    BY <1>1, <1>2, <1>4, <2>10 DEF mishaps, Move, work, disk, stores
  <2>a. Table(c)'
    BY <1>1, <1>2, <1>4, <2>10, <2>11, <2>12 DEF Table, OffboardRows, ArchiveRows, RestoreRows,
       PurgeRows, MarkRows, RecoverRows, AbsorbRows, Place
  <2>b. FrameOf(c)' /\ JobOf(c)'
    BY <1>1, <1>2, <1>4, <2>10, <2>11, <2>12 DEF Cond, FrameOf, JobOf, Flow
  <2>c. GuardOf(c)'
    BY <1>1, <1>2, <1>4, <2>10, <2>11, <2>12, BootIsNoCall DEF Cond, GuardOf, Flow, Released, Proc
  <2>d. KeepsRow
    BY <1>1, <1>2, <1>4, <2>10, <2>11, <2>12 DEF KeepsRow, Ending, Row
  <2>e. JournalOf(c)'
    BY <1>1, <1>2, <1>4, <2>10, <2>11, <2>12, <2>d DEF Cond, JournalOf, Flow, disk, KeepsRow
  <2>f. WorkOf(c)'
    BY <1>1, <1>2, <1>4, <2>10, <2>11, <2>12, BootIsNoCall DEF Cond, WorkOf, GuardOf, Proc, Released
  <2>. QED  BY <1>1, <1>2, <1>4, <2>10, <2>11, <2>12, <2>a, <2>b, <2>c, <2>d, <2>e, <2>f, FlowCond
<1>5. CASE MoveFails(c, "active", "departed")
  <2>1. Throw(c) /\ UNCHANGED <<stores, dir>>
    BY <1>5 DEF MoveFails
  <2>10. /\ Flow(c) /\ frame[c] = "offboard" /\ guard' = guard
         /\ pc'[c] = "rec" /\ frame'[c] = "offboardFailed" 
    BY <1>1, <1>2, <2>1, ThrowFlow DEF Move, Steps
  <2>11. Row("offboarding", "offboarding")' /\ Unlisted' /\ Place("whole", "none")'
    BY <1>1, <1>2, <2>1, <2>10, SetStores, SavedStores DEF Move, Row, Listed, Unlisted, Retired,
       Place, Leaving, Returning, OnFloor, Archived, Gone, Stopped, Rests, stores, disk, Lives,
       Transit, Stable, Flow
  <2>12. UNCHANGED <<job, guard, run, terminal, journal, target, left>>
    BY <1>1, <1>2, <2>1, <2>10 DEF mishaps, Move, work, disk, stores, Row, Listed, Unlisted,
       Retired, Place, Leaving, Returning, OnFloor, Archived, Gone, Stopped, Rests, Flow
  <2>a. Table(c)'
    BY <1>1, <1>2, <2>1, <2>10, <2>11, <2>12 DEF Table, OffboardRows, ArchiveRows, RestoreRows,
       PurgeRows, MarkRows, RecoverRows, AbsorbRows, Place, Leaving
  <2>b. FrameOf(c)' /\ JobOf(c)'
    BY <1>1, <1>2, <2>1, <2>10, <2>11, <2>12 DEF Cond, FrameOf, JobOf, Flow
  <2>c. GuardOf(c)'
    BY <1>1, <1>2, <2>1, <2>10, <2>11, <2>12, BootIsNoCall DEF Cond, GuardOf, Flow, Released, Proc
  <2>d. KeepsRow
    BY <1>1, <1>2, <2>1, <2>10, <2>11, <2>12 DEF KeepsRow, Ending, Row
  <2>e. JournalOf(c)'
    BY <1>1, <1>2, <2>1, <2>10, <2>11, <2>12, <2>d DEF Cond, JournalOf, Flow, disk, KeepsRow
  <2>f. WorkOf(c)'
    BY <1>1, <1>2, <2>1, <2>10, <2>11, <2>12, BootIsNoCall DEF Cond, WorkOf, GuardOf, Proc,
       Released, Row, Listed, Unlisted, Place, OnFloor, Archived, Gone, Stopped, Rests
  <2>. QED  BY <1>1, <1>2, <2>1, <2>10, <2>11, <2>12, <2>a, <2>b, <2>c, <2>d, <2>e, <2>f, FlowCond
<1>. QED  BY <1>3, <1>4, <1>5 DEF Move

LEMMA RmActiveKeeps ==
    ASSUME TypeOK, BootInv, NEW c \in Proc, RmActive(c), Cond(c), ~upset'
    PROVE  Cond(c)' /\ KeepsRow
<1>1. pc[c] = "rmActive" /\ Row("offboarding", "offboarding") /\ Unlisted
        /\ dir["departed"] = "whole" /\ frame[c] \in {"offboard", "offboardFailed", "recover"}
  BY DEF RmActive, At, Cond, Table, ArchiveRows, RestoreRows, FrameOf
<1>2. \/ c \in Call /\ guard = c /\ job[c] \in {"offboard", "absorb"}
        /\ run \notin {"starting", "live"}
      \/ frame[c] = "recover" /\ c = Boot /\ job[c] = "boot" /\ run = "none" /\ terminal = FALSE
  BY <1>1, HoldsGuard, LaunchIsAlone DEF Cond, FrameOf
<1>3. CASE /\ dir' = [dir EXCEPT !["active"] = "none"]
           /\ retired' = Set(retired, TRUE) /\ Goto(c, "retire")
           /\ UNCHANGED <<job, frame, guard, catalog, registry>>
  <2>10. Flow(c) /\ pc'[c] = "retire" /\ frame'[c] = frame[c]
    BY <1>1, <1>3, GotoFlow DEF Steps
  <2>11. Row("offboarding", "offboarding")' /\ Unlisted' /\ retired'.mem = TRUE
           /\ Place("none", "whole")'
    BY <1>1, <1>3, TypeParts, SetStores, OtherPlaces DEF Row, Unlisted, Place, DiskTypes
  <2>12. UNCHANGED <<job, guard, run, terminal, journal, target, left>>
    BY <1>1, <1>2, <1>3, <2>10 DEF mishaps, RmActive, work, disk, stores, Flow
  <2>a. Table(c)'
    BY <1>1, <1>2, <1>3, <2>10, <2>11, <2>12 DEF Table, OffboardRows, ArchiveRows, RestoreRows,
       PurgeRows, MarkRows, RecoverRows, AbsorbRows
  <2>b. FrameOf(c)' /\ JobOf(c)'
    BY <1>1, <1>2, <1>3, <2>10, <2>11, <2>12 DEF Cond, FrameOf, JobOf, Flow
  <2>c. GuardOf(c)'
    BY <1>1, <1>2, <1>3, <2>10, <2>11, <2>12, BootIsNoCall DEF Cond, GuardOf, Flow, Released, Proc
  <2>d. KeepsRow
    BY <1>1, <1>2, <1>3, <2>10, <2>11, <2>12 DEF KeepsRow, Ending, Row
  <2>e. JournalOf(c)'
    BY <1>1, <1>2, <1>3, <2>10, <2>11, <2>12, <2>d DEF Cond, JournalOf, Flow, disk, KeepsRow
  <2>f. WorkOf(c)'
    BY <1>1, <1>2, <1>3, <2>10, <2>11, <2>12, BootIsNoCall DEF Cond, WorkOf, GuardOf, Proc,
       Released, Row, Listed, Unlisted, Place, OnFloor, Archived, Gone, Stopped, Rests
  <2>. QED  BY <1>1, <1>2, <1>3, <2>10, <2>11, <2>12, <2>a, <2>b, <2>c, <2>d, <2>e, <2>f, FlowCond
<1>4. CASE RemovalFails(c, "active")
  <2>1. Throw(c) /\ UNCHANGED stores
    BY <1>4 DEF RemovalFails
  <2>10. /\ Flow(c) /\ frame[c] = "offboard" /\ guard' = guard
         /\ pc'[c] = "rec" /\ frame'[c] = "offboardFailed"
    BY <1>1, <1>2, <2>1, ThrowFlow
  <2>11. Row("offboarding", "offboarding")' /\ Unlisted' /\ dir'["departed"] = "whole"
    BY <1>1, <1>4, <2>1, RemovalFailsType DEF Row, Unlisted, stores
  <2>12. UNCHANGED <<job, guard, run, terminal, journal, target, left>>
    BY <1>1, <1>2, <2>1, <2>10 DEF mishaps, RmActive, work, disk, Flow
  <2>a. Table(c)'
    BY <1>1, <1>2, <2>1, <2>10, <2>11, <2>12 DEF Table, OffboardRows, ArchiveRows, RestoreRows,
       PurgeRows, MarkRows, RecoverRows, AbsorbRows, Leaving, Returning
  <2>b. FrameOf(c)' /\ JobOf(c)'
    BY <1>1, <1>2, <2>1, <2>10, <2>11, <2>12 DEF Cond, FrameOf, JobOf, Flow
  <2>c. GuardOf(c)'
    BY <1>1, <1>2, <2>1, <2>10, <2>11, <2>12, BootIsNoCall DEF Cond, GuardOf, Flow, Released, Proc
  <2>d. KeepsRow
    BY <1>1, <1>2, <2>1, <2>10, <2>11, <2>12 DEF KeepsRow, Ending, Row
  <2>e. JournalOf(c)'
    BY <1>1, <1>2, <2>1, <2>10, <2>11, <2>12, <2>d DEF Cond, JournalOf, Flow, disk, KeepsRow
  <2>f. WorkOf(c)'
    BY <1>1, <1>2, <2>1, <2>10, <2>11, <2>12, BootIsNoCall DEF Cond, WorkOf, GuardOf, Proc,
       Released, Row, Listed, Unlisted, Place, OnFloor, Archived, Gone, Stopped, Rests
  <2>. QED  BY <1>1, <1>2, <2>1, <2>10, <2>11, <2>12, <2>a, <2>b, <2>c, <2>d, <2>e, <2>f, FlowCond
<1>. QED  BY <1>3, <1>4 DEF RmActive

LEMMA RetireKeeps ==
    ASSUME TypeOK, BootInv, NEW c \in Proc, Retire(c), Cond(c), ~upset'
    PROVE  Cond(c)' /\ KeepsRow
<1>1. pc[c] = "retire" /\ Row("offboarding", "offboarding") /\ Unlisted /\ retired.mem = TRUE
        /\ Place("none", "whole") /\ frame[c] \in {"offboard", "offboardFailed", "recover"}
  BY DEF Retire, At, Cond, Table, ArchiveRows, FrameOf
<1>2. \/ c \in Call /\ guard = c /\ job[c] \in {"offboard", "absorb"}
        /\ run \notin {"starting", "live"}
      \/ frame[c] = "recover" /\ c = Boot /\ job[c] = "boot" /\ run = "none" /\ terminal = FALSE
  BY <1>1, HoldsGuard, LaunchIsAlone DEF Cond, FrameOf
<1>10. Flow(c) /\ pc'[c] = "mark" /\ frame'[c] = frame[c]
  BY <1>1, <1>2, GotoFlow DEF Retire, Steps
<1>11. Row("departed", "offboarding")' /\ Unlisted' /\ Retired' /\ Place("none", "whole")'
  BY <1>1, <1>2, <1>10, SetStores, SavedStores DEF Retire, Row, Listed, Unlisted, Retired, Place,
     Leaving, Returning, OnFloor, Archived, Gone, Stopped, Rests, stores, disk, Lives, Transit,
     Stable
<1>12. UNCHANGED <<job, guard, run, terminal, journal, target, left>>
  BY <1>1, <1>2, <1>10 DEF mishaps, Retire, work, disk, stores
<1>a. Table(c)'
  BY <1>1, <1>2, <1>10, <1>11, <1>12 DEF Table, OffboardRows, ArchiveRows, RestoreRows, PurgeRows,
     MarkRows, RecoverRows, AbsorbRows, MarkDeparted, MarkActive, MarkPurged
<1>b. FrameOf(c)' /\ JobOf(c)'
  BY <1>1, <1>2, <1>10, <1>11, <1>12 DEF Cond, FrameOf, JobOf, Flow
<1>c. GuardOf(c)'
  BY <1>1, <1>2, <1>10, <1>11, <1>12, BootIsNoCall DEF Cond, GuardOf, Flow, Released, Proc
<1>d. KeepsRow
  BY <1>1, <1>2, <1>10, <1>11, <1>12 DEF KeepsRow, Ending, Row
<1>e. JournalOf(c)'
  BY <1>1, <1>2, <1>10, <1>11, <1>12, <1>d DEF Cond, JournalOf, Flow, disk, KeepsRow
<1>f. WorkOf(c)'
  BY <1>1, <1>2, <1>10, <1>11, <1>12, BootIsNoCall DEF Cond, WorkOf, GuardOf, Proc, Released, Row,
     Listed, Unlisted, Place, OnFloor, Archived, Gone, Stopped, Rests
<1>. QED  BY <1>1, <1>2, <1>10, <1>11, <1>12, <1>a, <1>b, <1>c, <1>d, <1>e, <1>f, FlowCond

LEMMA MarkKeeps ==
    ASSUME TypeOK, BootInv, NEW c \in Proc, Mark(c), Cond(c), ~upset'
    PROVE  Cond(c)' /\ KeepsRow
<1>1. pc[c] = "mark" /\ (MarkDeparted(c) \/ MarkActive(c) \/ MarkPurged(c))
  BY DEF Mark, At, Cond, Table, MarkRows
<1>2. Return(c) /\ catalog' = Saved(catalog)
  BY <1>1 DEF Mark, MarkDeparted, MarkActive, MarkPurged, Listed
<1>3. CASE MarkDeparted(c) /\ frame[c] = "offboard" /\ job[c] = "absorb"
  <2>1. c \in Call /\ guard = c /\ job[c] \in {"offboard", "absorb"}
          /\ run \notin {"starting", "live"}
    BY <1>1, <1>3, HoldsGuard
  <2>10. Flow(c) /\ pc'[c] = "absCopy" /\ frame'[c] = frame[c] /\ guard' = guard
    BY <1>1, <1>2, <1>3, <2>1, ReturnFlow DEF Mark, Steps
  <2>11. Archived'
    BY <1>1, <1>2, <1>3, <2>1, <2>10, SetStores, SavedStores DEF Mark, Row, Listed, Unlisted,
       Retired, Place, Leaving, Returning, OnFloor, Archived, Gone, Stopped, Rests, stores, disk,
       Lives, Transit, Stable, MarkDeparted, MarkActive, MarkPurged
  <2>12. UNCHANGED <<run, terminal, journal, target, left>>
    BY <1>1, <1>2, <1>3, <2>1, <2>10 DEF mishaps, Mark, work, disk, stores
  <2>a. Table(c)'
    BY <1>1, <1>2, <1>3, <2>1, <2>10, <2>11, <2>12 DEF Table, OffboardRows, ArchiveRows,
       RestoreRows, PurgeRows, MarkRows, RecoverRows, AbsorbRows
  <2>b. FrameOf(c)' /\ JobOf(c)'
    BY <1>1, <1>2, <1>3, <2>1, <2>10, <2>11, <2>12 DEF Cond, FrameOf, JobOf, Flow
  <2>c. GuardOf(c)'
    BY <1>1, <1>2, <1>3, <2>1, <2>10, <2>11, <2>12, BootIsNoCall DEF Cond, GuardOf, Flow, Released,
       Proc
  <2>d. KeepsRow
    BY <1>1, <1>2, <1>3, <2>1, <2>10, <2>11, <2>12 DEF KeepsRow, Ending, Row, OnFloor, Archived,
       Gone, Stopped, Rests, MarkDeparted, MarkActive, MarkPurged
  <2>e. JournalOf(c)'
    BY <1>1, <1>2, <1>3, <2>1, <2>10, <2>11, <2>12, <2>d DEF Cond, JournalOf, Flow, disk, KeepsRow
  <2>f. WorkOf(c)'
    BY <1>1, <1>2, <1>3, <2>1, <2>10, <2>11, <2>12, BootIsNoCall DEF Cond, WorkOf, GuardOf, Proc,
       Released, Row, Listed, Unlisted, Place, OnFloor, Archived, Gone, Stopped, Rests,
       MarkDeparted, MarkActive, MarkPurged
  <2>. QED  BY <1>1, <1>2, <1>3, <2>1, <2>10, <2>11, <2>12, <2>a, <2>b, <2>c, <2>d, <2>e, <2>f,
               FlowCond
<1>4. CASE MarkDeparted(c) /\ frame[c] = "offboardFailed" /\ job[c] = "absorb"
  <2>1. c \in Call /\ guard = c /\ job[c] \in {"offboard", "absorb"}
          /\ run \notin {"starting", "live"}
    BY <1>1, <1>4, HoldsGuard
  <2>10. Flow(c) /\ pc'[c] = "absUndo" /\ frame'[c] = frame[c] /\ guard' = guard
    BY <1>1, <1>2, <1>4, <2>1, ReturnFlow DEF Mark, Steps
  <2>11. Archived'
    BY <1>1, <1>2, <1>4, <2>1, <2>10, SetStores, SavedStores DEF Mark, Row, Listed, Unlisted,
       Retired, Place, Leaving, Returning, OnFloor, Archived, Gone, Stopped, Rests, stores, disk,
       Lives, Transit, Stable, MarkDeparted, MarkActive, MarkPurged
  <2>12. UNCHANGED <<run, terminal, journal, target, left>>
    BY <1>1, <1>2, <1>4, <2>1, <2>10 DEF mishaps, Mark, work, disk, stores
  <2>a. Table(c)'
    BY <1>1, <1>2, <1>4, <2>1, <2>10, <2>11, <2>12 DEF Table, OffboardRows, ArchiveRows,
       RestoreRows, PurgeRows, MarkRows, RecoverRows, AbsorbRows, Rests
  <2>b. FrameOf(c)' /\ JobOf(c)'
    BY <1>1, <1>2, <1>4, <2>1, <2>10, <2>11, <2>12 DEF Cond, FrameOf, JobOf, Flow
  <2>c. GuardOf(c)'
    BY <1>1, <1>2, <1>4, <2>1, <2>10, <2>11, <2>12, BootIsNoCall DEF Cond, GuardOf, Flow, Released,
       Proc
  <2>d. KeepsRow
    BY <1>1, <1>2, <1>4, <2>1, <2>10, <2>11, <2>12 DEF KeepsRow, Ending, Row, OnFloor, Archived,
       Gone, Stopped, Rests, MarkDeparted, MarkActive, MarkPurged
  <2>e. JournalOf(c)'
    BY <1>1, <1>2, <1>4, <2>1, <2>10, <2>11, <2>12, <2>d DEF Cond, JournalOf, Flow, disk, KeepsRow
  <2>f. WorkOf(c)'
    BY <1>1, <1>2, <1>4, <2>1, <2>10, <2>11, <2>12, BootIsNoCall DEF Cond, WorkOf, GuardOf, Proc,
       Released, Row, Listed, Unlisted, Place, OnFloor, Archived, Gone, Stopped, Rests,
       MarkDeparted, MarkActive, MarkPurged
  <2>. QED  BY <1>1, <1>2, <1>4, <2>1, <2>10, <2>11, <2>12, <2>a, <2>b, <2>c, <2>d, <2>e, <2>f,
               FlowCond
<1>5. CASE MarkDeparted(c) /\ frame[c] \in {"offboard", "offboardFailed"} /\ job[c] # "absorb"
  <2>1. c \in Call /\ guard = c /\ job[c] \in {"offboard", "absorb"}
          /\ run \notin {"starting", "live"}
    BY <1>1, <1>5, HoldsGuard
  <2>10. Flow(c) /\ pc'[c] = "done" /\ frame'[c] = frame[c] /\ Released(c)
    BY <1>1, <1>2, <1>5, <2>1, ReturnFlow DEF Mark, Steps
  <2>11. Archived'
    BY <1>1, <1>2, <1>5, <2>1, <2>10, SetStores, SavedStores DEF Mark, Row, Listed, Unlisted,
       Retired, Place, Leaving, Returning, OnFloor, Archived, Gone, Stopped, Rests, stores, disk,
       Lives, Transit, Stable, MarkDeparted, MarkActive, MarkPurged
  <2>12. UNCHANGED <<run, terminal, journal, target, left>>
    BY <1>1, <1>2, <1>5, <2>1, <2>10 DEF mishaps, Mark, work, disk, stores
  <2>a. Table(c)'
    BY <1>1, <1>2, <1>5, <2>1, <2>10, <2>11, <2>12 DEF Table, OffboardRows, ArchiveRows,
       RestoreRows, PurgeRows, MarkRows, RecoverRows, AbsorbRows, OnFloor, Archived, Gone, Stopped,
       Rests, Row, Listed, Unlisted, Retired, Place, Leaving, Returning
  <2>b. FrameOf(c)' /\ JobOf(c)'
    BY <1>1, <1>2, <1>5, <2>1, <2>10, <2>11, <2>12 DEF Cond, FrameOf, JobOf, Flow
  <2>c. GuardOf(c)'
    BY <1>1, <1>2, <1>5, <2>1, <2>10, <2>11, <2>12, BootIsNoCall DEF Cond, GuardOf, Flow, Released,
       Proc
  <2>d. KeepsRow
    BY <1>1, <1>2, <1>5, <2>1, <2>10, <2>11, <2>12 DEF KeepsRow, Ending, Row, OnFloor, Archived,
       Gone, Stopped, Rests, MarkDeparted, MarkActive, MarkPurged
  <2>e. JournalOf(c)'
    BY <1>1, <1>2, <1>5, <2>1, <2>10, <2>11, <2>12, <2>d DEF Cond, JournalOf, Flow, disk, KeepsRow
  <2>f. WorkOf(c)'
    BY <1>1, <1>2, <1>5, <2>1, <2>10, <2>11, <2>12, BootIsNoCall DEF Cond, WorkOf, GuardOf, Proc,
       Released, Row, Listed, Unlisted, Place, OnFloor, Archived, Gone, Stopped, Rests,
       MarkDeparted, MarkActive, MarkPurged
  <2>. QED  BY <1>1, <1>2, <1>5, <2>1, <2>10, <2>11, <2>12, <2>a, <2>b, <2>c, <2>d, <2>e, <2>f,
               FlowCond
<1>6. CASE MarkActive(c) /\ frame[c] \in {"restore", "restoreFailed"}
  <2>1. pc[c] # "load"
    BY <1>1
  <2>10. Flow(c) /\ pc'[c] = "done" /\ frame'[c] = frame[c] /\ Released(c)
    BY <1>1, <1>2, <1>6, <2>1, ReturnFlow DEF Mark, Steps
  <2>11. OnFloor'
    BY <1>1, <1>2, <1>6, <2>1, <2>10, SetStores, SavedStores DEF Mark, Row, Listed, Unlisted,
       Retired, Place, Leaving, Returning, OnFloor, Archived, Gone, Stopped, Rests, stores, disk,
       Lives, Transit, Stable, MarkDeparted, MarkActive, MarkPurged
  <2>12. UNCHANGED <<run, terminal, journal, target, left>>
    BY <1>1, <1>2, <1>6, <2>1, <2>10 DEF mishaps, Mark, work, disk, stores
  <2>a. Table(c)'
    BY <1>1, <1>2, <1>6, <2>1, <2>10, <2>11, <2>12 DEF Table, OffboardRows, ArchiveRows,
       RestoreRows, PurgeRows, MarkRows, RecoverRows, AbsorbRows, OnFloor, Archived, Gone, Stopped,
       Rests, Row, Listed, Unlisted, Retired, Place, Leaving, Returning
  <2>b. FrameOf(c)' /\ JobOf(c)'
    BY <1>1, <1>2, <1>6, <2>1, <2>10, <2>11, <2>12 DEF Cond, FrameOf, JobOf, Flow
  <2>c. GuardOf(c)'
    BY <1>1, <1>2, <1>6, <2>1, <2>10, <2>11, <2>12, BootIsNoCall DEF Cond, GuardOf, Flow, Released,
       Proc
  <2>d. KeepsRow
    BY <1>1, <1>2, <1>6, <2>1, <2>10, <2>11, <2>12 DEF KeepsRow, Ending, Row, OnFloor, Archived,
       Gone, Stopped, Rests, MarkDeparted, MarkActive, MarkPurged
  <2>e. JournalOf(c)'
    BY <1>1, <1>2, <1>6, <2>1, <2>10, <2>11, <2>12, <2>d DEF Cond, JournalOf, Flow, disk, KeepsRow
  <2>f. WorkOf(c)'
    BY <1>1, <1>2, <1>6, <2>1, <2>10, <2>11, <2>12, BootIsNoCall DEF Cond, WorkOf, GuardOf, Proc,
       Released, Row, Listed, Unlisted, Place, OnFloor, Archived, Gone, Stopped, Rests,
       MarkDeparted, MarkActive, MarkPurged
  <2>. QED  BY <1>1, <1>2, <1>6, <2>1, <2>10, <2>11, <2>12, <2>a, <2>b, <2>c, <2>d, <2>e, <2>f,
               FlowCond
<1>7. CASE MarkPurged(c) /\ frame[c] = "purge"
  <2>1. job[c] \in Jobs
    BY DEF TypeOK, Proc
  <2>2. job[c] = "purge"
    BY <1>1, <1>7, <2>1 DEF Cond, JobOf, Jobs
  <2>3. pc[c] # "load"
    BY <1>1
  <2>10. Flow(c) /\ pc'[c] = "done" /\ frame'[c] = frame[c] /\ Released(c)
    BY <1>1, <1>2, <1>7, <2>1, <2>2, <2>3, ReturnFlow DEF Mark, Steps
  <2>11. Gone'
    BY <1>1, <1>2, <1>7, <2>1, <2>2, <2>3, <2>10, SetStores, SavedStores DEF Mark, Row, Listed,
       Unlisted, Retired, Place, Leaving, Returning, OnFloor, Archived, Gone, Stopped, Rests,
       stores, disk, Lives, Transit, Stable, MarkDeparted, MarkActive, MarkPurged
  <2>12. UNCHANGED <<run, terminal, journal, target, left>>
    BY <1>1, <1>2, <1>7, <2>1, <2>2, <2>3, <2>10 DEF mishaps, Mark, work, disk, stores
  <2>a. Table(c)'
    BY <1>1, <1>2, <1>7, <2>1, <2>2, <2>3, <2>10, <2>11, <2>12 DEF Table, OffboardRows, ArchiveRows,
       RestoreRows, PurgeRows, MarkRows, RecoverRows, AbsorbRows, OnFloor, Archived, Gone, Stopped,
       Rests, Row, Listed, Unlisted, Retired, Place, Leaving, Returning
  <2>b. FrameOf(c)' /\ JobOf(c)'
    BY <1>1, <1>2, <1>7, <2>1, <2>2, <2>3, <2>10, <2>11, <2>12 DEF Cond, FrameOf, JobOf, Flow
  <2>c. GuardOf(c)'
    BY <1>1, <1>2, <1>7, <2>1, <2>2, <2>3, <2>10, <2>11, <2>12, BootIsNoCall DEF Cond, GuardOf,
       Flow, Released, Proc
  <2>d. KeepsRow
    BY <1>1, <1>2, <1>7, <2>1, <2>2, <2>3, <2>10, <2>11, <2>12 DEF KeepsRow, Ending, Row, OnFloor,
       Archived, Gone, Stopped, Rests, MarkDeparted, MarkActive, MarkPurged
  <2>e. JournalOf(c)'
    BY <1>1, <1>2, <1>7, <2>1, <2>2, <2>3, <2>10, <2>11, <2>12, <2>d DEF Cond, JournalOf, Flow,
       disk, KeepsRow
  <2>f. WorkOf(c)'
    BY <1>1, <1>2, <1>7, <2>1, <2>2, <2>3, <2>10, <2>11, <2>12, BootIsNoCall DEF Cond, WorkOf,
       GuardOf, Proc, Released, Row, Listed, Unlisted, Place, OnFloor, Archived, Gone, Stopped,
       Rests, MarkDeparted, MarkActive, MarkPurged
  <2>. QED  BY <1>1, <1>2, <1>7, <2>1, <2>2, <2>3, <2>10, <2>11, <2>12, <2>a, <2>b, <2>c, <2>d,
               <2>e, <2>f, FlowCond
<1>8. CASE frame[c] = "recover"
  <2>1. c = Boot /\ job[c] = "boot" /\ run = "none" /\ terminal = FALSE
    BY <1>1, <1>8, LaunchIsAlone
  <2>10. Flow(c) /\ pc'[c] = "bootAbsorb" /\ frame'[c] = frame[c] /\ guard' = guard
    BY <1>1, <1>2, <1>8, <2>1, ReturnFlow DEF Mark, Steps
  <2>11. Rests' /\ catalog'.mem = catalog.mem /\ catalog'.file = catalog.mem
    BY <1>1, <1>2, <1>8, <2>1, <2>10, SetStores, SavedStores DEF Mark, Row, Listed, Unlisted,
       Retired, Place, Leaving, Returning, OnFloor, Archived, Gone, Stopped, Rests, stores, disk,
       Lives, Transit, Stable, MarkDeparted, MarkActive, MarkPurged
  <2>12. UNCHANGED <<run, terminal, journal, target, left>>
    BY <1>1, <1>2, <1>8, <2>1, <2>10 DEF mishaps, Mark, work, disk, stores
  <2>a. Table(c)'
    BY <1>1, <1>2, <1>8, <2>1, <2>10, <2>11, <2>12 DEF Table, OffboardRows, ArchiveRows,
       RestoreRows, PurgeRows, MarkRows, RecoverRows, AbsorbRows, Rests
  <2>b. FrameOf(c)' /\ JobOf(c)'
    BY <1>1, <1>2, <1>8, <2>1, <2>10, <2>11, <2>12 DEF Cond, FrameOf, JobOf, Flow
  <2>c. GuardOf(c)'
    BY <1>1, <1>2, <1>8, <2>1, <2>10, <2>11, <2>12, BootIsNoCall DEF Cond, GuardOf, Flow, Released,
       Proc
  <2>d. KeepsRow
    BY <1>1, <1>2, <1>8, <2>1, <2>10, <2>11, <2>12 DEF KeepsRow, Ending, Row
  <2>e. JournalOf(c)'
    BY <1>1, <1>2, <1>8, <2>1, <2>10, <2>11, <2>12, <2>d DEF Cond, JournalOf, Flow, disk, KeepsRow
  <2>f. WorkOf(c)'
    BY <1>1, <1>2, <1>8, <2>1, <2>10, <2>11, <2>12, BootIsNoCall DEF Cond, WorkOf, GuardOf, Proc,
       Released
  <2>. QED  BY <1>1, <1>2, <1>8, <2>1, <2>10, <2>11, <2>12, <2>a, <2>b, <2>c, <2>d, <2>e, <2>f,
               FlowCond
<1>. QED  BY <1>1, <1>3, <1>4, <1>5, <1>6, <1>7, <1>8 DEF MarkDeparted, MarkActive, MarkPurged

LEMMA ResSaveKeeps ==
    ASSUME TypeOK, BootInv, NEW c \in Proc, ResSave(c), Cond(c), ~upset'
    PROVE  Cond(c)' /\ KeepsRow
<1>1. pc[c] = "resSave" /\ Row("restoring", "departed") /\ Unlisted /\ Retired
        /\ Place("none", "whole") /\ frame[c] = "restore"
  BY DEF ResSave, At, Cond, Table, RestoreRows, FrameOf
<1>10. Flow(c) /\ pc'[c] = "moveBack" /\ frame'[c] = frame[c]
  BY <1>1, GotoFlow DEF ResSave, Steps
<1>11. Row("restoring", "restoring")' /\ Unlisted' /\ Place("none", "whole")'
  BY <1>1, <1>10, SetStores, SavedStores DEF ResSave, Row, Listed, Unlisted, Retired, Place,
     Leaving, Returning, OnFloor, Archived, Gone, Stopped, Rests, stores, disk, Lives, Transit,
     Stable
<1>12. UNCHANGED <<job, guard, run, terminal, journal, target, left>>
  BY <1>1, <1>10 DEF mishaps, ResSave, work, disk, stores
<1>a. Table(c)'
  BY <1>1, <1>10, <1>11, <1>12 DEF Table, OffboardRows, ArchiveRows, RestoreRows, PurgeRows,
     MarkRows, RecoverRows, AbsorbRows
<1>b. FrameOf(c)' /\ JobOf(c)'
  BY <1>1, <1>10, <1>11, <1>12 DEF Cond, FrameOf, JobOf, Flow
<1>c. GuardOf(c)'
  BY <1>1, <1>10, <1>11, <1>12, BootIsNoCall DEF Cond, GuardOf, Flow, Released, Proc
<1>d. KeepsRow
  BY <1>1, <1>10, <1>11, <1>12 DEF KeepsRow, Ending, Row
<1>e. JournalOf(c)'
  BY <1>1, <1>10, <1>11, <1>12, <1>d DEF Cond, JournalOf, Flow, disk, KeepsRow
<1>f. WorkOf(c)'
  BY <1>1, <1>10, <1>11, <1>12, BootIsNoCall DEF Cond, WorkOf, GuardOf, Proc, Released, Row, Listed,
     Unlisted, Place, OnFloor, Archived, Gone, Stopped, Rests
<1>. QED  BY <1>1, <1>10, <1>11, <1>12, <1>a, <1>b, <1>c, <1>d, <1>e, <1>f, FlowCond

LEMMA MoveBackKeeps ==
    ASSUME TypeOK, BootInv, NEW c \in Proc, MoveBack(c), Cond(c), ~upset'
    PROVE  Cond(c)' /\ KeepsRow
<1>1. pc[c] = "moveBack" /\ Row("restoring", "restoring") /\ Unlisted
        /\ Place("none", "whole") /\ frame[c] \in {"restore", "restoreFailed", "recover"}
  BY DEF MoveBack, At, Cond, Table, RestoreRows, FrameOf
<1>2. frame[c] = "recover" => frame[c] = "recover" /\ c = Boot /\ job[c] = "boot"
        /\ run = "none" /\ terminal = FALSE
  BY <1>1, LaunchIsAlone
<1>3. CASE dir' = Moved("departed", "active") /\ Add(c) /\ UNCHANGED catalog
  <2>10. Flow(c) /\ pc'[c] = "add" /\ frame'[c] = frame[c] /\ guard' = guard
         /\ registry'.mem = TRUE
    BY <1>1, <1>2, <1>3, AddFlow DEF MoveBack, Steps, Frames, Row, Listed, Unlisted, Retired, Place,
       Leaving, Returning, OnFloor, Archived, Gone, Stopped, Rests
  <2>11. Row("restoring", "restoring")' /\ Place("whole", "none")'
    BY <1>1, <1>2, <1>3, <2>10, TypeParts, SetStores, SavedStores, MovedPlaces DEF MoveBack, Row,
       Listed, Unlisted, Retired, Place, Leaving, Returning, OnFloor, Archived, Gone, Stopped,
       Rests, StoreTypes, DiskTypes, stores, disk, Lives, Transit, Stable, Flow
  <2>12. UNCHANGED <<job, guard, run, terminal, journal, target, left>>
    BY <1>1, <1>2, <1>3, <2>10 DEF mishaps, MoveBack, work, disk, stores, Row, Listed, Unlisted,
       Retired, Place, Leaving, Returning, OnFloor, Archived, Gone, Stopped, Rests, Flow
  <2>a. Table(c)'
    BY <1>1, <1>2, <1>3, <2>10, <2>11, <2>12 DEF Table, OffboardRows, ArchiveRows, RestoreRows,
       PurgeRows, MarkRows, RecoverRows, AbsorbRows
  <2>b. FrameOf(c)' /\ JobOf(c)'
    BY <1>1, <1>2, <1>3, <2>10, <2>11, <2>12 DEF Cond, FrameOf, JobOf, Flow
  <2>c. GuardOf(c)'
    BY <1>1, <1>2, <1>3, <2>10, <2>11, <2>12, BootIsNoCall DEF Cond, GuardOf, Flow, Released, Proc
  <2>d. KeepsRow
    BY <1>1, <1>2, <1>3, <2>10, <2>11, <2>12 DEF KeepsRow, Ending, Row
  <2>e. JournalOf(c)'
    BY <1>1, <1>2, <1>3, <2>10, <2>11, <2>12, <2>d DEF Cond, JournalOf, Flow, disk, KeepsRow
  <2>f. WorkOf(c)'
    BY <1>1, <1>2, <1>3, <2>10, <2>11, <2>12, BootIsNoCall DEF Cond, WorkOf, GuardOf, Proc, Released
  <2>. QED  BY <1>1, <1>2, <1>3, <2>10, <2>11, <2>12, <2>a, <2>b, <2>c, <2>d, <2>e, <2>f, FlowCond
<1>4. CASE dir' = Copied("departed", "active") /\ Goto(c, "rmDeparted")
           /\ UNCHANGED <<job, frame, guard, stores>>
  <2>10. Flow(c) /\ pc'[c] = "rmDeparted" /\ frame'[c] = frame[c]
    BY <1>1, <1>2, <1>4, GotoFlow DEF MoveBack, Steps
  <2>11. Row("restoring", "restoring")' /\ Unlisted' /\ Place("whole", "whole")'
    BY <1>1, <1>2, <1>4, <2>10, TypeParts, SetStores, SavedStores, CopiedPlaces DEF MoveBack, Row,
       Listed, Unlisted, Retired, Place, Leaving, Returning, OnFloor, Archived, Gone, Stopped,
       Rests, StoreTypes, DiskTypes, stores, disk, Lives, Transit, Stable
  <2>12. UNCHANGED <<job, guard, run, terminal, journal, target, left>>
    BY <1>1, <1>2, <1>4, <2>10 DEF mishaps, MoveBack, work, disk, stores
  <2>a. Table(c)'
    BY <1>1, <1>2, <1>4, <2>10, <2>11, <2>12 DEF Table, OffboardRows, ArchiveRows, RestoreRows,
       PurgeRows, MarkRows, RecoverRows, AbsorbRows, Place
  <2>b. FrameOf(c)' /\ JobOf(c)'
    BY <1>1, <1>2, <1>4, <2>10, <2>11, <2>12 DEF Cond, FrameOf, JobOf, Flow
  <2>c. GuardOf(c)'
    BY <1>1, <1>2, <1>4, <2>10, <2>11, <2>12, BootIsNoCall DEF Cond, GuardOf, Flow, Released, Proc
  <2>d. KeepsRow
    BY <1>1, <1>2, <1>4, <2>10, <2>11, <2>12 DEF KeepsRow, Ending, Row
  <2>e. JournalOf(c)'
    BY <1>1, <1>2, <1>4, <2>10, <2>11, <2>12, <2>d DEF Cond, JournalOf, Flow, disk, KeepsRow
  <2>f. WorkOf(c)'
    BY <1>1, <1>2, <1>4, <2>10, <2>11, <2>12, BootIsNoCall DEF Cond, WorkOf, GuardOf, Proc,
       Released, Row, Listed, Unlisted, Place, OnFloor, Archived, Gone, Stopped, Rests
  <2>. QED  BY <1>1, <1>2, <1>4, <2>10, <2>11, <2>12, <2>a, <2>b, <2>c, <2>d, <2>e, <2>f, FlowCond
<1>5. CASE MoveFails(c, "departed", "active")
  <2>1. Throw(c) /\ UNCHANGED <<stores, dir>>
    BY <1>5 DEF MoveFails
  <2>10. /\ Flow(c) /\ frame[c] = "restore" /\ guard' = guard
         /\ pc'[c] = "rec" /\ frame'[c] = "restoreFailed" 
    BY <1>1, <1>2, <2>1, ThrowFlow DEF MoveBack, Steps
  <2>11. Row("restoring", "restoring")' /\ Unlisted' /\ Place("none", "whole")'
    BY <1>1, <1>2, <2>1, <2>10, SetStores, SavedStores DEF MoveBack, Row, Listed, Unlisted, Retired,
       Place, Leaving, Returning, OnFloor, Archived, Gone, Stopped, Rests, stores, disk, Lives,
       Transit, Stable, Flow
  <2>12. UNCHANGED <<job, guard, run, terminal, journal, target, left>>
    BY <1>1, <1>2, <2>1, <2>10 DEF mishaps, MoveBack, work, disk, stores, Row, Listed, Unlisted,
       Retired, Place, Leaving, Returning, OnFloor, Archived, Gone, Stopped, Rests, Flow
  <2>a. Table(c)'
    BY <1>1, <1>2, <2>1, <2>10, <2>11, <2>12 DEF Table, OffboardRows, ArchiveRows, RestoreRows,
       PurgeRows, MarkRows, RecoverRows, AbsorbRows, Place, Returning
  <2>b. FrameOf(c)' /\ JobOf(c)'
    BY <1>1, <1>2, <2>1, <2>10, <2>11, <2>12 DEF Cond, FrameOf, JobOf, Flow
  <2>c. GuardOf(c)'
    BY <1>1, <1>2, <2>1, <2>10, <2>11, <2>12, BootIsNoCall DEF Cond, GuardOf, Flow, Released, Proc
  <2>d. KeepsRow
    BY <1>1, <1>2, <2>1, <2>10, <2>11, <2>12 DEF KeepsRow, Ending, Row
  <2>e. JournalOf(c)'
    BY <1>1, <1>2, <2>1, <2>10, <2>11, <2>12, <2>d DEF Cond, JournalOf, Flow, disk, KeepsRow
  <2>f. WorkOf(c)'
    BY <1>1, <1>2, <2>1, <2>10, <2>11, <2>12, BootIsNoCall DEF Cond, WorkOf, GuardOf, Proc,
       Released, Row, Listed, Unlisted, Place, OnFloor, Archived, Gone, Stopped, Rests
  <2>. QED  BY <1>1, <1>2, <2>1, <2>10, <2>11, <2>12, <2>a, <2>b, <2>c, <2>d, <2>e, <2>f, FlowCond
<1>. QED  BY <1>3, <1>4, <1>5 DEF MoveBack

LEMMA RmDepartedKeeps ==
    ASSUME TypeOK, BootInv, NEW c \in Proc, RmDeparted(c), Cond(c), ~upset'
    PROVE  Cond(c)' /\ KeepsRow
<1>1. pc[c] = "rmDeparted" /\ Row("restoring", "restoring") /\ Unlisted
        /\ dir["active"] = "whole" /\ frame[c] \in {"restore", "restoreFailed", "recover"}
  BY DEF RmDeparted, At, Cond, Table, ArchiveRows, RestoreRows, FrameOf
<1>2. frame[c] = "recover" => c = Boot /\ job[c] = "boot" /\ run = "none" /\ terminal = FALSE
  BY <1>1, LaunchIsAlone
<1>3. CASE /\ dir' = [dir EXCEPT !["departed"] = "none"] /\ Add(c) /\ UNCHANGED catalog
  <2>10. Flow(c) /\ pc'[c] = "add" /\ frame'[c] = frame[c] /\ guard' = guard
         /\ registry'.mem = TRUE
    BY <1>1, <1>3, AddFlow DEF Unlisted
  <2>11. Row("restoring", "restoring")' /\ Place("whole", "none")'
    BY <1>1, <1>3, TypeParts, OtherPlaces DEF Row, Place, DiskTypes
  <2>12. UNCHANGED <<job, guard, run, terminal, journal, target, left>>
    BY <1>1, <1>2, <1>3, <2>10 DEF mishaps, RmDeparted, work, disk, stores, Flow
  <2>a. Table(c)'
    BY <1>1, <1>2, <1>3, <2>10, <2>11, <2>12 DEF Table, OffboardRows, ArchiveRows, RestoreRows,
       PurgeRows, MarkRows, RecoverRows, AbsorbRows
  <2>b. FrameOf(c)' /\ JobOf(c)'
    BY <1>1, <1>2, <1>3, <2>10, <2>11, <2>12 DEF Cond, FrameOf, JobOf, Flow
  <2>c. GuardOf(c)'
    BY <1>1, <1>2, <1>3, <2>10, <2>11, <2>12, BootIsNoCall DEF Cond, GuardOf, Flow, Released, Proc
  <2>d. KeepsRow
    BY <1>1, <1>2, <1>3, <2>10, <2>11, <2>12 DEF KeepsRow, Ending, Row
  <2>e. JournalOf(c)'
    BY <1>1, <1>2, <1>3, <2>10, <2>11, <2>12, <2>d DEF Cond, JournalOf, Flow, disk, KeepsRow
  <2>f. WorkOf(c)'
    BY <1>1, <1>2, <1>3, <2>10, <2>11, <2>12, BootIsNoCall DEF Cond, WorkOf, GuardOf, Proc,
       Released, Row, Listed, Unlisted, Place, OnFloor, Archived, Gone, Stopped, Rests
  <2>. QED  BY <1>1, <1>2, <1>3, <2>10, <2>11, <2>12, <2>a, <2>b, <2>c, <2>d, <2>e, <2>f, FlowCond
<1>4. CASE RemovalFails(c, "departed")
  <2>1. Throw(c) /\ UNCHANGED stores
    BY <1>4 DEF RemovalFails
  <2>10. /\ Flow(c) /\ frame[c] = "restore" /\ guard' = guard
         /\ pc'[c] = "rec" /\ frame'[c] = "restoreFailed"
    BY <1>1, <1>2, <2>1, ThrowFlow
  <2>11. Row("restoring", "restoring")' /\ Unlisted' /\ dir'["active"] = "whole"
    BY <1>1, <1>4, <2>1, RemovalFailsType DEF Row, Unlisted, stores
  <2>12. UNCHANGED <<job, guard, run, terminal, journal, target, left>>
    BY <1>1, <1>2, <2>1, <2>10 DEF mishaps, RmDeparted, work, disk, Flow
  <2>a. Table(c)'
    BY <1>1, <1>2, <2>1, <2>10, <2>11, <2>12 DEF Table, OffboardRows, ArchiveRows, RestoreRows,
       PurgeRows, MarkRows, RecoverRows, AbsorbRows, Leaving, Returning
  <2>b. FrameOf(c)' /\ JobOf(c)'
    BY <1>1, <1>2, <2>1, <2>10, <2>11, <2>12 DEF Cond, FrameOf, JobOf, Flow
  <2>c. GuardOf(c)'
    BY <1>1, <1>2, <2>1, <2>10, <2>11, <2>12, BootIsNoCall DEF Cond, GuardOf, Flow, Released, Proc
  <2>d. KeepsRow
    BY <1>1, <1>2, <2>1, <2>10, <2>11, <2>12 DEF KeepsRow, Ending, Row
  <2>e. JournalOf(c)'
    BY <1>1, <1>2, <2>1, <2>10, <2>11, <2>12, <2>d DEF Cond, JournalOf, Flow, disk, KeepsRow
  <2>f. WorkOf(c)'
    BY <1>1, <1>2, <2>1, <2>10, <2>11, <2>12, BootIsNoCall DEF Cond, WorkOf, GuardOf, Proc,
       Released, Row, Listed, Unlisted, Place, OnFloor, Archived, Gone, Stopped, Rests
  <2>. QED  BY <1>1, <1>2, <2>1, <2>10, <2>11, <2>12, <2>a, <2>b, <2>c, <2>d, <2>e, <2>f, FlowCond
<1>. QED  BY <1>3, <1>4 DEF RmDeparted

LEMMA AddedKeeps ==
    ASSUME TypeOK, BootInv, NEW c \in Proc, Added(c), Cond(c), ~upset'
    PROVE  Cond(c)' /\ KeepsRow
<1>1. pc[c] = "add" /\ Row("restoring", "restoring") /\ registry.mem = TRUE
        /\ Place("whole", "none") /\ frame[c] \in {"restore", "restoreFailed", "recover"}
  BY DEF Added, At, Cond, Table, RestoreRows, FrameOf
<1>2. frame[c] = "recover" => frame[c] = "recover" /\ c = Boot /\ job[c] = "boot"
        /\ run = "none" /\ terminal = FALSE
  BY <1>1, LaunchIsAlone
<1>10. Flow(c) /\ pc'[c] = "recall" /\ frame'[c] = frame[c]
  BY <1>1, <1>2, GotoFlow DEF Added, Steps
<1>11. Row("restoring", "restoring")' /\ Listed' /\ Place("whole", "none")'
  BY <1>1, <1>2, <1>10, SetStores, SavedStores DEF Added, Row, Listed, Unlisted, Retired, Place,
     Leaving, Returning, OnFloor, Archived, Gone, Stopped, Rests, stores, disk, Lives, Transit,
     Stable
<1>12. UNCHANGED <<job, guard, run, terminal, journal, target, left>>
  BY <1>1, <1>2, <1>10 DEF mishaps, Added, work, disk, stores
<1>a. Table(c)'
  BY <1>1, <1>2, <1>10, <1>11, <1>12 DEF Table, OffboardRows, ArchiveRows, RestoreRows, PurgeRows,
     MarkRows, RecoverRows, AbsorbRows
<1>b. FrameOf(c)' /\ JobOf(c)'
  BY <1>1, <1>2, <1>10, <1>11, <1>12 DEF Cond, FrameOf, JobOf, Flow
<1>c. GuardOf(c)'
  BY <1>1, <1>2, <1>10, <1>11, <1>12, BootIsNoCall DEF Cond, GuardOf, Flow, Released, Proc
<1>d. KeepsRow
  BY <1>1, <1>2, <1>10, <1>11, <1>12 DEF KeepsRow, Ending, Row
<1>e. JournalOf(c)'
  BY <1>1, <1>2, <1>10, <1>11, <1>12, <1>d DEF Cond, JournalOf, Flow, disk, KeepsRow
<1>f. WorkOf(c)'
  BY <1>1, <1>2, <1>10, <1>11, <1>12, BootIsNoCall DEF Cond, WorkOf, GuardOf, Proc, Released, Row,
     Listed, Unlisted, Place, OnFloor, Archived, Gone, Stopped, Rests
<1>. QED  BY <1>1, <1>2, <1>10, <1>11, <1>12, <1>a, <1>b, <1>c, <1>d, <1>e, <1>f, FlowCond

LEMMA RecallKeeps ==
    ASSUME TypeOK, BootInv, NEW c \in Proc, Recall(c), Cond(c), ~upset'
    PROVE  Cond(c)' /\ KeepsRow
<1>1. pc[c] = "recall" /\ Row("restoring", "restoring") /\ Listed /\ Place("whole", "none")
        /\ frame[c] \in {"restore", "restoreFailed", "recover"}
  BY DEF Recall, At, Cond, Table, RestoreRows, FrameOf
<1>2. frame[c] = "recover" => frame[c] = "recover" /\ c = Boot /\ job[c] = "boot"
        /\ run = "none" /\ terminal = FALSE
  BY <1>1, LaunchIsAlone
<1>10. Flow(c) /\ pc'[c] = "mark" /\ frame'[c] = frame[c]
  BY <1>1, <1>2, GotoFlow DEF Recall, Steps
<1>11. Row("active", "restoring")' /\ Listed' /\ Place("whole", "none")'
  BY <1>1, <1>2, <1>10, SetStores, SavedStores DEF Recall, Row, Listed, Unlisted, Retired, Place,
     Leaving, Returning, OnFloor, Archived, Gone, Stopped, Rests, stores, disk, Lives, Transit,
     Stable
<1>12. UNCHANGED <<job, guard, run, terminal, journal, target, left>>
  BY <1>1, <1>2, <1>10 DEF mishaps, Recall, work, disk, stores
<1>a. Table(c)'
  BY <1>1, <1>2, <1>10, <1>11, <1>12 DEF Table, OffboardRows, ArchiveRows, RestoreRows, PurgeRows,
     MarkRows, RecoverRows, AbsorbRows, MarkDeparted, MarkActive, MarkPurged
<1>b. FrameOf(c)' /\ JobOf(c)'
  BY <1>1, <1>2, <1>10, <1>11, <1>12 DEF Cond, FrameOf, JobOf, Flow
<1>c. GuardOf(c)'
  BY <1>1, <1>2, <1>10, <1>11, <1>12, BootIsNoCall DEF Cond, GuardOf, Flow, Released, Proc
<1>d. KeepsRow
  BY <1>1, <1>2, <1>10, <1>11, <1>12 DEF KeepsRow, Ending, Row
<1>e. JournalOf(c)'
  BY <1>1, <1>2, <1>10, <1>11, <1>12, <1>d DEF Cond, JournalOf, Flow, disk, KeepsRow
<1>f. WorkOf(c)'
  BY <1>1, <1>2, <1>10, <1>11, <1>12, BootIsNoCall DEF Cond, WorkOf, GuardOf, Proc, Released, Row,
     Listed, Unlisted, Place, OnFloor, Archived, Gone, Stopped, Rests
<1>. QED  BY <1>1, <1>2, <1>10, <1>11, <1>12, <1>a, <1>b, <1>c, <1>d, <1>e, <1>f, FlowCond

LEMMA PurgeSaveKeeps ==
    ASSUME TypeOK, BootInv, NEW c \in Proc, PurgeSave(c), Cond(c), ~upset'
    PROVE  Cond(c)' /\ KeepsRow
<1>1. pc[c] = "purgeSave" /\ catalog.mem = "purging" /\ Unlisted /\ dir["active"] = "none"
        /\ frame[c] = "purge"
  BY DEF PurgeSave, At, Cond, Table, PurgeRows, FrameOf, Place
<1>10. Flow(c) /\ pc'[c] = "purgeRm" /\ frame'[c] = frame[c]
  BY <1>1, GotoFlow DEF PurgeSave, Steps
<1>11. Row("purging", "purging")' /\ Unlisted' /\ dir'["active"] = "none"
  BY <1>1, <1>10, SetStores, SavedStores DEF PurgeSave, Row, Listed, Unlisted, Retired, Place,
     Leaving, Returning, OnFloor, Archived, Gone, Stopped, Rests, stores, disk, Lives, Transit,
     Stable
<1>12. UNCHANGED <<job, guard, run, terminal, journal, target, left>>
  BY <1>1, <1>10 DEF mishaps, PurgeSave, work, disk, stores
<1>a. Table(c)'
  BY <1>1, <1>10, <1>11, <1>12 DEF Table, OffboardRows, ArchiveRows, RestoreRows, PurgeRows,
     MarkRows, RecoverRows, AbsorbRows
<1>b. FrameOf(c)' /\ JobOf(c)'
  BY <1>1, <1>10, <1>11, <1>12 DEF Cond, FrameOf, JobOf, Flow
<1>c. GuardOf(c)'
  BY <1>1, <1>10, <1>11, <1>12, BootIsNoCall DEF Cond, GuardOf, Flow, Released, Proc
<1>d. KeepsRow
  BY <1>1, <1>10, <1>11, <1>12 DEF KeepsRow, Ending, Row
<1>e. JournalOf(c)'
  BY <1>1, <1>10, <1>11, <1>12, <1>d DEF Cond, JournalOf, Flow, disk, KeepsRow
<1>f. WorkOf(c)'
  BY <1>1, <1>10, <1>11, <1>12, BootIsNoCall DEF Cond, WorkOf, GuardOf, Proc, Released, Row, Listed,
     Unlisted, Place, OnFloor, Archived, Gone, Stopped, Rests
<1>. QED  BY <1>1, <1>10, <1>11, <1>12, <1>a, <1>b, <1>c, <1>d, <1>e, <1>f, FlowCond

LEMMA PurgeRmKeeps ==
    ASSUME TypeOK, BootInv, NEW c \in Proc, PurgeRm(c), Cond(c), ~upset'
    PROVE  Cond(c)' /\ KeepsRow
<1>1. pc[c] = "purgeRm" /\ Row("purging", "purging") /\ Unlisted /\ dir["active"] = "none"
        /\ frame[c] \in {"purge", "recover"}
  BY DEF PurgeRm, At, Cond, Table, PurgeRows, FrameOf
<1>2. frame[c] = "recover" => c = Boot /\ job[c] = "boot" /\ run = "none" /\ terminal = FALSE
  BY <1>1, LaunchIsAlone
<1>0. job[c] \in Jobs
  BY DEF TypeOK, Proc
<1>3. CASE /\ dir' = [dir EXCEPT !["departed"] = "none"] /\ catalog' = Set(catalog, "purged")
           /\ Goto(c, "mark") /\ NothingFails /\ UNCHANGED <<job, frame, guard>>
  <2>10. Flow(c) /\ pc'[c] = "mark" /\ frame'[c] = frame[c]
    BY <1>1, <1>3, GotoFlow DEF Steps
  <2>11. Row("purged", "purging")' /\ Unlisted' /\ Place("none", "none")'
    BY <1>1, <1>3, TypeParts, SetStores, OtherPlaces DEF PurgeRm, Row, Unlisted, Place, DiskTypes,
       Lives, Stable
  <2>12. UNCHANGED <<job, guard, run, terminal, journal, target, left>>
    BY <1>1, <1>3 DEF PurgeRm, work, NothingFails
  <2>a. Table(c)'
    BY <1>1, <1>2, <1>3, <2>10, <2>11, <2>12 DEF Table, OffboardRows, ArchiveRows, RestoreRows,
       PurgeRows, MarkRows, RecoverRows, AbsorbRows, MarkDeparted, MarkActive, MarkPurged
  <2>b. FrameOf(c)' /\ JobOf(c)'
    BY <1>1, <1>2, <1>3, <2>10, <2>11, <2>12 DEF Cond, FrameOf, JobOf, Flow
  <2>c. GuardOf(c)'
    BY <1>1, <1>2, <1>3, <2>10, <2>11, <2>12, BootIsNoCall DEF Cond, GuardOf, Flow, Released, Proc
  <2>d. KeepsRow
    BY <1>1, <1>2, <1>3, <2>10, <2>11, <2>12 DEF KeepsRow, Ending, Row
  <2>e. JournalOf(c)'
    BY <1>1, <1>2, <1>3, <2>10, <2>11, <2>12, <2>d DEF Cond, JournalOf, Flow, disk, KeepsRow
  <2>f. WorkOf(c)'
    BY <1>1, <1>2, <1>3, <2>10, <2>11, <2>12, BootIsNoCall DEF Cond, WorkOf, GuardOf, Proc,
       Released, Row, Listed, Unlisted, Place, OnFloor, Archived, Gone, Stopped, Rests
  <2>. QED  BY <1>1, <1>2, <1>3, <2>10, <2>11, <2>12, <2>a, <2>b, <2>c, <2>d, <2>e, <2>f, FlowCond
<1>4. CASE /\ LeftUndone("purge") /\ Return(c) /\ UNCHANGED catalog
           /\ \E rest \in {dir["departed"], "husk", "none"} :
                 dir' = [dir EXCEPT !["departed"] = rest]
  <2>10. /\ Flow(c) /\ frame'[c] = frame[c]
         /\ frame[c] = "recover" => pc'[c] = "bootAbsorb" /\ guard' = guard
         /\ frame[c] = "purge" => pc'[c] = "done" /\ Released(c)
    BY <1>1, <1>4, ReturnFlow
  <2>11. Row("purging", "purging")' /\ Unlisted' /\ dir'["active"] = "none"
    BY <1>1, <1>4, TypeParts, RestPlaces DEF PurgeRm, Row, Unlisted, DiskTypes
  <2>12. /\ UNCHANGED <<run, terminal, journal, target>> /\ job' = job
         /\ left' = left \cup {"purge"}
    BY <1>4, <2>10 DEF PurgeRm, work, LeftUndone, Flow
  <2>13. Stopped'
    BY <2>11, <2>12 DEF Stopped
  <2>14. frame[c] = "purge" => job[c] = "purge"
    BY <1>0, <1>1 DEF Cond, JobOf, Jobs
  <2>a. Table(c)'
    BY <1>1, <1>2, <2>10, <2>11, <2>12, <2>13, <2>14 DEF Table, OffboardRows, ArchiveRows,
       RestoreRows, PurgeRows, MarkRows, RecoverRows, AbsorbRows, Rests
  <2>b. FrameOf(c)' /\ JobOf(c)'
    BY <1>1, <1>2, <2>10, <2>11, <2>12, <2>13, <2>14 DEF Cond, FrameOf, JobOf, Flow
  <2>c. GuardOf(c)'
    BY <1>1, <1>2, <2>10, <2>11, <2>12, <2>13, <2>14, BootIsNoCall DEF Cond, GuardOf, Flow,
       Released, Proc
  <2>d. KeepsRow
    BY <1>1, <1>2, <2>10, <2>11, <2>12, <2>13, <2>14 DEF KeepsRow, Ending, Row
  <2>e. JournalOf(c)'
    BY <1>1, <1>2, <2>10, <2>11, <2>12, <2>13, <2>14, <2>d DEF Cond, JournalOf, Flow, disk, KeepsRow
  <2>f. WorkOf(c)'
    BY <1>1, <1>2, <2>10, <2>11, <2>12, <2>13, <2>14, BootIsNoCall DEF Cond, WorkOf, GuardOf, Proc,
       Released, Row, Listed, Unlisted, Place, OnFloor, Archived, Gone, Stopped, Rests
  <2>. QED  BY <1>1, <1>2, <2>10, <2>11, <2>12, <2>13, <2>14, <2>a, <2>b, <2>c, <2>d, <2>e, <2>f,
               FlowCond
<1>. QED  BY <1>3, <1>4 DEF PurgeRm

LEMMA RecKeeps ==
    ASSUME TypeOK, BootInv, NEW c \in Proc, Rec(c), Cond(c), ~upset'
    PROVE  Cond(c)' /\ KeepsRow
<1>1. pc[c] = "rec" /\ frame[c] \in {"offboardFailed", "restoreFailed", "recover"}
  BY DEF Rec, At, Cond, FrameOf
<1>2. \/ frame[c] = "offboardFailed" /\ c \in Call /\ guard = c
        /\ job[c] \in {"offboard", "absorb"} /\ run \notin {"starting", "live"}
      \/ frame[c] = "restoreFailed"
      \/ frame[c] = "recover" /\ c = Boot /\ job[c] = "boot" /\ run = "none" /\ terminal = FALSE
  BY <1>1, HoldsGuard, LaunchIsAlone
<1>3. /\ frame[c] = "recover" =>
             /\ Durable /\ catalog.mem = catalog.file
             /\ registry.mem = registry.file /\ retired.mem = retired.file
             /\ catalog.mem = "restoring" => registry.mem = FALSE
      /\ frame[c] = "offboardFailed" => Row("offboarding", "offboarding") /\ Unlisted
            /\ Leaving
      /\ frame[c] = "restoreFailed" => Row("restoring", "restoring") /\ Unlisted
            /\ Returning
  BY <1>1 DEF Cond, Table, RecoverRows
<1>4. catalog.mem \in Lives /\ registry.mem \in BOOLEAN /\ registry.file \in BOOLEAN
  BY TypeParts DEF StoreTypes, Stored
<1>5. CASE catalog.mem = "offboarding"
  <2>1. Row("offboarding", "offboarding") /\ frame[c] \in {"offboardFailed", "recover"}
          /\ Leaving /\ (frame[c] = "offboardFailed" => registry.mem = FALSE)
    BY <1>1, <1>3, <1>4, <1>5 DEF Durable, Stable, Row, Listed, Unlisted, Retired, Place, Leaving,
       Returning, OnFloor, Archived, Gone, Stopped, Rests
  <2>2. registry' = Set(registry, FALSE) /\ Goto(c, "recRemove")
        /\ UNCHANGED <<job, frame, guard, retired, catalog, disk>>
    BY <1>5, <2>1 DEF Rec, Row, Listed, Unlisted, Retired, Place, Leaving, Returning, OnFloor,
       Archived, Gone, Stopped, Rests
  <2>10. Flow(c) /\ pc'[c] = "recRemove" /\ frame'[c] = frame[c]
    BY <1>1, <1>2, <2>1, <2>2, GotoFlow DEF Rec, Steps
  <2>11. Row("offboarding", "offboarding")' /\ registry'.mem = FALSE /\ Leaving'
    BY <1>1, <1>2, <2>1, <2>2, <2>10, SetStores, SavedStores DEF Rec, Row, Listed, Unlisted,
       Retired, Place, Leaving, Returning, OnFloor, Archived, Gone, Stopped, Rests, stores, disk,
       Lives, Transit, Stable, Flow
  <2>12. UNCHANGED <<job, guard, run, terminal, journal, target, left>>
    BY <1>1, <1>2, <2>1, <2>2, <2>10 DEF mishaps, Rec, work, disk, stores
  <2>a. Table(c)'
    BY <1>1, <1>2, <2>1, <2>2, <2>10, <2>11, <2>12 DEF Table, OffboardRows, ArchiveRows,
       RestoreRows, PurgeRows, MarkRows, RecoverRows, AbsorbRows
  <2>b. FrameOf(c)' /\ JobOf(c)'
    BY <1>1, <1>2, <2>1, <2>2, <2>10, <2>11, <2>12 DEF Cond, FrameOf, JobOf, Flow
  <2>c. GuardOf(c)'
    BY <1>1, <1>2, <2>1, <2>2, <2>10, <2>11, <2>12, BootIsNoCall DEF Cond, GuardOf, Flow, Released,
       Proc
  <2>d. KeepsRow
    BY <1>1, <1>2, <2>1, <2>2, <2>10, <2>11, <2>12 DEF KeepsRow, Ending, Row
  <2>e. JournalOf(c)'
    BY <1>1, <1>2, <2>1, <2>2, <2>10, <2>11, <2>12, <2>d DEF Cond, JournalOf, Flow, disk, KeepsRow
  <2>f. WorkOf(c)'
    BY <1>1, <1>2, <2>1, <2>2, <2>10, <2>11, <2>12, BootIsNoCall DEF Cond, WorkOf, GuardOf, Proc,
       Released
  <2>. QED  BY <1>1, <1>2, <2>1, <2>2, <2>10, <2>11, <2>12, <2>a, <2>b, <2>c, <2>d, <2>e, <2>f,
               FlowCond
<1>6. CASE catalog.mem = "restoring" /\ dir["departed"] = "none"
  <2>1. Row("restoring", "restoring") /\ frame[c] \in {"restoreFailed", "recover"} /\ Unlisted
          /\ Place("whole", "none")
    BY <1>1, <1>3, <1>4, <1>6 DEF Durable, Stable, Row, Listed, Unlisted, Retired, Place, Leaving,
       Returning, OnFloor, Archived, Gone, Stopped, Rests
  <2>2. Add(c) /\ UNCHANGED <<catalog, disk>>
    BY <1>6, <2>1 DEF Rec, Row, Listed, Unlisted, Retired, Place, Leaving, Returning, OnFloor,
       Archived, Gone, Stopped, Rests
  <2>10. Flow(c) /\ pc'[c] = "add" /\ frame'[c] = frame[c] /\ guard' = guard
         /\ registry'.mem = TRUE
    BY <1>1, <1>2, <2>1, <2>2, AddFlow DEF Rec, Steps, Frames, Row, Listed, Unlisted, Retired,
       Place, Leaving, Returning, OnFloor, Archived, Gone, Stopped, Rests
  <2>11. Row("restoring", "restoring")' /\ Place("whole", "none")'
    BY <1>1, <1>2, <2>1, <2>2, <2>10, SetStores, SavedStores DEF Rec, Row, Listed, Unlisted,
       Retired, Place, Leaving, Returning, OnFloor, Archived, Gone, Stopped, Rests, stores, disk,
       Lives, Transit, Stable, Flow
  <2>12. UNCHANGED <<job, guard, run, terminal, journal, target, left>>
    BY <1>1, <1>2, <2>1, <2>2, <2>10 DEF mishaps, Rec, work, disk, stores, Row, Listed, Unlisted,
       Retired, Place, Leaving, Returning, OnFloor, Archived, Gone, Stopped, Rests, Flow
  <2>a. Table(c)'
    BY <1>1, <1>2, <2>1, <2>2, <2>10, <2>11, <2>12 DEF Table, OffboardRows, ArchiveRows,
       RestoreRows, PurgeRows, MarkRows, RecoverRows, AbsorbRows
  <2>b. FrameOf(c)' /\ JobOf(c)'
    BY <1>1, <1>2, <2>1, <2>2, <2>10, <2>11, <2>12 DEF Cond, FrameOf, JobOf, Flow
  <2>c. GuardOf(c)'
    BY <1>1, <1>2, <2>1, <2>2, <2>10, <2>11, <2>12, BootIsNoCall DEF Cond, GuardOf, Flow, Released,
       Proc
  <2>d. KeepsRow
    BY <1>1, <1>2, <2>1, <2>2, <2>10, <2>11, <2>12 DEF KeepsRow, Ending, Row
  <2>e. JournalOf(c)'
    BY <1>1, <1>2, <2>1, <2>2, <2>10, <2>11, <2>12, <2>d DEF Cond, JournalOf, Flow, disk, KeepsRow
  <2>f. WorkOf(c)'
    BY <1>1, <1>2, <2>1, <2>2, <2>10, <2>11, <2>12, BootIsNoCall DEF Cond, WorkOf, GuardOf, Proc,
       Released
  <2>. QED  BY <1>1, <1>2, <2>1, <2>2, <2>10, <2>11, <2>12, <2>a, <2>b, <2>c, <2>d, <2>e, <2>f,
               FlowCond
<1>7. CASE catalog.mem = "restoring" /\ dir["departed"] # "none" /\ dir["active"] = "none"
  <2>1. Row("restoring", "restoring") /\ frame[c] \in {"restoreFailed", "recover"} /\ Unlisted
          /\ Place("none", "whole")
    BY <1>1, <1>3, <1>4, <1>7 DEF Durable, Stable, Row, Listed, Unlisted, Retired, Place, Leaving,
       Returning, OnFloor, Archived, Gone, Stopped, Rests
  <2>2. Goto(c, "moveBack") /\ UNCHANGED <<job, frame, guard, registry, retired, catalog, disk>>
    BY <1>7, <2>1 DEF Rec, Row, Listed, Unlisted, Retired, Place, Leaving, Returning, OnFloor,
       Archived, Gone, Stopped, Rests
  <2>10. Flow(c) /\ pc'[c] = "moveBack" /\ frame'[c] = frame[c]
    BY <1>1, <1>2, <2>1, <2>2, GotoFlow DEF Rec, Steps
  <2>11. Row("restoring", "restoring")' /\ Unlisted' /\ Place("none", "whole")'
    BY <1>1, <1>2, <2>1, <2>2, <2>10, SetStores, SavedStores DEF Rec, Row, Listed, Unlisted,
       Retired, Place, Leaving, Returning, OnFloor, Archived, Gone, Stopped, Rests, stores, disk,
       Lives, Transit, Stable, Flow
  <2>12. UNCHANGED <<job, guard, run, terminal, journal, target, left>>
    BY <1>1, <1>2, <2>1, <2>2, <2>10 DEF mishaps, Rec, work, disk, stores
  <2>a. Table(c)'
    BY <1>1, <1>2, <2>1, <2>2, <2>10, <2>11, <2>12 DEF Table, OffboardRows, ArchiveRows,
       RestoreRows, PurgeRows, MarkRows, RecoverRows, AbsorbRows
  <2>b. FrameOf(c)' /\ JobOf(c)'
    BY <1>1, <1>2, <2>1, <2>2, <2>10, <2>11, <2>12 DEF Cond, FrameOf, JobOf, Flow
  <2>c. GuardOf(c)'
    BY <1>1, <1>2, <2>1, <2>2, <2>10, <2>11, <2>12, BootIsNoCall DEF Cond, GuardOf, Flow, Released,
       Proc
  <2>d. KeepsRow
    BY <1>1, <1>2, <2>1, <2>2, <2>10, <2>11, <2>12 DEF KeepsRow, Ending, Row
  <2>e. JournalOf(c)'
    BY <1>1, <1>2, <2>1, <2>2, <2>10, <2>11, <2>12, <2>d DEF Cond, JournalOf, Flow, disk, KeepsRow
  <2>f. WorkOf(c)'
    BY <1>1, <1>2, <2>1, <2>2, <2>10, <2>11, <2>12, BootIsNoCall DEF Cond, WorkOf, GuardOf, Proc,
       Released
  <2>. QED  BY <1>1, <1>2, <2>1, <2>2, <2>10, <2>11, <2>12, <2>a, <2>b, <2>c, <2>d, <2>e, <2>f,
               FlowCond
<1>8. CASE catalog.mem = "restoring" /\ dir["departed"] # "none" /\ dir["active"] # "none"
  <2>1. Row("restoring", "restoring") /\ frame[c] \in {"restoreFailed", "recover"} /\ Unlisted
          /\ dir["active"] = "whole"
    BY <1>1, <1>3, <1>4, <1>8 DEF Durable, Stable, Row, Listed, Unlisted, Retired, Place, Leaving,
       Returning, OnFloor, Archived, Gone, Stopped, Rests
  <2>2. Goto(c, "rmDeparted") /\ UNCHANGED <<job, frame, guard, registry, retired, catalog, disk>>
    BY <1>8, <2>1 DEF Rec, Row, Listed, Unlisted, Retired, Place, Leaving, Returning, OnFloor,
       Archived, Gone, Stopped, Rests
  <2>10. Flow(c) /\ pc'[c] = "rmDeparted" /\ frame'[c] = frame[c]
    BY <1>1, <1>2, <2>1, <2>2, GotoFlow DEF Rec, Steps
  <2>11. Row("restoring", "restoring")' /\ Unlisted' /\ dir'["active"] = "whole"
    BY <1>1, <1>2, <2>1, <2>2, <2>10, SetStores, SavedStores DEF Rec, Row, Listed, Unlisted,
       Retired, Place, Leaving, Returning, OnFloor, Archived, Gone, Stopped, Rests, stores, disk,
       Lives, Transit, Stable, Flow
  <2>12. UNCHANGED <<job, guard, run, terminal, journal, target, left>>
    BY <1>1, <1>2, <2>1, <2>2, <2>10 DEF mishaps, Rec, work, disk, stores
  <2>a. Table(c)'
    BY <1>1, <1>2, <2>1, <2>2, <2>10, <2>11, <2>12 DEF Table, OffboardRows, ArchiveRows,
       RestoreRows, PurgeRows, MarkRows, RecoverRows, AbsorbRows
  <2>b. FrameOf(c)' /\ JobOf(c)'
    BY <1>1, <1>2, <2>1, <2>2, <2>10, <2>11, <2>12 DEF Cond, FrameOf, JobOf, Flow
  <2>c. GuardOf(c)'
    BY <1>1, <1>2, <2>1, <2>2, <2>10, <2>11, <2>12, BootIsNoCall DEF Cond, GuardOf, Flow, Released,
       Proc
  <2>d. KeepsRow
    BY <1>1, <1>2, <2>1, <2>2, <2>10, <2>11, <2>12 DEF KeepsRow, Ending, Row
  <2>e. JournalOf(c)'
    BY <1>1, <1>2, <2>1, <2>2, <2>10, <2>11, <2>12, <2>d DEF Cond, JournalOf, Flow, disk, KeepsRow
  <2>f. WorkOf(c)'
    BY <1>1, <1>2, <2>1, <2>2, <2>10, <2>11, <2>12, BootIsNoCall DEF Cond, WorkOf, GuardOf, Proc,
       Released
  <2>. QED  BY <1>1, <1>2, <2>1, <2>2, <2>10, <2>11, <2>12, <2>a, <2>b, <2>c, <2>d, <2>e, <2>f,
               FlowCond
<1>9. CASE catalog.mem = "purging"
  <2>1. Row("purging", "purging") /\ frame[c] = "recover" /\ Unlisted
          /\ dir["active"] = "none"
    BY <1>1, <1>3, <1>4, <1>9 DEF Durable, Stable, Row, Listed, Unlisted, Retired, Place, Leaving,
       Returning, OnFloor, Archived, Gone, Stopped, Rests
  <2>2. Goto(c, "purgeRm") /\ UNCHANGED <<job, frame, guard, registry, retired, catalog, disk>>
    BY <1>9, <2>1 DEF Rec, Row, Listed, Unlisted, Retired, Place, Leaving, Returning, OnFloor,
       Archived, Gone, Stopped, Rests
  <2>10. Flow(c) /\ pc'[c] = "purgeRm" /\ frame'[c] = frame[c]
    BY <1>1, <1>2, <2>1, <2>2, GotoFlow DEF Rec, Steps
  <2>11. Row("purging", "purging")' /\ Unlisted' /\ dir'["active"] = "none"
    BY <1>1, <1>2, <2>1, <2>2, <2>10, SetStores, SavedStores DEF Rec, Row, Listed, Unlisted,
       Retired, Place, Leaving, Returning, OnFloor, Archived, Gone, Stopped, Rests, stores, disk,
       Lives, Transit, Stable, Flow
  <2>12. UNCHANGED <<job, guard, run, terminal, journal, target, left>>
    BY <1>1, <1>2, <2>1, <2>2, <2>10 DEF mishaps, Rec, work, disk, stores
  <2>a. Table(c)'
    BY <1>1, <1>2, <2>1, <2>2, <2>10, <2>11, <2>12 DEF Table, OffboardRows, ArchiveRows,
       RestoreRows, PurgeRows, MarkRows, RecoverRows, AbsorbRows
  <2>b. FrameOf(c)' /\ JobOf(c)'
    BY <1>1, <1>2, <2>1, <2>2, <2>10, <2>11, <2>12 DEF Cond, FrameOf, JobOf, Flow
  <2>c. GuardOf(c)'
    BY <1>1, <1>2, <2>1, <2>2, <2>10, <2>11, <2>12, BootIsNoCall DEF Cond, GuardOf, Flow, Released,
       Proc
  <2>d. KeepsRow
    BY <1>1, <1>2, <2>1, <2>2, <2>10, <2>11, <2>12 DEF KeepsRow, Ending, Row
  <2>e. JournalOf(c)'
    BY <1>1, <1>2, <2>1, <2>2, <2>10, <2>11, <2>12, <2>d DEF Cond, JournalOf, Flow, disk, KeepsRow
  <2>f. WorkOf(c)'
    BY <1>1, <1>2, <2>1, <2>2, <2>10, <2>11, <2>12, BootIsNoCall DEF Cond, WorkOf, GuardOf, Proc,
       Released
  <2>. QED  BY <1>1, <1>2, <2>1, <2>2, <2>10, <2>11, <2>12, <2>a, <2>b, <2>c, <2>d, <2>e, <2>f,
               FlowCond
<1>10. CASE catalog.mem \in Stable
  <2>1. Rests /\ frame[c] = "recover"
    BY <1>1, <1>3, <1>4, <1>10 DEF Durable, Stable, Row, Listed, Unlisted, Retired, Place,
       Leaving, Returning, OnFloor, Archived, Gone, Stopped, Rests
  <2>2. Return(c) /\ UNCHANGED <<registry, retired, catalog, disk>>
    BY <1>10, <2>1 DEF Rec, Stable, Row, Listed, Unlisted, Retired, Place, Leaving, Returning,
       OnFloor, Archived, Gone, Stopped, Rests
  <2>10. Flow(c) /\ pc'[c] = "bootAbsorb" /\ frame'[c] = frame[c] /\ guard' = guard
    BY <1>1, <1>2, <2>1, <2>2, ReturnFlow DEF Rec, Steps
  <2>11. Rests'
    BY <1>1, <1>2, <2>1, <2>2, <2>10, SetStores, SavedStores DEF mishaps, Rec, Row, Listed,
       Unlisted, Retired, Place, Leaving, Returning, OnFloor, Archived, Gone, Stopped, Rests,
       stores, disk, Lives, Transit, Stable, Flow
  <2>12. UNCHANGED <<job, guard, run, terminal, journal, target, left>>
    BY <1>1, <1>2, <2>1, <2>2, <2>10 DEF mishaps, Rec, work, disk, stores, Row, Listed, Unlisted,
       Retired, Place, Leaving, Returning, OnFloor, Archived, Gone, Stopped, Rests, Flow
  <2>a. Table(c)'
    BY <1>1, <1>2, <2>1, <2>2, <2>10, <2>11, <2>12 DEF Table, OffboardRows, ArchiveRows,
       RestoreRows, PurgeRows, MarkRows, RecoverRows, AbsorbRows
  <2>b. FrameOf(c)' /\ JobOf(c)'
    BY <1>1, <1>2, <2>1, <2>2, <2>10, <2>11, <2>12 DEF Cond, FrameOf, JobOf, Flow
  <2>c. GuardOf(c)'
    BY <1>1, <1>2, <2>1, <2>2, <2>10, <2>11, <2>12, BootIsNoCall DEF Cond, GuardOf, Flow, Released,
       Proc
  <2>d. KeepsRow
    BY <1>1, <1>2, <2>1, <2>2, <2>10, <2>11, <2>12 DEF KeepsRow, Ending, Row
  <2>e. JournalOf(c)'
    BY <1>1, <1>2, <2>1, <2>2, <2>10, <2>11, <2>12, <2>d DEF Cond, JournalOf, Flow, disk, KeepsRow
  <2>f. WorkOf(c)'
    BY <1>1, <1>2, <2>1, <2>2, <2>10, <2>11, <2>12, BootIsNoCall DEF Cond, WorkOf, GuardOf, Proc,
       Released
  <2>. QED  BY <1>1, <1>2, <2>1, <2>2, <2>10, <2>11, <2>12, <2>a, <2>b, <2>c, <2>d, <2>e, <2>f,
               FlowCond
<1>. QED  BY <1>4, <1>5, <1>6, <1>7, <1>8, <1>9, <1>10 DEF Lives, Transit

LEMMA RecRemoveKeeps ==
    ASSUME TypeOK, BootInv, NEW c \in Proc, RecRemove(c), Cond(c), ~upset'
    PROVE  Cond(c)' /\ KeepsRow
<1>1. pc[c] = "recRemove" /\ Row("offboarding", "offboarding") /\ registry.mem = FALSE
        /\ Leaving /\ frame[c] \in {"offboardFailed", "recover"}
  BY DEF RecRemove, At, Cond, Table, RecoverRows, FrameOf
<1>2. \/ c \in Call /\ guard = c /\ job[c] \in {"offboard", "absorb"}
        /\ run \notin {"starting", "live"}
      \/ frame[c] = "recover" /\ c = Boot /\ job[c] = "boot" /\ run = "none" /\ terminal = FALSE
  BY <1>1, HoldsGuard, LaunchIsAlone DEF Cond, FrameOf
<1>10. Flow(c) /\ pc'[c] = "recHandoff" /\ frame'[c] = frame[c]
  BY <1>1, <1>2, GotoFlow DEF RecRemove, Steps
<1>11. Row("offboarding", "offboarding")' /\ Unlisted' /\ Leaving' /\ terminal' = FALSE
  BY <1>1, <1>2, <1>10, SetStores, SavedStores DEF RecRemove, Row, Listed, Unlisted, Retired, Place,
     Leaving, Returning, OnFloor, Archived, Gone, Stopped, Rests, stores, disk, Lives, Transit,
     Stable
<1>12. UNCHANGED <<job, guard, run, journal, target, left>>
  BY <1>1, <1>2, <1>10 DEF mishaps, RecRemove, work, disk, stores
<1>a. Table(c)'
  BY <1>1, <1>2, <1>10, <1>11, <1>12 DEF Table, OffboardRows, ArchiveRows, RestoreRows, PurgeRows,
     MarkRows, RecoverRows, AbsorbRows
<1>b. FrameOf(c)' /\ JobOf(c)'
  BY <1>1, <1>2, <1>10, <1>11, <1>12 DEF Cond, FrameOf, JobOf, Flow
<1>c. GuardOf(c)'
  BY <1>1, <1>2, <1>10, <1>11, <1>12, BootIsNoCall DEF Cond, GuardOf, Flow, Released, Proc
<1>d. KeepsRow
  BY <1>1, <1>2, <1>10, <1>11, <1>12 DEF KeepsRow, Ending, Row
<1>e. JournalOf(c)'
  BY <1>1, <1>2, <1>10, <1>11, <1>12, <1>d DEF Cond, JournalOf, Flow, disk, KeepsRow
<1>f. WorkOf(c)'
  BY <1>1, <1>2, <1>10, <1>11, <1>12, BootIsNoCall DEF Cond, WorkOf, GuardOf, Proc, Released
<1>. QED  BY <1>1, <1>2, <1>10, <1>11, <1>12, <1>a, <1>b, <1>c, <1>d, <1>e, <1>f, FlowCond

LEMMA RecHandoffKeeps ==
    ASSUME TypeOK, BootInv, NEW c \in Proc, RecHandoff(c), Cond(c), ~upset'
    PROVE  Cond(c)' /\ KeepsRow
<1>1. pc[c] = "recHandoff" /\ Row("offboarding", "offboarding") /\ Unlisted /\ Leaving
        /\ frame[c] \in {"offboardFailed", "recover"}
  BY DEF RecHandoff, At, Cond, Table, RecoverRows, FrameOf
<1>2. \/ c \in Call /\ guard = c /\ job[c] \in {"offboard", "absorb"}
        /\ run \notin {"starting", "live"}
      \/ frame[c] = "recover" /\ c = Boot /\ job[c] = "boot" /\ run = "none" /\ terminal = FALSE
  BY <1>1, HoldsGuard, LaunchIsAlone DEF Cond, FrameOf
<1>3. CASE dir["departed"] = "none"
  <2>1. Goto(c, "move") /\ UNCHANGED <<job, frame, guard, retired>>
    BY <1>1, <1>3, ThrowFlow DEF RecHandoff, Leaving, Returning, Place
  <2>2. Place("whole", "none")
    BY <1>1, <1>3 DEF Leaving, Returning, Place
  <2>10. Flow(c) /\ pc'[c] = "move" /\ frame'[c] = frame[c]
    BY <1>1, <1>2, <2>1, <2>2, GotoFlow DEF RecHandoff, Steps
  <2>11. Row("offboarding", "offboarding")' /\ Unlisted' /\ Place("whole", "none")'
    BY <1>1, <1>2, <2>1, <2>2, <2>10, SetStores, SavedStores DEF RecHandoff, Row, Listed, Unlisted,
       Retired, Place, Leaving, Returning, OnFloor, Archived, Gone, Stopped, Rests, stores, disk,
       Lives, Transit, Stable
  <2>12. UNCHANGED <<job, guard, run, terminal, journal, target, left>>
    BY <1>1, <1>2, <2>1, <2>2, <2>10 DEF mishaps, RecHandoff, work, disk, stores
  <2>a. Table(c)'
    BY <1>1, <1>2, <2>1, <2>2, <2>10, <2>11, <2>12 DEF Table, OffboardRows, ArchiveRows,
       RestoreRows, PurgeRows, MarkRows, RecoverRows, AbsorbRows
  <2>b. FrameOf(c)' /\ JobOf(c)'
    BY <1>1, <1>2, <2>1, <2>2, <2>10, <2>11, <2>12 DEF Cond, FrameOf, JobOf, Flow
  <2>c. GuardOf(c)'
    BY <1>1, <1>2, <2>1, <2>2, <2>10, <2>11, <2>12, BootIsNoCall DEF Cond, GuardOf, Flow, Released,
       Proc
  <2>d. KeepsRow
    BY <1>1, <1>2, <2>1, <2>2, <2>10, <2>11, <2>12 DEF KeepsRow, Ending, Row
  <2>e. JournalOf(c)'
    BY <1>1, <1>2, <2>1, <2>2, <2>10, <2>11, <2>12, <2>d DEF Cond, JournalOf, Flow, disk, KeepsRow
  <2>f. WorkOf(c)'
    BY <1>1, <1>2, <2>1, <2>2, <2>10, <2>11, <2>12, BootIsNoCall DEF Cond, WorkOf, GuardOf, Proc,
       Released, Row, Listed, Unlisted, Place, OnFloor, Archived, Gone, Stopped, Rests
  <2>. QED  BY <1>1, <1>2, <2>1, <2>2, <2>10, <2>11, <2>12, <2>a, <2>b, <2>c, <2>d, <2>e, <2>f,
               FlowCond
<1>4. CASE dir["departed"] # "none" /\ dir["active"] # "none"
  <2>1. Goto(c, "rmActive") /\ UNCHANGED <<job, frame, guard, retired>>
    BY <1>1, <1>4, ThrowFlow DEF RecHandoff, Leaving, Returning, Place
  <2>2. dir["departed"] = "whole"
    BY <1>1, <1>4 DEF Leaving, Returning, Place
  <2>10. Flow(c) /\ pc'[c] = "rmActive" /\ frame'[c] = frame[c]
    BY <1>1, <1>2, <2>1, <2>2, GotoFlow DEF RecHandoff, Steps
  <2>11. Row("offboarding", "offboarding")' /\ Unlisted' /\ dir'["departed"] = "whole"
    BY <1>1, <1>2, <2>1, <2>2, <2>10, SetStores, SavedStores DEF RecHandoff, Row, Listed, Unlisted,
       Retired, Place, Leaving, Returning, OnFloor, Archived, Gone, Stopped, Rests, stores, disk,
       Lives, Transit, Stable
  <2>12. UNCHANGED <<job, guard, run, terminal, journal, target, left>>
    BY <1>1, <1>2, <2>1, <2>2, <2>10 DEF mishaps, RecHandoff, work, disk, stores
  <2>a. Table(c)'
    BY <1>1, <1>2, <2>1, <2>2, <2>10, <2>11, <2>12 DEF Table, OffboardRows, ArchiveRows,
       RestoreRows, PurgeRows, MarkRows, RecoverRows, AbsorbRows
  <2>b. FrameOf(c)' /\ JobOf(c)'
    BY <1>1, <1>2, <2>1, <2>2, <2>10, <2>11, <2>12 DEF Cond, FrameOf, JobOf, Flow
  <2>c. GuardOf(c)'
    BY <1>1, <1>2, <2>1, <2>2, <2>10, <2>11, <2>12, BootIsNoCall DEF Cond, GuardOf, Flow, Released,
       Proc
  <2>d. KeepsRow
    BY <1>1, <1>2, <2>1, <2>2, <2>10, <2>11, <2>12 DEF KeepsRow, Ending, Row
  <2>e. JournalOf(c)'
    BY <1>1, <1>2, <2>1, <2>2, <2>10, <2>11, <2>12, <2>d DEF Cond, JournalOf, Flow, disk, KeepsRow
  <2>f. WorkOf(c)'
    BY <1>1, <1>2, <2>1, <2>2, <2>10, <2>11, <2>12, BootIsNoCall DEF Cond, WorkOf, GuardOf, Proc,
       Released, Row, Listed, Unlisted, Place, OnFloor, Archived, Gone, Stopped, Rests
  <2>. QED  BY <1>1, <1>2, <2>1, <2>2, <2>10, <2>11, <2>12, <2>a, <2>b, <2>c, <2>d, <2>e, <2>f,
               FlowCond
<1>5. CASE dir["active"] = "none"
  <2>1. Goto(c, "retire") /\ retired' = Set(retired, TRUE) /\ UNCHANGED <<job, frame, guard>>
    BY <1>1, <1>5, ThrowFlow DEF RecHandoff, Leaving, Returning, Place
  <2>2. Place("none", "whole")
    BY <1>1, <1>5 DEF Leaving, Returning, Place
  <2>10. Flow(c) /\ pc'[c] = "retire" /\ frame'[c] = frame[c]
    BY <1>1, <1>2, <2>1, <2>2, GotoFlow DEF RecHandoff, Steps
  <2>11. Row("offboarding", "offboarding")' /\ Unlisted' /\ retired'.mem = TRUE
           /\ Place("none", "whole")'
    BY <1>1, <1>2, <2>1, <2>2, <2>10, SetStores, SavedStores DEF RecHandoff, Row, Listed, Unlisted,
       Retired, Place, Leaving, Returning, OnFloor, Archived, Gone, Stopped, Rests, stores, disk,
       Lives, Transit, Stable
  <2>12. UNCHANGED <<job, guard, run, terminal, journal, target, left>>
    BY <1>1, <1>2, <2>1, <2>2, <2>10 DEF mishaps, RecHandoff, work, disk, stores
  <2>a. Table(c)'
    BY <1>1, <1>2, <2>1, <2>2, <2>10, <2>11, <2>12 DEF Table, OffboardRows, ArchiveRows,
       RestoreRows, PurgeRows, MarkRows, RecoverRows, AbsorbRows
  <2>b. FrameOf(c)' /\ JobOf(c)'
    BY <1>1, <1>2, <2>1, <2>2, <2>10, <2>11, <2>12 DEF Cond, FrameOf, JobOf, Flow
  <2>c. GuardOf(c)'
    BY <1>1, <1>2, <2>1, <2>2, <2>10, <2>11, <2>12, BootIsNoCall DEF Cond, GuardOf, Flow, Released,
       Proc
  <2>d. KeepsRow
    BY <1>1, <1>2, <2>1, <2>2, <2>10, <2>11, <2>12 DEF KeepsRow, Ending, Row
  <2>e. JournalOf(c)'
    BY <1>1, <1>2, <2>1, <2>2, <2>10, <2>11, <2>12, <2>d DEF Cond, JournalOf, Flow, disk, KeepsRow
  <2>f. WorkOf(c)'
    BY <1>1, <1>2, <2>1, <2>2, <2>10, <2>11, <2>12, BootIsNoCall DEF Cond, WorkOf, GuardOf, Proc,
       Released, Row, Listed, Unlisted, Place, OnFloor, Archived, Gone, Stopped, Rests
  <2>. QED  BY <1>1, <1>2, <2>1, <2>2, <2>10, <2>11, <2>12, <2>a, <2>b, <2>c, <2>d, <2>e, <2>f,
               FlowCond
<1>. QED  BY <1>3, <1>4, <1>5

LEMMA AbsJournalKeeps ==
    ASSUME TypeOK, BootInv, NEW c \in Proc, AbsJournal(c), Cond(c), ~upset'
    PROVE  Cond(c)' /\ KeepsRow
<1>1. pc[c] = "absJournal" /\ OnFloor /\ frame[c] = "offboard"
  BY DEF AbsJournal, At, Cond, Table, AbsorbRows, FrameOf
<1>2. c \in Call /\ guard = c /\ job[c] \in {"offboard", "absorb"}
        /\ run \notin {"starting", "live"}
  BY <1>1, HoldsGuard DEF Cond, FrameOf
<1>3. job[c] = "absorb"
  BY <1>1 DEF Cond, JobOf
<1>10. Flow(c) /\ frame'[c] = frame[c] /\ pc'[c] \in {"offPrepare", "absUndo"}
  BY <1>1, <1>2, <1>3, GotoFlow DEF AbsJournal, Steps, Frames, Row, Listed, Unlisted, Retired,
     Place, Leaving, Returning, OnFloor, Archived, Gone, Stopped, Rests
<1>11. OnFloor' /\ journal' = TRUE /\ target' = "clean"
  BY <1>1, <1>2, <1>3, <1>10, SetStores, SavedStores DEF AbsJournal, Row, Listed, Unlisted, Retired,
     Place, Leaving, Returning, OnFloor, Archived, Gone, Stopped, Rests, stores, disk, Lives,
     Transit, Stable
<1>12. UNCHANGED <<job, guard, run, terminal, left>>
  BY <1>1, <1>2, <1>3, <1>10 DEF mishaps, AbsJournal, work, disk, stores
<1>a. Table(c)'
  BY <1>1, <1>2, <1>3, <1>10, <1>11, <1>12 DEF Table, OffboardRows, ArchiveRows, RestoreRows,
     PurgeRows, MarkRows, RecoverRows, AbsorbRows, Rests
<1>b. FrameOf(c)' /\ JobOf(c)'
  BY <1>1, <1>2, <1>3, <1>10, <1>11, <1>12 DEF Cond, FrameOf, JobOf, Flow
<1>c. GuardOf(c)'
  BY <1>1, <1>2, <1>3, <1>10, <1>11, <1>12, BootIsNoCall DEF Cond, GuardOf, Flow, Released, Proc
<1>d. KeepsRow
  BY <1>1, <1>2, <1>3, <1>10, <1>11, <1>12 DEF KeepsRow, Ending, Row, OnFloor, Archived, Gone,
     Stopped, Rests
<1>e. JournalOf(c)'
  BY <1>1, <1>2, <1>3, <1>10, <1>11, <1>12, <1>d DEF Cond, JournalOf, Flow, disk, KeepsRow, Ending,
     OnFloor, Row
<1>f. WorkOf(c)'
  BY <1>1, <1>2, <1>3, <1>10, <1>11, <1>12, BootIsNoCall DEF Cond, WorkOf, GuardOf, Proc, Released,
     Row, Listed, Unlisted, Place, OnFloor, Archived, Gone, Stopped, Rests
<1>. QED  BY <1>1, <1>2, <1>3, <1>10, <1>11, <1>12, <1>a, <1>b, <1>c, <1>d, <1>e, <1>f, FlowCond

LEMMA AbsCopyKeeps ==
    ASSUME TypeOK, BootInv, NEW c \in Proc, AbsCopy(c), Cond(c), ~upset'
    PROVE  Cond(c)' /\ KeepsRow
<1>1. pc[c] = "absCopy" /\ Archived /\ frame[c] = "offboard"
  BY DEF AbsCopy, At, Cond, Table, AbsorbRows, FrameOf
<1>2. c \in Call /\ guard = c /\ job[c] \in {"offboard", "absorb"}
        /\ run \notin {"starting", "live"}
  BY <1>1, HoldsGuard DEF Cond, FrameOf
<1>3. job[c] = "absorb"
  BY <1>1 DEF Cond, JobOf
<1>10. Flow(c) /\ frame'[c] = frame[c] /\ pc'[c] \in {"absCommit", "absUndo"}
  BY <1>1, <1>2, <1>3, GotoFlow DEF AbsCopy, Steps
<1>11. Archived' /\ target' = "dirty"
  BY <1>1, <1>2, <1>3, <1>10, SetStores, SavedStores DEF AbsCopy, Row, Listed, Unlisted, Retired,
     Place, Leaving, Returning, OnFloor, Archived, Gone, Stopped, Rests, stores, disk, Lives,
     Transit, Stable
<1>12. UNCHANGED <<job, guard, run, terminal, journal, left>>
  BY <1>1, <1>2, <1>3, <1>10 DEF mishaps, AbsCopy, work, disk, stores
<1>a. Table(c)'
  BY <1>1, <1>2, <1>3, <1>10, <1>11, <1>12 DEF Table, OffboardRows, ArchiveRows, RestoreRows,
     PurgeRows, MarkRows, RecoverRows, AbsorbRows, Rests
<1>b. FrameOf(c)' /\ JobOf(c)'
  BY <1>1, <1>2, <1>3, <1>10, <1>11, <1>12 DEF Cond, FrameOf, JobOf, Flow
<1>c. GuardOf(c)'
  BY <1>1, <1>2, <1>3, <1>10, <1>11, <1>12, BootIsNoCall DEF Cond, GuardOf, Flow, Released, Proc
<1>d. KeepsRow
  BY <1>1, <1>2, <1>3, <1>10, <1>11, <1>12 DEF KeepsRow, Ending, Row, OnFloor, Archived, Gone,
     Stopped, Rests
<1>e. JournalOf(c)'
  BY <1>1, <1>2, <1>3, <1>10, <1>11, <1>12, <1>d DEF Cond, JournalOf, Flow, disk, KeepsRow
<1>f. WorkOf(c)'
  BY <1>1, <1>2, <1>3, <1>10, <1>11, <1>12, BootIsNoCall DEF Cond, WorkOf, GuardOf, Proc, Released,
     Row, Listed, Unlisted, Place, OnFloor, Archived, Gone, Stopped, Rests
<1>. QED  BY <1>1, <1>2, <1>3, <1>10, <1>11, <1>12, <1>a, <1>b, <1>c, <1>d, <1>e, <1>f, FlowCond

LEMMA AbsCommitKeeps ==
    ASSUME TypeOK, BootInv, NEW c \in Proc, AbsCommit(c), Cond(c), ~upset'
    PROVE  Cond(c)' /\ KeepsRow
<1>1. pc[c] = "absCommit" /\ Archived /\ frame[c] = "offboard"
  BY DEF AbsCommit, At, Cond, Table, AbsorbRows, FrameOf
<1>2. c \in Call /\ guard = c /\ job[c] \in {"offboard", "absorb"}
        /\ run \notin {"starting", "live"}
  BY <1>1, HoldsGuard DEF Cond, FrameOf
<1>3. job[c] = "absorb"
  BY <1>1 DEF Cond, JobOf
<1>4. CASE target' = "committed" /\ catalog' = Set(catalog, "departed") /\ Goto(c, "absMark")
  <2>10. Flow(c) /\ pc'[c] = "absMark" /\ frame'[c] = frame[c]
    BY <1>1, <1>2, <1>3, <1>4, GotoFlow DEF AbsCommit, Steps
  <2>11. Archived'
    BY <1>1, <1>2, <1>3, <1>4, <2>10, SetStores, SavedStores DEF AbsCommit, Row, Listed, Unlisted,
       Retired, Place, Leaving, Returning, OnFloor, Archived, Gone, Stopped, Rests, stores, disk,
       Lives, Transit, Stable
  <2>12. UNCHANGED <<job, guard, run, terminal, journal, left>>
    BY <1>1, <1>2, <1>3, <1>4, <2>10 DEF mishaps, AbsCommit, work, disk, stores
  <2>a. Table(c)'
    BY <1>1, <1>2, <1>3, <1>4, <2>10, <2>11, <2>12 DEF Table, OffboardRows, ArchiveRows,
       RestoreRows, PurgeRows, MarkRows, RecoverRows, AbsorbRows
  <2>b. FrameOf(c)' /\ JobOf(c)'
    BY <1>1, <1>2, <1>3, <1>4, <2>10, <2>11, <2>12 DEF Cond, FrameOf, JobOf, Flow
  <2>c. GuardOf(c)'
    BY <1>1, <1>2, <1>3, <1>4, <2>10, <2>11, <2>12, BootIsNoCall DEF Cond, GuardOf, Flow, Released,
       Proc
  <2>d. KeepsRow
    BY <1>1, <1>2, <1>3, <1>4, <2>10, <2>11, <2>12 DEF KeepsRow, Ending, Row, OnFloor, Archived,
       Gone, Stopped, Rests
  <2>e. JournalOf(c)'
    BY <1>1, <1>2, <1>3, <1>4, <2>10, <2>11, <2>12, <2>d DEF Cond, JournalOf, Flow, disk, KeepsRow
  <2>f. WorkOf(c)'
    BY <1>1, <1>2, <1>3, <1>4, <2>10, <2>11, <2>12, BootIsNoCall DEF Cond, WorkOf, GuardOf, Proc,
       Released, Row, Listed, Unlisted, Place, OnFloor, Archived, Gone, Stopped, Rests
  <2>. QED  BY <1>1, <1>2, <1>3, <1>4, <2>10, <2>11, <2>12, <2>a, <2>b, <2>c, <2>d, <2>e, <2>f,
               FlowCond
<1>5. CASE Goto(c, "absUndo") /\ target' \in {target, "committed"} /\ UNCHANGED catalog
  <2>10. Flow(c) /\ pc'[c] = "absUndo" /\ frame'[c] = frame[c]
    BY <1>1, <1>2, <1>3, <1>5, GotoFlow DEF AbsCommit, Steps
  <2>11. Archived'
    BY <1>1, <1>2, <1>3, <1>5, <2>10, SetStores, SavedStores DEF AbsCommit, Row, Listed, Unlisted,
       Retired, Place, Leaving, Returning, OnFloor, Archived, Gone, Stopped, Rests, stores, disk,
       Lives, Transit, Stable
  <2>12. UNCHANGED <<job, guard, run, terminal, journal, left>>
           /\ target' \in {target, "committed"}
    BY <1>1, <1>2, <1>3, <1>5, <2>10 DEF mishaps, AbsCommit, work, disk, stores
  <2>a. Table(c)'
    BY <1>1, <1>2, <1>3, <1>5, <2>10, <2>11, <2>12 DEF Table, OffboardRows, ArchiveRows,
       RestoreRows, PurgeRows, MarkRows, RecoverRows, AbsorbRows, Rests
  <2>b. FrameOf(c)' /\ JobOf(c)'
    BY <1>1, <1>2, <1>3, <1>5, <2>10, <2>11, <2>12 DEF Cond, FrameOf, JobOf, Flow
  <2>c. GuardOf(c)'
    BY <1>1, <1>2, <1>3, <1>5, <2>10, <2>11, <2>12, BootIsNoCall DEF Cond, GuardOf, Flow, Released,
       Proc
  <2>d. KeepsRow
    BY <1>1, <1>2, <1>3, <1>5, <2>10, <2>11, <2>12 DEF KeepsRow, Ending, Row
  <2>e. JournalOf(c)'
    BY <1>1, <1>2, <1>3, <1>5, <2>10, <2>11, <2>12, <2>d DEF Cond, JournalOf, Flow, disk, KeepsRow
  <2>f. WorkOf(c)'
    BY <1>1, <1>2, <1>3, <1>5, <2>10, <2>11, <2>12, BootIsNoCall DEF Cond, WorkOf, GuardOf, Proc,
       Released, Row, Listed, Unlisted, Place, OnFloor, Archived, Gone, Stopped, Rests
  <2>. QED  BY <1>1, <1>2, <1>3, <1>5, <2>10, <2>11, <2>12, <2>a, <2>b, <2>c, <2>d, <2>e, <2>f,
               FlowCond
<1>. QED  BY <1>4, <1>5 DEF AbsCommit

LEMMA AbsMarkKeeps ==
    ASSUME TypeOK, BootInv, NEW c \in Proc, AbsMark(c), Cond(c), ~upset'
    PROVE  Cond(c)' /\ KeepsRow
<1>1. pc[c] = "absMark" /\ Archived /\ frame[c] \in {"offboard", "recover"}
  BY DEF AbsMark, At, Cond, Table, AbsorbRows, FrameOf
<1>2. \/ c \in Call /\ guard = c /\ job[c] \in {"offboard", "absorb"}
        /\ run \notin {"starting", "live"}
      \/ frame[c] = "recover" /\ c = Boot /\ job[c] = "boot" /\ run = "none" /\ terminal = FALSE
  BY <1>1, HoldsGuard, LaunchIsAlone DEF Cond, FrameOf
<1>3. job[c] \in {"absorb", "boot"}
  BY <1>1 DEF Cond, JobOf
<1>10. Flow(c) /\ pc'[c] = "absClean" /\ frame'[c] = frame[c]
  BY <1>1, <1>2, <1>3, GotoFlow DEF AbsMark, Steps
<1>11. Archived'
  BY <1>1, <1>2, <1>3, <1>10, SetStores, SavedStores DEF AbsMark, Row, Listed, Unlisted, Retired,
     Place, Leaving, Returning, OnFloor, Archived, Gone, Stopped, Rests, stores, disk, Lives,
     Transit, Stable
<1>12. UNCHANGED <<job, guard, run, terminal, journal, target, left>>
  BY <1>1, <1>2, <1>3, <1>10 DEF mishaps, AbsMark, work, disk, stores
<1>a. Table(c)'
  BY <1>1, <1>2, <1>3, <1>10, <1>11, <1>12 DEF Table, OffboardRows, ArchiveRows, RestoreRows,
     PurgeRows, MarkRows, RecoverRows, AbsorbRows
<1>b. FrameOf(c)' /\ JobOf(c)'
  BY <1>1, <1>2, <1>3, <1>10, <1>11, <1>12 DEF Cond, FrameOf, JobOf, Flow
<1>c. GuardOf(c)'
  BY <1>1, <1>2, <1>3, <1>10, <1>11, <1>12, BootIsNoCall DEF Cond, GuardOf, Flow, Released, Proc
<1>d. KeepsRow
  BY <1>1, <1>2, <1>3, <1>10, <1>11, <1>12 DEF KeepsRow, Ending, Row, OnFloor, Archived, Gone,
     Stopped, Rests
<1>e. JournalOf(c)'
  BY <1>1, <1>2, <1>3, <1>10, <1>11, <1>12, <1>d DEF Cond, JournalOf, Flow, disk, KeepsRow
<1>f. WorkOf(c)'
  BY <1>1, <1>2, <1>3, <1>10, <1>11, <1>12, BootIsNoCall DEF Cond, WorkOf, GuardOf, Proc, Released,
     Row, Listed, Unlisted, Place, OnFloor, Archived, Gone, Stopped, Rests
<1>. QED  BY <1>1, <1>2, <1>3, <1>10, <1>11, <1>12, <1>a, <1>b, <1>c, <1>d, <1>e, <1>f, FlowCond

LEMMA FinishKeeps ==
    ASSUME TypeOK, BootInv, NEW c \in Proc, Cond(c), Finish(c), Rests,
           pc[c] \in {"absClean", "absUndo", "absUndone"}, left \subseteq left',
           UNCHANGED <<stores, dir, run, terminal>>,
           target' = "dirty" => journal' = TRUE, journal' = TRUE => "absorb" \in left'
    PROVE  Cond(c)' /\ KeepsRow
<1>10. Flow(c) /\ pc'[c] = "done" /\ frame'[c] = frame[c] /\ Released(c)
  BY FinishFlow
<1>11. Rests'
  BY DEF Rests, OnFloor, Archived, Gone, Stopped, Row, Listed, Unlisted, Retired, Place, stores
<1>12. UNCHANGED <<catalog, registry, run, terminal>>
  BY DEF stores
<1>a. Table(c)'
  BY <1>10, <1>11, <1>12 DEF Table, OffboardRows, ArchiveRows, RestoreRows, PurgeRows, MarkRows,
     RecoverRows, AbsorbRows
<1>b. FrameOf(c)' /\ JobOf(c)'
  BY <1>10, <1>11, <1>12 DEF Cond, FrameOf, JobOf, Flow
<1>c. GuardOf(c)'
  BY <1>10, <1>11, <1>12, BootIsNoCall DEF Cond, GuardOf, Flow, Released, Proc
<1>d. KeepsRow
  BY <1>10, <1>11, <1>12 DEF KeepsRow, Ending, Row
<1>e. JournalOf(c)'
  BY <1>10, <1>11, <1>12, <1>d DEF Cond, JournalOf, Flow, disk, KeepsRow
<1>f. WorkOf(c)'
  BY <1>10, <1>11, <1>12, BootIsNoCall DEF Cond, WorkOf, GuardOf, Proc, Released, Row, Listed,
     Unlisted, Place, OnFloor, Archived, Gone, Stopped, Rests
<1>. QED  BY <1>10, <1>11, <1>12, <1>a, <1>b, <1>c, <1>d, <1>e, <1>f, FlowCond

LEMMA SourceBackKeeps ==
    ASSUME TypeOK, BootInv, NEW c \in Proc, Cond(c), SourceBack(c), Rests,
           pc[c] \in {"absUndo", "absUndone"}, left \subseteq left',
           UNCHANGED <<registry, retired, dir, run, terminal>>,
           target' = "dirty" => journal' = TRUE, journal' = TRUE => "absorb" \in left'
    PROVE  Cond(c)' /\ KeepsRow
<1>1. CASE Finish(c) /\ UNCHANGED catalog
  BY <1>1, FinishKeeps DEF stores
<1>2. CASE catalog.mem = "departed" /\ catalog' = Set(catalog, "restoring")
             /\ GotoIn(c, "resSave", "restore") /\ UNCHANGED <<job, guard>>
  <2>1. Archived /\ job[c] \in {"absorb", "boot"}
    BY <1>2 DEF Rests, OnFloor, Gone, Stopped, Row, Cond, JobOf
  <2>10. Flow(c) /\ pc'[c] = "resSave" /\ frame'[c] = "restore"
    BY <1>2, GotoInFlow DEF Steps, Frames
  <2>11. Row("restoring", "departed")' /\ Unlisted' /\ Retired' /\ Place("none", "whole")'
    BY <1>2, <2>1, SetStores DEF Archived, Row, Unlisted, Retired, Place, Lives, Transit
  <2>12. UNCHANGED <<job, guard, run, terminal>>
    BY <1>2
  <2>a. Table(c)'
    BY <2>1, <2>10, <2>11, <2>12 DEF Table, OffboardRows, ArchiveRows, RestoreRows, PurgeRows,
       MarkRows, RecoverRows, AbsorbRows
  <2>b. FrameOf(c)' /\ JobOf(c)'
    BY <2>1, <2>10, <2>11, <2>12 DEF Cond, FrameOf, JobOf, Flow
  <2>c. GuardOf(c)'
    BY <2>1, <2>10, <2>11, <2>12, BootIsNoCall DEF Cond, GuardOf, Flow, Released, Proc
  <2>d. KeepsRow
    BY <2>1, <2>10, <2>11, <2>12 DEF KeepsRow, Ending, Row
  <2>e. JournalOf(c)'
    BY <2>1, <2>10, <2>11, <2>12, <2>d DEF Cond, JournalOf, Flow, disk, KeepsRow
  <2>f. WorkOf(c)'
    BY <2>1, <2>10, <2>11, <2>12, BootIsNoCall DEF Cond, WorkOf, GuardOf, Proc, Released, Row,
       Listed, Unlisted, Place, OnFloor, Archived, Gone, Stopped, Rests
  <2>. QED  BY <2>1, <2>10, <2>11, <2>12, <2>a, <2>b, <2>c, <2>d, <2>e, <2>f, FlowCond
<1>. QED  BY <1>1, <1>2 DEF SourceBack

LEMMA RollbackFailsKeeps ==
    ASSUME TypeOK, BootInv, NEW c \in Proc, Cond(c), RollbackFails(c), Rests,
           pc[c] \in {"absUndo", "absUndone"}, UNCHANGED <<registry, retired, dir, run, terminal>>
    PROVE  Cond(c)' /\ KeepsRow
<1>1. left' = left \cup {"absorb"} /\ journal' = journal /\ journal = TRUE
  BY DEF RollbackFails, LeftUndone, Cond, JournalOf
<1>2. CASE SourceBack(c)
  BY <1>1, <1>2, SourceBackKeeps
<1>3. CASE Finish(c) /\ UNCHANGED catalog
  BY <1>1, <1>3, FinishKeeps DEF stores
<1>. QED  BY <1>2, <1>3 DEF RollbackFails

LEMMA AbsCleanKeeps ==
    ASSUME TypeOK, BootInv, NEW c \in Proc, AbsClean(c), Cond(c), ~upset'
    PROVE  Cond(c)' /\ KeepsRow
<1>1. pc[c] = "absClean" /\ Archived /\ frame[c] \in {"offboard", "recover"} /\ target # "dirty"
  BY DEF AbsClean, At, Cond, Table, AbsorbRows, FrameOf, JournalOf
<1>2. UNCHANGED <<stores, dir, run, terminal, target>>
  BY DEF AbsClean, work
<1>3. Rests
  BY <1>1 DEF Rests
<1>4. CASE journal' = FALSE /\ Finish(c) /\ NothingFails
  BY <1>1, <1>2, <1>3, <1>4, FinishKeeps DEF NothingFails
<1>5. CASE LeftUndone("absorb") /\ Finish(c)
  BY <1>1, <1>2, <1>3, <1>5, FinishKeeps DEF LeftUndone
<1>6. CASE job[c] = "absorb" /\ Goto(c, "absUndo") /\ UNCHANGED <<job, frame, guard, journal, left>>
  <2>10. Flow(c) /\ pc'[c] = "absUndo" /\ frame'[c] = frame[c] /\ frame[c] = "offboard"
    BY <1>1, <1>6, GotoFlow DEF Steps, Cond, JobOf
  <2>11. Archived' /\ journal = TRUE
    BY <1>1, <1>2, <1>6, <2>10 DEF Archived, Row, Unlisted, Retired, Place, stores, Cond, JournalOf
  <2>12. UNCHANGED <<job, guard, run, terminal, journal, target, left, catalog, registry>>
    BY <1>2, <1>6 DEF stores
  <2>a. Table(c)'
    BY <1>1, <1>6, <2>10, <2>11, <2>12 DEF Table, OffboardRows, ArchiveRows, RestoreRows, PurgeRows,
       MarkRows, RecoverRows, AbsorbRows, Rests
  <2>b. FrameOf(c)' /\ JobOf(c)'
    BY <1>1, <1>6, <2>10, <2>11, <2>12 DEF Cond, FrameOf, JobOf, Flow
  <2>c. GuardOf(c)'
    BY <1>1, <1>6, <2>10, <2>11, <2>12, BootIsNoCall DEF Cond, GuardOf, Flow, Released, Proc
  <2>d. KeepsRow
    BY <1>1, <1>6, <2>10, <2>11, <2>12 DEF KeepsRow, Ending, Row
  <2>e. JournalOf(c)'
    BY <1>1, <1>6, <2>10, <2>11, <2>12, <2>d DEF Cond, JournalOf, Flow, disk, KeepsRow
  <2>f. WorkOf(c)'
    BY <1>1, <1>6, <2>10, <2>11, <2>12, BootIsNoCall DEF Cond, WorkOf, GuardOf, Proc, Released, Row,
       Listed, Unlisted, Place, OnFloor, Archived, Gone, Stopped, Rests
  <2>. QED  BY <1>1, <1>6, <2>10, <2>11, <2>12, <2>a, <2>b, <2>c, <2>d, <2>e, <2>f, FlowCond
<1>. QED  BY <1>4, <1>5, <1>6 DEF AbsClean

LEMMA AbsUndoKeeps ==
    ASSUME TypeOK, BootInv, NEW c \in Proc, AbsUndo(c), Cond(c), ~upset'
    PROVE  Cond(c)' /\ KeepsRow
<1>1. pc[c] = "absUndo" /\ Rests /\ frame[c] \in {"offboard", "offboardFailed", "recover"}
        /\ journal = TRUE /\ job[c] \in {"absorb", "boot"}
  BY DEF AbsUndo, At, Cond, Table, AbsorbRows, FrameOf, JournalOf, JobOf
<1>2. UNCHANGED <<registry, retired, dir, run, terminal>>
  BY DEF AbsUndo, work
<1>3. CASE target' = "clean" /\ Goto(c, "absUndone") /\ NothingFails
           /\ UNCHANGED <<job, frame, guard, catalog, journal>>
  <2>10. Flow(c) /\ pc'[c] = "absUndone" /\ frame'[c] = frame[c]
    BY <1>3, GotoFlow DEF Steps
  <2>11. Rests'
    BY <1>1, <1>2, <1>3 DEF NothingFails, Rests, OnFloor, Archived, Gone, Stopped, Row, Listed,
       Unlisted, Retired, Place
  <2>12. UNCHANGED <<job, guard, run, terminal, journal, left, catalog, registry>>
           /\ target' = "clean"
    BY <1>2, <1>3 DEF NothingFails
  <2>a. Table(c)'
    BY <1>1, <2>10, <2>11, <2>12 DEF Table, OffboardRows, ArchiveRows, RestoreRows, PurgeRows,
       MarkRows, RecoverRows, AbsorbRows
  <2>b. FrameOf(c)' /\ JobOf(c)'
    BY <1>1, <2>10, <2>11, <2>12 DEF Cond, FrameOf, JobOf, Flow
  <2>c. GuardOf(c)'
    BY <1>1, <2>10, <2>11, <2>12, BootIsNoCall DEF Cond, GuardOf, Flow, Released, Proc
  <2>d. KeepsRow
    BY <1>1, <2>10, <2>11, <2>12 DEF KeepsRow, Ending, Row
  <2>e. JournalOf(c)'
    BY <1>1, <2>10, <2>11, <2>12, <2>d DEF Cond, JournalOf, Flow, disk, KeepsRow
  <2>f. WorkOf(c)'
    BY <1>1, <2>10, <2>11, <2>12, BootIsNoCall DEF Cond, WorkOf, GuardOf, Proc, Released, Row,
       Listed, Unlisted, Place, OnFloor, Archived, Gone, Stopped, Rests
  <2>. QED  BY <1>1, <2>10, <2>11, <2>12, <2>a, <2>b, <2>c, <2>d, <2>e, <2>f, FlowCond
<1>4. CASE RollbackFails(c)
  BY <1>1, <1>2, <1>4, RollbackFailsKeeps
<1>. QED  BY <1>3, <1>4 DEF AbsUndo

LEMMA AbsUndoneKeeps ==
    ASSUME TypeOK, BootInv, NEW c \in Proc, AbsUndone(c), Cond(c), ~upset'
    PROVE  Cond(c)' /\ KeepsRow
<1>1. pc[c] = "absUndone" /\ Rests /\ target # "dirty"
  BY DEF AbsUndone, At, Cond, Table, AbsorbRows, JournalOf
<1>2. UNCHANGED <<registry, retired, dir, run, terminal, target>>
  BY DEF AbsUndone, work
<1>3. CASE journal' = FALSE /\ SourceBack(c) /\ NothingFails
  BY <1>1, <1>2, <1>3, SourceBackKeeps DEF NothingFails
<1>4. CASE RollbackFails(c)
  BY <1>1, <1>2, <1>4, RollbackFailsKeeps
<1>. QED  BY <1>3, <1>4 DEF AbsUndone

-----------------------------------------------------------------------------
(* The invariant.                                                          *)

\* Every row of the table can be finished by the next launch.
LEMMA TableDurable ==
    ASSUME TypeOK, NEW w \in Proc, Cond(w)
    PROVE  Durable
<1>1. pc[w] \in Steps /\ frame[w] \in Frames /\ pc[w] # "idle"
  BY DEF TypeOK, Proc, Cond, Only
<1>2. CASE pc[w] \in {"offPrepare", "offLate", "offCancel", "offHandoff", "offRemove",
                      "move", "rmActive", "retire"}
  BY <1>2 DEF Cond, Table, OffboardRows, ArchiveRows, Durable, Row, Listed, Unlisted, Retired,
              Place, Leaving, Returning, OnFloor
<1>3. CASE pc[w] \in {"resSave", "moveBack", "rmDeparted", "add", "recall", "purgeSave",
                      "purgeRm"}
  BY <1>3 DEF Cond, Table, RestoreRows, PurgeRows, Durable, Row, Listed, Unlisted, Retired,
              Place, Leaving, Returning
<1>4. CASE pc[w] = "mark"
  BY <1>4 DEF Cond, Table, MarkRows, MarkDeparted, MarkActive, MarkPurged, Durable, Row, Listed,
              Unlisted, Retired, Place, Leaving, Returning
<1>5. CASE pc[w] \in {"rec", "recRemove", "recHandoff"}
  BY <1>5 DEF Cond, Table, FrameOf, RecoverRows, Durable, Row, Listed, Unlisted, Retired,
              Place, Leaving, Returning
<1>6. CASE pc[w] \in {"absJournal", "absCopy", "absCommit", "absMark", "absClean", "absUndo",
                      "absUndone", "bootAbsorb", "load", "done"}
  BY <1>6 DEF Cond, Table, AbsorbRows, Durable, Row, Listed, Unlisted, Retired,
              Place, OnFloor, Archived, Gone, Stopped, Rests
<1>. QED  BY <1>1, <1>2, <1>3, <1>4, <1>5, <1>6 DEF Steps

\* Only the one under way can take a step.
LEMMA StepIsOfOne ==
    ASSUME TypeOK, NEW w \in Proc, Cond(w), NEW c \in Proc, Step(c)
    PROVE  c = w
<1>1. pc[c] \notin {"idle", "done"}
  BY DEF Step, At, OffPrepare, OffLate, OffCancel, OffHandoff, OffRemove, Move, RmActive,
         Retire, Mark, ResSave, MoveBack, RmDeparted, Added, Recall, PurgeSave, PurgeRm,
         Rec, RecRemove, RecHandoff, AbsJournal, AbsCopy, AbsCommit, AbsMark, AbsClean,
         AbsUndo, AbsUndone
<1>. QED  BY <1>1 DEF Cond, Only

LEMMA StepKeeps ==
    ASSUME TypeOK, BootInv, NEW c \in Proc, Step(c), Cond(c), ~upset'
    PROVE  Cond(c)' /\ KeepsRow
BY OffPrepareKeeps, OffLateKeeps, OffCancelKeeps, OffHandoffKeeps, OffRemoveKeeps, MoveKeeps,
   RmActiveKeeps, RetireKeeps, MarkKeeps, ResSaveKeeps, MoveBackKeeps, RmDepartedKeeps,
   AddedKeeps, RecallKeeps, PurgeSaveKeeps, PurgeRmKeeps, RecKeeps, RecRemoveKeeps,
   RecHandoffKeeps, AbsJournalKeeps, AbsCopyKeeps, AbsCommitKeeps, AbsMarkKeeps, AbsCleanKeeps,
   AbsUndoKeeps, AbsUndoneKeeps
   DEF Step

\* A request that arrives: the calls after it.
LEMMA BeginFlow ==
    ASSUME TypeOK, BootInv, NEW c \in Call, NEW kind \in Jobs \ {"boot"},
           NEW step \in Steps \ {"idle"}, NEW f \in Frames, NEW crossed \in BOOLEAN,
           Begin(c, kind, step, f, crossed)
    PROVE  /\ pc' \in [Proc -> Steps] /\ job' \in [Proc -> Jobs] /\ frame' \in [Proc -> Frames]
           /\ upset' \in BOOLEAN /\ BootInv'
           /\ upset => upset'
           /\ crossed => upset'
           /\ pc[c] = "idle" /\ pc[Boot] = "done"
           /\ pc'[c] = step /\ job'[c] = kind /\ frame'[c] = f
           /\ \A d \in Proc \ {c} : pc'[d] = pc[d] /\ job'[d] = job[d]
<1>1. c \in Proc /\ Boot \in Proc /\ c # Boot
  BY BootIsNoCall DEF Proc
<1>2. pc \in [Proc -> Steps] /\ job \in [Proc -> Jobs] /\ frame \in [Proc -> Frames]
      /\ upset \in BOOLEAN
  BY DEF TypeOK, Proc
<1>3. /\ pc' = [pc EXCEPT ![c] = step] /\ frame' = [frame EXCEPT ![c] = f]
      /\ job' = [job EXCEPT ![c] = kind] /\ pc[c] = "idle" /\ pc[Boot] = "done"
  BY DEF Begin, GotoIn, Goto, At, Up
<1>4. upset' = (upset \/ crossed)
  BY DEF Begin
<1>5. upset' \in BOOLEAN /\ (upset => upset') /\ (crossed => upset')
  BY <1>2, <1>4
<1>6. BootInv'
  BY <1>1, <1>2, <1>3 DEF BootInv, Proc
<1>. QED  BY <1>1, <1>2, <1>3, <1>5, <1>6

\* Where nobody is under way, the workspace rests.
LEMMA RestsWhenQuiet ==
    ASSUME TypeOK, NEW w \in Proc, Cond(w), Quiet
    PROVE  /\ pc[w] = "done" /\ Rests /\ guard \notin Call
           /\ target = "dirty" => journal = TRUE
           /\ journal = TRUE => "absorb" \in left
<1>1. pc[w] = "done"
  BY DEF Quiet, Busy, Up, InFlight, Cond, Only, Proc
<1>. QED  BY <1>1 DEF Cond, Table, AbsorbRows, JournalOf, GuardOf

\* The new request is the one under way.
LEMMA BeginOnly ==
    ASSUME TypeOK, BootInv, NEW w \in Proc, Cond(w), pc[w] = "done", NEW c \in Call,
           NEW step \in Steps \ {"idle"}, pc'[c] = step,
           \A d \in Proc \ {c} : pc'[d] = pc[d]
    PROVE  Only(c)'
BY DEF Cond, Only, Proc

\* Who takes the guard finds nobody under way, or crosses a restore or a purge.
LEMMA GuardIsAlone ==
    ASSUME TypeOK, BootInv, NEW w \in Proc, Cond(w), Up, guard = None, ~Unguarded
    PROVE  Quiet
<1>1. ASSUME w \in Call, InFlight(w)
      PROVE  FALSE
  <2>1. job[w] \in Jobs
    BY DEF TypeOK, Proc
  <2>2. job[w] \notin {"restore", "purge"}
    BY <1>1 DEF Unguarded
  <2>3. job[w] # "boot"
    BY <1>1 DEF BootInv, InFlight
  <2>4. job[w] \in {"offboard", "absorb"}
    BY <2>1, <2>2, <2>3 DEF Jobs
  <2>. QED  BY <1>1, <2>4, BootIsNoCall DEF Cond, GuardOf, InFlight, Proc
<1>2. ASSUME NEW d \in Call, InFlight(d)
      PROVE  d = w
  BY <1>2 DEF Cond, Only, InFlight, Proc
<1>. QED  BY <1>1, <1>2 DEF Quiet, Busy

LEMMA BeginType ==
    ASSUME TypeOK, BootInv, NEW c \in Call,
           OffBegin(c) \/ ResBegin(c) \/ PurgeBegin(c) \/ AbsBegin(c)
    PROVE  TypeOK' /\ BootInv' /\ (upset => upset')
<1>0. /\ StoreTypes /\ DiskTypes /\ WorkTypes /\ BoundTypes
      /\ guard \in Call \cup {None, Run} /\ upset \in BOOLEAN
  BY TypeParts DEF TypeOK
<1>1. /\ Unguarded \in BOOLEAN /\ (Unguarded \/ journal) \in BOOLEAN /\ Busy \in BOOLEAN
      /\ {"offPrepare", "resSave", "purgeSave", "absJournal"} \subseteq Steps \ {"idle"}
      /\ {"offboard", "restore", "purge", "absorb"} \subseteq Jobs \ {"boot"}
      /\ {"offboard", "restore", "purge"} \subseteq Frames
  BY DEF Unguarded, Busy, Steps, Jobs, Frames, TypeOK
<1>2. /\ pc' \in [Proc -> Steps] /\ job' \in [Proc -> Jobs] /\ frame' \in [Proc -> Frames]
      /\ upset' \in BOOLEAN /\ BootInv' /\ (upset => upset')
  <2>1. CASE OffBegin(c)
    BY <1>1, <2>1, BeginFlow DEF OffBegin
  <2>2. CASE ResBegin(c)
    BY <1>1, <2>2, BeginFlow DEF ResBegin
  <2>3. CASE PurgeBegin(c)
    BY <1>1, <2>3, BeginFlow DEF PurgeBegin
  <2>4. CASE AbsBegin(c)
    BY <1>1, <2>4, BeginFlow DEF AbsBegin
  <2>. QED  BY <2>1, <2>2, <2>3, <2>4
<1>3. guard' \in Call \cup {None, Run}
  BY <1>0 DEF OffBegin, ResBegin, PurgeBegin, AbsBegin
<1>4. StoreTypes'
  BY <1>0, SetStores DEF OffBegin, ResBegin, PurgeBegin, AbsBegin, StoreTypes, stores, Lives,
                         Transit
<1>5. DiskTypes' /\ WorkTypes' /\ BoundTypes'
  BY <1>0 DEF OffBegin, ResBegin, PurgeBegin, AbsBegin, DiskTypes, WorkTypes, BoundTypes,
              disk, work, mishaps
<1>. QED  BY <1>2, <1>3, <1>4, <1>5, TypeParts

LEMMA OffBeginKeeps ==
    ASSUME TypeOK, BootInv, NEW w \in Proc, Cond(w), NEW c \in Call, OffBegin(c), ~upset'
    PROVE  Cond(c)' /\ KeepsRow
<1>0. c \in Proc /\ c # Boot /\ c # None /\ c # Run
  BY BootIsNoCall DEF Proc
<1>1. /\ Unguarded \in BOOLEAN /\ "offPrepare" \in Steps \ {"idle"}
      /\ "offboard" \in Jobs \ {"boot"} /\ "offboard" \in Frames
  BY DEF Unguarded, Steps, Jobs, Frames
<1>2. Begin(c, "offboard", "offPrepare", "offboard", Unguarded)
  BY DEF OffBegin
<1>3. /\ ~Unguarded /\ pc'[c] = "offPrepare" /\ job'[c] = "offboard" /\ frame'[c] = "offboard"
      /\ \A d \in Proc \ {c} : pc'[d] = pc[d]
  BY <1>1, <1>2, BeginFlow
<1>4. Quiet
  BY <1>2, <1>3, GuardIsAlone DEF OffBegin, Begin
<1>5. /\ pc[w] = "done" /\ Rests /\ guard \notin Call
      /\ target = "dirty" => journal = TRUE
      /\ journal = TRUE => "absorb" \in left
  BY <1>4, RestsWhenQuiet
<1>6. OnFloor
  BY <1>5 DEF OffBegin, Row, Listed, Unlisted, Retired, Place, OnFloor, Archived, Gone, Stopped,
     Rests, Restorable
<1>7. OnFloor'
  BY <1>6, SetStores DEF OffBegin, Row, Listed, Unlisted, Retired, Place, OnFloor, Archived, Gone,
     Stopped, Rests, stores, disk, Lives, Transit
<1>8. UNCHANGED <<run, terminal, journal, target, left>> /\ guard' = c
  BY DEF OffBegin, work, disk, mishaps
<1>9. Only(c)'
  BY <1>1, <1>3, <1>5, BeginOnly
<1>10. Table(c)' /\ FrameOf(c)' /\ JobOf(c)'
  BY <1>3, <1>7 DEF Table, OffboardRows, ArchiveRows, RestoreRows, PurgeRows, MarkRows, RecoverRows,
     AbsorbRows, FrameOf, JobOf, Row, Listed, Unlisted, Retired, Place, OnFloor, Archived, Gone,
     Stopped, Rests
<1>11. GuardOf(c)' /\ JournalOf(c)'
  BY <1>0, <1>3, <1>5, <1>8 DEF GuardOf, JournalOf, Ending
<1>12. WorkOf(c)'
  BY <1>0, <1>3, <1>5, <1>6, <1>7, <1>8, BootIsNoCall DEF Cond, WorkOf, Row, Listed, Unlisted,
     Retired, Place, OnFloor, Archived, Gone, Stopped, Rests, OffBegin, Working
<1>13. KeepsRow
  BY <1>6, <1>7 DEF KeepsRow, Ending, Row, Listed, Unlisted, Retired, Place, OnFloor, Archived,
     Gone, Stopped, Rests
<1>. QED  BY <1>9, <1>10, <1>11, <1>12, <1>13 DEF Cond

LEMMA AbsBeginKeeps ==
    ASSUME TypeOK, BootInv, NEW w \in Proc, Cond(w), NEW c \in Call, AbsBegin(c), ~upset'
    PROVE  Cond(c)' /\ KeepsRow
<1>0. c \in Proc /\ c # Boot /\ c # None /\ c # Run
  BY BootIsNoCall DEF Proc
<1>. DEFINE crossed == Unguarded \/ journal
<1>1. /\ crossed \in BOOLEAN /\ "absJournal" \in Steps \ {"idle"}
      /\ "absorb" \in Jobs \ {"boot"} /\ "offboard" \in Frames
  BY DEF Unguarded, Steps, Jobs, Frames, TypeOK
<1>2. Begin(c, "absorb", "absJournal", "offboard", crossed)
  BY DEF AbsBegin
<1>3a. /\ crossed => upset'
       /\ pc'[c] = "absJournal" /\ job'[c] = "absorb" /\ frame'[c] = "offboard"
       /\ \A d \in Proc \ {c} : pc'[d] = pc[d]
  <2>. HIDE DEF crossed
  <2>. QED  BY <1>1, <1>2, BeginFlow
<1>3. /\ ~Unguarded /\ journal = FALSE
      /\ pc'[c] = "absJournal" /\ job'[c] = "absorb" /\ frame'[c] = "offboard"
      /\ \A d \in Proc \ {c} : pc'[d] = pc[d]
  BY <1>3a, TypeParts DEF DiskTypes
<1>4. Quiet
  BY <1>2, <1>3, GuardIsAlone DEF AbsBegin, Begin
<1>5. /\ pc[w] = "done" /\ Rests /\ guard \notin Call
      /\ target = "dirty" => journal = TRUE
      /\ journal = TRUE => "absorb" \in left
  BY <1>4, RestsWhenQuiet
<1>6. OnFloor
  BY <1>5 DEF AbsBegin, Row, Listed, Unlisted, Retired, Place, OnFloor, Archived, Gone, Stopped,
     Rests, Restorable
<1>7. OnFloor'
  BY <1>6, SetStores DEF AbsBegin, Row, Listed, Unlisted, Retired, Place, OnFloor, Archived, Gone,
     Stopped, Rests, stores, disk, Lives, Transit
<1>8. UNCHANGED <<run, terminal, journal, target, left>> /\ guard' = c
  BY DEF AbsBegin, work, disk, mishaps
<1>9. Only(c)'
  BY <1>1, <1>3, <1>5, BeginOnly
<1>10. Table(c)' /\ FrameOf(c)' /\ JobOf(c)'
  BY <1>3, <1>7 DEF Table, OffboardRows, ArchiveRows, RestoreRows, PurgeRows, MarkRows, RecoverRows,
     AbsorbRows, FrameOf, JobOf, Row, Listed, Unlisted, Retired, Place, OnFloor, Archived, Gone,
     Stopped, Rests
<1>11. GuardOf(c)' /\ JournalOf(c)'
  BY <1>0, <1>3, <1>5, <1>8 DEF GuardOf, JournalOf, Ending
<1>12. WorkOf(c)'
  BY <1>0, <1>3, <1>5, <1>6, <1>7, <1>8, BootIsNoCall DEF Cond, WorkOf, Row, Listed, Unlisted,
     Retired, Place, OnFloor, Archived, Gone, Stopped, Rests, AbsBegin, Working
<1>13. KeepsRow
  BY <1>6, <1>7 DEF KeepsRow, Ending, Row, Listed, Unlisted, Retired, Place, OnFloor, Archived,
     Gone, Stopped, Rests
<1>. QED  BY <1>9, <1>10, <1>11, <1>12, <1>13 DEF Cond

LEMMA ResBeginKeeps ==
    ASSUME TypeOK, BootInv, NEW w \in Proc, Cond(w), NEW c \in Call, ResBegin(c), ~upset'
    PROVE  Cond(c)' /\ KeepsRow
<1>0. c \in Proc /\ c # Boot /\ c # None /\ c # Run
  BY BootIsNoCall DEF Proc
<1>1. /\ Busy \in BOOLEAN /\ "resSave" \in Steps \ {"idle"}
      /\ "restore" \in Jobs \ {"boot"} /\ "restore" \in Frames
  BY DEF Busy, Steps, Jobs, Frames
<1>2. Begin(c, "restore", "resSave", "restore", Busy)
  BY DEF ResBegin
<1>3. /\ ~Busy /\ pc'[c] = "resSave" /\ job'[c] = "restore" /\ frame'[c] = "restore"
      /\ \A d \in Proc \ {c} : pc'[d] = pc[d]
  BY <1>1, <1>2, BeginFlow
<1>4. Quiet
  BY <1>2, <1>3 DEF ResBegin, Begin, Quiet
<1>5. /\ pc[w] = "done" /\ Rests /\ guard \notin Call
      /\ target = "dirty" => journal = TRUE
      /\ journal = TRUE => "absorb" \in left
  BY <1>4, RestsWhenQuiet
<1>6. Archived
  BY <1>5 DEF ResBegin, Row, Listed, Unlisted, Retired, Place, OnFloor, Archived, Gone, Stopped,
     Rests, Restorable
<1>7. Row("restoring", "departed")' /\ Unlisted' /\ Retired' /\ Place("none", "whole")'
  BY <1>6, SetStores DEF ResBegin, Row, Listed, Unlisted, Retired, Place, OnFloor, Archived, Gone,
     Stopped, Rests, stores, disk, Lives, Transit
<1>8. UNCHANGED <<run, terminal, journal, target, left>> /\ guard' = guard
  BY DEF ResBegin, work, disk, mishaps
<1>9. Only(c)'
  BY <1>1, <1>3, <1>5, BeginOnly
<1>10. Table(c)' /\ FrameOf(c)' /\ JobOf(c)'
  BY <1>3, <1>7 DEF Table, OffboardRows, ArchiveRows, RestoreRows, PurgeRows, MarkRows, RecoverRows,
     AbsorbRows, FrameOf, JobOf, Row, Listed, Unlisted, Retired, Place, OnFloor, Archived, Gone,
     Stopped, Rests
<1>11. GuardOf(c)' /\ JournalOf(c)'
  BY <1>0, <1>3, <1>5, <1>8 DEF GuardOf, JournalOf, Ending
<1>12. WorkOf(c)'
  BY <1>0, <1>3, <1>5, <1>6, <1>7, <1>8, BootIsNoCall DEF Cond, WorkOf, Row, Listed, Unlisted,
     Retired, Place, OnFloor, Archived, Gone, Stopped, Rests, ResBegin, Working
<1>13. KeepsRow
  BY <1>6, <1>7 DEF KeepsRow, Ending, Row, Listed, Unlisted, Retired, Place, OnFloor, Archived,
     Gone, Stopped, Rests
<1>. QED  BY <1>9, <1>10, <1>11, <1>12, <1>13 DEF Cond

LEMMA PurgeBeginKeeps ==
    ASSUME TypeOK, BootInv, NEW w \in Proc, Cond(w), NEW c \in Call, PurgeBegin(c), ~upset'
    PROVE  Cond(c)'
<1>0. c \in Proc /\ c # Boot /\ c # None /\ c # Run
  BY BootIsNoCall DEF Proc
<1>1. /\ Busy \in BOOLEAN /\ "purgeSave" \in Steps \ {"idle"}
      /\ "purge" \in Jobs \ {"boot"} /\ "purge" \in Frames
  BY DEF Busy, Steps, Jobs, Frames
<1>2. Begin(c, "purge", "purgeSave", "purge", Busy)
  BY DEF PurgeBegin
<1>3. /\ ~Busy /\ pc'[c] = "purgeSave" /\ job'[c] = "purge" /\ frame'[c] = "purge"
      /\ \A d \in Proc \ {c} : pc'[d] = pc[d]
  BY <1>1, <1>2, BeginFlow
<1>4. Quiet
  BY <1>2, <1>3 DEF PurgeBegin, Begin, Quiet
<1>5. /\ pc[w] = "done" /\ Rests /\ guard \notin Call
      /\ target = "dirty" => journal = TRUE
      /\ journal = TRUE => "absorb" \in left
  BY <1>4, RestsWhenQuiet
<1>6. Archived \/ Stopped
  BY <1>5 DEF PurgeBegin, Row, Listed, Unlisted, Retired, Place, OnFloor, Archived, Gone, Stopped,
     Rests, Restorable
<1>7. /\ catalog'.mem = "purging" /\ Unlisted'
      /\ \/ catalog'.file = "departed" /\ Retired' /\ Place("none", "whole")'
         \/ catalog'.file = "purging" /\ dir'["active"] = "none"
  BY <1>6, SetStores DEF PurgeBegin, Row, Listed, Unlisted, Retired, Place, OnFloor, Archived, Gone,
     Stopped, Rests, stores, disk, Lives, Transit
<1>8. /\ UNCHANGED <<run, terminal, journal, target>> /\ guard' = guard
      /\ "absorb" \in left => "absorb" \in left'
  BY DEF PurgeBegin, work, disk
<1>9. Only(c)'
  BY <1>1, <1>3, <1>5, BeginOnly
<1>10. Table(c)' /\ FrameOf(c)' /\ JobOf(c)'
  BY <1>3, <1>7 DEF Table, OffboardRows, ArchiveRows, RestoreRows, PurgeRows, MarkRows, RecoverRows,
     AbsorbRows, FrameOf, JobOf, Row, Listed, Unlisted, Retired, Place, OnFloor, Archived, Gone,
     Stopped, Rests
<1>11. GuardOf(c)' /\ JournalOf(c)'
  BY <1>0, <1>3, <1>5, <1>8 DEF GuardOf, JournalOf, Ending
<1>12. WorkOf(c)'
  BY <1>0, <1>3, <1>5, <1>6, <1>7, <1>8, BootIsNoCall DEF Cond, WorkOf, Row, Listed, Unlisted,
     Retired, Place, OnFloor, Archived, Gone, Stopped, Rests, PurgeBegin, Working
<1>. QED  BY <1>9, <1>10, <1>11, <1>12 DEF Cond

\* The launch.
LEMMA CrashKeeps ==
    ASSUME TypeOK, BootInv, Crash
    PROVE  /\ TypeOK' /\ BootInv' /\ upset' = upset
           /\ \A w \in Proc : ~upset /\ Cond(w) => Cond(Boot)' /\ KeepsRow /\ job' = job
<1>0. /\ StoreTypes /\ DiskTypes /\ WorkTypes /\ BoundTypes
      /\ pc \in [Proc -> Steps] /\ job \in [Proc -> Jobs] /\ frame \in [Proc -> Frames]
      /\ guard \in Call \cup {None, Run} /\ upset \in BOOLEAN
  BY TypeParts DEF TypeOK, Proc
<1>1. /\ pc' = [c \in Proc |-> IF c = Boot THEN "load"
                                 ELSE IF pc[c] = "idle" THEN "idle" ELSE "done"]
      /\ guard' = None /\ run' = "none" /\ terminal' = FALSE
      /\ UNCHANGED <<job, frame, catalog, registry, retired, dir, otherDisk, journal, target,
                     faults, left, upset>>
  BY DEF Crash, Proc, stores, disk
<1>2. /\ pc' \in [Proc -> Steps] /\ pc'[Boot] = "load"
      /\ \A c \in Proc \ {Boot} : /\ pc'[c] \in {"idle", "done"}
                                  /\ pc[c] = "idle" => pc'[c] = "idle"
                                  /\ pc'[c] = "idle" => pc[c] = "idle"
  BY <1>0, <1>1, BootIsNoCall DEF Steps, Proc
<1>3. BoundTypes'
  BY <1>0, <1>1, BoundsAssumption DEF Crash, BoundTypes
<1>4. StoreTypes' /\ DiskTypes' /\ WorkTypes'
  BY <1>0, <1>1 DEF StoreTypes, DiskTypes, WorkTypes
<1>5. TypeOK'
  BY <1>0, <1>1, <1>2, <1>3, <1>4, TypeParts
<1>6. BootInv'
  BY <1>1, <1>2, BootIsNoCall DEF BootInv, Proc
<1>7. ASSUME ~upset, NEW w \in Proc, Cond(w)
      PROVE  Cond(Boot)' /\ KeepsRow /\ job' = job
  <2>1. Durable'
    BY <1>1, <1>7, TableDurable DEF Durable, Leaving, Returning, Place
  <2>2. Only(Boot)'
    BY <1>2 DEF Only
  <2>3. Table(Boot)' /\ FrameOf(Boot)'
    BY <1>2, <2>1 DEF Table, OffboardRows, ArchiveRows, RestoreRows, PurgeRows, MarkRows,
                      RecoverRows, AbsorbRows, FrameOf
  <2>4. JobOf(Boot)' /\ GuardOf(Boot)' /\ WorkOf(Boot)'
    BY <1>1, <1>2, BootIsNoCall DEF BootInv, JobOf, GuardOf, WorkOf, Proc
  <2>5. JournalOf(Boot)'
    BY <1>1, <1>2, <1>7 DEF BootInv, Cond, JournalOf, Ending
  <2>6. KeepsRow
    BY <1>1 DEF KeepsRow
  <2>. QED  BY <1>1, <2>2, <2>3, <2>4, <2>5, <2>6 DEF Cond
<1>. QED  BY <1>1, <1>5, <1>6, <1>7

LEMMA LoadKeeps ==
    ASSUME TypeOK, BootInv, Load
    PROVE  /\ TypeOK' /\ BootInv' /\ upset' = upset
           /\ \A w \in Proc : ~upset /\ Cond(w) =>
                  /\ Cond(Boot)' /\ job' = job
                  /\ catalog'.mem \in Ending => catalog.file \in Ending
                  /\ catalog'.file \in Ending => catalog.file \in Ending
<1>0. /\ StoreTypes /\ DiskTypes /\ WorkTypes /\ BoundTypes /\ Boot \in Proc
      /\ guard \in Call \cup {None, Run} /\ upset \in BOOLEAN
  BY TypeParts DEF TypeOK, Proc
<1>1. /\ pc[Boot] = "load" /\ GotoIn(Boot, "rec", "recover")
      /\ UNCHANGED <<job, guard, dir, otherDisk, journal, target, run, terminal, crashes,
                     faults, upset>>
      /\ left' = {}
  BY DEF Load, At, disk, work
<1>2. Flow(Boot) /\ pc'[Boot] = "rec" /\ frame'[Boot] = "recover"
  BY <1>0, <1>1, GotoInFlow DEF Steps, Frames
<1>3. /\ registry' \in Stored(BOOLEAN) /\ registry'.mem = registry.file
      /\ registry'.file = registry.file
      /\ retired' \in Stored(BOOLEAN) /\ retired'.mem = retired.file
      /\ retired'.file = retired.file
  BY <1>0 DEF Load, StoreTypes, Stored
<1>4. /\ catalog' \in Stored(Lives) /\ catalog'.mem = catalog'.file
      /\ catalog.file = "restoring" /\ registry.file = TRUE => catalog'.mem = "active"
      /\ ~(catalog.file = "restoring" /\ registry.file = TRUE) => catalog'.mem = catalog.file
  BY <1>0 DEF Load, StoreTypes, Stored, Lives, Stable
<1>5. TypeOK' /\ BootInv'
  BY <1>0, <1>1, <1>2, <1>3, <1>4, FlowType DEF StoreTypes, DiskTypes, WorkTypes, BoundTypes
<1>6. ASSUME ~upset, NEW w \in Proc, Cond(w)
      PROVE  Cond(Boot)' /\ (catalog'.mem \in Ending => catalog.file \in Ending)
             /\ (catalog'.file \in Ending => catalog.file \in Ending) /\ job' = job
  <2>1. w = Boot
    BY <1>0, <1>1, <1>6 DEF Cond, Only
  <2>2. Durable /\ job[Boot] = "boot"
    BY <1>6, TableDurable DEF BootInv
  <2>3. Durable' /\ (catalog'.mem = "restoring" => registry'.mem = FALSE)
    BY <1>0, <1>1, <1>3, <1>4, <2>2 DEF Durable, Leaving, Returning, Place, StoreTypes, Stored
  <2>4. Table(Boot)'
    BY <1>2, <1>3, <1>4, <2>3 DEF Table, OffboardRows, ArchiveRows, RestoreRows, PurgeRows,
                                  MarkRows, RecoverRows, AbsorbRows
  <2>5. FrameOf(Boot)' /\ JobOf(Boot)' /\ GuardOf(Boot)' /\ JournalOf(Boot)' /\ WorkOf(Boot)'
    BY <1>1, <1>2, <1>4, <1>6, <2>1, <2>2, BootIsNoCall
       DEF Ending, FrameOf, JobOf, GuardOf, JournalOf, WorkOf, Cond, Proc
  <2>6. /\ catalog'.mem \in Ending => catalog.file \in Ending
        /\ catalog'.file \in Ending => catalog.file \in Ending
    BY <1>4 DEF Ending
  <2>. QED  BY <1>0, <1>1, <1>2, <1>6, <2>1, <2>4, <2>5, <2>6, FlowOnly DEF Cond
<1>. QED  BY <1>1, <1>5, <1>6

LEMMA BootAbsorbKeeps ==
    ASSUME TypeOK, BootInv, BootAbsorb
    PROVE  /\ TypeOK' /\ BootInv' /\ upset' = upset
           /\ \A w \in Proc : ~upset /\ Cond(w) => Cond(Boot)' /\ KeepsRow /\ job' = job
<1>0. /\ StoreTypes /\ DiskTypes /\ WorkTypes /\ BoundTypes /\ Boot \in Proc
      /\ guard \in Call \cup {None, Run} /\ upset \in BOOLEAN
  BY TypeParts DEF TypeOK, Proc
<1>1. /\ pc[Boot] = "bootAbsorb"
      /\ UNCHANGED <<job, frame, guard, catalog, registry, retired, dir, otherDisk, journal,
                     target, run, terminal, crashes, faults, left, upset>>
  BY DEF BootAbsorb, At, stores, disk, work, mishaps
<1>2. /\ Flow(Boot) /\ pc'[Boot] \in {"done", "absMark", "absUndo"}
      /\ pc'[Boot] = "done" => journal = FALSE
      /\ pc'[Boot] = "absMark" => target = "committed" /\ catalog.mem = "departed"
      /\ pc'[Boot] = "absUndo" => journal = TRUE
  <2>1. CASE ~journal
    BY <1>0, <1>1, <2>1, GotoFlow DEF BootAbsorb, Steps, DiskTypes
  <2>2. CASE journal /\ target = "committed" /\ catalog.mem = "departed"
    BY <1>0, <1>1, <2>2, GotoFlow DEF BootAbsorb, Steps
  <2>3. CASE journal /\ ~(target = "committed" /\ catalog.mem = "departed")
    BY <1>0, <1>1, <2>3, GotoFlow DEF BootAbsorb, Steps, DiskTypes
  <2>. QED  BY <2>1, <2>2, <2>3
<1>3. TypeOK' /\ BootInv'
  BY <1>0, <1>1, <1>2, FlowType DEF StoreTypes, DiskTypes, WorkTypes, BoundTypes
<1>4. ASSUME ~upset, NEW w \in Proc, Cond(w)
      PROVE  Cond(Boot)' /\ KeepsRow /\ job' = job
  <2>1. w = Boot
    BY <1>0, <1>1, <1>4 DEF Cond, Only
  <2>2. Cond(Boot) /\ Rests /\ frame[Boot] = "recover" /\ job[Boot] = "boot"
    BY <1>1, <1>4, <2>1 DEF Cond, Table, AbsorbRows, FrameOf, BootInv
  <2>3. frame'[Boot] = "recover" /\ job'[Boot] = "boot"
    BY <1>1, <2>2
  <2>4. Table(Boot)'
    BY <1>1, <1>2, <2>2 DEF Cond, JournalOf, Ending, Table, OffboardRows, ArchiveRows,
       RestoreRows, PurgeRows, MarkRows, RecoverRows, AbsorbRows, Rests, OnFloor, Archived,
       Gone, Stopped, Row, Listed, Unlisted, Retired, Place
  <2>5. FrameOf(Boot)' /\ JobOf(Boot)' /\ GuardOf(Boot)' /\ JournalOf(Boot)' /\ WorkOf(Boot)'
    BY <1>1, <1>2, <2>2, <2>3, BootIsNoCall
       DEF FrameOf, JobOf, GuardOf, JournalOf, WorkOf, Cond, Proc
  <2>6. KeepsRow
    BY <1>1 DEF KeepsRow
  <2>. QED  BY <1>0, <1>1, <1>2, <2>2, <2>4, <2>5, <2>6, FlowOnly DEF Cond
<1>. QED  BY <1>1, <1>3, <1>4

\* What runs in the workspace.
Work == \/ RunAsked \/ RunRecord \/ RunLease \/ RunSpawn \/ RunEnd
        \/ TerminalSpawn \/ TerminalEnd

LEMMA WorkKeeps ==
    ASSUME TypeOK, BootInv, Work
    PROVE  /\ TypeOK' /\ BootInv' /\ upset' = upset
           /\ \A w \in Proc : ~upset /\ Cond(w) => Cond(w)' /\ KeepsRow /\ job' = job
<1>0. /\ StoreTypes /\ DiskTypes /\ WorkTypes /\ BoundTypes
      /\ pc \in [Proc -> Steps] /\ job \in [Proc -> Jobs] /\ frame \in [Proc -> Frames]
      /\ guard \in Call \cup {None, Run} /\ upset \in BOOLEAN
  BY TypeParts DEF TypeOK, Proc
<1>1. UNCHANGED <<pc, job, frame, catalog, registry, retired, dir, otherDisk, journal, target,
                  crashes, faults, left, upset>>
  BY DEF Work, RunAsked, RunRecord, RunLease, RunSpawn, RunEnd, TerminalSpawn, TerminalEnd,
         calls, stores, disk, mishaps
<1>2. WorkTypes' /\ guard' \in Call \cup {None, Run}
  BY <1>0 DEF Work, RunAsked, RunRecord, RunLease, RunSpawn, RunEnd, TerminalSpawn, TerminalEnd,
              calls, WorkTypes
<1>3. StoreTypes' /\ DiskTypes' /\ BoundTypes'
  BY <1>0, <1>1 DEF StoreTypes, DiskTypes, BoundTypes
<1>4. TypeOK' /\ BootInv'
  BY <1>0, <1>1, <1>2, <1>3, TypeParts DEF BootInv
<1>5. ASSUME ~upset, NEW w \in Proc, Cond(w)
      PROVE  Cond(w)' /\ KeepsRow /\ job' = job
  <2>1. Only(w)' /\ Table(w)' /\ FrameOf(w)' /\ JobOf(w)' /\ JournalOf(w)' /\ KeepsRow
    <3>1. Only(w)' /\ FrameOf(w)' /\ JobOf(w)' /\ JournalOf(w)' /\ KeepsRow
      BY <1>1, <1>5 DEF Cond, Only, FrameOf, JobOf, JournalOf, KeepsRow
    <3>2. Table(w)'
      BY <1>1, <1>5 DEF Cond, Table, OffboardRows, ArchiveRows, RestoreRows, PurgeRows, MarkRows,
         RecoverRows, AbsorbRows, MarkDeparted, MarkActive, MarkPurged, Durable, Leaving, Returning,
         Rests, OnFloor, Archived, Gone, Stopped, Row, Listed, Unlisted, Retired, Place
    <3>. QED  BY <3>1, <3>2
  <2>2. GuardOf(w)' /\ WorkOf(w)'
    <3>1. /\ pc[w] # "idle" /\ None \notin Call /\ Run \notin Call /\ None # Run
          /\ w = Boot /\ pc[w] # "done" => ~Up
          /\ GuardOf(w) /\ WorkOf(w)
      BY <1>5, BootIsNoCall DEF Cond, Only, Up, Proc
    <3>2. CASE RunAsked
      BY <1>1, <3>1, <3>2 DEF RunAsked, GuardOf, WorkOf, calls
    <3>3. CASE RunRecord
      BY <1>1, <3>1, <3>3 DEF RunRecord, GuardOf, WorkOf, calls
    <3>4. CASE RunLease
      <4>1. CASE guard = None /\ catalog.mem = "active"
        BY <1>1, <3>1, <3>4, <4>1 DEF RunLease, GuardOf, WorkOf
      <4>2. CASE ~(guard = None /\ catalog.mem = "active")
        BY <1>1, <3>1, <3>4, <4>2 DEF RunLease, GuardOf, WorkOf
      <4>. QED  BY <4>1, <4>2
    <3>5. CASE RunSpawn
      BY <1>1, <3>1, <3>5 DEF RunSpawn, GuardOf, WorkOf
    <3>6. CASE RunEnd
      BY <1>1, <3>1, <3>6 DEF RunEnd, GuardOf, WorkOf, calls
    <3>7. CASE TerminalSpawn
      BY <1>0, <1>1, <3>1, <3>7 DEF TerminalSpawn, GuardOf, WorkOf, calls, StoreTypes, Stored
    <3>8. CASE TerminalEnd
      BY <1>1, <3>1, <3>8 DEF TerminalEnd, GuardOf, WorkOf, calls
    <3>. QED  BY <3>2, <3>3, <3>4, <3>5, <3>6, <3>7, <3>8 DEF Work
  <2>. QED  BY <1>1, <2>1, <2>2 DEF Cond
<1>. QED  BY <1>1, <1>4, <1>5

\* A row that is no nearer its end stays clear of the purge nobody asked for.
LEMMA PurgeKept ==
    ASSUME PurgeInv, KeepsRow, job' = job
    PROVE  PurgeInv'
BY DEF PurgeInv, KeepsRow

LEMMA InitInv == Init => IInv
<1>. SUFFICES ASSUME Init  PROVE IInv
  OBVIOUS
<1>1. TypeOK
  <2>1. /\ pc \in [Call \cup {Boot} -> Steps] /\ job \in [Call \cup {Boot} -> Jobs]
        /\ frame \in [Call \cup {Boot} -> Frames] /\ guard \in Call \cup {None, Run}
    BY DEF Init, Steps, Jobs, Frames
  <2>2. /\ catalog \in Stored(Transit \cup Stable) /\ registry \in Stored(BOOLEAN)
        /\ retired \in Stored(BOOLEAN)
    BY DEF Init, Stored, Transit, Stable
  <2>3. dir \in [{"active", "departed"} -> {"none", "husk", "whole"}]
    BY DEF Init
  <2>4. crashes \in 0..MaxCrashes /\ faults \in 0..MaxFaults /\ left \subseteq {"purge", "absorb"}
    BY BoundsAssumption DEF Init
  <2>. QED  BY <2>1, <2>2, <2>3, <2>4 DEF Init, TypeOK
<1>2. /\ pc = [c \in Proc |-> IF c = Boot THEN "done" ELSE "idle"]
      /\ job = [c \in Proc |-> "boot"] /\ frame = [c \in Proc |-> "recover"] /\ Boot \in Proc
  BY DEF Init, Proc
<1>3. BootInv
  BY <1>2, BootIsNoCall DEF BootInv, Proc
<1>4. PurgeInv
  BY DEF Init, PurgeInv, Ending
<1>5. Only(Boot)
  BY <1>2 DEF Only
<1>6. OnFloor
  BY DEF Init, OnFloor, Row, Listed, Place
<1>7. Table(Boot) /\ FrameOf(Boot) /\ JobOf(Boot)
  BY <1>2, <1>6 DEF Table, OffboardRows, ArchiveRows, RestoreRows, PurgeRows, MarkRows,
                    RecoverRows, AbsorbRows, Rests, FrameOf, JobOf
<1>8. GuardOf(Boot) /\ JournalOf(Boot) /\ WorkOf(Boot)
  BY <1>2, BootIsNoCall DEF Init, GuardOf, JournalOf, WorkOf, Ending, Proc
<1>. QED  BY <1>1, <1>2, <1>3, <1>4, <1>5, <1>7, <1>8 DEF IInv, Cond

LEMMA Inductive == IInv /\ [Next]_vars => IInv'
<1>. SUFFICES ASSUME IInv, [Next]_vars  PROVE IInv'
  OBVIOUS
<1>0. TypeOK /\ BootInv /\ upset \in BOOLEAN /\ Boot \in Proc
  BY DEF IInv, TypeOK, Proc
<1>1. ASSUME NEW c \in Call, OffBegin(c) \/ ResBegin(c) \/ PurgeBegin(c) \/ AbsBegin(c)
      PROVE  IInv'
  <2>1. TypeOK' /\ BootInv' /\ (upset => upset')
    BY <1>0, <1>1, BeginType
  <2>2. ASSUME ~upset'
        PROVE  PurgeInv' /\ \E w \in Proc : Cond(w)'
    <3>1. PICK w \in Proc : Cond(w)
      BY <2>1, <2>2 DEF IInv
    <3>2. c \in Proc /\ PurgeInv
      BY <2>1, <2>2 DEF IInv, Proc
    <3>3. job' = [job EXCEPT ![c] = job'[c]] /\ job[c] = "boot" /\ job \in [Proc -> Jobs]
      BY <1>0, <1>1 DEF OffBegin, ResBegin, PurgeBegin, AbsBegin, Begin, At, BootInv, TypeOK, Proc
    <3>4. CASE OffBegin(c) \/ ResBegin(c) \/ AbsBegin(c)
      <4>1. Cond(c)' /\ KeepsRow
        BY <1>0, <2>2, <3>1, <3>4, OffBeginKeeps, ResBeginKeeps, AbsBeginKeeps
      <4>2. PurgeInv'
        BY <3>2, <3>3, <4>1 DEF PurgeInv, KeepsRow, Proc
      <4>. QED  BY <3>2, <4>1, <4>2
    <3>5. CASE PurgeBegin(c)
      <4>1. Cond(c)'
        BY <1>0, <2>2, <3>1, <3>5, PurgeBeginKeeps
      <4>2. job'[c] = "purge"
        BY <3>2, <3>3, <3>5 DEF PurgeBegin, Begin
      <4>3. PurgeInv'
        BY <4>2 DEF PurgeInv
      <4>. QED  BY <3>2, <4>1, <4>3
    <3>. QED  BY <1>1, <3>4, <3>5
  <2>. QED  BY <2>1, <2>2 DEF IInv
<1>2. ASSUME NEW c \in Proc, Step(c)
      PROVE  IInv'
  <2>1. TypeOK' /\ BootInv' /\ (upset => upset')
    BY <1>0, <1>2, StepType
  <2>2. ASSUME ~upset'
        PROVE  PurgeInv' /\ \E w \in Proc : Cond(w)'
    <3>1. PICK w \in Proc : Cond(w)
      BY <2>1, <2>2 DEF IInv
    <3>2. w = c
      BY <1>0, <1>2, <3>1, StepIsOfOne
    <3>3. Cond(c)' /\ KeepsRow
      BY <1>0, <1>2, <2>2, <3>1, <3>2, StepKeeps
    <3>4. job' = job
      BY <1>0, <1>2, StepType
    <3>. QED  BY <1>2, <2>1, <2>2, <3>3, <3>4, PurgeKept DEF IInv
  <2>. QED  BY <2>1, <2>2 DEF IInv
<1>3. CASE Load
  <2>1. TypeOK' /\ BootInv' /\ upset' = upset
    BY <1>0, <1>3, LoadKeeps
  <2>2. ASSUME ~upset
        PROVE  PurgeInv' /\ Cond(Boot)'
    <3>1. PICK w \in Proc : Cond(w)
      BY <2>2 DEF IInv
    <3>2. /\ Cond(Boot)' /\ job' = job
          /\ catalog'.mem \in Ending => catalog.file \in Ending
          /\ catalog'.file \in Ending => catalog.file \in Ending
      BY <1>0, <1>3, <2>2, <3>1, LoadKeeps
    <3>3. PurgeInv'
      BY <2>2, <3>2 DEF IInv, PurgeInv
    <3>. QED  BY <3>2, <3>3
  <2>. QED  BY <1>0, <2>1, <2>2 DEF IInv
<1>4. CASE BootAbsorb \/ Crash
  <2>1. TypeOK' /\ BootInv' /\ upset' = upset
    BY <1>0, <1>4, BootAbsorbKeeps, CrashKeeps
  <2>2. ASSUME ~upset
        PROVE  PurgeInv' /\ Cond(Boot)'
    <3>1. PICK w \in Proc : Cond(w)
      BY <2>2 DEF IInv
    <3>2. Cond(Boot)' /\ KeepsRow /\ job' = job
      BY <1>0, <1>4, <2>2, <3>1, BootAbsorbKeeps, CrashKeeps
    <3>. QED  BY <2>2, <3>2, PurgeKept DEF IInv
  <2>. QED  BY <1>0, <2>1, <2>2 DEF IInv
<1>5. CASE Work
  <2>1. TypeOK' /\ BootInv' /\ upset' = upset
    BY <1>0, <1>5, WorkKeeps
  <2>2. ASSUME ~upset
        PROVE  PurgeInv' /\ \E w \in Proc : Cond(w)'
    <3>1. PICK w \in Proc : Cond(w)
      BY <2>2 DEF IInv
    <3>2. Cond(w)' /\ KeepsRow /\ job' = job
      BY <1>0, <1>5, <2>2, <3>1, WorkKeeps
    <3>. QED  BY <2>2, <3>2, PurgeKept DEF IInv
  <2>. QED  BY <2>1, <2>2 DEF IInv
<1>6. CASE UNCHANGED vars
  <2>1. UNCHANGED <<pc, job, frame, guard, catalog, registry, retired, dir, otherDisk, journal,
                    target, run, terminal, crashes, faults, left, upset>>
    BY <1>6 DEF vars, calls, stores, disk, work, mishaps
  <2>2. TypeOK' /\ BootInv'
    BY <1>0, <2>1 DEF TypeOK, BootInv
  <2>3. ASSUME ~upset, NEW w \in Proc, Cond(w)
        PROVE  Cond(w)'
    BY <2>1, <2>3 DEF Cond, Only, Table, OffboardRows, ArchiveRows, RestoreRows, PurgeRows,
       MarkRows, RecoverRows, AbsorbRows, MarkDeparted, MarkActive, MarkPurged, Durable, Leaving,
       Returning, Rests, OnFloor, Archived, Gone, Stopped, Row, Listed, Unlisted, Retired, Place,
       FrameOf, JobOf, GuardOf, JournalOf, WorkOf
  <2>. QED  BY <2>1, <2>2, <2>3 DEF IInv, PurgeInv
<1>. QED  BY <1>1, <1>2, <1>3, <1>4, <1>5, <1>6 DEF Next, Work, Proc

LEMMA SpecInv == Spec => []IInv
BY InitInv, Inductive, PTL DEF Spec

-----------------------------------------------------------------------------
(* Theorems.                                                               *)

\* The calls, the stores on both sides, the disk and the work keep their types.
THEOREM LifecycleTypeCorrect == Spec => []TypeOK
<1>1. IInv => TypeOK
  BY DEF IInv
<1>. QED  BY <1>1, SpecInv, PTL

\* Between requests the records of where a workspace is agree, whatever crashed
\* or failed before: offboard, restore, absorb and the recovery of recoverRecord
\* leave no row in a transition.  Only a purge that threw since the launch leaves
\* its row "purging", and then the workspace is out of reach.
THEOREM LifecycleSettles == Spec => []Settled
<1>1. ASSUME IInv, Quiet, ~upset
      PROVE  Rests
  <2>1. PICK w \in Proc : Cond(w)
    BY <1>1 DEF IInv
  <2>. QED  BY <1>1, <2>1, RestsWhenQuiet DEF IInv
<1>2. Rests => catalog.mem = catalog.file /\ registry.mem = registry.file
  BY DEF Rests, OnFloor, Archived, Gone, Stopped, Row, Listed, Unlisted
<1>3. Stopped => PurgeStopped
  BY DEF Stopped, PurgeStopped, Row, Unlisted
<1>4. ASSUME TypeOK, OnFloor \/ Archived \/ Gone
      PROVE  AtRest
  <2>1. /\ catalog.mem \in Stable /\ registry.mem = (catalog.mem = "active")
        /\ catalog.mem = "departed" => retired.mem
    BY <1>4 DEF OnFloor, Archived, Gone, Row, Listed, Unlisted, Retired, Stable
  <2>2. dir = [active |-> IF catalog.mem = "active" THEN "whole" ELSE "none",
               departed |-> IF catalog.mem = "departed" THEN "whole" ELSE "none"]
    BY <1>4 DEF TypeOK, OnFloor, Archived, Gone, Row, Place
  <2>. QED  BY <2>1, <2>2 DEF AtRest
<1>5. IInv => Settled
  BY <1>1, <1>2, <1>3, <1>4 DEF IInv, Settled, Rests
<1>. QED  BY <1>5, SpecInv, PTL

\* Unless a purge was asked for, the checkout is whole in one of its two
\* places at every step of moveDirectory, of a failure and of a recovery.
THEOREM CheckoutIsNeverLost == Spec => []CheckoutSurvives
<1>1. ASSUME IInv, ~upset, \A c \in Call : job[c] # "purge"
      PROVE  "whole" \in {dir["active"], dir["departed"]}
  <2>1. PICK w \in Proc : Cond(w)
    BY <1>1 DEF IInv
  <2>2. catalog.mem \notin Ending /\ catalog.file \notin Ending
    BY <1>1 DEF IInv, PurgeInv
  <2>3. Durable /\ catalog.file \in Lives
    BY <1>1, <2>1, TableDurable, TypeParts DEF IInv, StoreTypes, Stored
  <2>. QED  BY <2>2, <2>3 DEF Durable, Leaving, Returning, Place, Ending, Lives, Transit, Stable
<1>2. IInv => CheckoutSurvives
  BY <1>1 DEF CheckoutSurvives
<1>. QED  BY <1>2, SpecInv, PTL

\* No headless run and no terminal loses the checkout under it: offboarding
\* and absorb hold the guard against runs and pause the terminals before the move.
THEOREM WorkKeepsItsDesk == Spec => []WorkHasItsDesk
<1>1. ASSUME IInv, ~upset, run = "live" \/ terminal = TRUE
      PROVE  dir["active"] = "whole"
  <2>1. PICK w \in Proc : Cond(w)
    BY <1>1 DEF IInv
  <2>2. /\ pc[w] \in Steps /\ pc[w] # "idle" /\ frame[w] \in Frames
        /\ pc[w] \in {"load", "bootAbsorb"} => w = Boot
    <3>1. pc[w] \in Steps /\ frame[w] \in Frames /\ pc[w] # "idle"
      BY <1>1, <2>1 DEF IInv, TypeOK, Proc, Cond, Only
    <3>. QED  BY <1>1, <2>1, <3>1 DEF IInv, BootInv, Cond, JobOf, Proc
  <2>3. /\ run = "live" => catalog.mem = "active"
        /\ terminal = TRUE => registry.mem = TRUE \/ pc[w] = "offRemove"
        /\ w = Boot => pc[w] = "done"
    BY <1>1, <2>1 DEF Cond, WorkOf
  <2>4. catalog.mem = "active" \/ registry.mem = TRUE \/ pc[w] = "offRemove"
    BY <1>1, <2>3
  <2>5. frame[w] # "recover" \/ pc[w] = "done"
    BY <1>1, <2>1, <2>2, <2>3, LaunchIsAlone DEF IInv
  <2>6. CASE pc[w] \in {"offPrepare", "offLate", "offCancel", "offHandoff", "offRemove",
                        "move", "rmActive", "retire", "recRemove", "recHandoff"}
    BY <2>1, <2>2, <2>4, <2>5, <2>6
       DEF Cond, FrameOf, Table, OffboardRows, ArchiveRows, RecoverRows, Row, Listed, Unlisted,
           Place, Leaving, Returning, OnFloor
  <2>7. CASE pc[w] \in {"resSave", "moveBack", "rmDeparted", "add", "recall", "purgeSave",
                        "purgeRm"}
    BY <2>1, <2>4, <2>7 DEF Cond, Table, RestoreRows, PurgeRows, Row, Listed, Unlisted, Place
  <2>8. CASE pc[w] = "mark"
    BY <2>1, <2>4, <2>8 DEF Cond, Table, MarkRows, MarkDeparted, MarkActive, MarkPurged, Row,
                            Listed, Unlisted, Place
  <2>9. CASE pc[w] = "rec"
    BY <2>1, <2>4, <2>5, <2>9 DEF Cond, Table, FrameOf, RecoverRows, Row, Unlisted, Place
  <2>10. CASE pc[w] \in {"absJournal", "absCopy", "absCommit", "absMark", "absClean", "absUndo",
                         "absUndone", "bootAbsorb", "load", "done"}
    BY <2>1, <2>2, <2>3, <2>4, <2>10 DEF Cond, Table, AbsorbRows, Row, Listed, Unlisted, Place,
       OnFloor, Archived, Gone, Stopped, Rests
  <2>. QED  BY <2>2, <2>6, <2>7, <2>8, <2>9, <2>10 DEF Steps
<1>2. IInv => WorkHasItsDesk
  <2>1. IInv => terminal \in BOOLEAN
    BY DEF IInv, TypeOK
  <2>. QED  BY <1>1, <2>1 DEF WorkHasItsDesk
<1>. QED  BY <1>2, SpecInv, PTL

\* An absorb that failed or was cut off by a crash is rolled back or finished:
\* between requests the target holds no files that were copied and not committed,
\* unless restoreTargetTransaction itself failed since the launch, and then the
\* journal is still there for the next recoverTarget.
THEOREM AbsorbIsWhole == Spec => []NoHalfAbsorb
<1>1. ASSUME IInv, Quiet, ~upset
      PROVE  (target = "dirty" => journal = TRUE) /\ (journal = TRUE => "absorb" \in left)
  <2>1. PICK w \in Proc : Cond(w)
    BY <1>1 DEF IInv
  <2>. QED  BY <1>1, <2>1, RestsWhenQuiet DEF IInv
<1>2. IInv => NoHalfAbsorb
  BY <1>1, TypeParts DEF NoHalfAbsorb, IInv, DiskTypes
<1>. QED  BY <1>2, SpecInv, PTL

=============================================================================
