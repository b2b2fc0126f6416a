------------------------------ MODULE RuntimeLock ------------------------------
(***************************************************************************)
(* The directory lock that keeps one Alice process, or one Guardian, per   *)
(* home (packages/guardian-runtime/src/runtime-lock.ts).                   *)
(*                                                                         *)
(* A process is one run of a launcher: it makes one call of acquire with a *)
(* token of its own, and a restart is another process.  It makes at most   *)
(* one lock directory, so the process names the directory it made (its     *)
(* inode and birth time).  Every file operation goes by the path and meets *)
(* the directory that is there at that moment; each is one step.           *)
(***************************************************************************)
EXTENDS Naturals, FiniteSets

CONSTANTS
    Proc,
    None,
    MaxAttempts,   \* the 40 attempts of acquireRuntimeLock
    MaxCrashes     \* bound: processes that crash

ASSUME LockConstants ==
    /\ None \notin Proc
    /\ MaxAttempts \in Nat \ {0} /\ MaxCrashes \in Nat

VARIABLES
    dir,       \* the directory at the path of the lock
    owner,     \* the token in its owner.json
    claim,     \* who made its `reclaiming'
    young,     \* its mtime is within the initialization grace
    tmp,       \* the processes that have a temporary owner file in it
    pc,        \* where a process is
    seen,      \* what its inspection, or its heartbeat, read
    hb,        \* a heartbeat between its read and its write
    tries,
    alive,     \* the processes that run
    crashes,
    outrun     \* history: a claimant acted on a directory still at work, or on
               \* another's claim

vars == <<dir, owner, claim, young, tmp, pc, seen, hb, tries, alive, crashes, outrun>>

Opt == Proc \cup {None}
Steps == {"idle", "start", "made", "temp", "held", "stat", "read", "judge", "kill",
          "claim", "verifyId", "verifyOwner", "rename", "unclaim", "unclaimFail",
          "releasing", "unlink", "rmdir", "lost", "failed", "done", "gone"}
Seen == [dir : Opt, young : BOOLEAN, owner : Opt]
Unseen == [dir |-> None, young |-> FALSE, owner |-> None]

\* The directory at the path, and where each process is with what it has seen.
TypeOK ==
    /\ dir \in Opt /\ owner \in Opt /\ claim \in Opt
    /\ young \in BOOLEAN /\ tmp \subseteq Proc
    /\ pc \in [Proc -> Steps]
    /\ seen \in [Proc -> Seen]
    /\ hb \in [Proc -> {"idle", "write", "spent"}]
    /\ tries \in [Proc -> 0..MaxAttempts]
    /\ alive \subseteq Proc
    /\ crashes \in Nat /\ outrun \in BOOLEAN

Init ==
    /\ dir = None /\ owner = None /\ claim = None /\ young = FALSE /\ tmp = {}
    /\ pc = [p \in Proc |-> "idle"]
    /\ seen = [p \in Proc |-> Unseen]
    /\ hb = [p \in Proc |-> "idle"] /\ tries = [p \in Proc |-> 0]
    /\ alive = {} /\ crashes = MaxCrashes /\ outrun = FALSE

Goto(p, s) == pc' = [pc EXCEPT ![p] = s]
\* The maker of d is between mkdir and the published owner, or in rm -r.
InProgress(d) == d \in alive /\ pc[d] \in {"made", "temp", "unlink", "rmdir"}
\* The directory leaves the path, and what is in it with it.
DirGone == dir' = None /\ owner' = None /\ claim' = None /\ young' = FALSE /\ tmp' = {}

\* The end of an attempt: the loop goes round, or the attempts are used up.
Retry(p) ==
    /\ tries' = [tries EXCEPT ![p] = @ + 1]
    /\ Goto(p, IF tries[p] + 1 < MaxAttempts THEN "start" ELSE "failed")
    /\ seen' = [seen EXCEPT ![p] = Unseen]
\* acquireRuntimeLock throws.
Throw(p) == Goto(p, "failed") /\ seen' = [seen EXCEPT ![p] = Unseen]
\* The process is gone; what it left in the directory stays.
Dies(p) ==
    /\ alive' = alive \ {p}
    /\ Goto(p, "gone")
    /\ seen' = [seen EXCEPT ![p] = Unseen]
    /\ hb' = [hb EXCEPT ![p] = "idle"]
    /\ tries' = [tries EXCEPT ![p] = 0]

files == <<dir, owner, claim, young, tmp>>
rest == <<hb, alive, crashes>>

-----------------------------------------------------------------------------
(* acquireRuntimeLock: making the directory and publishing the owner.      *)

Begin(p) ==
    /\ pc[p] = "idle"
    /\ alive' = alive \cup {p}
    /\ Goto(p, "start")
    /\ UNCHANGED <<files, seen, hb, tries, crashes, outrun>>

Mkdir(p) ==
    /\ pc[p] = "start"
    /\ \/ /\ dir = None
          /\ dir' = p /\ young' = TRUE
          /\ Goto(p, "made")
       \/ /\ dir # None
          /\ Goto(p, "stat")
          /\ UNCHANGED <<dir, young>>
    /\ UNCHANGED <<owner, claim, tmp, seen, tries, rest, outrun>>

\* writeOwnerAtomic: the temporary file; ENOENT ends the call.
WriteTemp(p) ==
    /\ pc[p] = "made"
    /\ \/ /\ dir = None
          /\ Throw(p)
          /\ UNCHANGED <<tmp, young>>
       \/ /\ dir # None
          /\ tmp' = tmp \cup {p} /\ young' = TRUE
          /\ Goto(p, "temp")
          /\ UNCHANGED seen
    /\ UNCHANGED <<dir, owner, claim, tries, rest, outrun>>

\* writeOwnerAtomic: the rename onto owner.json, then makeLock.
Publish(p) ==
    /\ pc[p] = "temp"
    /\ \/ /\ p \in tmp
          /\ owner' = p /\ young' = TRUE /\ tmp' = tmp \ {p}
          /\ Goto(p, "held")
          /\ UNCHANGED seen
       \/ /\ p \notin tmp
          /\ Throw(p)
          /\ UNCHANGED <<owner, young, tmp>>
    /\ UNCHANGED <<dir, claim, tries, rest, outrun>>

-----------------------------------------------------------------------------
(* inspectRuntimeLock, and what acquireRuntimeLock does with its answer.   *)

Stat(p) ==
    /\ pc[p] = "stat"
    /\ \/ dir = None /\ Retry(p)
       \/ /\ dir # None
          /\ seen' = [seen EXCEPT ![p] = [dir |-> dir, young |-> young, owner |-> None]]
          /\ Goto(p, "read")
          /\ UNCHANGED tries
    /\ UNCHANGED <<files, rest, outrun>>

(* Without an owner the directory is `initializing' or, when its mtime was *)
(* old at the stat before, `invalid'.                                      *)
Inspect(p) ==
    /\ pc[p] = "read"
    /\ \/ /\ owner = None /\ seen[p].young
          /\ Retry(p)
          /\ UNCHANGED outrun
       \/ /\ owner = None /\ ~seen[p].young
          /\ Goto(p, "claim")
          /\ outrun' = (outrun \/ InProgress(seen[p].dir))
          /\ UNCHANGED <<seen, tries>>
       \/ /\ owner # None
          /\ seen' = [seen EXCEPT ![p].owner = owner]
          /\ Goto(p, "judge")
          /\ UNCHANGED <<tries, outrun>>
    /\ UNCHANGED <<files, rest>>

\* isAlive and isSameProcess; an active owner is refused, or taken over.
Judge(p) ==
    /\ pc[p] = "judge"
    /\ \/ seen[p].owner \notin alive /\ Goto(p, "claim") /\ UNCHANGED seen
       \/ seen[p].owner \in alive /\ Throw(p)
       \/ seen[p].owner \in alive /\ Goto(p, "kill") /\ UNCHANGED seen
    /\ UNCHANGED <<files, tries, rest, outrun>>

(* recoverRuntimeOwner: SIGTERM, then SIGKILL, then the attempt goes on; a *)
(* process that survives both ends the call.                               *)
Kill(p) ==
    /\ pc[p] = "kill"
    /\ \/ /\ seen[p].owner \in alive
          /\ Dies(seen[p].owner)
          /\ UNCHANGED crashes
       \/ /\ seen[p].owner \notin alive
          /\ Retry(p)
          /\ UNCHANGED rest
       \/ /\ seen[p].owner \in alive
          /\ Throw(p)
          /\ UNCHANGED <<tries, rest>>
    /\ UNCHANGED <<files, outrun>>

-----------------------------------------------------------------------------
(* claimAndRemove.                                                         *)

\* mkdir of `reclaiming'; ENOENT and EEXIST give up this attempt.
ClaimDir(p) ==
    /\ pc[p] = "claim"
    /\ \/ /\ dir = None \/ claim # None
          /\ Retry(p)
          /\ UNCHANGED <<claim, young>>
       \/ /\ dir # None /\ claim = None
          /\ claim' = p /\ young' = TRUE
          /\ Goto(p, "verifyId")
          /\ UNCHANGED <<seen, tries>>
    /\ UNCHANGED <<dir, owner, tmp, rest, outrun>>

\* Mutant of VerifyId: any directory that is there is the inspected one.
VerifyIdAny(p) ==
    /\ pc[p] = "verifyId"
    /\ Goto(p, IF dir = None THEN "unclaimFail" ELSE "verifyOwner")
    /\ UNCHANGED <<files, seen, tries, rest, outrun>>

\* The directory is still the inspected one; its absence throws.
VerifyId(p) ==
    /\ pc[p] = "verifyId"
    /\ Goto(p, IF dir = None THEN "unclaimFail"
               ELSE IF dir = seen[p].dir THEN "verifyOwner" ELSE "unclaim")
    /\ UNCHANGED <<files, seen, tries, rest, outrun>>

\* The token is the inspected one, or still absent.
VerifyOwner(p) ==
    /\ pc[p] = "verifyOwner"
    /\ Goto(p, IF owner = seen[p].owner THEN "rename" ELSE "unclaim")
    /\ UNCHANGED <<files, seen, tries, rest, outrun>>

\* The rename into quarantine; what is removed there nobody looks at.
Rename(p) ==
    /\ pc[p] = "rename"
    /\ \/ /\ dir = None
          /\ Goto(p, "unclaimFail")
          /\ UNCHANGED <<files, seen, tries>>
       \/ /\ dir # None
          /\ DirGone
          /\ Retry(p)
    /\ UNCHANGED <<rest, outrun>>

\* The finally block: `reclaiming' goes, whoever made it.
Unclaim(p) ==
    /\ pc[p] \in {"unclaim", "unclaimFail"}
    /\ claim' = None
    /\ young' = (young \/ claim # None)
    /\ outrun' = (outrun \/ claim \notin {p, None})
    /\ \/ pc[p] = "unclaim" /\ Retry(p)
       \/ pc[p] = "unclaimFail" /\ Throw(p) /\ UNCHANGED tries
    /\ UNCHANGED <<dir, owner, tmp, rest>>

-----------------------------------------------------------------------------
(* makeLock: the heartbeat and release.                                    *)

\* Mutant of Heartbeat: the token that is read is not compared.
HeartbeatBlind(p) ==
    /\ pc[p] = "held" /\ hb[p] # "write"
    /\ \/ /\ dir # None
          /\ owner' = p /\ young' = TRUE
          /\ UNCHANGED pc
       \/ /\ dir = None
          /\ Goto(p, "lost")
          /\ UNCHANGED <<owner, young>>
    /\ UNCHANGED <<dir, claim, tmp, seen, tries, rest, outrun>>

\* A heartbeat nobody came between: the read, and the owner written again.
Heartbeat(p) ==
    /\ pc[p] = "held" /\ hb[p] # "write"
    /\ \/ owner = p /\ young' = TRUE /\ UNCHANGED pc
       \/ owner # p /\ Goto(p, "lost") /\ UNCHANGED young
    /\ UNCHANGED <<dir, owner, claim, tmp, seen, tries, rest, outrun>>

\* One heartbeat of a process may be overtaken between its read and its write.
HeartbeatRead(p) ==
    /\ pc[p] = "held" /\ hb[p] = "idle" /\ owner = p
    /\ hb' = [hb EXCEPT ![p] = "write"]
    /\ seen' = [seen EXCEPT ![p].dir = dir]
    /\ UNCHANGED <<files, pc, tries, alive, crashes, outrun>>

(* The write goes by the path.  Where the directory was exchanged since    *)
(* the read, the temporary file may have been written before or after.     *)
HeartbeatWrite(p) ==
    /\ hb[p] = "write"
    /\ hb' = [hb EXCEPT ![p] = "spent"]
    /\ seen' = [seen EXCEPT ![p] = Unseen]
    /\ \/ /\ dir # None
          /\ owner' = p /\ young' = TRUE
          /\ UNCHANGED pc
       \/ /\ dir # seen[p].dir
          /\ Goto(p, IF pc[p] = "held" THEN "lost" ELSE pc[p])
          /\ UNCHANGED <<owner, young>>
    /\ UNCHANGED <<dir, claim, tmp, tries, alive, crashes, outrun>>

Release(p) ==
    /\ pc[p] = "held"
    /\ Goto(p, "releasing")
    /\ UNCHANGED <<files, seen, tries, rest, outrun>>

\* Once no heartbeat is at work: another's token leaves the directory alone.
ReleaseRead(p) ==
    /\ pc[p] = "releasing" /\ hb[p] # "write"
    /\ Goto(p, IF owner = p THEN "unlink" ELSE "done")
    /\ UNCHANGED <<files, seen, tries, rest, outrun>>

\* rm -r: what is in the directory ...
Unlink(p) ==
    /\ pc[p] = "unlink"
    /\ owner' = None /\ claim' = None /\ tmp' = {}
    /\ young' = (dir # None)
    /\ Goto(p, IF dir = None THEN "done" ELSE "rmdir")
    /\ UNCHANGED <<dir, seen, tries, rest, outrun>>

Empty == owner = None /\ claim = None /\ tmp = {}

\* ... then the directory itself, if it is empty; ENOTEMPTY is an error.
Rmdir(p) ==
    /\ pc[p] = "rmdir"
    /\ IF Empty THEN DirGone ELSE UNCHANGED files
    /\ Goto(p, "done")
    /\ UNCHANGED <<seen, tries, rest, outrun>>

-----------------------------------------------------------------------------
(* The environment.                                                        *)

\* start() failed, release returned, or onOwnershipLost: the process ends.
Exit(p) ==
    /\ pc[p] \in {"lost", "failed", "done"}
    /\ Dies(p)
    /\ UNCHANGED <<files, crashes, outrun>>

Crash(p) ==
    /\ p \in alive /\ crashes > 0
    /\ Dies(p)
    /\ crashes' = crashes - 1
    /\ UNCHANGED <<files, outrun>>

\* The mtime of the directory falls behind the grace.
Age ==
    /\ dir # None /\ young
    /\ young' = FALSE
    /\ UNCHANGED <<dir, owner, claim, tmp, pc, seen, tries, rest, outrun>>

Beat(p) == Heartbeat(p) \/ HeartbeatRead(p) \/ HeartbeatWrite(p)

Step(p) ==
    \/ Begin(p) \/ Mkdir(p) \/ WriteTemp(p) \/ Publish(p)
    \/ Stat(p) \/ Inspect(p) \/ Judge(p) \/ Kill(p)
    \/ ClaimDir(p) \/ VerifyId(p) \/ VerifyOwner(p) \/ Rename(p) \/ Unclaim(p)
    \/ Release(p) \/ ReleaseRead(p) \/ Unlink(p) \/ Rmdir(p)
    \/ Exit(p)

Next == (\E p \in Proc : Step(p) \/ Beat(p) \/ Crash(p)) \/ Age

(* The heartbeat's timer fires, and a process told of its loss goes.       *)
Spec == Init /\ [][Next]_vars
        /\ \A p \in Proc : WF_vars(Heartbeat(p)) /\ WF_vars(HeartbeatWrite(p))

-----------------------------------------------------------------------------
Holder(p) == pc[p] = "held"

(* A process that holds the lock has the directory and the owner file at   *)
(* the path, so nobody reclaims or replaces a live owner, unless an        *)
(* inspection took for invalid a directory whose maker was still           *)
(* publishing or removing it, or a claimant removed another's claim.       *)
HolderOwnsPath ==
    ~outrun => \A p \in Proc : Holder(p) => dir = p /\ owner = p

(* The single-writer boundary, without conditions.  It does not hold: see  *)
(* the exceptions of HolderOwnsPath.                                       *)
SingleWriter == \A p, q \in Proc : Holder(p) /\ Holder(q) => p = q

(* Two processes that both believe to hold the lock do not do so for ever: *)
(* the heartbeat of one of them finds the other's token.                   *)
HoldersResolve == []<>SingleWriter

(* "The next Alice process performs the atomic stale-lock reclamation      *)
(* itself": in the lock of a dead owner nobody but a live claimant stands  *)
(* in its way.  It does not hold: a claimant that crashes leaves its       *)
(* `reclaiming', which nothing removes.                                    *)
StaleIsReclaimable ==
    owner # None /\ owner \notin alive => claim \in alive \cup {None}
=============================================================================
