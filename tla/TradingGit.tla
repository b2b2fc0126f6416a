----------------------------- MODULE TradingGit -----------------------------
(***************************************************************************)
(* The approval gate and the operation log of one trading account          *)
(* (services/uta/src/domain/trading/git/TradingGit.ts).                    *)
(*                                                                         *)
(* Agents stage operations (add) and propose them (commit); a human looks  *)
(* at the proposal and pushes or rejects it; the push sends each operation *)
(* to the broker and then records one commit.  The order poller and the    *)
(* position reconciler append commits of their own at any moment.  The     *)
(* runtime is single threaded: what runs between two awaits is one action. *)
(*                                                                         *)
(* An operation is a number in the order of staging.  A commit hash is a   *)
(* number that is never reused: the code hashes the content together with  *)
(* a timestamp.  0 is null.                                                *)
(***************************************************************************)
EXTENDS GitPersistence, FiniteSets

CONSTANTS
    Approvers,    \* the HTTP requests that may push or reject
    MaxOps,       \* bound: operations ever staged
    MaxHash,      \* bound: hashes ever generated
    MaxRecords,   \* bound: commits appended by the poller and the reconciler
    MaxFails,     \* bound: failed state reads and failed saves
    MaxCrashes    \* bound: process restarts

ASSUME BoundsAreNat ==
    /\ MaxOps \in Nat /\ MaxHash \in Nat /\ MaxRecords \in Nat
    /\ MaxFails \in Nat /\ MaxCrashes \in Nat

Recorder == "recorder"
ASSUME RecorderIsNoApprover == Recorder \notin Approvers

VARIABLES
    stagingArea, pendingHash,    \* pendingMessage is set and cleared with it
    inflightWrite,
    commits, head,
    nextOp, nextHash,            \* the next fresh operation and hash
    shown,       \* per approver: the hash and operations last displayed
    writer,      \* per approver: the push or reject call in progress
    calls,       \* per operation: how often executeOperation was called on it
    orphaned,    \* operations a failed push, a failed save or a crash left open
    budget       \* what is left of the three failure bounds

gitVars == <<stagingArea, pendingHash, inflightWrite, commits, head>>
freshVars == <<nextOp, nextHash>>
vars == <<stagingArea, pendingHash, inflightWrite, commits, head, nextOp,
          nextHash, shown, writer, calls, orphaned, budget, saves, disk>>

Ops == 1..MaxOps
Hashes == 1..MaxHash
Ran(s) == {s[i] : i \in 1..Len(s)}

Idle == [at |-> "idle", kind |-> "none", hash |-> 0, ops |-> <<>>, results |-> <<>>]

ExportState == [commits |-> commits, head |-> head]

Init ==
    /\ stagingArea = <<>> /\ pendingHash = 0 /\ inflightWrite = FALSE
    /\ commits = <<>> /\ head = 0
    /\ nextOp = 1 /\ nextHash = 1
    /\ shown = [a \in Approvers |-> [hash |-> 0, ops |-> <<>>]]
    /\ writer = [a \in Approvers |-> Idle]
    /\ calls = [o \in Ops |-> 0]
    /\ orphaned = {}
    /\ budget = [records |-> MaxRecords, fails |-> MaxFails, crashes |-> MaxCrashes]
    /\ PersistInit

-----------------------------------------------------------------------------
(* add and commit: synchronous, refused while a push or reject runs.       *)

\* Mutant of Add: the guard on a pending commit is dropped.
AddToPending ==
    /\ ~inflightWrite
    /\ nextOp <= MaxOps
    /\ stagingArea' = Append(stagingArea, nextOp)
    /\ nextOp' = nextOp + 1
    /\ UNCHANGED <<pendingHash, inflightWrite, commits, head, nextHash, shown,
                   writer, calls, orphaned, budget, persistVars>>

Add ==
    /\ ~inflightWrite
    /\ pendingHash = 0
    /\ nextOp <= MaxOps
    /\ stagingArea' = Append(stagingArea, nextOp)
    /\ nextOp' = nextOp + 1
    /\ UNCHANGED <<pendingHash, inflightWrite, commits, head, nextHash, shown,
                   writer, calls, orphaned, budget, persistVars>>

\* Mutant of Commit: the guard on a running push or reject is dropped.
CommitDuringWrite ==
    /\ stagingArea # <<>>
    /\ nextHash <= MaxHash
    /\ pendingHash' = nextHash
    /\ nextHash' = nextHash + 1
    /\ UNCHANGED <<stagingArea, inflightWrite, commits, head, nextOp, shown,
                   writer, calls, orphaned, budget, persistVars>>

\* A second commit replaces the hash of the first: there is no guard on it.
Commit ==
    /\ ~inflightWrite
    /\ stagingArea # <<>>
    /\ nextHash <= MaxHash
    /\ pendingHash' = nextHash
    /\ nextHash' = nextHash + 1
    /\ UNCHANGED <<stagingArea, inflightWrite, commits, head, nextOp, shown,
                   writer, calls, orphaned, budget, persistVars>>

\* status: the approver is shown the pending hash and the staged operations.
Status(a) ==
    /\ writer[a].at = "idle"
    /\ pendingHash # 0
    /\ shown' = [shown EXCEPT ![a] = [hash |-> pendingHash, ops |-> stagingArea]]
    /\ UNCHANGED <<gitVars, freshVars, writer, calls, orphaned, budget, persistVars>>

-----------------------------------------------------------------------------
(* push and reject, split at their awaits.                                 *)

AssertPrepared == stagingArea # <<>> /\ pendingHash # 0

\* Mutant of BeginWrite: only the hash is compared.
BeginWriteUnlocked(expected) ==
    /\ expected # 0 /\ expected = pendingHash
    /\ inflightWrite' = TRUE

BeginWrite(expected) ==
    /\ ~inflightWrite
    /\ expected # 0 /\ expected = pendingHash
    /\ inflightWrite' = TRUE

\* The synchronous start of a call, up to its first await.
StartWrite(a, kind, at, results) ==
    /\ writer[a].at = "idle"
    /\ AssertPrepared
    /\ BeginWrite(shown[a].hash)
    /\ writer' = [writer EXCEPT ![a] =
           [at |-> at, kind |-> kind, hash |-> pendingHash,
            ops |-> stagingArea, results |-> results]]
    /\ UNCHANGED <<stagingArea, pendingHash, commits, head, freshVars, shown,
                   calls, orphaned, budget, persistVars>>

Push(a) == StartWrite(a, "push", "executing", <<>>)

Reject(a) == StartWrite(a, "reject", "reading",
                        [i \in 1..Len(stagingArea) |-> "user-rejected"])

\* Mutant of ExecuteOperation: the broker's status word is recorded unmapped.
RecordRawStatus(a) ==
    LET w == writer[a]
        k == Len(w.results) + 1
    IN
    /\ w.at = "executing"
    /\ k <= Len(w.ops)
    /\ writer' = [writer EXCEPT ![a] =
           [w EXCEPT !.results = Append(w.results, "Submitted"),
                     !.at = IF k = Len(w.ops) THEN "reading" ELSE "executing"]]
    /\ calls' = [calls EXCEPT ![w.ops[k]] = @ + 1]
    /\ UNCHANGED <<gitVars, freshVars, shown, orphaned, budget, persistVars>>

\* Mutant of ExecuteOperation: after a first operation the rest is only recorded.
RecordWithoutSending(a) ==
    LET w == writer[a]
        k == Len(w.results) + 1
    IN
    /\ w.at = "executing"
    /\ k <= Len(w.ops)
    /\ writer' = [writer EXCEPT ![a] =
           [w EXCEPT !.results = Append(w.results, "rejected"),
                     !.at = IF k = Len(w.ops) THEN "reading" ELSE "executing"]]
    /\ calls' = [calls EXCEPT ![w.ops[k]] = IF k = 1 THEN @ + 1 ELSE @]
    /\ UNCHANGED <<gitVars, freshVars, shown, orphaned, budget, persistVars>>

(* One turn of the loop of executePush: the operation is handed to the     *)
(* broker.  A thrown error, an answer without success and an inactive      *)
(* order are all recorded as rejected, and the loop goes on; "submitted"   *)
(* stands for every other status of the answer, which nothing here tells   *)
(* apart.                                                                  *)
ExecuteOperation(a) ==
    LET w == writer[a]
        k == Len(w.results) + 1
    IN
    /\ w.at = "executing"
    /\ k <= Len(w.ops)
    /\ \E status \in {"submitted", "rejected"} :
           writer' = [writer EXCEPT ![a] =
               [w EXCEPT !.results = Append(w.results, status),
                         !.at = IF k = Len(w.ops) THEN "reading" ELSE "executing"]]
    /\ calls' = [calls EXCEPT ![w.ops[k]] = @ + 1]
    /\ UNCHANGED <<gitVars, freshVars, shown, orphaned, budget, persistVars>>

\* Mutant of AppendCommit: the poller's commits do not move head.
AppendKeepingHead(hash, ops, results, owner) ==
    /\ commits' = Append(commits, [hash |-> hash, parentHash |-> head,
                                   ops |-> ops, results |-> results])
    /\ head' = IF owner = Recorder THEN head ELSE hash
    /\ StartSave(owner, ExportState')

\* Mutant of AppendCommit: the exported state still has the old head.
ExportOldHead(hash, ops, results, owner) ==
    /\ commits' = Append(commits, [hash |-> hash, parentHash |-> head,
                                   ops |-> ops, results |-> results])
    /\ head' = hash
    /\ StartSave(owner, [commits |-> commits', head |-> head])

\* push(commit), head = hash, onCommit(exportState()): one synchronous block.
AppendCommit(hash, ops, results, owner) ==
    /\ commits' = Append(commits, [hash |-> hash, parentHash |-> head,
                                   ops |-> ops, results |-> results])
    /\ head' = hash
    /\ StartSave(owner, ExportState')

\* getGitState resolves and the commit is recorded.
RecordCommit(a) ==
    LET w == writer[a] IN
    /\ w.at = "reading"
    /\ AppendCommit(w.hash, w.ops, w.results, a)
    /\ writer' = [writer EXCEPT ![a].at = "saving"]
    /\ UNCHANGED <<stagingArea, pendingHash, inflightWrite, freshVars, shown,
                   calls, orphaned, budget, disk>>

\* Mutant of AbortWrite: the error path does not release the wallet.
AbortKeepsLock(a) ==
    /\ writer' = [writer EXCEPT ![a] = Idle]
    /\ orphaned' = orphaned \cup Ran(writer[a].ops)
    /\ UNCHANGED <<stagingArea, pendingHash, inflightWrite, commits, head,
                   freshVars, shown, calls>>

(* The call throws: its finally block releases the wallet, and staging and *)
(* pendingHash stay as they were.                                          *)
AbortWrite(a) ==
    /\ writer' = [writer EXCEPT ![a] = Idle]
    /\ inflightWrite' = FALSE
    /\ orphaned' = orphaned \cup Ran(writer[a].ops)
    /\ UNCHANGED <<stagingArea, pendingHash, commits, head, freshVars, shown, calls>>

\* getGitState (an account, a positions and an orders query) throws.
StateReadFails(a) ==
    /\ writer[a].at = "reading"
    /\ budget.fails > 0
    /\ budget' = [budget EXCEPT !.fails = @ - 1]
    /\ AbortWrite(a)
    /\ UNCHANGED persistVars

\* Mutant of FinishWrite: staging and the pending hash are not cleared.
FinishWithoutClearing(a) ==
    /\ writer[a].at = "saving"
    /\ \E s \in saves : s.owner = a /\ s.at = "done" /\ SettleSave(s)
    /\ inflightWrite' = FALSE
    /\ writer' = [writer EXCEPT ![a] = Idle]
    /\ UNCHANGED <<stagingArea, pendingHash, commits, head, freshVars, shown,
                   calls, orphaned, budget, disk>>

\* Mutant of FinishWrite: only the first operation leaves the staging area.
FinishShiftsOne(a) ==
    /\ writer[a].at = "saving"
    /\ \E s \in saves : s.owner = a /\ s.at = "done" /\ SettleSave(s)
    /\ stagingArea' = Tail(stagingArea) /\ pendingHash' = 0
    /\ inflightWrite' = FALSE
    /\ writer' = [writer EXCEPT ![a] = Idle]
    /\ UNCHANGED <<commits, head, freshVars, shown, calls, orphaned, budget, disk>>

\* onCommit resolved: staging is cleared and the call returns.
FinishWrite(a) ==
    /\ writer[a].at = "saving"
    /\ \E s \in saves : s.owner = a /\ s.at = "done" /\ SettleSave(s)
    /\ stagingArea' = <<>> /\ pendingHash' = 0
    /\ inflightWrite' = FALSE
    /\ writer' = [writer EXCEPT ![a] = Idle]
    /\ UNCHANGED <<commits, head, freshVars, shown, calls, orphaned, budget, disk>>

\* onCommit threw: the commit is in the log, but staging is not cleared.
SaveRejected(a) ==
    /\ writer[a].at = "saving"
    /\ \E s \in saves : s.owner = a /\ s.at = "failed" /\ SettleSave(s)
    /\ AbortWrite(a)
    /\ UNCHANGED <<budget, disk>>

-----------------------------------------------------------------------------
(* Commits that do not pass through staging.  None of them looks at        *)
(* inflightWrite, and each runs synchronously up to its save.  Their       *)
(* synthetic operations are never sent to the broker and are left out.     *)

AppendRecord(results) ==
    /\ budget.records > 0
    /\ nextHash <= MaxHash
    /\ AppendCommit(nextHash, <<>>, results, Recorder)
    /\ nextHash' = nextHash + 1
    /\ budget' = [budget EXCEPT !.records = @ - 1]
    /\ UNCHANGED <<stagingArea, pendingHash, inflightWrite, nextOp, shown,
                   writer, calls, orphaned, disk>>

RecordReconcile == AppendRecord(<<"filled">>)

RecordObservedOrders == AppendRecord(<<"submitted">>)

\* sync with one update, a fill; an empty list returns at once.
Sync == AppendRecord(<<"filled">>)

RecorderSettles ==
    /\ \E s \in saves : /\ s.owner = Recorder
                        /\ s.at \in {"done", "failed"}
                        /\ SettleSave(s)
    /\ UNCHANGED <<gitVars, freshVars, shown, writer, calls, orphaned, budget, disk>>

-----------------------------------------------------------------------------
(* The file system, and the end of the process.                            *)

FileSystem ==
    /\ \E s \in saves :
          \/ SaveOpen(s) /\ UNCHANGED budget
          \/ SaveWrite(s) /\ UNCHANGED budget
          \/ /\ budget.fails > 0
             /\ budget' = [budget EXCEPT !.fails = @ - 1]
             /\ SaveFail(s)
    /\ UNCHANGED <<gitVars, freshVars, shown, writer, calls, orphaned>>

(* The process dies and a new one restores the log from the file.  Staging *)
(* and the pending commit are not persisted.  What was staged, or was only *)
(* in the log that is lost, is left open.                                  *)
OpsIn(log) == UNION {Ran(log[i].ops) : i \in 1..Len(log)}

Crash ==
    /\ budget.crashes > 0
    /\ budget' = [budget EXCEPT !.crashes = @ - 1]
    /\ stagingArea' = <<>> /\ pendingHash' = 0 /\ inflightWrite' = FALSE
    /\ commits' = LoadGitState.commits
    /\ head' = LoadGitState.head
    /\ writer' = [a \in Approvers |-> Idle]
    /\ saves' = {}
    /\ orphaned' = orphaned \cup Ran(stagingArea)
                            \cup (OpsIn(commits) \ OpsIn(LoadGitState.commits))
    /\ UNCHANGED <<freshVars, shown, calls, disk>>

Next ==
    \/ Add \/ Commit
    \/ \E a \in Approvers :
          \/ Status(a) \/ Push(a) \/ Reject(a) \/ ExecuteOperation(a)
          \/ RecordCommit(a) \/ StateReadFails(a)
          \/ FinishWrite(a) \/ SaveRejected(a)
    \/ RecordReconcile \/ RecordObservedOrders \/ Sync \/ RecorderSettles
    \/ FileSystem \/ Crash

(* Broker calls and file writes return or throw: the promise of every await *)
(* settles.  Nothing forces an agent or an approver to act.                 *)
AwaitSettles(a) ==
    \/ ExecuteOperation(a) \/ RecordCommit(a) \/ StateReadFails(a)
    \/ FinishWrite(a) \/ SaveRejected(a)

Fairness ==
    /\ \A a \in Approvers : WF_vars(AwaitSettles(a))
    /\ WF_vars(FileSystem)

Spec == Init /\ [][Next]_vars /\ Fairness

-----------------------------------------------------------------------------
(* Properties.                                                             *)

Statuses == {"submitted", "rejected", "user-rejected", "filled"}

CommitRecords == [hash: Nat, parentHash: Nat, ops: Seq(Ops), results: Seq(Statuses)]

States == [commits: Seq(CommitRecords), head: Nat]

WriterRecords == [at: {"idle", "executing", "reading", "saving"},
                  kind: {"none", "push", "reject"},
                  hash: 0..MaxHash, ops: Seq(Ops), results: Seq(Statuses)]

SaveRecords == [owner: Approvers \cup {Recorder}, state: States,
                at: {"mkdir", "open", "done", "failed"}]

Budgets == [records: Nat, fails: Nat, crashes: Nat]

\* The fields of TradingGit, of the calls in progress and of the file.
GitTyped ==
    /\ stagingArea \in Seq(Ops)
    /\ pendingHash \in 0..MaxHash
    /\ inflightWrite \in BOOLEAN
    /\ commits \in Seq(CommitRecords)
    /\ head \in Nat
    /\ nextOp \in 1..(MaxOps + 1)
    /\ nextHash \in 1..(MaxHash + 1)

CallsTyped ==
    /\ shown \in [Approvers -> [hash: 0..MaxHash, ops: Seq(Ops)]]
    /\ writer \in [Approvers -> WriterRecords]
    /\ calls \in [Ops -> Nat]
    /\ orphaned \subseteq Ops

FileTyped ==
    /\ budget \in Budgets
    /\ saves \subseteq SaveRecords
    /\ disk \in [size: Nat, parsed: States]

\* All of it, for the approvers, the recorder and the saves in flight.
TypeOK == GitTyped /\ CallsTyped /\ FileTyped

(* One writer: the flag inflightWrite is up exactly while one push or      *)
(* reject call is in progress, whatever the interleaving of the requests.  *)
OneWriter ==
    /\ \A a, b \in Approvers :
          writer[a].at # "idle" /\ writer[b].at # "idle" => a = b
    /\ inflightWrite <=> \E a \in Approvers : writer[a].at # "idle"

(* What an approver decides is what the approver was shown: the operations *)
(* a push sends or a reject discards are, in number and order, those that  *)
(* status displayed with the hash the approver sent back.                  *)
ShownIsWritten ==
    \A a \in Approvers :
        writer[a].at # "idle" => /\ writer[a].ops = shown[a].ops
                                 /\ writer[a].hash = shown[a].hash

(* The log is one chain even though the poller and the reconciler append   *)
(* while a push waits for the broker: every parentHash is the hash of the  *)
(* commit before it, and head is the hash of the last one.                 *)
Chained(log, last) ==
    /\ \A i \in 1..Len(log) :
          log[i].parentHash = IF i = 1 THEN 0 ELSE log[i - 1].hash
    /\ last = IF log = <<>> THEN 0 ELSE log[Len(log)].hash

HashChain == Chained(commits, head)

(* An operation reaches the broker at most once, unless its push failed    *)
(* after sending it or the process died: only then may a second push of    *)
(* the retained staging send it again.                                     *)
AtMostOnce == \A o \in Ops : calls[o] > 1 => o \in orphaned

LoggedAs(o, P(_)) ==
    \E i \in 1..Len(commits) :
        o \in Ran(commits[i].ops) /\ P(commits[i].results)

UserRejected(results) == \E k \in 1..Len(results) : results[k] = "user-rejected"

(* The log does not lie: an operation it shows as rejected by the user was *)
(* never sent, an operation it shows with a broker status was sent, and an *)
(* operation that was sent is in the log once its push has ended; a push   *)
(* that failed or a crash excuses the first and the last.                  *)
HonestLog ==
    \A o \in Ops :
        /\ LoggedAs(o, UserRejected) => calls[o] = 0 \/ o \in orphaned
        /\ LoggedAs(o, LAMBDA r : ~UserRejected(r)) => calls[o] > 0
        /\ calls[o] > 0 => \/ LoggedAs(o, LAMBDA r : ~UserRejected(r))
                           \/ \E a \in Approvers : o \in Ran(writer[a].ops)
                           \/ o \in orphaned

(* The file never tells a different story: what loadGitState would return  *)
(* now is an unbroken chain that begins the log in memory.                 *)
FileBeginsLog ==
    LET file == LoadGitState IN
    /\ Chained(file.commits, file.head)
    /\ Len(file.commits) <= Len(commits)
    /\ \A i \in 1..Len(file.commits) : file.commits[i] = commits[i]

(* The persister writes the state to disk on each commit: when no save is  *)
(* in progress, the file holds the whole log.  It does not hold: two saves *)
(* in flight may be written in either order.  FileBeginsLog is what is     *)
(* left of it.                                                             *)
FileHoldsLog == saves = {} => LoadGitState = ExportState

(* While a call owns the wallet nobody changes what it is deciding about,  *)
(* and the log only grows, except that a crash may cut it back.            *)
WriteIsExclusive ==
    [][ /\ (inflightWrite /\ inflightWrite' => UNCHANGED <<stagingArea, pendingHash>>)
        /\ (budget'.crashes = budget.crashes =>
               /\ Len(commits') \in Len(commits)..(Len(commits) + 1)
               /\ SubSeq(commits', 1, Len(commits)) = commits) ]_vars

(* The life of each operation as the approval gate sees it.                *)
LifeOf(o) ==
    CASE o >= nextOp -> "new"
      [] o < nextOp /\ o \in Ran(stagingArea) ->
            IF \E a \in Approvers : writer[a].kind = "push" THEN "pushing"
            ELSE IF \E a \in Approvers : writer[a].kind = "reject" THEN "rejecting"
            ELSE IF pendingHash # 0 THEN "proposed" ELSE "staged"
      [] OTHER ->
            IF o \in orphaned THEN "open"
            ELSE IF LoggedAs(o, UserRejected) THEN "rejected" ELSE "pushed"

Gate == INSTANCE ApprovalGate WITH life <- [o \in Ops |-> LifeOf(o)]

(* TradingGit implements the approval gate: operations are proposed,       *)
(* decided and settled as one batch, and nothing is sent undecided.        *)
ImplementsGate == Gate!Spec

\* A push or reject call always ends and releases the wallet.
WalletReleased == inflightWrite ~> ~inflightWrite
=============================================================================
