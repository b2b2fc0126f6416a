-------------------------- MODULE TradingGit_proofs --------------------------
(***************************************************************************)
(* Proofs about TradingGit, for every set of approvers and every bound.    *)
(***************************************************************************)
EXTENDS TradingGit, TLAPS

(* A call in progress decides about the staging area as it is now.         *)
WriterHolds ==
    \A a \in Approvers : writer[a].at # "idle" =>
        /\ stagingArea # <<>>
        /\ pendingHash # 0
        /\ writer[a].hash = pendingHash
        /\ writer[a].ops = stagingArea

(* A displayed hash that is still pending was displayed with the           *)
(* operations that are staged now; hashes are never handed out again.      *)
ShownIsCurrent ==
    /\ pendingHash < nextHash
    /\ \A a \in Approvers :
          /\ shown[a].hash < nextHash
          /\ shown[a].hash # 0 /\ shown[a].hash = pendingHash
                => shown[a].ops = stagingArea

GateInv == OneWriter /\ WriterHolds /\ ShownIsCurrent /\ ShownIsWritten

(* Every state on its way to the file, and the file itself, is an unbroken *)
(* chain that begins the log.                                              *)
Begins(state) ==
    /\ Chained(state.commits, state.head)
    /\ Len(state.commits) <= Len(commits)
    /\ \A i \in 1..Len(state.commits) : state.commits[i] = commits[i]

ChainInv ==
    /\ HashChain
    /\ \A s \in saves : Begins(s.state)
    /\ Begins(disk.parsed)

(* Staged operations are distinct; one that was never left open has been   *)
(* sent at most once, and only by the call that is in progress.            *)
Sent(i) == \E a \in Approvers : /\ writer[a].at # "idle"
                                /\ i <= Len(writer[a].results)

OnceInv ==
    /\ \A i \in 1..Len(stagingArea) : stagingArea[i] < nextOp
    /\ \A i, j \in 1..Len(stagingArea) : stagingArea[i] = stagingArea[j] => i = j
    /\ \A o \in Ops : o >= nextOp => calls[o] = 0
    /\ \A i \in 1..Len(stagingArea) :
          stagingArea[i] \in orphaned \/ calls[stagingArea[i]] = 0
              \/ (Sent(i) /\ calls[stagingArea[i]] = 1)
    /\ AtMostOnce

(* What the log shows of an operation: a commit that holds it was a        *)
(* rejection by the user, or carries the answers of the broker.            *)
Discarded(o) ==
    \E i \in 1..Len(commits) :
        o \in Ran(commits[i].ops) /\ UserRejected(commits[i].results)

Answered(o) ==
    \E i \in 1..Len(commits) :
        o \in Ran(commits[i].ops) /\ ~UserRejected(commits[i].results)

InLog(ops, results) ==
    \E i \in 1..Len(commits) : commits[i].ops = ops /\ commits[i].results = results

(* What a call in progress has done so far.  A push has the broker's       *)
(* answer to every operation it sent; a reject sends none, so what it is   *)
(* about to record as rejected was never sent; a call that is saving has   *)
(* its commit in the log.                                                  *)
PushOf(w) == \A k \in 1..Len(w.results) : w.results[k] # "user-rejected"
                                          /\ calls[w.ops[k]] > 0

RejectOf(w) ==
    /\ w.at # "executing"
    /\ \A k \in 1..Len(w.results) : w.results[k] = "user-rejected"
    /\ \A k \in 1..Len(w.ops) : calls[w.ops[k]] = 0 \/ w.ops[k] \in orphaned

CallOf(w) ==
    /\ w.kind \in {"push", "reject"}
    /\ w.at # "executing" => Len(w.results) = Len(w.ops)
    /\ w.at = "saving" => InLog(w.ops, w.results)
    /\ w.kind = "push" => PushOf(w)
    /\ w.kind = "reject" => RejectOf(w)

(* A staged operation that was not left open is neither in the log nor at  *)
(* the broker, but for the call that is deciding it.                       *)
Untouched(o) ==
    /\ o \in OpsIn(commits) => \E a \in Approvers : writer[a].at = "saving"
    /\ calls[o] > 0 => \E a \in Approvers : writer[a].kind = "push"

HonestInv ==
    /\ \A a \in Approvers : writer[a].at = "idle" => writer[a] = Idle
    /\ \A a \in Approvers : writer[a].at # "idle" => CallOf(writer[a])
    /\ \A i \in 1..Len(stagingArea) :
          stagingArea[i] \in orphaned \/ Untouched(stagingArea[i])
    /\ \A o \in OpsIn(commits) : o < nextOp
    /\ HonestLog

IInv == TypeOK /\ GateInv /\ ChainInv /\ OnceInv /\ HonestInv

-----------------------------------------------------------------------------
(* What the helpers of the model return.                                   *)

(* Appending a commit keeps the log, head and the saves typed: the commit  *)
(* and the save it starts are records of the right fields.                 *)
LEMMA AppendTyped ==
    ASSUME commits \in Seq(CommitRecords), head \in Nat,
           saves \subseteq SaveRecords,
           NEW hash \in Nat, NEW ops \in Seq(Ops), NEW results \in Seq(Statuses),
           NEW owner \in Approvers \cup {Recorder},
           AppendCommit(hash, ops, results, owner)
    PROVE  /\ commits' \in Seq(CommitRecords)
           /\ head' \in Nat
           /\ saves' \subseteq SaveRecords
  <1> DEFINE c == [hash |-> hash, parentHash |-> head, ops |-> ops, results |-> results]
  <1>1. c \in CommitRecords
    BY DEF CommitRecords
  <1>2. commits' \in Seq(CommitRecords) /\ head' \in Nat
    BY <1>1 DEF AppendCommit
  <1>3. ExportState' \in States
    BY <1>2 DEF ExportState, States
  <1>4. [owner |-> owner, state |-> ExportState', at |-> "mkdir"] \in SaveRecords
    BY <1>3 DEF SaveRecords
  <1> QED
    BY <1>2, <1>4 DEF AppendCommit, StartSave

(* The members of a sequence of operations are operations.                 *)
LEMMA RanInOps == ASSUME NEW q \in Seq(Ops) PROVE Ran(q) \subseteq Ops
  BY DEF Ran

(* Moving a save keeps it a save.                                          *)
LEMMA MoveTyped ==
    ASSUME saves \subseteq SaveRecords,
           NEW s \in saves, NEW at \in {"mkdir", "open", "done", "failed"},
           MoveSave(s, at)
    PROVE  saves' \subseteq SaveRecords
  BY DEF MoveSave, SaveRecords

-----------------------------------------------------------------------------
(* Type correctness.                                                       *)

LEMMA IdleTyped == Idle \in WriterRecords
  BY BoundsAreNat DEF Idle, WriterRecords

LEMMA EmptyTyped == EmptyState \in States
  BY DEF EmptyState, States

(* TypeOK holds initially.                                                 *)
LEMMA InitTyped == Init => TypeOK
  <1> SUFFICES ASSUME Init PROVE TypeOK
    OBVIOUS
  <1>1. GitTyped
    <2>1. inflightWrite \in BOOLEAN
      BY DEF Init
    <2>2. /\ stagingArea \in Seq(Ops) /\ commits \in Seq(CommitRecords)
          /\ pendingHash \in 0..MaxHash /\ head \in Nat
          /\ nextOp \in 1..(MaxOps + 1) /\ nextHash \in 1..(MaxHash + 1)
      BY BoundsAreNat DEF Init
    <2> QED
      BY <2>1, <2>2 DEF GitTyped
  <1>2. CallsTyped
    <2>1. shown \in [Approvers -> [hash: 0..MaxHash, ops: Seq(Ops)]]
      BY BoundsAreNat DEF Init
    <2> QED
      BY <2>1, IdleTyped DEF Init, CallsTyped
  <1>3. FileTyped
    BY EmptyTyped, BoundsAreNat DEF Init, PersistInit, FileTyped, Budgets
  <1> QED
    BY <1>1, <1>2, <1>3 DEF TypeOK

(* Every step keeps TypeOK.                                                *)
LEMMA NextTyped == TypeOK /\ [Next]_vars => TypeOK'
  <1> SUFFICES ASSUME GitTyped, CallsTyped, FileTyped, [Next]_vars
               PROVE  GitTyped' /\ CallsTyped' /\ FileTyped'
    BY DEF TypeOK
  <1> USE BoundsAreNat
  <1>1. CASE Add
    <2>1. nextOp \in Ops
      BY <1>1 DEF Add, GitTyped, Ops
    <2>2. GitTyped'
      BY <1>1, <2>1 DEF Add, GitTyped
    <2>3. CallsTyped'
      BY <1>1 DEF Add, CallsTyped
    <2>4. FileTyped'
      BY <1>1 DEF Add, FileTyped, persistVars
    <2> QED
      BY <2>2, <2>3, <2>4
  <1>2. CASE Commit
    <2>1. GitTyped'
      BY <1>2 DEF Commit, GitTyped
    <2>2. CallsTyped'
      BY <1>2 DEF Commit, CallsTyped
    <2>3. FileTyped'
      BY <1>2 DEF Commit, FileTyped, persistVars
    <2> QED
      BY <2>1, <2>2, <2>3
  <1>3. ASSUME NEW a \in Approvers, Status(a)
        PROVE  GitTyped' /\ CallsTyped' /\ FileTyped'
    <2>1. GitTyped'
      BY <1>3 DEF Status, GitTyped, gitVars, freshVars
    <2>2. CallsTyped'
      BY <1>3 DEF Status, CallsTyped, GitTyped
    <2>3. FileTyped'
      BY <1>3 DEF Status, FileTyped, persistVars
    <2> QED
      BY <2>1, <2>2, <2>3
  <1>4. ASSUME NEW a \in Approvers, NEW kind \in {"push", "reject"},
               NEW at \in {"executing", "reading"},
               NEW results \in Seq(Statuses),
               StartWrite(a, kind, at, results)
        PROVE  GitTyped' /\ CallsTyped' /\ FileTyped'
    <2>1. GitTyped'
      BY <1>4 DEF StartWrite, BeginWrite, GitTyped, freshVars
    <2>2. CallsTyped'
      <3>1. [at |-> at, kind |-> kind, hash |-> pendingHash,
             ops |-> stagingArea, results |-> results] \in WriterRecords
        BY DEF WriterRecords, GitTyped
      <3> QED
        BY <1>4, <3>1 DEF StartWrite, CallsTyped
    <2>3. FileTyped'
      BY <1>4 DEF StartWrite, FileTyped, persistVars
    <2> QED
      BY <2>1, <2>2, <2>3
  <1>5. ASSUME NEW a \in Approvers, Push(a)
        PROVE  GitTyped' /\ CallsTyped' /\ FileTyped'
    <2>1. <<>> \in Seq(Statuses)
      OBVIOUS
    <2> QED
      BY <1>4, <1>5, <2>1 DEF Push
  <1>6. ASSUME NEW a \in Approvers, Reject(a)
        PROVE  GitTyped' /\ CallsTyped' /\ FileTyped'
    <2>1. [i \in 1..Len(stagingArea) |-> "user-rejected"] \in Seq(Statuses)
      BY DEF GitTyped, Statuses
    <2> QED
      BY <1>4, <1>6, <2>1 DEF Reject
  <1>7. ASSUME NEW a \in Approvers, ExecuteOperation(a)
        PROVE  GitTyped' /\ CallsTyped' /\ FileTyped'
    <2>1. GitTyped'
      BY <1>7 DEF ExecuteOperation, GitTyped, gitVars, freshVars
    <2>2. CallsTyped'
      <3>1. writer[a] \in WriterRecords
        BY DEF CallsTyped
      <3>2. writer' \in [Approvers -> WriterRecords]
        <4>1. \A status \in {"submitted", "rejected"}, at \in {"reading", "executing"} :
                 [writer[a] EXCEPT !.results = Append(writer[a].results, status),
                                   !.at = at] \in WriterRecords
          <5>1. ASSUME NEW status \in {"submitted", "rejected"}
                PROVE  Append(writer[a].results, status) \in Seq(Statuses)
            <6>1. status \in Statuses
              BY DEF Statuses
            <6>2. writer[a].results \in Seq(Statuses)
              BY <3>1 DEF WriterRecords
            <6> QED
              BY <6>1, <6>2
          <5> QED
            BY <3>1, <5>1 DEF WriterRecords
        <4>2. PICK status \in {"submitted", "rejected"}, at \in {"reading", "executing"} :
                 writer' = [writer EXCEPT ![a] =
                     [writer[a] EXCEPT !.results = Append(writer[a].results, status),
                                       !.at = at]]
          BY <1>7, Zenon DEF ExecuteOperation
        <4> QED
          BY <4>1, <4>2 DEF CallsTyped
      <3>3. calls' \in [Ops -> Nat]
        <4>1. writer[a].ops \in Seq(Ops) /\ Len(writer[a].results) \in Nat
          BY <3>1 DEF WriterRecords
        <4>2. writer[a].ops[Len(writer[a].results) + 1] \in Ops
          BY <1>7, <4>1 DEF ExecuteOperation
        <4>3. PICK o \in Ops : calls' = [calls EXCEPT ![o] = @ + 1]
          BY <1>7, <4>2, Zenon DEF ExecuteOperation
        <4> QED
          BY <4>3 DEF CallsTyped
      <3> QED
        BY <1>7, <3>2, <3>3 DEF ExecuteOperation, CallsTyped
    <2>3. FileTyped'
      BY <1>7 DEF ExecuteOperation, FileTyped, persistVars
    <2> QED
      BY <2>1, <2>2, <2>3
  <1>8. ASSUME NEW a \in Approvers, RecordCommit(a)
        PROVE  GitTyped' /\ CallsTyped' /\ FileTyped'
    <2>1. writer[a] \in WriterRecords
      BY DEF CallsTyped
    <2>2. /\ commits' \in Seq(CommitRecords) /\ head' \in Nat
          /\ saves' \subseteq SaveRecords
      <3>1. /\ writer[a].hash \in Nat /\ writer[a].ops \in Seq(Ops)
            /\ writer[a].results \in Seq(Statuses)
        BY <2>1 DEF WriterRecords
      <3>2. AppendCommit(writer[a].hash, writer[a].ops, writer[a].results, a)
        BY <1>8 DEF RecordCommit
      <3> QED
        BY <3>1, <3>2, AppendTyped DEF GitTyped, FileTyped
    <2>3. GitTyped'
      BY <1>8, <2>2 DEF RecordCommit, GitTyped, freshVars
    <2>4. CallsTyped'
      <3>1. [writer[a] EXCEPT !.at = "saving"] \in WriterRecords
        BY <2>1 DEF WriterRecords
      <3> QED
        BY <1>8, <3>1 DEF RecordCommit, CallsTyped
    <2>5. FileTyped'
      BY <1>8, <2>2 DEF RecordCommit, FileTyped
    <2> QED
      BY <2>3, <2>4, <2>5
  <1>9. ASSUME NEW a \in Approvers, AbortWrite(a)
        PROVE  GitTyped' /\ CallsTyped'
    <2>1. Ran(writer[a].ops) \subseteq Ops
      BY RanInOps DEF CallsTyped, WriterRecords
    <2>2. GitTyped'
      BY <1>9 DEF AbortWrite, GitTyped, freshVars
    <2>3. CallsTyped'
      BY <1>9, <2>1, IdleTyped DEF AbortWrite, CallsTyped
    <2> QED
      BY <2>2, <2>3
  <1>10. ASSUME NEW a \in Approvers, StateReadFails(a)
         PROVE  GitTyped' /\ CallsTyped' /\ FileTyped'
    <2>1. budget' \in Budgets
      BY <1>10 DEF StateReadFails, FileTyped, Budgets
    <2> QED
      BY <1>9, <1>10, <2>1 DEF StateReadFails, FileTyped, persistVars
  <1>11. ASSUME NEW a \in Approvers, FinishWrite(a)
         PROVE  GitTyped' /\ CallsTyped' /\ FileTyped'
    <2>1. GitTyped'
      <3>1. stagingArea' \in Seq(Ops) /\ pendingHash' \in 0..MaxHash
        BY <1>11 DEF FinishWrite
      <3>2. inflightWrite' \in BOOLEAN
        BY <1>11 DEF FinishWrite
      <3> QED
        BY <1>11, <3>1, <3>2 DEF FinishWrite, GitTyped, freshVars
    <2>2. CallsTyped'
      BY <1>11, IdleTyped DEF FinishWrite, CallsTyped
    <2>3. FileTyped'
      BY <1>11 DEF FinishWrite, SettleSave, FileTyped
    <2> QED
      BY <2>1, <2>2, <2>3
  <1>12. ASSUME NEW a \in Approvers, SaveRejected(a)
         PROVE  GitTyped' /\ CallsTyped' /\ FileTyped'
    <2>1. FileTyped'
      BY <1>12 DEF SaveRejected, SettleSave, FileTyped
    <2> QED
      BY <1>9, <1>12, <2>1 DEF SaveRejected
  <1>13. ASSUME NEW results \in Seq(Statuses), AppendRecord(results)
         PROVE  GitTyped' /\ CallsTyped' /\ FileTyped'
    <2>1. /\ commits' \in Seq(CommitRecords) /\ head' \in Nat
          /\ saves' \subseteq SaveRecords
      <3>1. nextHash \in Nat /\ <<>> \in Seq(Ops) /\ Recorder \in Approvers \cup {Recorder}
        BY DEF GitTyped
      <3>2. AppendCommit(nextHash, <<>>, results, Recorder)
        BY <1>13 DEF AppendRecord
      <3> QED
        BY <3>1, <3>2, AppendTyped DEF GitTyped, FileTyped
    <2>2. budget' \in Budgets
      BY <1>13 DEF AppendRecord, FileTyped, Budgets
    <2>3. GitTyped'
      <3>1. /\ nextHash' = nextHash + 1 /\ nextHash <= MaxHash
            /\ UNCHANGED <<stagingArea, pendingHash, inflightWrite, nextOp>>
        BY <1>13 DEF AppendRecord
      <3>2. nextHash' \in 1..(MaxHash + 1)
        BY <3>1 DEF GitTyped
      <3> QED
        BY <2>1, <3>1, <3>2 DEF GitTyped
    <2>4. CallsTyped'
      <3>1. UNCHANGED <<shown, writer, calls, orphaned>>
        BY <1>13 DEF AppendRecord
      <3> QED
        BY <3>1 DEF CallsTyped
    <2>5. FileTyped'
      BY <1>13, <2>1, <2>2 DEF AppendRecord, FileTyped
    <2> QED
      BY <2>3, <2>4, <2>5
  <1>14. CASE RecordReconcile \/ RecordObservedOrders \/ Sync
    <2>1. <<"filled">> \in Seq(Statuses) /\ <<"submitted">> \in Seq(Statuses)
      BY DEF Statuses
    <2> QED
      BY <1>13, <1>14, <2>1 DEF RecordReconcile, RecordObservedOrders, Sync
  <1>15. CASE RecorderSettles
    <2>1. GitTyped'
      BY <1>15 DEF RecorderSettles, GitTyped, gitVars, freshVars
    <2>2. CallsTyped'
      BY <1>15 DEF RecorderSettles, CallsTyped
    <2>3. FileTyped'
      BY <1>15 DEF RecorderSettles, SettleSave, FileTyped
    <2> QED
      BY <2>1, <2>2, <2>3
  <1>16. CASE FileSystem
    <2>2. PICK s \in saves : \/ SaveOpen(s) /\ UNCHANGED budget
                             \/ SaveWrite(s) /\ UNCHANGED budget
                             \/ /\ budget.fails > 0
                                /\ budget' = [budget EXCEPT !.fails = @ - 1]
                                /\ SaveFail(s)
      BY <1>16 DEF FileSystem
    <2>3. s \in SaveRecords
      BY DEF FileTyped
    <2>4. saves' \subseteq SaveRecords
      BY <2>2, MoveTyped DEF SaveOpen, SaveWrite, SaveFail, FileTyped
    <2>5. s.state \in States /\ Len(s.state.commits) \in Nat
      BY <2>3 DEF SaveRecords, States
    <2>6. disk' \in [size: Nat, parsed: States]
      BY <2>2, <2>5, EmptyTyped DEF SaveOpen, SaveWrite, SaveFail, Torn, FileTyped
    <2>7. budget' \in Budgets
      BY <2>2 DEF FileTyped, Budgets
    <2>8. GitTyped'
      BY <1>16 DEF FileSystem, GitTyped, gitVars, freshVars
    <2>9. CallsTyped'
      BY <1>16 DEF FileSystem, CallsTyped
    <2> QED
      BY <2>4, <2>6, <2>7, <2>8, <2>9 DEF FileTyped
  <1>17. CASE Crash
    <2>1. LoadGitState.commits \in Seq(CommitRecords) /\ LoadGitState.head \in Nat
      BY DEF FileTyped, LoadGitState, States
    <2>2. Ran(stagingArea) \subseteq Ops
      BY RanInOps DEF GitTyped
    <2>3. OpsIn(commits) \subseteq Ops
      <3>1. \A i \in 1..Len(commits) : commits[i].ops \in Seq(Ops)
        <4>1. \A i \in 1..Len(commits) : commits[i] \in CommitRecords
          BY DEF GitTyped
        <4> QED
          BY <4>1 DEF CommitRecords
      <3>2. \A i \in 1..Len(commits) : Ran(commits[i].ops) \subseteq Ops
        BY <3>1, RanInOps
      <3> QED
        BY <3>2 DEF OpsIn
    <2>4. GitTyped'
      <3>1. stagingArea' \in Seq(Ops) /\ pendingHash' \in 0..MaxHash
        BY <1>17 DEF Crash
      <3>2. inflightWrite' \in BOOLEAN
        BY <1>17 DEF Crash
      <3>3. commits' \in Seq(CommitRecords) /\ head' \in Nat
        BY <1>17, <2>1 DEF Crash
      <3> QED
        BY <1>17, <3>1, <3>2, <3>3 DEF Crash, GitTyped, freshVars
    <2>5. CallsTyped'
      <3>1. orphaned' \subseteq Ops
        BY <1>17, <2>2, <2>3 DEF Crash, CallsTyped
      <3>2. writer' \in [Approvers -> WriterRecords]
        BY <1>17, IdleTyped DEF Crash
      <3> QED
        BY <1>17, <3>1, <3>2 DEF Crash, CallsTyped
    <2>6. FileTyped'
      BY <1>17 DEF Crash, FileTyped, Budgets
    <2> QED
      BY <2>4, <2>5, <2>6
  <1>18. CASE UNCHANGED vars
    BY <1>18 DEF vars, GitTyped, CallsTyped, FileTyped
  <1> QED
    BY <1>1, <1>2, <1>3, <1>5, <1>6, <1>7, <1>8, <1>10, <1>11, <1>12, <1>14,
       <1>15, <1>16, <1>17, <1>18 DEF Next

-----------------------------------------------------------------------------
(* The approval gate: one writer, and it decides what its approver saw.    *)

Busy(a) == writer[a].at # "idle"

LEMMA InitGate == Init => GateInv
  <1> SUFFICES ASSUME Init PROVE GateInv
    OBVIOUS
  <1>1. \A a \in Approvers : ~Busy(a)
    BY DEF Init, Idle, Busy
  <1>2. OneWriter
    BY <1>1 DEF Init, OneWriter, Busy
  <1>3. WriterHolds /\ ShownIsWritten
    BY <1>1 DEF WriterHolds, ShownIsWritten, Busy
  <1>4. ShownIsCurrent
    BY DEF Init, ShownIsCurrent
  <1> QED
    BY <1>2, <1>3, <1>4 DEF GateInv

(* A step in which no call is in progress afterwards keeps the gate, given *)
(* that the displayed hashes stay current.                                 *)
LEMMA AllIdleGate ==
    ASSUME inflightWrite' = FALSE, \A a \in Approvers : ~Busy(a)', ShownIsCurrent'
    PROVE  GateInv'
  <1>1. OneWriter'
    BY DEF OneWriter, Busy
  <1>2. WriterHolds' /\ ShownIsWritten'
    BY DEF WriterHolds, ShownIsWritten, Busy
  <1> QED
    BY <1>1, <1>2 DEF GateInv

(* A step that changes neither staging, the pending hash, what was shown   *)
(* nor the subject of any call keeps the gate.                             *)
LEMMA SameSubjectGate ==
    ASSUME GateInv, UNCHANGED <<stagingArea, pendingHash, inflightWrite, shown>>,
           nextHash \in Nat, nextHash' \in Nat, nextHash <= nextHash',
           pendingHash \in Nat, \A a \in Approvers : shown[a].hash \in Nat,
           \A a \in Approvers : /\ Busy(a)' <=> Busy(a)
                                /\ writer'[a].hash = writer[a].hash
                                /\ writer'[a].ops = writer[a].ops
    PROVE  GateInv'
  <1>1. OneWriter'
    BY DEF GateInv, OneWriter, Busy
  <1>2. WriterHolds' /\ ShownIsWritten'
    BY DEF GateInv, WriterHolds, ShownIsWritten, Busy
  <1>3. ShownIsCurrent'
    BY DEF GateInv, ShownIsCurrent
  <1> QED
    BY <1>1, <1>2, <1>3 DEF GateInv

(* Every step keeps the gate.                                              *)
LEMMA NextGate == TypeOK /\ GateInv /\ [Next]_vars => GateInv'
  <1> SUFFICES ASSUME TypeOK, GateInv, [Next]_vars PROVE GateInv'
    OBVIOUS
  <1>t. /\ nextHash \in Nat /\ pendingHash \in Nat
        /\ \A a \in Approvers : shown[a].hash \in Nat
    BY BoundsAreNat DEF TypeOK, GitTyped, CallsTyped
  <1>w. writer \in [Approvers -> WriterRecords]
    BY DEF TypeOK, CallsTyped
  <1>q. ~inflightWrite => \A a \in Approvers : ~Busy(a)
    BY DEF GateInv, OneWriter, Busy
  <1>o. \A a, b \in Approvers : Busy(a) /\ Busy(b) => a = b
    BY DEF GateInv, OneWriter, Busy
  <1>1. CASE Add
    <2>1. ShownIsCurrent'
      BY <1>1 DEF Add, GateInv, ShownIsCurrent
    <2>2. ~inflightWrite /\ inflightWrite' = inflightWrite /\ writer' = writer
      BY <1>1 DEF Add
    <2>3. inflightWrite' = FALSE
      BY <2>2, Zenon DEF TypeOK, GitTyped
    <2>4. \A a \in Approvers : ~Busy(a)'
      BY <1>q, <2>2 DEF Busy
    <2> QED
      BY <2>1, <2>3, <2>4, AllIdleGate
  <1>2. CASE Commit
    <2>1. ShownIsCurrent'
      BY <1>2, <1>t DEF Commit, GateInv, ShownIsCurrent
    <2>2. ~inflightWrite /\ inflightWrite' = inflightWrite /\ writer' = writer
      BY <1>2 DEF Commit
    <2>3. inflightWrite' = FALSE
      BY <2>2, Zenon DEF TypeOK, GitTyped
    <2>4. \A a \in Approvers : ~Busy(a)'
      BY <1>q, <2>2 DEF Busy
    <2> QED
      BY <2>1, <2>3, <2>4, AllIdleGate
  <1>3. ASSUME NEW a \in Approvers, Status(a) PROVE GateInv'
    <2>1. \A b \in Approvers \ {a} : shown'[b] = shown[b]
      BY <1>3 DEF Status, TypeOK, CallsTyped
    <2>2. shown'[a] = [hash |-> pendingHash, ops |-> stagingArea]
      BY <1>3 DEF Status, TypeOK, CallsTyped
    <2>3. UNCHANGED <<stagingArea, pendingHash, inflightWrite, nextHash, writer>>
      BY <1>3 DEF Status, gitVars, freshVars
    <2>4. ShownIsCurrent'
      BY <2>1, <2>2, <2>3 DEF GateInv, ShownIsCurrent
    <2>5. OneWriter' /\ WriterHolds'
      BY <2>3 DEF GateInv, OneWriter, WriterHolds
    <2>6. ShownIsWritten'
      BY <1>3, <2>1, <2>3 DEF Status, GateInv, ShownIsWritten
    <2> QED
      BY <2>4, <2>5, <2>6 DEF GateInv
  <1>4. ASSUME NEW a \in Approvers, NEW kind, NEW at \in {"executing", "reading"},
               NEW results, StartWrite(a, kind, at, results)
        PROVE  GateInv'
    <2>1. \A b \in Approvers : ~Busy(b)
      BY <1>4, <1>q DEF StartWrite, BeginWrite
    <2>2. \A b \in Approvers \ {a} : ~Busy(b)'
      BY <1>4, <1>w, <2>1 DEF StartWrite, Busy
    <2>3. writer'[a] = [at |-> at, kind |-> kind, hash |-> pendingHash,
                        ops |-> stagingArea, results |-> results]
      BY <1>4, <1>w DEF StartWrite
    <2>4. Busy(a)'
      BY <2>3 DEF Busy
    <2>5. OneWriter'
      <3>1. inflightWrite' = TRUE
        BY <1>4 DEF StartWrite, BeginWrite
      <3> QED
        BY <2>2, <2>4, <3>1 DEF OneWriter, Busy
    <2>6. /\ UNCHANGED <<stagingArea, pendingHash, nextHash, shown>>
          /\ stagingArea # <<>> /\ pendingHash # 0 /\ shown[a].hash = pendingHash
      BY <1>4 DEF StartWrite, BeginWrite, AssertPrepared, freshVars
    <2>7. WriterHolds'
      BY <2>2, <2>3, <2>6 DEF WriterHolds, Busy
    <2>8. ShownIsCurrent'
      BY <2>6 DEF GateInv, ShownIsCurrent
    <2>9. ShownIsWritten'
      BY <2>2, <2>3, <2>6 DEF GateInv, ShownIsCurrent, ShownIsWritten, Busy
    <2> QED
      BY <2>5, <2>7, <2>8, <2>9 DEF GateInv
  <1>5. ASSUME NEW a \in Approvers, Push(a) \/ Reject(a) PROVE GateInv'
    BY <1>4, <1>5 DEF Push, Reject
  <1>6. ASSUME NEW a \in Approvers, ExecuteOperation(a) PROVE GateInv'
    <2>1. \A b \in Approvers : /\ Busy(b)' <=> Busy(b)
                               /\ writer'[b].hash = writer[b].hash
                               /\ writer'[b].ops = writer[b].ops
      <3>1. PICK status \in {"submitted", "rejected"}, at \in {"reading", "executing"} :
               writer' = [writer EXCEPT ![a] =
                   [writer[a] EXCEPT !.results = Append(writer[a].results, status),
                                     !.at = at]]
        BY <1>6, Zenon DEF ExecuteOperation
      <3>2. writer[a] \in WriterRecords /\ Busy(a)
        BY <1>6, <1>w DEF ExecuteOperation, Busy
      <3> QED
        BY <1>w, <3>1, <3>2 DEF WriterRecords, Busy
    <2> QED
      BY <1>6, <1>t, <2>1, SameSubjectGate DEF ExecuteOperation, gitVars, freshVars
  <1>7. ASSUME NEW a \in Approvers, RecordCommit(a) PROVE GateInv'
    <2>1. \A b \in Approvers : /\ Busy(b)' <=> Busy(b)
                               /\ writer'[b].hash = writer[b].hash
                               /\ writer'[b].ops = writer[b].ops
      <3>1. writer[a] \in WriterRecords /\ Busy(a)
        BY <1>7, <1>w DEF RecordCommit, Busy
      <3> QED
        BY <1>7, <1>w, <3>1 DEF RecordCommit, WriterRecords, Busy
    <2> QED
      BY <1>7, <1>t, <2>1, SameSubjectGate DEF RecordCommit, freshVars
  <1>8. ASSUME NEW a \in Approvers, Busy(a), writer' = [writer EXCEPT ![a] = Idle]
        PROVE  \A b \in Approvers : ~Busy(b)'
    <2>1. ~Busy(a)'
      BY <1>8, <1>w DEF Busy, Idle
    <2>2. \A b \in Approvers \ {a} : ~Busy(b)'
      BY <1>8, <1>o, <1>w DEF Busy
    <2> QED
      BY <2>1, <2>2
  <1>9. ASSUME NEW a \in Approvers, StateReadFails(a) \/ SaveRejected(a)
        PROVE  GateInv'
    <2>1. Busy(a) /\ AbortWrite(a)
      BY <1>9 DEF StateReadFails, SaveRejected, Busy
    <2>2. \A b \in Approvers : ~Busy(b)'
      BY <1>8, <2>1 DEF AbortWrite
    <2>3. ShownIsCurrent'
      BY <2>1 DEF AbortWrite, GateInv, ShownIsCurrent, freshVars
    <2> QED
      BY <2>1, <2>2, <2>3, AllIdleGate DEF AbortWrite
  <1>10. ASSUME NEW a \in Approvers, FinishWrite(a) PROVE GateInv'
    <2>1. \A b \in Approvers : ~Busy(b)'
      BY <1>8, <1>10 DEF FinishWrite, Busy
    <2>2. ShownIsCurrent'
      BY <1>10, <1>t DEF FinishWrite, GateInv, ShownIsCurrent, freshVars
    <2> QED
      BY <1>10, <2>1, <2>2, AllIdleGate DEF FinishWrite
  <1>11. CASE RecordReconcile \/ RecordObservedOrders \/ Sync
    <2>1. PICK results : AppendRecord(results)
      BY <1>11 DEF RecordReconcile, RecordObservedOrders, Sync
    <2> QED
      BY <1>t, <2>1, SameSubjectGate DEF AppendRecord, Busy
  <1>12. CASE RecorderSettles \/ FileSystem \/ UNCHANGED vars
    BY <1>12, <1>t, SameSubjectGate
       DEF RecorderSettles, FileSystem, vars, gitVars, freshVars, Busy
  <1>13. CASE Crash
    <2>1. \A b \in Approvers : ~Busy(b)'
      BY <1>13 DEF Crash, Busy, Idle
    <2>2. ShownIsCurrent'
      BY <1>13, <1>t DEF Crash, GateInv, ShownIsCurrent, freshVars
    <2> QED
      BY <1>13, <2>1, <2>2, AllIdleGate DEF Crash
  <1> QED
    BY <1>1, <1>2, <1>3, <1>5, <1>6, <1>7, <1>9, <1>10, <1>11, <1>12, <1>13 DEF Next

-----------------------------------------------------------------------------
(* The log and the file are chains, and the file begins the log.           *)

LEMMA InitChain == Init => ChainInv
  <1> SUFFICES ASSUME Init PROVE ChainInv
    OBVIOUS
  <1>1. HashChain
    BY DEF Init, HashChain, Chained
  <1>2. Begins(disk.parsed)
    BY DEF Init, PersistInit, EmptyState, Begins, Chained
  <1> QED
    BY <1>1, <1>2 DEF Init, PersistInit, ChainInv

(* What begins the log still begins it when one commit is appended.        *)
LEMMA AppendChain ==
    ASSUME commits \in Seq(CommitRecords), head \in Nat, ChainInv,
           \A s \in saves : s.state.commits \in Seq(CommitRecords),
           disk.parsed.commits \in Seq(CommitRecords),
           NEW hash \in Nat, NEW ops \in Seq(Ops), NEW results \in Seq(Statuses),
           NEW owner, AppendCommit(hash, ops, results, owner), disk' = disk
    PROVE  ChainInv'
  <1> DEFINE c == [hash |-> hash, parentHash |-> head, ops |-> ops, results |-> results]
  <1>1. c \in CommitRecords /\ c.hash = hash /\ c.parentHash = head
    BY DEF CommitRecords
  <1>2. commits' = Append(commits, c) /\ head' = hash
    BY DEF AppendCommit
  <1> HIDE DEF c
  <1>3. /\ Len(commits') = Len(commits) + 1
        /\ \A i \in 1..Len(commits) : commits'[i] = commits[i]
        /\ commits'[Len(commits) + 1] = c
        /\ commits' # <<>>
    BY <1>1, <1>2
  <1>4. HashChain'
    <2>1. /\ \A i \in 1..Len(commits) :
                commits[i].parentHash = IF i = 1 THEN 0 ELSE commits[i - 1].hash
          /\ head = IF commits = <<>> THEN 0 ELSE commits[Len(commits)].hash
      BY DEF ChainInv, HashChain, Chained
    <2>2. ASSUME NEW i \in 1..(Len(commits) + 1)
          PROVE  commits'[i].parentHash = IF i = 1 THEN 0 ELSE commits'[i - 1].hash
      <3>1. CASE i \in 1..Len(commits)
        <4>1. commits'[i] = commits[i] /\ (i # 1 => commits'[i - 1] = commits[i - 1])
          BY <1>3, <3>1
        <4> QED
          BY <2>1, <3>1, <4>1
      <3>2. CASE i = Len(commits) + 1
        <4>1. i = 1 => head = 0
          BY <2>1, <3>2
        <4>2. i # 1 => head = commits[i - 1].hash /\ commits'[i - 1] = commits[i - 1]
          BY <1>3, <2>1, <3>2
        <4> QED
          BY <1>1, <1>3, <3>2, <4>1, <4>2
      <3> QED
        BY <3>1, <3>2
    <2>3. head' = commits'[Len(commits')].hash
      BY <1>1, <1>2, <1>3
    <2> QED
      BY <1>3, <2>2, <2>3 DEF HashChain, Chained
  <1>5. ASSUME NEW state, state.commits \in Seq(CommitRecords), Begins(state)
        PROVE  /\ Chained(state.commits, state.head)
               /\ Len(state.commits) <= Len(commits')
               /\ \A i \in 1..Len(state.commits) : state.commits[i] = commits'[i]
    BY <1>3, <1>5 DEF Begins
  <1>6. \A s \in saves' : Begins(s.state)'
    <2>1. ASSUME NEW s \in saves PROVE Begins(s.state)'
      BY <1>5, <2>1 DEF ChainInv, Begins
    <2>2. Begins(ExportState)'
      BY <1>4 DEF Begins, HashChain, ExportState
    <2>3. saves' = saves \cup {[owner |-> owner, state |-> ExportState', at |-> "mkdir"]}
      BY DEF AppendCommit, StartSave
    <2> QED
      BY <2>1, <2>2, <2>3
  <1>7. Begins(disk.parsed)'
    BY <1>5 DEF ChainInv, Begins
  <1> QED
    BY <1>4, <1>6, <1>7 DEF ChainInv

(* Every step keeps the chains.                                            *)
LEMMA NextChain == TypeOK /\ ChainInv /\ [Next]_vars => ChainInv'
  <1> SUFFICES ASSUME TypeOK, ChainInv, [Next]_vars PROVE ChainInv'
    OBVIOUS
  <1>t. /\ commits \in Seq(CommitRecords) /\ head \in Nat
        /\ \A s \in saves : s.state.commits \in Seq(CommitRecords)
        /\ disk.parsed.commits \in Seq(CommitRecords)
    BY DEF TypeOK, GitTyped, FileTyped, SaveRecords, States
  <1>1. ASSUME UNCHANGED <<commits, head, disk>>, saves' \subseteq saves
        PROVE  ChainInv'
    BY <1>1 DEF ChainInv, HashChain, Begins
  <1>2. CASE Add \/ Commit \/ \E a \in Approvers : Status(a)
    BY <1>1, <1>2 DEF Add, Commit, Status, gitVars, persistVars
  <1>3. ASSUME NEW a \in Approvers, Push(a) \/ Reject(a) PROVE ChainInv'
    BY <1>1, <1>3 DEF Push, Reject, StartWrite, persistVars
  <1>4. ASSUME NEW a \in Approvers, ExecuteOperation(a) PROVE ChainInv'
    BY <1>1, <1>4 DEF ExecuteOperation, gitVars, persistVars
  <1>5. ASSUME NEW a \in Approvers, StateReadFails(a) \/ SaveRejected(a) PROVE ChainInv'
    BY <1>1, <1>5 DEF StateReadFails, SaveRejected, AbortWrite, SettleSave, persistVars
  <1>6. ASSUME NEW a \in Approvers, FinishWrite(a) PROVE ChainInv'
    BY <1>1, <1>6 DEF FinishWrite, SettleSave
  <1>7. ASSUME NEW a \in Approvers, RecordCommit(a) PROVE ChainInv'
    <2>1. /\ writer[a].hash \in Nat /\ writer[a].ops \in Seq(Ops)
          /\ writer[a].results \in Seq(Statuses)
      BY BoundsAreNat DEF TypeOK, CallsTyped, WriterRecords
    <2> QED
      BY <1>7, <1>t, <2>1, AppendChain DEF RecordCommit
  <1>8. CASE RecordReconcile \/ RecordObservedOrders \/ Sync
    <2>1. PICK results \in Seq(Statuses) : AppendRecord(results)
      <3>1. <<"filled">> \in Seq(Statuses) /\ <<"submitted">> \in Seq(Statuses)
        BY DEF Statuses
      <3> QED
        BY <1>8, <3>1 DEF RecordReconcile, RecordObservedOrders, Sync
    <2>2. nextHash \in Nat /\ <<>> \in Seq(Ops)
      BY BoundsAreNat DEF TypeOK, GitTyped
    <2> QED
      BY <1>t, <2>1, <2>2, AppendChain DEF AppendRecord
  <1>9. CASE RecorderSettles
    BY <1>1, <1>9 DEF RecorderSettles, SettleSave, gitVars
  <1>10. CASE FileSystem
    <2>1. PICK s \in saves : SaveOpen(s) \/ SaveWrite(s) \/ SaveFail(s)
      BY <1>10 DEF FileSystem
    <2>2. s \in SaveRecords /\ disk \in [size: Nat, parsed: States]
      BY DEF TypeOK, FileTyped
    <2>3. commits' = commits /\ head' = head
      BY <1>10 DEF FileSystem, gitVars
    <2>4. \A t \in saves' : \E u \in saves : t.state = u.state
      <3>1. PICK at : saves' = (saves \ {s}) \cup {[s EXCEPT !.at = at]}
        BY <2>1 DEF SaveOpen, SaveWrite, SaveFail, MoveSave
      <3>2. [s EXCEPT !.at = at].state = s.state
        BY <2>2 DEF SaveRecords
      <3> QED
        BY <3>1, <3>2
    <2>5. \A t \in saves' : Begins(t.state)'
      BY <2>3, <2>4 DEF ChainInv, Begins
    <2>6. Begins(EmptyState)
      BY <1>t DEF Begins, EmptyState, Chained
    <2>7. disk'.parsed \in {EmptyState, s.state, disk.parsed}
      BY <2>1, <2>2 DEF SaveOpen, SaveWrite, SaveFail, Torn
    <2>8. Begins(disk.parsed)'
      BY <2>3, <2>6, <2>7 DEF ChainInv, Begins
    <2> QED
      BY <2>3, <2>5, <2>8 DEF ChainInv, HashChain
  <1>11. CASE Crash
    <2>1. commits' = disk.parsed.commits /\ head' = disk.parsed.head /\ saves' = {} /\ disk' = disk
      BY <1>11 DEF Crash, LoadGitState
    <2>2. HashChain'
      BY <2>1 DEF ChainInv, Begins, HashChain
    <2>3. Begins(disk.parsed)'
      BY <1>t, <2>1 DEF ChainInv, Begins
    <2> QED
      BY <2>1, <2>2, <2>3 DEF ChainInv
  <1>12. CASE UNCHANGED vars
    BY <1>1, <1>12 DEF vars
  <1> QED
    BY <1>2, <1>3, <1>4, <1>5, <1>6, <1>7, <1>8, <1>9, <1>10, <1>11, <1>12 DEF Next

-----------------------------------------------------------------------------
(* An operation is sent at most once, unless it was left open.             *)

(* The ways in which a staged operation can be accounted for.              *)
Accounted(i) ==
    stagingArea[i] \in orphaned \/ calls[stagingArea[i]] = 0
        \/ (Sent(i) /\ calls[stagingArea[i]] = 1)

LEMMA InitOnce == Init => OnceInv
  BY BoundsAreNat DEF Init, OnceInv, AtMostOnce, Ops

(* A step that leaves staging and the calls alone and in which nothing     *)
(* that was sent is forgotten keeps the account.                           *)
LEMMA SameCallsOnce ==
    ASSUME OnceInv, UNCHANGED <<stagingArea, nextOp, calls>>, orphaned \subseteq orphaned',
           \A i \in 1..Len(stagingArea) : Sent(i) => Sent(i)' \/ stagingArea[i] \in orphaned'
    PROVE  OnceInv'
  BY DEF OnceInv, AtMostOnce

(* Emptying the staging area keeps the account.                            *)
LEMMA ClearedOnce ==
    ASSUME OnceInv, stagingArea' = <<>>, UNCHANGED <<nextOp, calls>>,
           orphaned \subseteq orphaned'
    PROVE  OnceInv'
  BY DEF OnceInv, AtMostOnce

(* Every step keeps the account.                                           *)
LEMMA NextOnce == TypeOK /\ GateInv /\ OnceInv /\ [Next]_vars => OnceInv'
  <1> SUFFICES ASSUME TypeOK, GateInv, OnceInv, [Next]_vars PROVE OnceInv'
    OBVIOUS
  <1>w. writer \in [Approvers -> WriterRecords]
    BY DEF TypeOK, CallsTyped
  <1>o. \A a, b \in Approvers : Busy(a) /\ Busy(b) => a = b
    BY DEF GateInv, OneWriter, Busy
  <1>h. \A a \in Approvers : Busy(a) => writer[a].ops = stagingArea
    BY DEF GateInv, WriterHolds, Busy
  <1>g. /\ stagingArea \in Seq(Ops) /\ nextOp \in 1..(MaxOps + 1)
        /\ calls \in [Ops -> Nat]
    BY DEF TypeOK, GitTyped, CallsTyped
  <1>1. CASE Add
    <2>1. /\ stagingArea' = Append(stagingArea, nextOp) /\ nextOp' = nextOp + 1
          /\ UNCHANGED <<calls, orphaned, writer>> /\ nextOp \in Ops
      BY <1>1, <1>g, BoundsAreNat DEF Add, Ops
    <2>2. /\ Len(stagingArea') = Len(stagingArea) + 1
          /\ stagingArea'[Len(stagingArea) + 1] = nextOp
          /\ \A i \in 1..Len(stagingArea) : stagingArea'[i] = stagingArea[i]
      BY <1>g, <2>1
    <2>3. calls[nextOp] = 0
      BY <2>1 DEF OnceInv, Ops
    <2>4. \A i \in 1..Len(stagingArea') : stagingArea'[i] < nextOp'
      BY <1>g, <2>1, <2>2, BoundsAreNat DEF OnceInv, Ops
    <2>5. \A i, j \in 1..Len(stagingArea') : stagingArea'[i] = stagingArea'[j] => i = j
      <3>1. \A i \in 1..Len(stagingArea) : stagingArea[i] < nextOp /\ stagingArea[i] # nextOp
        BY <1>g, BoundsAreNat DEF OnceInv, Ops
      <3>2. \A i, j \in 1..Len(stagingArea) : stagingArea[i] = stagingArea[j] => i = j
        BY DEF OnceInv
      <3>3. \A i \in 1..Len(stagingArea') : i \in 1..Len(stagingArea) \/ i = Len(stagingArea) + 1
        BY <1>g, <2>2
      <3> QED
        BY <2>2, <3>1, <3>2, <3>3
    <2>6. \A o \in Ops : o >= nextOp' => calls'[o] = 0
      BY <1>g, <2>1, BoundsAreNat DEF OnceInv, Ops
    <2>7. \A i \in 1..Len(stagingArea) : Accounted(i)
      BY DEF OnceInv, Accounted
    <2>8. \A i \in 1..Len(stagingArea') :
             stagingArea'[i] \in orphaned' \/ calls'[stagingArea'[i]] = 0
                \/ (Sent(i)' /\ calls'[stagingArea'[i]] = 1)
      BY <1>g, <2>1, <2>2, <2>3, <2>7 DEF Accounted, Sent
    <2>9. AtMostOnce'
      BY <2>1 DEF OnceInv, AtMostOnce
    <2> QED
      BY <2>4, <2>5, <2>6, <2>8, <2>9 DEF OnceInv
  <1>2. CASE Commit \/ RecorderSettles \/ FileSystem \/ UNCHANGED vars
             \/ \E a \in Approvers : Status(a)
    BY <1>2, SameCallsOnce
       DEF Commit, Status, RecorderSettles, FileSystem, vars, gitVars, freshVars, Sent
  <1>3. ASSUME NEW a \in Approvers, Push(a) \/ Reject(a) PROVE OnceInv'
    <2>1. \A b \in Approvers : ~Busy(b)
      BY <1>3 DEF Push, Reject, StartWrite, BeginWrite, GateInv, OneWriter, Busy
    <2>2. UNCHANGED <<stagingArea, nextOp, calls, orphaned>>
      BY <1>3 DEF Push, Reject, StartWrite, freshVars
    <2> QED
      BY <2>1, <2>2, SameCallsOnce DEF Sent, Busy
  <1>4. ASSUME NEW a \in Approvers, ExecuteOperation(a) PROVE OnceInv'
    <2>1. writer[a] \in WriterRecords /\ Busy(a) /\ writer[a].ops = stagingArea
      BY <1>4, <1>w, <1>h DEF ExecuteOperation, Busy
    <2>k. PICK k \in Nat : k = Len(writer[a].results) + 1
      BY <2>1 DEF WriterRecords
    <2>2. k \in 1..Len(stagingArea)
      <3>1. Len(writer[a].results) \in Nat
        BY <2>1 DEF WriterRecords
      <3> QED
        BY <1>4, <1>g, <2>1, <2>k, <3>1 DEF ExecuteOperation
    <2>3. PICK status \in {"submitted", "rejected"}, at \in {"reading", "executing"} :
             writer' = [writer EXCEPT ![a] =
                 [writer[a] EXCEPT !.results = Append(writer[a].results, status),
                                   !.at = at]]
      BY <1>4, Zenon DEF ExecuteOperation
    <2>4. /\ writer'[a].at # "idle" /\ writer'[a].kind = writer[a].kind
          /\ Len(writer'[a].results) = k
      <3>1. writer[a].results \in Seq(Statuses)
        BY <2>1 DEF WriterRecords
      <3>2. status \in Statuses
        BY <2>3 DEF Statuses
      <3>3. Len(Append(writer[a].results, status)) = k
        BY <2>k, <3>1, <3>2
      <3> QED
        BY <1>w, <2>1, <2>3, <3>3 DEF WriterRecords
    <2>5. /\ calls' = [calls EXCEPT ![stagingArea[k]] = @ + 1]
          /\ UNCHANGED <<stagingArea, nextOp, orphaned>>
      BY <1>4, <2>1, <2>k DEF ExecuteOperation, gitVars, freshVars
    <2>6. stagingArea[k] \in Ops
      BY <1>g, <2>2
    <2>7. \A i \in 1..Len(stagingArea) : Accounted(i)
      BY DEF OnceInv, Accounted
    <2>8. ~Sent(k)
      <3>1. ASSUME NEW b \in Approvers, writer[b].at # "idle", k <= Len(writer[b].results)
            PROVE  FALSE
        <4>1. b = a
          BY <1>o, <2>1, <3>1 DEF Busy
        <4>2. Len(writer[a].results) \in Nat
          BY <2>1 DEF WriterRecords
        <4> QED
          BY <2>k, <3>1, <4>1, <4>2
      <3> QED
        BY <3>1 DEF Sent
    <2>9. \A i \in 1..Len(stagingArea) : Sent(i) => Sent(i)'
      <3>1. ASSUME NEW i \in 1..Len(stagingArea), Sent(i) PROVE Sent(i)'
        <4>1. PICK b \in Approvers : writer[b].at # "idle" /\ i <= Len(writer[b].results)
          BY <3>1 DEF Sent
        <4>2. b = a
          BY <1>o, <2>1, <4>1 DEF Busy
        <4>3. Len(writer[a].results) \in Nat
          BY <2>1 DEF WriterRecords
        <4>4. i <= Len(writer'[a].results)
          BY <2>k, <2>4, <4>1, <4>2, <4>3
        <4> QED
          BY <2>4, <4>4 DEF Sent
      <3> QED
        BY <3>1
    <2>10. Sent(k)'
      <3>1. k <= Len(writer'[a].results)
        BY <2>2, <2>4
      <3> QED
        BY <2>4, <3>1 DEF Sent
    <2>11. stagingArea[k] \in orphaned \/ calls[stagingArea[k]] = 0
      BY <2>2, <2>7, <2>8 DEF Accounted
    <2>12. \A o \in Ops : o # stagingArea[k] => calls'[o] = calls[o]
      BY <1>g, <2>5
    <2>13. calls'[stagingArea[k]] = calls[stagingArea[k]] + 1
      BY <1>g, <2>5, <2>6
    <2>14. \A i \in 1..Len(stagingArea) :
             stagingArea[i] \in orphaned \/ calls'[stagingArea[i]] = 0
                \/ (Sent(i)' /\ calls'[stagingArea[i]] = 1)
      <3>1. ASSUME NEW i \in 1..Len(stagingArea), i # k
            PROVE  calls'[stagingArea[i]] = calls[stagingArea[i]]
        BY <1>g, <2>2, <2>12, <3>1 DEF OnceInv
      <3> QED
        BY <2>7, <2>9, <2>10, <2>11, <2>13, <3>1 DEF Accounted
    <2>15. \A o \in Ops : o >= nextOp => calls'[o] = 0
      <3>1. stagingArea[k] < nextOp
        BY <2>2 DEF OnceInv
      <3>2. \A o \in Ops : o >= nextOp => o # stagingArea[k] /\ calls[o] = 0
        BY <1>g, <2>6, <3>1, BoundsAreNat DEF OnceInv, Ops
      <3> QED
        BY <2>12, <3>2
    <2>16. AtMostOnce'
      BY <2>5, <2>11, <2>12, <2>13 DEF OnceInv, AtMostOnce
    <2> QED
      BY <2>5, <2>14, <2>15, <2>16 DEF OnceInv
  <1>5. ASSUME NEW a \in Approvers, RecordCommit(a) PROVE OnceInv'
    <2>1. \A b \in Approvers : /\ Busy(b) => Busy(b)'
                               /\ writer'[b].results = writer[b].results
      BY <1>5, <1>w DEF RecordCommit, WriterRecords, Busy
    <2>2. \A i : Sent(i) => Sent(i)'
      BY <2>1 DEF Sent, Busy
    <2> QED
      BY <1>5, <2>2, SameCallsOnce DEF RecordCommit, freshVars
  <1>6. ASSUME NEW a \in Approvers, StateReadFails(a) \/ SaveRejected(a) PROVE OnceInv'
    <2>1. Busy(a) /\ AbortWrite(a)
      BY <1>6 DEF StateReadFails, SaveRejected, Busy
    <2>2. orphaned' = orphaned \cup Ran(stagingArea)
      BY <1>h, <2>1 DEF AbortWrite
    <2>3. \A i \in 1..Len(stagingArea) : stagingArea[i] \in orphaned'
      BY <2>2 DEF Ran
    <2> QED
      BY <2>1, <2>2, <2>3, SameCallsOnce DEF AbortWrite, freshVars
  <1>7. ASSUME NEW a \in Approvers, FinishWrite(a) PROVE OnceInv'
    BY <1>7, ClearedOnce DEF FinishWrite, freshVars
  <1>8. CASE RecordReconcile \/ RecordObservedOrders \/ Sync
    <2>1. PICK results : AppendRecord(results)
      BY <1>8 DEF RecordReconcile, RecordObservedOrders, Sync
    <2> QED
      BY <2>1, SameCallsOnce DEF AppendRecord, Sent
  <1>9. CASE Crash
    BY <1>9, ClearedOnce DEF Crash, freshVars
  <1> QED
    BY <1>1, <1>2, <1>3, <1>4, <1>5, <1>6, <1>7, <1>8, <1>9 DEF Next

-----------------------------------------------------------------------------
(* The log does not lie.                                                   *)

(* HonestLog, read with the two words above.                               *)
LEMMA HonestMeans ==
    HonestLog <=>
        \A o \in Ops :
            /\ Discarded(o) => calls[o] = 0 \/ o \in orphaned
            /\ Answered(o) => calls[o] > 0
            /\ calls[o] > 0 => \/ Answered(o)
                               \/ \E a \in Approvers : o \in Ran(writer[a].ops)
                               \/ o \in orphaned
  BY DEF HonestLog, LoggedAs, Discarded, Answered

LEMMA HonestMeansNext ==
    HonestLog' <=>
        \A o \in Ops :
            /\ Discarded(o)' => calls'[o] = 0 \/ o \in orphaned'
            /\ Answered(o)' => calls'[o] > 0
            /\ calls'[o] > 0 => \/ Answered(o)'
                                \/ \E a \in Approvers : o \in Ran(writer'[a].ops)
                                \/ o \in orphaned'
  BY DEF HonestLog, LoggedAs, Discarded, Answered

(* An operation is in the log when a commit answers it or discards it.     *)
LEMMA InLogEitherWay == \A o : o \in OpsIn(commits) <=> Discarded(o) \/ Answered(o)
  BY DEF OpsIn, Discarded, Answered

LEMMA InLogEitherWayNext ==
    \A o : o \in OpsIn(commits)' <=> Discarded(o)' \/ Answered(o)'
  BY DEF OpsIn, Discarded, Answered

(* What appending a commit adds to the log.                                *)
LEMMA AppendShows ==
    ASSUME commits \in Seq(CommitRecords), head \in Nat,
           NEW hash \in Nat, NEW ops \in Seq(Ops), NEW results \in Seq(Statuses),
           NEW owner, AppendCommit(hash, ops, results, owner)
    PROVE  /\ \A o : Discarded(o)' <=> \/ Discarded(o)
                                       \/ o \in Ran(ops) /\ UserRejected(results)
           /\ \A o : Answered(o)' <=> \/ Answered(o)
                                      \/ o \in Ran(ops) /\ ~UserRejected(results)
           /\ \A q, r : InLog(q, r) => InLog(q, r)'
           /\ InLog(ops, results)'
  <1> DEFINE c == [hash |-> hash, parentHash |-> head, ops |-> ops, results |-> results]
  <1>1. c \in CommitRecords /\ c.ops = ops /\ c.results = results
    BY DEF CommitRecords
  <1>2. commits' = Append(commits, c)
    BY DEF AppendCommit
  <1> HIDE DEF c
  <1>3. /\ Len(commits') = Len(commits) + 1 /\ Len(commits) \in Nat
        /\ \A i \in 1..Len(commits) : commits'[i] = commits[i]
        /\ commits'[Len(commits) + 1] = c
    BY <1>1, <1>2
  <1>4. \A i \in 1..Len(commits') : i \in 1..Len(commits) \/ i = Len(commits) + 1
    BY <1>3
  <1>5. /\ Len(commits) + 1 \in 1..Len(commits')
        /\ \A i \in 1..Len(commits) : i \in 1..Len(commits')
    BY <1>3
  <1> HIDE <1>2
  <1>6. \A o : Discarded(o)' <=> Discarded(o) \/ (o \in Ran(ops) /\ UserRejected(results))
    BY <1>1, <1>3, <1>4, <1>5 DEF Discarded
  <1>7. \A o : Answered(o)' <=> Answered(o) \/ (o \in Ran(ops) /\ ~UserRejected(results))
    BY <1>1, <1>3, <1>4, <1>5 DEF Answered
  <1>8. \A q, r : InLog(q, r) => InLog(q, r)'
    BY <1>3, <1>5 DEF InLog
  <1>9. InLog(ops, results)'
    BY <1>1, <1>3, <1>5 DEF InLog
  <1> QED
    BY <1>6, <1>7, <1>8, <1>9

LEMMA InitHonest == Init => HonestInv
  <1> SUFFICES ASSUME Init PROVE HonestInv
    OBVIOUS
  <1>1. /\ \A a \in Approvers : writer[a] = Idle /\ writer[a].at = "idle"
        /\ commits = <<>> /\ stagingArea = <<>> /\ \A o \in Ops : calls[o] = 0
    BY DEF Init, Idle
  <1>2. \A o : ~Discarded(o) /\ ~Answered(o)
    BY <1>1 DEF Discarded, Answered
  <1>3. HonestLog
    BY <1>1, <1>2, HonestMeans
  <1>4. OpsIn(commits) = {}
    BY <1>2, InLogEitherWay
  <1> QED
    BY <1>1, <1>3, <1>4 DEF HonestInv

(* A step that leaves staging, the calls and the log alone.                *)
LEMMA SameHonest ==
    ASSUME HonestInv,
           UNCHANGED <<stagingArea, writer, calls, orphaned, commits, nextOp>>
    PROVE  HonestInv'
  <1>1. HonestLog'
    BY HonestMeans, HonestMeansNext DEF HonestInv, Discarded, Answered
  <1> QED
    BY <1>1 DEF HonestInv, CallOf, PushOf, RejectOf, InLog, Untouched, OpsIn

(* A step that ends the call in progress, if any, and leaves nothing       *)
(* staged that was not left open: the log must still account for what was  *)
(* sent.                                                                   *)
LEMMA EndedHonest ==
    ASSUME HonestInv, UNCHANGED <<calls, nextOp>>, orphaned \subseteq orphaned',
           \A a \in Approvers : writer'[a] = Idle,
           \A i \in 1..Len(stagingArea') : stagingArea'[i] \in orphaned',
           \A o : Discarded(o)' => Discarded(o),
           \A o : Answered(o)' => Answered(o),
           \A o \in Ops : calls[o] > 0 /\ o \notin orphaned' => Answered(o)'
    PROVE  HonestInv'
  <1>1. HonestLog'
    BY HonestMeans, HonestMeansNext DEF HonestInv
  <1>2. \A o \in OpsIn(commits)' : o < nextOp'
    BY InLogEitherWay, InLogEitherWayNext DEF HonestInv
  <1>3. \A a \in Approvers : writer'[a].at = "idle"
    BY DEF Idle
  <1> QED
    BY <1>1, <1>2, <1>3 DEF HonestInv

(* Every step keeps the log honest.                                        *)
LEMMA NextHonest ==
    TypeOK /\ GateInv /\ ChainInv /\ OnceInv /\ HonestInv /\ [Next]_vars => HonestInv'
  <1> SUFFICES ASSUME TypeOK, GateInv, ChainInv, OnceInv, HonestInv, [Next]_vars
               PROVE  HonestInv'
    OBVIOUS
  <1>w. writer \in [Approvers -> WriterRecords]
    BY DEF TypeOK, CallsTyped
  <1>o. \A a, b \in Approvers : Busy(a) /\ Busy(b) => a = b
    BY DEF GateInv, OneWriter, Busy
  <1>h. \A a \in Approvers : Busy(a) => writer[a].ops = stagingArea
    BY DEF GateInv, WriterHolds, Busy
  <1>g. /\ stagingArea \in Seq(Ops) /\ nextOp \in 1..(MaxOps + 1)
        /\ calls \in [Ops -> Nat] /\ commits \in Seq(CommitRecords) /\ head \in Nat
    BY DEF TypeOK, GitTyped, CallsTyped
  <1>i. \A a \in Approvers : ~Busy(a) => writer[a] = Idle
    BY DEF HonestInv, Busy
  <1>c. \A a \in Approvers : Busy(a) => CallOf(writer[a])
    BY DEF HonestInv, Busy
  <1>q. ~inflightWrite => \A a \in Approvers : ~Busy(a)
    BY DEF GateInv, OneWriter, Busy
  <1>l. \A i \in 1..Len(stagingArea) :
           stagingArea[i] \in orphaned \/ Untouched(stagingArea[i])
    BY DEF HonestInv
  <1>r. Ran(<<>>) = {}
    BY DEF Ran
  <1>1. CASE Add
    <2>1. /\ stagingArea' = Append(stagingArea, nextOp) /\ nextOp' = nextOp + 1
          /\ UNCHANGED <<calls, orphaned, writer, commits>> /\ nextOp \in Ops
      BY <1>1, <1>g, BoundsAreNat DEF Add, Ops
    <2>2. /\ Len(stagingArea') = Len(stagingArea) + 1 /\ Len(stagingArea) \in Nat
          /\ stagingArea'[Len(stagingArea) + 1] = nextOp
          /\ \A i \in 1..Len(stagingArea) : stagingArea'[i] = stagingArea[i]
      BY <1>g, <2>1
    <2>3. calls[nextOp] = 0
      BY <1>g, <2>1 DEF OnceInv, Ops
    <2>4. nextOp \notin OpsIn(commits)
      BY <1>g DEF HonestInv
    <2>5. \A i \in 1..Len(stagingArea') :
             stagingArea'[i] \in orphaned' \/ Untouched(stagingArea[i])'
      <3>1. \A i \in 1..Len(stagingArea') : i \in 1..Len(stagingArea) \/ i = Len(stagingArea) + 1
        BY <2>2
      <3>2. \A o : o = nextOp => Untouched(o)'
        BY <2>1, <2>3, <2>4 DEF Untouched, OpsIn
      <3>3. \A o : Untouched(o) => Untouched(o)'
        BY <2>1 DEF Untouched, OpsIn
      <3> QED
        BY <1>l, <2>1, <2>2, <3>1, <3>2, <3>3 DEF Untouched
    <2>6. \A o \in OpsIn(commits)' : o < nextOp'
      <3>1. \A o \in OpsIn(commits) : o < nextOp /\ o \in Nat
        <4>1. \A i \in 1..Len(commits) : commits[i].ops \in Seq(Ops)
          <5>1. \A i \in 1..Len(commits) : commits[i] \in CommitRecords
            BY <1>g
          <5> QED
            BY <5>1 DEF CommitRecords
        <4>2. \A o \in OpsIn(commits) : o \in Ops
          BY <4>1, RanInOps DEF OpsIn
        <4> QED
          BY <4>2, BoundsAreNat DEF HonestInv, Ops
      <3>2. OpsIn(commits)' = OpsIn(commits)
        BY <2>1 DEF OpsIn
      <3> QED
        BY <1>g, <2>1, <3>1, <3>2
    <2>7. HonestLog'
      BY <2>1, HonestMeans, HonestMeansNext DEF HonestInv, Discarded, Answered
    <2>8. \A a \in Approvers : /\ writer'[a].at = "idle" => writer'[a] = Idle
                               /\ writer'[a].at # "idle" => CallOf(writer[a])'
      BY <2>1 DEF HonestInv, CallOf, PushOf, RejectOf, InLog
    <2> QED
      BY <2>5, <2>6, <2>7, <2>8 DEF HonestInv
  <1>2. CASE Commit \/ RecorderSettles \/ FileSystem \/ UNCHANGED vars
             \/ \E a \in Approvers : Status(a)
    BY <1>2, SameHonest
       DEF Commit, Status, RecorderSettles, FileSystem, vars, gitVars, freshVars
  <1>3. ASSUME NEW a \in Approvers, NEW kind \in {"push", "reject"}, NEW at, NEW results,
               at # "idle", StartWrite(a, kind, at, results),
               CallOf([at |-> at, kind |-> kind, hash |-> pendingHash,
                       ops |-> stagingArea, results |-> results])
        PROVE  HonestInv'
    <2> DEFINE w == [at |-> at, kind |-> kind, hash |-> pendingHash,
                     ops |-> stagingArea, results |-> results]
    <2>1. \A b \in Approvers : ~Busy(b)
      BY <1>3, <1>q DEF StartWrite, BeginWrite
    <2>2. /\ writer' = [writer EXCEPT ![a] = w]
          /\ UNCHANGED <<stagingArea, commits, nextOp, calls, orphaned>>
      BY <1>3 DEF StartWrite, freshVars
    <2>3. writer'[a] = w /\ \A b \in Approvers \ {a} : writer'[b] = writer[b]
      BY <1>w, <2>2
    <2>4. w.at = at /\ w.kind = kind /\ w.ops = stagingArea /\ w.results = results /\ CallOf(w)
      BY <1>3
    <2> HIDE DEF w
    <2>5. CallOf(writer[a])'
      BY <2>2, <2>3, <2>4 DEF CallOf, PushOf, RejectOf, InLog
    <2>6. \A b \in Approvers : writer[b].at = "idle" /\ writer[b].kind = "none"
                               /\ Ran(writer[b].ops) = {}
      BY <1>i, <1>r, <2>1 DEF Idle
    <2>7. \A i \in 1..Len(stagingArea) :
             stagingArea[i] \in orphaned \/ Untouched(stagingArea[i])'
      <3>1. \A o : Untouched(o) => o \notin OpsIn(commits) /\ ~(calls[o] > 0)
        BY <2>6 DEF Untouched
      <3>2. \A o : o \notin OpsIn(commits) /\ ~(calls[o] > 0) => Untouched(o)'
        BY <2>2 DEF Untouched, OpsIn
      <3> QED
        BY <1>l, <2>2, <3>1, <3>2 DEF Untouched
    <2>8. HonestLog'
      BY <2>2, <2>6, HonestMeans, HonestMeansNext DEF HonestInv, Discarded, Answered
    <2>9. \A b \in Approvers : /\ writer'[b].at = "idle" => writer'[b] = Idle
                               /\ writer'[b].at # "idle" => CallOf(writer[b])'
      BY <1>3, <1>i, <2>1, <2>3, <2>4, <2>5, <2>6 DEF Busy
    <2>10. \A o \in OpsIn(commits)' : o < nextOp'
      BY <2>2 DEF HonestInv, OpsIn
    <2> QED
      BY <2>2, <2>7, <2>8, <2>9, <2>10 DEF HonestInv
  <1>4. ASSUME NEW a \in Approvers, Push(a) PROVE HonestInv'
    <2> DEFINE w == [at |-> "executing", kind |-> "push", hash |-> pendingHash,
                     ops |-> stagingArea, results |-> <<>>]
    <2>1. CallOf(w)
      BY DEF CallOf, PushOf
    <2> QED
      BY <1>3, <1>4, <2>1 DEF Push
  <1>5. ASSUME NEW a \in Approvers, Reject(a) PROVE HonestInv'
    <2> DEFINE results == [i \in 1..Len(stagingArea) |-> "user-rejected"]
               w == [at |-> "reading", kind |-> "reject", hash |-> pendingHash,
                     ops |-> stagingArea, results |-> results]
    <2>1. StartWrite(a, "reject", "reading", results)
      BY <1>5 DEF Reject
    <2>2. \A b \in Approvers : ~Busy(b)
      BY <2>1, <1>q DEF StartWrite, BeginWrite
    <2>3. \A b \in Approvers : writer[b].kind = "none"
      BY <1>i, <2>2 DEF Idle
    <2>4. \A k \in 1..Len(stagingArea) :
             calls[stagingArea[k]] = 0 \/ stagingArea[k] \in orphaned
      <3>1. \A k \in 1..Len(stagingArea) : calls[stagingArea[k]] \in Nat
        BY <1>g
      <3> QED
        BY <1>l, <2>3, <3>1 DEF Untouched
    <2>5. Len(results) = Len(stagingArea)
      BY <1>g
    <2>6. CallOf(w)
      BY <2>4, <2>5 DEF CallOf, RejectOf
    <2> QED
      BY <1>3, <2>1, <2>6
  <1>6. ASSUME NEW a \in Approvers, ExecuteOperation(a) PROVE HonestInv'
    <2>1. writer[a] \in WriterRecords /\ Busy(a) /\ writer[a].ops = stagingArea
      BY <1>6, <1>w, <1>h DEF ExecuteOperation, Busy
    <2>2. writer[a].kind = "push" /\ PushOf(writer[a])
      BY <1>6, <1>c, <2>1 DEF ExecuteOperation, CallOf, RejectOf
    <2>r. writer[a].results \in Seq(Statuses) /\ Len(writer[a].results) \in Nat
      BY <2>1 DEF WriterRecords
    <2>k. PICK k \in Nat : k = Len(writer[a].results) + 1
      BY <2>r
    <2>3. k \in 1..Len(stagingArea)
      BY <1>6, <1>g, <2>1, <2>k, <2>r DEF ExecuteOperation
    <2>4. PICK status \in {"submitted", "rejected"}, at \in {"reading", "executing"} :
             /\ at # "executing" => k = Len(writer[a].ops)
             /\ writer' = [writer EXCEPT ![a] =
                   [writer[a] EXCEPT !.results = Append(writer[a].results, status),
                                     !.at = at]]
      <3>1. PICK status \in {"submitted", "rejected"} :
               writer' = [writer EXCEPT ![a] =
                   [writer[a] EXCEPT !.results = Append(writer[a].results, status),
                        !.at = IF k = Len(writer[a].ops) THEN "reading" ELSE "executing"]]
        BY <1>6, <2>k, Zenon DEF ExecuteOperation
      <3>2. CASE k = Len(writer[a].ops)
        BY <3>1, <3>2
      <3>3. CASE k # Len(writer[a].ops)
        BY <3>1, <3>3
      <3> QED
        BY <3>2, <3>3
    <2>5. /\ writer'[a].at = at /\ writer'[a].kind = "push"
          /\ writer'[a].ops = stagingArea
          /\ writer'[a].results = Append(writer[a].results, status)
          /\ \A b \in Approvers \ {a} : writer'[b] = writer[b]
      BY <1>w, <2>1, <2>2, <2>4 DEF WriterRecords
    <2>6. /\ calls' = [calls EXCEPT ![stagingArea[k]] = @ + 1]
          /\ UNCHANGED <<stagingArea, nextOp, orphaned, commits>>
      BY <1>6, <2>1, <2>k DEF ExecuteOperation, gitVars, freshVars
    <2>7. stagingArea[k] \in Ops
      BY <1>g, <2>3
    <2>8. /\ \A o \in Ops : o # stagingArea[k] => calls'[o] = calls[o]
          /\ calls'[stagingArea[k]] = calls[stagingArea[k]] + 1
          /\ calls[stagingArea[k]] \in Nat
      BY <1>g, <2>6, <2>7
    <2>9. /\ Len(writer'[a].results) = k
          /\ \A i \in 1..k : IF i = k THEN writer'[a].results[i] = status
                             ELSE writer'[a].results[i] = writer[a].results[i]
      <3>1. status \in Statuses
        BY <2>4 DEF Statuses
      <3> QED
        BY <2>k, <2>r, <2>5, <3>1
    <2>10. PushOf(writer[a])'
      <3>1. ASSUME NEW i \in 1..k
            PROVE  writer'[a].results[i] # "user-rejected" /\ calls'[stagingArea[i]] > 0
        <4>1. stagingArea[i] \in Ops /\ calls[stagingArea[i]] \in Nat
          BY <1>g, <2>3
        <4>2. CASE i = k
          BY <2>4, <2>8, <2>9, <4>2
        <4>3. CASE i # k
          <5>1. i \in 1..Len(writer[a].results)
            BY <2>k, <2>r, <4>3
          <5>2. writer[a].results[i] # "user-rejected" /\ calls[stagingArea[i]] > 0
            BY <2>1, <2>2, <5>1 DEF PushOf
          <5>3. calls'[stagingArea[i]] >= calls[stagingArea[i]]
            BY <2>8, <4>1
          <5>4. calls'[stagingArea[i]] > 0
            BY <2>8, <4>1, <5>2, <5>3
          <5> QED
            BY <2>9, <4>3, <5>2, <5>4
        <4> QED
          BY <4>2, <4>3
      <3> QED
        BY <2>5, <2>6, <2>9, <3>1 DEF PushOf
    <2>11. CallOf(writer[a])'
      BY <2>1, <2>4, <2>5, <2>9, <2>10 DEF CallOf
    <2>12. \A b \in Approvers : /\ writer'[b].at = "idle" => writer'[b] = Idle
                                /\ writer'[b].at # "idle" => CallOf(writer[b])'
      <3>1. \A b \in Approvers \ {a} : ~Busy(b)
        BY <1>o, <2>1
      <3>2. \A b \in Approvers \ {a} : writer'[b] = Idle /\ writer'[b].at = "idle"
        BY <1>i, <2>5, <3>1 DEF Busy
      <3> QED
        BY <2>4, <2>5, <2>11, <3>2
    <2>13. \A i \in 1..Len(stagingArea) :
              stagingArea[i] \in orphaned \/ stagingArea[i] \notin OpsIn(commits)
      <3>1. \A b \in Approvers : writer[b].at # "saving"
        BY <1>6, <1>o, <2>1 DEF ExecuteOperation, Busy
      <3> QED
        BY <1>l, <3>1 DEF Untouched
    <2>14. \A i \in 1..Len(stagingArea') :
              stagingArea'[i] \in orphaned' \/ Untouched(stagingArea[i])'
      BY <2>5, <2>6, <2>13 DEF Untouched, OpsIn
    <2>15. HonestLog'
      <3>1. ASSUME NEW o \in Ops
            PROVE  /\ Discarded(o)' => calls'[o] = 0 \/ o \in orphaned'
                   /\ Answered(o)' => calls'[o] > 0
                   /\ calls'[o] > 0 => \/ Answered(o)'
                                       \/ \E b \in Approvers : o \in Ran(writer'[b].ops)
                                       \/ o \in orphaned'
        <4>1. (Discarded(o)' <=> Discarded(o)) /\ (Answered(o)' <=> Answered(o))
          BY <2>6 DEF Discarded, Answered
        <4>2. calls[o] \in Nat
          BY <1>g
        <4>3. CASE o = stagingArea[k]
          <5>1. o \in orphaned \/ ~Discarded(o)
            BY <2>3, <2>13, <4>3, InLogEitherWay
          <5>2. o \in Ran(writer'[a].ops)
            BY <2>3, <2>5, <4>3 DEF Ran
          <5> QED
            BY <2>6, <2>8, <4>1, <4>3, <5>1, <5>2
        <4>4. CASE o # stagingArea[k]
          <5>1. \A b \in Approvers : writer'[b].ops = writer[b].ops
            BY <2>1, <2>5
          <5> QED
            BY <2>6, <2>8, <4>1, <4>4, <5>1, HonestMeans DEF HonestInv
        <4> QED
          BY <4>3, <4>4
      <3> QED
        BY <3>1, HonestMeansNext
    <2>16. \A o \in OpsIn(commits)' : o < nextOp'
      BY <2>6 DEF HonestInv, OpsIn
    <2> QED
      BY <2>12, <2>14, <2>15, <2>16 DEF HonestInv
  <1>7. ASSUME NEW a \in Approvers, RecordCommit(a) PROVE HonestInv'
    <2>1. writer[a] \in WriterRecords /\ Busy(a) /\ writer[a].ops = stagingArea
      BY <1>7, <1>w, <1>h DEF RecordCommit, Busy
    <2>2. /\ writer[a].hash \in Nat /\ writer[a].results \in Seq(Statuses)
          /\ Len(writer[a].results) \in Nat
      BY <2>1, BoundsAreNat DEF WriterRecords
    <2>3. /\ CallOf(writer[a]) /\ Len(writer[a].results) = Len(stagingArea)
      BY <1>7, <1>c, <2>1 DEF RecordCommit, CallOf
    <2>4. /\ AppendCommit(writer[a].hash, stagingArea, writer[a].results, a)
          /\ writer' = [writer EXCEPT ![a].at = "saving"]
          /\ UNCHANGED <<stagingArea, nextOp, calls, orphaned>>
      BY <1>7, <2>1 DEF RecordCommit, freshVars
    <2>5. /\ writer'[a].at = "saving" /\ writer'[a].kind = writer[a].kind
          /\ writer'[a].ops = writer[a].ops /\ writer'[a].results = writer[a].results
          /\ \A b \in Approvers \ {a} : writer'[b] = writer[b]
      BY <1>w, <2>1, <2>4 DEF WriterRecords
    <2>6. /\ \A o : Discarded(o)' <=> \/ Discarded(o)
                                      \/ o \in Ran(stagingArea)
                                           /\ UserRejected(writer[a].results)
          /\ \A o : Answered(o)' <=> \/ Answered(o)
                                     \/ o \in Ran(stagingArea)
                                           /\ ~UserRejected(writer[a].results)
          /\ InLog(stagingArea, writer[a].results)'
      BY <1>g, <2>2, <2>4, AppendShows
    <2>7. CallOf(writer[a])'
      BY <2>1, <2>3, <2>4, <2>5, <2>6 DEF CallOf, PushOf, RejectOf
    <2>8. \A b \in Approvers : /\ writer'[b].at = "idle" => writer'[b] = Idle
                               /\ writer'[b].at # "idle" => CallOf(writer[b])'
      <3>1. \A b \in Approvers \ {a} : ~Busy(b)
        BY <1>o, <2>1
      <3>2. \A b \in Approvers \ {a} : writer'[b] = Idle /\ writer'[b].at = "idle"
        BY <1>i, <2>5, <3>1 DEF Busy
      <3> QED
        BY <2>5, <2>7, <3>2
    <2>9. \A i \in 1..Len(stagingArea') :
             stagingArea'[i] \in orphaned' \/ Untouched(stagingArea[i])'
      <3>1. \A b \in Approvers : writer'[b].kind = writer[b].kind
        BY <2>5
      <3>2. \A o : Untouched(o) => Untouched(o)'
        BY <2>4, <2>5, <3>1 DEF Untouched
      <3> QED
        BY <1>l, <2>4, <3>2
    <2>10. \A o \in OpsIn(commits)' : o < nextOp'
      <3>1. \A o : o \in OpsIn(commits)' => o \in OpsIn(commits) \/ o \in Ran(stagingArea)
        BY <2>6, InLogEitherWay, InLogEitherWayNext
      <3>2. \A o \in Ran(stagingArea) : o < nextOp
        BY DEF OnceInv, Ran
      <3> QED
        BY <2>4, <3>1, <3>2 DEF HonestInv
    <2>11. \A o \in Ran(stagingArea) : \E k \in 1..Len(stagingArea) : stagingArea[k] = o
      BY DEF Ran
    <2>12. \A o \in Ran(stagingArea) :
              /\ UserRejected(writer[a].results) => calls[o] = 0 \/ o \in orphaned
              /\ ~UserRejected(writer[a].results) => calls[o] > 0
      <3>1. CASE writer[a].kind = "push"
        <4>1. \A k \in 1..Len(stagingArea) : writer[a].results[k] # "user-rejected"
                                             /\ calls[stagingArea[k]] > 0
          BY <2>1, <2>3, <3>1 DEF CallOf, PushOf
        <4> QED
          BY <2>3, <2>11, <4>1 DEF UserRejected
      <3>2. CASE writer[a].kind = "reject"
        <4>1. \A k \in 1..Len(stagingArea) :
                 /\ writer[a].results[k] = "user-rejected"
                 /\ calls[stagingArea[k]] = 0 \/ stagingArea[k] \in orphaned
          BY <2>1, <2>3, <3>2 DEF CallOf, RejectOf
        <4> QED
          BY <2>3, <2>11, <4>1 DEF UserRejected
      <3> QED
        BY <2>3, <3>1, <3>2 DEF CallOf
    <2>13. HonestLog'
      <3>1. \A b \in Approvers : writer'[b].ops = writer[b].ops
        BY <2>5
      <3> QED
        BY <2>4, <2>6, <2>12, <3>1, HonestMeans, HonestMeansNext DEF HonestInv
    <2> QED
      BY <2>8, <2>9, <2>10, <2>13 DEF HonestInv
  <1>8. ASSUME NEW a \in Approvers, Busy(a), writer' = [writer EXCEPT ![a] = Idle]
        PROVE  \A b \in Approvers : writer'[b] = Idle
    BY <1>8, <1>i, <1>o, <1>w
  <1>9. \A a \in Approvers : Busy(a) =>
           \A o : (\E b \in Approvers : o \in Ran(writer[b].ops)) => o \in Ran(stagingArea)
    <2>1. \A b \in Approvers : ~Busy(b) => Ran(writer[b].ops) = {}
      BY <1>i, <1>r DEF Idle
    <2> QED
      BY <1>h, <2>1
  <1>10. ASSUME NEW a \in Approvers, StateReadFails(a) \/ SaveRejected(a) PROVE HonestInv'
    <2>1. Busy(a) /\ AbortWrite(a)
      BY <1>10 DEF StateReadFails, SaveRejected, Busy
    <2>2. /\ orphaned' = orphaned \cup Ran(stagingArea)
          /\ writer' = [writer EXCEPT ![a] = Idle]
          /\ UNCHANGED <<stagingArea, commits, nextOp, calls>>
      BY <1>h, <2>1 DEF AbortWrite, freshVars
    <2>3. \A i \in 1..Len(stagingArea') : stagingArea'[i] \in orphaned'
      BY <2>2 DEF Ran
    <2>4. \A o : (Discarded(o)' <=> Discarded(o)) /\ (Answered(o)' <=> Answered(o))
      BY <2>2 DEF Discarded, Answered
    <2>5. \A o \in Ops : calls[o] > 0 /\ o \notin orphaned' => Answered(o)'
      BY <1>9, <2>1, <2>2, <2>4, HonestMeans DEF HonestInv
    <2> QED
      BY <1>8, <2>1, <2>2, <2>3, <2>4, <2>5, EndedHonest
  <1>11. ASSUME NEW a \in Approvers, FinishWrite(a) PROVE HonestInv'
    <2>1. /\ Busy(a) /\ writer' = [writer EXCEPT ![a] = Idle] /\ stagingArea' = <<>>
          /\ UNCHANGED <<commits, nextOp, calls, orphaned>>
      BY <1>11 DEF FinishWrite, Busy, freshVars
    <2>2. /\ CallOf(writer[a]) /\ writer[a].ops = stagingArea
          /\ InLog(stagingArea, writer[a].results)
          /\ Len(writer[a].results) = Len(stagingArea)
      BY <1>11, <1>c, <1>h, <2>1 DEF FinishWrite, CallOf
    <2>3. \A o \in Ran(stagingArea) : calls[o] > 0 /\ o \notin orphaned => Answered(o)
      <3>1. CASE writer[a].kind = "push"
        <4>1. ~UserRejected(writer[a].results)
          BY <2>2, <3>1 DEF CallOf, PushOf, UserRejected
        <4> QED
          BY <2>2, <4>1 DEF InLog, Answered
      <3>2. CASE writer[a].kind = "reject"
        <4>1. \A k \in 1..Len(stagingArea) :
                 calls[stagingArea[k]] = 0 \/ stagingArea[k] \in orphaned
          BY <2>2, <3>2 DEF CallOf, RejectOf
        <4> QED
          BY <4>1 DEF Ran
      <3> QED
        BY <2>2, <3>1, <3>2 DEF CallOf
    <2>4. \A o : (Discarded(o)' <=> Discarded(o)) /\ (Answered(o)' <=> Answered(o))
      BY <2>1 DEF Discarded, Answered
    <2>5. \A o \in Ops : calls[o] > 0 /\ o \notin orphaned' => Answered(o)'
      BY <1>9, <2>1, <2>3, <2>4, HonestMeans DEF HonestInv
    <2>6. \A i \in 1..Len(stagingArea') : stagingArea'[i] \in orphaned'
      BY <2>1
    <2> QED
      BY <1>8, <2>1, <2>4, <2>5, <2>6, EndedHonest
  <1>12. CASE RecordReconcile \/ RecordObservedOrders \/ Sync
    <2>1. PICK results \in Seq(Statuses) : AppendRecord(results)
      <3>1. <<"filled">> \in Seq(Statuses) /\ <<"submitted">> \in Seq(Statuses)
        BY DEF Statuses
      <3> QED
        BY <1>12, <3>1 DEF RecordReconcile, RecordObservedOrders, Sync
    <2>2. nextHash \in Nat /\ <<>> \in Seq(Ops)
      BY BoundsAreNat DEF TypeOK, GitTyped
    <2>3. AppendCommit(nextHash, <<>>, results, Recorder)
      BY <2>1 DEF AppendRecord
    <2>4. /\ \A o : (Discarded(o)' <=> Discarded(o)) /\ (Answered(o)' <=> Answered(o))
          /\ \A q, r : InLog(q, r) => InLog(q, r)'
      BY <1>g, <1>r, <2>2, <2>3, AppendShows
    <2>5. UNCHANGED <<stagingArea, writer, calls, orphaned, nextOp>>
      BY <2>1 DEF AppendRecord
    <2>6. OpsIn(commits)' = OpsIn(commits)
      BY <2>4, InLogEitherWay, InLogEitherWayNext
    <2>7. HonestLog'
      BY <2>4, <2>5, HonestMeans, HonestMeansNext DEF HonestInv
    <2>8. \A a \in Approvers : /\ writer'[a].at = "idle" => writer'[a] = Idle
                               /\ writer'[a].at # "idle" => CallOf(writer[a])'
      BY <2>4, <2>5 DEF HonestInv, CallOf, PushOf, RejectOf
    <2>9. \A o : Untouched(o) => Untouched(o)'
      BY <2>5, <2>6 DEF Untouched
    <2> QED
      BY <2>5, <2>6, <2>7, <2>8, <2>9 DEF HonestInv
  <1>13. CASE Crash
    <2>1. /\ commits' = disk.parsed.commits /\ stagingArea' = <<>>
          /\ writer' = [a \in Approvers |-> Idle] /\ UNCHANGED <<calls, nextOp>>
          /\ orphaned' = orphaned \cup Ran(stagingArea)
                                  \cup (OpsIn(commits) \ OpsIn(disk.parsed.commits))
      BY <1>13 DEF Crash, LoadGitState, freshVars
    <2>2. /\ Len(commits') <= Len(commits) /\ Len(commits') \in Nat /\ Len(commits) \in Nat
          /\ \A i \in 1..Len(commits') : commits'[i] = commits[i]
      <3>1. disk.parsed.commits \in Seq(CommitRecords)
        BY DEF TypeOK, FileTyped, States
      <3> QED
        BY <1>g, <2>1, <3>1 DEF ChainInv, Begins
    <2>3. \A i \in 1..Len(commits') : i \in 1..Len(commits)
      BY <2>2
    <2>4. \A o : (Discarded(o)' => Discarded(o)) /\ (Answered(o)' => Answered(o))
      BY <2>2, <2>3 DEF Discarded, Answered
    <2>5. OpsIn(disk.parsed.commits) = OpsIn(commits)'
      BY <2>1 DEF OpsIn
    <2>6. \A o \in Ops : calls[o] > 0 /\ o \notin orphaned' => Answered(o)'
      <3>1. ASSUME NEW o \in Ops, calls[o] > 0, o \notin orphaned' PROVE Answered(o)'
        <4>1. o \notin orphaned /\ o \notin Ran(stagingArea)
          BY <2>1, <3>1
        <4>2. \A b \in Approvers : o \notin Ran(writer[b].ops)
          BY <1>h, <1>i, <1>r, <4>1 DEF Idle
        <4>3. Answered(o)
          BY <3>1, <4>1, <4>2, HonestMeans DEF HonestInv
        <4>4. ~Discarded(o)
          BY <3>1, <4>1, HonestMeans DEF HonestInv
        <4>5. o \in OpsIn(commits)'
          BY <2>1, <2>5, <3>1, <4>3, InLogEitherWay
        <4> QED
          BY <2>4, <4>4, <4>5, InLogEitherWayNext
      <3> QED
        BY <3>1
    <2>7. /\ \A a \in Approvers : writer'[a] = Idle
          /\ \A i \in 1..Len(stagingArea') : stagingArea'[i] \in orphaned'
          /\ orphaned \subseteq orphaned'
      BY <2>1
    <2> QED
      BY <2>1, <2>4, <2>6, <2>7, EndedHonest
  <1> QED
    BY <1>1, <1>2, <1>4, <1>5, <1>6, <1>7, <1>10, <1>11, <1>12, <1>13 DEF Next

-----------------------------------------------------------------------------
(* While a call owns the wallet nobody changes what it decides about, and  *)
(* only a crash cuts the log back.                                         *)

LEMMA AppendGrows ==
    ASSUME commits \in Seq(CommitRecords), head \in Nat,
           NEW hash \in Nat, NEW ops \in Seq(Ops), NEW results \in Seq(Statuses),
           NEW owner, AppendCommit(hash, ops, results, owner)
    PROVE  /\ Len(commits') \in Len(commits)..(Len(commits) + 1)
           /\ SubSeq(commits', 1, Len(commits)) = commits
  <1> DEFINE c == [hash |-> hash, parentHash |-> head, ops |-> ops, results |-> results]
  <1>1. c \in CommitRecords
    BY DEF CommitRecords
  <1>2. commits' = Append(commits, c)
    BY DEF AppendCommit
  <1> HIDE DEF c
  <1>3. Len(commits') = Len(commits) + 1 /\ Len(commits) \in Nat
    BY <1>1, <1>2
  <1>4. SubSeq(commits', 1, Len(commits)) = commits
    BY <1>1, <1>2
  <1> QED
    BY <1>3, <1>4

LEMMA NextExclusive ==
    TypeOK /\ [Next]_vars =>
        /\ inflightWrite /\ inflightWrite' => UNCHANGED <<stagingArea, pendingHash>>
        /\ budget'.crashes = budget.crashes =>
              /\ Len(commits') \in Len(commits)..(Len(commits) + 1)
              /\ SubSeq(commits', 1, Len(commits)) = commits
  <1> SUFFICES ASSUME TypeOK, [Next]_vars
               PROVE  /\ inflightWrite /\ inflightWrite'
                            => UNCHANGED <<stagingArea, pendingHash>>
                      /\ budget'.crashes = budget.crashes =>
                            /\ Len(commits') \in Len(commits)..(Len(commits) + 1)
                            /\ SubSeq(commits', 1, Len(commits)) = commits
    OBVIOUS
  <1>g. commits \in Seq(CommitRecords) /\ head \in Nat
    BY DEF TypeOK, GitTyped
  <1>s. /\ Len(commits) \in Len(commits)..(Len(commits) + 1)
        /\ SubSeq(commits, 1, Len(commits)) = commits
    BY <1>g
  <1>1. CASE Add \/ Commit \/ RecorderSettles \/ FileSystem \/ UNCHANGED vars
             \/ \E a \in Approvers : Status(a) \/ ExecuteOperation(a)
    <2>1. commits' = commits
      BY <1>1 DEF Add, Commit, RecorderSettles, FileSystem, vars, Status,
                  ExecuteOperation, gitVars
    <2>2. ~inflightWrite \/ UNCHANGED <<stagingArea, pendingHash>>
      BY <1>1 DEF Add, Commit, RecorderSettles, FileSystem, vars, Status,
                  ExecuteOperation, gitVars
    <2> QED
      BY <1>s, <2>1, <2>2
  <1>2. CASE \E a \in Approvers : Push(a) \/ Reject(a)
    BY <1>2, <1>s DEF Push, Reject, StartWrite, BeginWrite
  <1>3. CASE \E a \in Approvers : StateReadFails(a) \/ FinishWrite(a) \/ SaveRejected(a)
    BY <1>3, <1>s DEF StateReadFails, FinishWrite, SaveRejected, AbortWrite
  <1>4. ASSUME NEW a \in Approvers, RecordCommit(a)
        PROVE  /\ UNCHANGED <<stagingArea, pendingHash>>
               /\ Len(commits') \in Len(commits)..(Len(commits) + 1)
               /\ SubSeq(commits', 1, Len(commits)) = commits
    <2>1. /\ writer[a].hash \in Nat /\ writer[a].ops \in Seq(Ops)
          /\ writer[a].results \in Seq(Statuses)
      BY BoundsAreNat DEF TypeOK, CallsTyped, WriterRecords
    <2> QED
      BY <1>4, <1>g, <2>1, AppendGrows DEF RecordCommit
  <1>5. CASE RecordReconcile \/ RecordObservedOrders \/ Sync
    <2>1. PICK results \in Seq(Statuses) : AppendRecord(results)
      <3>1. <<"filled">> \in Seq(Statuses) /\ <<"submitted">> \in Seq(Statuses)
        BY DEF Statuses
      <3> QED
        BY <1>5, <3>1 DEF RecordReconcile, RecordObservedOrders, Sync
    <2>2. nextHash \in Nat /\ <<>> \in Seq(Ops)
      BY BoundsAreNat DEF TypeOK, GitTyped
    <2> QED
      BY <1>g, <2>1, <2>2, AppendGrows DEF AppendRecord
  <1>6. CASE Crash
    <2>1. inflightWrite' = FALSE /\ budget'.crashes # budget.crashes
      BY <1>6 DEF Crash, TypeOK, FileTyped, Budgets
    <2> QED
      BY <2>1
  <1> QED
    BY <1>1, <1>2, <1>3, <1>4, <1>5, <1>6 DEF Next

-----------------------------------------------------------------------------
(* TradingGit implements the approval gate.  Staged operations share one   *)
(* phase, which is that of the call in progress; any other operation below *)
(* nextOp has met its fate.                                                *)

Phase ==
    IF \E a \in Approvers : writer[a].kind = "push" THEN "pushing"
    ELSE IF \E a \in Approvers : writer[a].kind = "reject" THEN "rejecting"
    ELSE IF pendingHash # 0 THEN "proposed" ELSE "staged"

Fate(o) ==
    IF o \in orphaned THEN "open" ELSE IF Discarded(o) THEN "rejected" ELSE "pushed"

LifeTable ==
    \A o \in Ops : nextOp \in Nat =>
        /\ o >= nextOp => LifeOf(o) = "new"
        /\ o < nextOp /\ o \in Ran(stagingArea) => LifeOf(o) = Phase
        /\ o < nextOp /\ o \notin Ran(stagingArea) => LifeOf(o) = Fate(o)

LEMMA LivesAreInTheTable == LifeTable
  <1> SUFFICES ASSUME NEW o \in Ops, nextOp \in Nat
               PROVE  /\ o >= nextOp => LifeOf(o) = "new"
                      /\ o < nextOp /\ o \in Ran(stagingArea) => LifeOf(o) = Phase
                      /\ o < nextOp /\ o \notin Ran(stagingArea) => LifeOf(o) = Fate(o)
    BY DEF LifeTable
  <1>0. o \in Nat
    BY BoundsAreNat DEF Ops
  <1>1. o >= nextOp => LifeOf(o) = "new"
    BY <1>0 DEF LifeOf
  <1>2. o < nextOp /\ o \in Ran(stagingArea) => LifeOf(o) = Phase
    BY <1>0 DEF LifeOf, Phase
  <1>3. LoggedAs(o, UserRejected) <=> Discarded(o)
    BY DEF LoggedAs, Discarded
  <1>4. o < nextOp /\ o \notin Ran(stagingArea) => LifeOf(o) = Fate(o)
    BY <1>0, <1>3 DEF LifeOf, Fate
  <1> QED
    BY <1>1, <1>2, <1>4

LEMMA LivesAreInTheTableNext == LifeTable'
  BY LivesAreInTheTable, PTL

(* Where the table places the operations of a state that satisfies the     *)
(* invariant.                                                              *)
Placed ==
    \A o \in Ops :
        /\ o >= nextOp => LifeOf(o) = "new" /\ o \notin Ran(stagingArea)
        /\ o \in Ran(stagingArea) => o < nextOp /\ LifeOf(o) = Phase
        /\ o < nextOp /\ o \notin Ran(stagingArea) => LifeOf(o) = Fate(o)

LEMMA AllPlaced == TypeOK /\ OnceInv => Placed
  <1> SUFFICES ASSUME TypeOK, OnceInv, NEW o \in Ops
               PROVE  /\ o >= nextOp => LifeOf(o) = "new" /\ o \notin Ran(stagingArea)
                      /\ o \in Ran(stagingArea) => o < nextOp /\ LifeOf(o) = Phase
                      /\ o < nextOp /\ o \notin Ran(stagingArea) => LifeOf(o) = Fate(o)
    BY DEF Placed
  <1>1. nextOp \in Nat /\ o \in Nat
    BY BoundsAreNat DEF TypeOK, GitTyped, Ops
  <1>2. o \in Ran(stagingArea) => o < nextOp
    BY DEF OnceInv, Ran
  <1> QED
    BY <1>1, <1>2, LivesAreInTheTable DEF LifeTable

LEMMA AllPlacedNext == TypeOK' /\ OnceInv' => Placed'
  BY AllPlaced, PTL

LEMMA PhaseIsLife == Phase \in {"staged", "proposed", "pushing", "rejecting"}
  BY DEF Phase

LEMMA FateIsLife == \A o : Fate(o) \in {"pushed", "rejected", "open"}
  BY DEF Fate

LEMMA LifeTyped == Placed /\ TypeOK => \A o \in Ops : LifeOf(o) \in Gate!Lives
  <1> SUFFICES ASSUME Placed, TypeOK, NEW o \in Ops PROVE LifeOf(o) \in Gate!Lives
    OBVIOUS
  <1>1. o >= nextOp \/ o < nextOp
    BY BoundsAreNat DEF TypeOK, GitTyped, Ops
  <1>2. LifeOf(o) \in {"new", Phase, Fate(o)}
    BY <1>1 DEF Placed
  <1> QED
    BY <1>2, PhaseIsLife, FateIsLife DEF Gate!Lives

LEMMA LifeTypedNext == Placed' /\ TypeOK' => \A o \in Ops : LifeOf(o)' \in Gate!Lives
  <1>1. (Placed /\ TypeOK => \A o \in Ops : LifeOf(o) \in Gate!Lives)'
    BY LifeTyped, PTL
  <1> QED
    BY <1>1 DEF Gate!Lives

(* The whole staging area moves from its phase to one of the targets.      *)
LEMMA StagedMove ==
    ASSUME TypeOK, TypeOK', Placed, Placed', stagingArea # <<>>,
           NEW l \in {"staged", "proposed", "pushing", "rejecting"}, Phase = l,
           NEW targets,
           \A o \in Ran(stagingArea) : LifeOf(o)' \in targets,
           \A o \in Ops \ Ran(stagingArea) : LifeOf(o)' = LifeOf(o)
    PROVE  Gate!MoveAll(l, targets)
  <1>1. Ran(stagingArea) \subseteq Ops
    BY RanInOps DEF TypeOK, GitTyped
  <1>2. \A o \in Ops : LifeOf(o) = l <=> o \in Ran(stagingArea)
    <2> SUFFICES ASSUME NEW o \in Ops PROVE LifeOf(o) = l <=> o \in Ran(stagingArea)
      OBVIOUS
    <2>1. o >= nextOp \/ o < nextOp
      BY BoundsAreNat DEF TypeOK, GitTyped, Ops
    <2>2. Fate(o) # l
      BY FateIsLife
    <2> QED
      BY <2>1, <2>2 DEF Placed
  <1>3. Gate!In(l) = Ran(stagingArea)
    BY <1>1, <1>2 DEF Gate!In
  <1>4. Ran(stagingArea) # {}
    <2>1. 1 \in 1..Len(stagingArea)
      BY DEF TypeOK, GitTyped
    <2> QED
      BY <2>1 DEF Ran
  <1>5. \A o \in Ops : LifeOf(o)' \in Gate!Lives
    BY LifeTypedNext
  <1> QED
    BY <1>3, <1>4, <1>5 DEF Gate!MoveAll

(* Nothing is in progress, or one call is, and its kind is the phase.      *)
PhaseTable ==
    /\ \A a \in Approvers : Busy(a) /\ writer[a].kind = "push" => Phase = "pushing"
    /\ \A a \in Approvers : Busy(a) /\ writer[a].kind = "reject" => Phase = "rejecting"
    /\ (\A a \in Approvers : ~Busy(a)) =>
          Phase = IF pendingHash # 0 THEN "proposed" ELSE "staged"

LEMMA PhaseOfCall == GateInv /\ HonestInv => PhaseTable
  <1> SUFFICES ASSUME GateInv, HonestInv PROVE PhaseTable
    OBVIOUS
  <1>1. \A a \in Approvers : ~Busy(a) => writer[a].kind = "none"
    BY DEF HonestInv, Busy, Idle
  <1>2. \A a, b \in Approvers : Busy(a) /\ Busy(b) => a = b
    BY DEF GateInv, OneWriter, Busy
  <1>3. \A a \in Approvers : Busy(a) /\ writer[a].kind = "push" => Phase = "pushing"
    BY DEF Phase
  <1>4. \A a \in Approvers : Busy(a) /\ writer[a].kind = "reject" => Phase = "rejecting"
    <2> SUFFICES ASSUME NEW a \in Approvers, Busy(a), writer[a].kind = "reject"
                 PROVE  Phase = "rejecting"
      OBVIOUS
    <2>1. \A b \in Approvers : writer[b].kind # "push"
      BY <1>1, <1>2
    <2> QED
      BY <2>1 DEF Phase
  <1>5. (\A a \in Approvers : ~Busy(a)) =>
            Phase = IF pendingHash # 0 THEN "proposed" ELSE "staged"
    <2> SUFFICES ASSUME \A a \in Approvers : ~Busy(a)
                 PROVE  Phase = IF pendingHash # 0 THEN "proposed" ELSE "staged"
      OBVIOUS
    <2>1. \A a \in Approvers : writer[a].kind = "none"
      BY <1>1
    <2> QED
      BY <2>1 DEF Phase
  <1> QED
    BY <1>3, <1>4, <1>5 DEF PhaseTable

LEMMA PhaseOfCallNext == GateInv' /\ HonestInv' => PhaseTable'
  BY PhaseOfCall, PTL

(* A step that changes none of what the table is about.                    *)
LEMMA SameLives ==
    ASSUME TypeOK, TypeOK', Placed, Placed', UNCHANGED <<nextOp, stagingArea>>,
           Phase' = Phase, \A o \in Ops \ Ran(stagingArea) : Fate(o)' = Fate(o)
    PROVE  \A o \in Ops : LifeOf(o)' = LifeOf(o)
  <1> SUFFICES ASSUME NEW o \in Ops PROVE LifeOf(o)' = LifeOf(o)
    OBVIOUS
  <1>1. o >= nextOp \/ o < nextOp
    BY BoundsAreNat DEF TypeOK, GitTyped, Ops
  <1>2. Ran(stagingArea)' = Ran(stagingArea)
    BY DEF Ran
  <1> QED
    BY <1>1, <1>2 DEF Placed

(* An operation that is not staged keeps its life when the log and what    *)
(* was left open say the same of it.                                       *)
LEMMA UnstagedLives ==
    ASSUME TypeOK, TypeOK', Placed, Placed', nextOp' = nextOp,
           Ran(stagingArea)' \subseteq Ran(stagingArea),
           \A o \in Ops \ Ran(stagingArea) : Fate(o)' = Fate(o)
    PROVE  \A o \in Ops \ Ran(stagingArea) : LifeOf(o)' = LifeOf(o)
  <1> SUFFICES ASSUME NEW o \in Ops \ Ran(stagingArea) PROVE LifeOf(o)' = LifeOf(o)
    OBVIOUS
  <1>1. o >= nextOp \/ o < nextOp
    BY BoundsAreNat DEF TypeOK, GitTyped, Ops
  <1>2. o \notin Ran(stagingArea)'
    OBVIOUS
  <1> QED
    BY <1>1, <1>2 DEF Placed

(* The staged operations stay staged and get the new phase.                *)
LEMMA StagedLives ==
    ASSUME Placed', stagingArea' = stagingArea, Ran(stagingArea) \subseteq Ops
    PROVE  \A o \in Ran(stagingArea) : LifeOf(o)' = Phase'
  BY DEF Placed, Ran

GateStep == Gate!Next \/ \A o \in Ops : LifeOf(o)' = LifeOf(o)

(* Every step of the code is a step of the gate, or leaves every life as   *)
(* it is.                                                                  *)
LEMMA NextGateStep ==
    ASSUME IInv, IInv', [Next]_vars
    PROVE  GateStep
  <1>t. TypeOK /\ GateInv /\ ChainInv /\ OnceInv /\ HonestInv /\ TypeOK' /\ GateInv'
        /\ HonestInv' /\ OnceInv'
    BY DEF IInv
  <1>p. Placed /\ Placed'
    BY <1>t, AllPlaced, AllPlacedNext
  <1>w. writer \in [Approvers -> WriterRecords]
    BY <1>t DEF TypeOK, CallsTyped
  <1>h. \A a \in Approvers : Busy(a) => /\ writer[a].ops = stagingArea /\ stagingArea # <<>>
                                        /\ pendingHash # 0 /\ CallOf(writer[a])
    BY <1>t DEF GateInv, WriterHolds, HonestInv, Busy
  <1>g. /\ stagingArea \in Seq(Ops) /\ nextOp \in 1..(MaxOps + 1) /\ nextHash \in 1..(MaxHash + 1)
        /\ commits \in Seq(CommitRecords) /\ head \in Nat /\ calls \in [Ops -> Nat]
    BY <1>t DEF TypeOK, GitTyped, CallsTyped
  <1>q. ~inflightWrite => \A a \in Approvers : ~Busy(a)
    BY <1>t DEF GateInv, OneWriter, Busy
  <1>r. Ran(stagingArea) \subseteq Ops
    BY <1>g, RanInOps
  <1>1. CASE Add
    <2>1. /\ stagingArea' = Append(stagingArea, nextOp) /\ nextOp' = nextOp + 1
          /\ pendingHash = 0 /\ UNCHANGED <<pendingHash, orphaned, writer, commits>>
          /\ nextOp \in Ops /\ ~inflightWrite
      BY <1>1, <1>g, BoundsAreNat DEF Add, Ops
    <2>2. Ran(stagingArea)' = Ran(stagingArea) \cup {nextOp}
      <3>1. /\ Len(stagingArea') = Len(stagingArea) + 1 /\ Len(stagingArea) \in Nat
            /\ stagingArea'[Len(stagingArea) + 1] = nextOp
            /\ \A i \in 1..Len(stagingArea) : stagingArea'[i] = stagingArea[i]
        BY <1>g, <2>1
      <3>2. \A i : i \in 1..Len(stagingArea') <=> \/ i \in 1..Len(stagingArea)
                                                  \/ i = Len(stagingArea) + 1
        BY <3>1
      <3> QED
        BY <3>1, <3>2 DEF Ran
    <2>3. Phase = "staged" /\ Phase' = "staged"
      <3>1. Phase = "staged"
        BY <1>t, <1>q, <2>1, PhaseOfCall DEF PhaseTable
      <3> QED
        BY <2>1, <3>1 DEF Phase
    <2>n. PICK n \in Ops : n = nextOp
      BY <2>1
    <2>4. LifeOf(n) = "new" /\ LifeOf(n)' = "staged"
      <3>1. LifeOf(n) = "new"
        BY <1>g, <1>p, <2>n, BoundsAreNat DEF Placed
      <3>2. \A o \in Ops : o \in Ran(stagingArea)' => LifeOf(o)' = Phase'
        BY <1>p DEF Placed
      <3> QED
        BY <2>2, <2>3, <2>n, <3>1, <3>2
    <2>5. \A o \in Ops : o # nextOp => LifeOf(o)' = LifeOf(o)
      <3> SUFFICES ASSUME NEW o \in Ops, o # nextOp PROVE LifeOf(o)' = LifeOf(o)
        OBVIOUS
      <3>1. CASE o \in Ran(stagingArea)
        BY <1>p, <2>2, <2>3, <3>1 DEF Placed
      <3>2. CASE o \notin Ran(stagingArea) /\ o < nextOp
        <4>1. o < nextOp'
          BY <1>g, <2>1, <3>2, BoundsAreNat DEF Ops
        <4>2. Fate(o)' = Fate(o)
          BY <2>1 DEF Fate, Discarded
        <4> QED
          BY <1>p, <2>2, <3>2, <4>1, <4>2 DEF Placed
      <3>3. CASE o \notin Ran(stagingArea) /\ o >= nextOp
        <4>1. o >= nextOp'
          BY <1>g, <2>1, <3>3, BoundsAreNat DEF Ops
        <4> QED
          BY <1>p, <3>3, <4>1 DEF Placed
      <3>4. o < nextOp \/ o >= nextOp
        BY <1>g, BoundsAreNat DEF Ops
      <3> QED
        BY <3>1, <3>2, <3>3, <3>4
    <2>6. \A o \in Ops : LifeOf(o) \notin {"proposed", "pushing", "rejecting"}
      <3> SUFFICES ASSUME NEW o \in Ops
                   PROVE  LifeOf(o) \notin {"proposed", "pushing", "rejecting"}
        OBVIOUS
      <3>1. o >= nextOp \/ o < nextOp
        BY <1>g, BoundsAreNat DEF Ops
      <3> QED
        BY <1>p, <2>3, <3>1, FateIsLife DEF Placed
    <2>7. Gate!Stage(n)
      BY <2>4, <2>5, <2>6, <2>n DEF Gate!Stage, Gate!NothingProposed, Gate!In
    <2> QED
      BY <2>7 DEF GateStep, Gate!Next
  <1>2. CASE Commit
    <2>1. /\ ~inflightWrite /\ stagingArea # <<>> /\ pendingHash' # 0
          /\ UNCHANGED <<stagingArea, inflightWrite, nextOp, orphaned, writer, commits>>
      BY <1>2, <1>g, BoundsAreNat DEF Commit
    <2>2. \A a \in Approvers : ~Busy(a) /\ ~Busy(a)'
      BY <1>q, <2>1 DEF Busy
    <2>3. Phase' = "proposed"
      BY <1>t, <2>1, <2>2, PhaseOfCallNext DEF PhaseTable
    <2>4. \A o : Fate(o)' = Fate(o)
      BY <2>1 DEF Fate, Discarded
    <2>5. CASE pendingHash = 0
      <3>1. Phase = "staged"
        BY <1>t, <2>2, <2>5, PhaseOfCall DEF PhaseTable
      <3>2. \A o \in Ran(stagingArea) : LifeOf(o)' \in {"proposed"}
        BY <1>p, <1>r, <2>1, <2>3, StagedLives
      <3>3. Ran(stagingArea)' \subseteq Ran(stagingArea)
        BY <2>1 DEF Ran
      <3>4. \A o \in Ops \ Ran(stagingArea) : LifeOf(o)' = LifeOf(o)
        BY <1>t, <1>p, <2>1, <2>4, <3>3, UnstagedLives
      <3>5. Gate!MoveAll("staged", {"proposed"})
        BY <1>t, <1>p, <2>1, <3>1, <3>2, <3>4, StagedMove
      <3> QED
        BY <3>5 DEF GateStep, Gate!Next, Gate!Propose
    <2>6. CASE pendingHash # 0
      <3>1. Phase = "proposed"
        BY <1>t, <2>2, <2>6, PhaseOfCall DEF PhaseTable
      <3> QED
        BY <1>t, <1>p, <2>1, <2>3, <2>4, <3>1, SameLives DEF GateStep
    <2> QED
      BY <2>5, <2>6
  <1>3. CASE RecorderSettles \/ FileSystem \/ UNCHANGED vars
             \/ \E a \in Approvers : Status(a)
    <2>1. UNCHANGED <<stagingArea, pendingHash, nextOp, orphaned, writer, commits>>
      BY <1>3 DEF RecorderSettles, FileSystem, vars, Status, gitVars, freshVars
    <2>2. Phase' = Phase /\ \A o : Fate(o)' = Fate(o)
      BY <2>1 DEF Phase, Fate, Discarded
    <2> QED
      BY <1>t, <1>p, <2>1, <2>2, SameLives DEF GateStep
  <1>4. ASSUME NEW a \in Approvers, NEW kind \in {"push", "reject"},
               NEW at \in {"executing", "reading"}, NEW results,
               StartWrite(a, kind, at, results)
        PROVE  Gate!MoveAll("proposed", {IF kind = "push" THEN "pushing" ELSE "rejecting"})
    <2> DEFINE target == IF kind = "push" THEN "pushing" ELSE "rejecting"
    <2>1. /\ stagingArea # <<>> /\ pendingHash # 0 /\ ~inflightWrite
          /\ UNCHANGED <<stagingArea, nextOp, orphaned, commits>>
      BY <1>4 DEF StartWrite, AssertPrepared, BeginWrite, freshVars
    <2>2. Phase = "proposed"
      BY <1>t, <1>q, <2>1, PhaseOfCall DEF PhaseTable
    <2>3. Busy(a)' /\ writer'[a].kind = kind
      BY <1>4, <1>w DEF StartWrite, Busy
    <2>4. Phase' = target
      <3>1. kind = "push" => Phase' = "pushing"
        BY <1>t, <2>3, PhaseOfCallNext DEF PhaseTable
      <3>2. kind = "reject" => Phase' = "rejecting"
        BY <1>t, <2>3, PhaseOfCallNext DEF PhaseTable
      <3> QED
        BY <3>1, <3>2
    <2> HIDE DEF target
    <2>5. \A o \in Ran(stagingArea) : LifeOf(o)' \in {target}
      BY <1>p, <1>r, <2>1, <2>4, StagedLives
    <2>6. \A o : Fate(o)' = Fate(o)
      BY <2>1 DEF Fate, Discarded
    <2>7. Ran(stagingArea)' \subseteq Ran(stagingArea)
      BY <2>1 DEF Ran
    <2>8. \A o \in Ops \ Ran(stagingArea) : LifeOf(o)' = LifeOf(o)
      BY <1>t, <1>p, <2>1, <2>6, <2>7, UnstagedLives
    <2>9. Gate!MoveAll("proposed", {target})
      BY <1>t, <1>p, <2>1, <2>2, <2>5, <2>8, StagedMove
    <2> QED
      BY <2>9 DEF target
  <1>5. ASSUME NEW a \in Approvers, Push(a) PROVE GateStep
    <2>1. Gate!MoveAll("proposed", {IF "push" = "push" THEN "pushing" ELSE "rejecting"})
      BY <1>4, <1>5 DEF Push
    <2> QED
      BY <2>1 DEF GateStep, Gate!Next, Gate!Decide
  <1>6. ASSUME NEW a \in Approvers, Reject(a) PROVE GateStep
    <2>1. Gate!MoveAll("proposed", {IF "reject" = "push" THEN "pushing" ELSE "rejecting"})
      BY <1>4, <1>6 DEF Reject
    <2> QED
      BY <2>1 DEF GateStep, Gate!Next, Gate!Decide
  <1>7. ASSUME NEW a \in Approvers, ExecuteOperation(a) PROVE GateStep
    <2>1. UNCHANGED <<stagingArea, pendingHash, nextOp, orphaned, commits>>
      BY <1>7 DEF ExecuteOperation, gitVars, freshVars
    <2>2. \A b \in Approvers : writer'[b].kind = writer[b].kind
      <3>1. PICK status \in {"submitted", "rejected"}, at \in {"reading", "executing"} :
               writer' = [writer EXCEPT ![a] =
                   [writer[a] EXCEPT !.results = Append(writer[a].results, status),
                                     !.at = at]]
        BY <1>7, Zenon DEF ExecuteOperation
      <3>2. writer[a] \in WriterRecords
        BY <1>w
      <3> QED
        BY <1>w, <3>1, <3>2 DEF WriterRecords
    <2>3. Phase' = Phase /\ \A o : Fate(o)' = Fate(o)
      BY <2>1, <2>2 DEF Phase, Fate, Discarded
    <2> QED
      BY <1>t, <1>p, <2>1, <2>3, SameLives DEF GateStep
  <1>8. ASSUME NEW a \in Approvers, RecordCommit(a) PROVE GateStep
    <2>1. writer[a] \in WriterRecords /\ writer[a].ops = stagingArea
      BY <1>8, <1>w, <1>h DEF RecordCommit, Busy
    <2>2. writer[a].hash \in Nat /\ writer[a].results \in Seq(Statuses)
      BY <2>1, BoundsAreNat DEF WriterRecords
    <2>3. /\ AppendCommit(writer[a].hash, stagingArea, writer[a].results, a)
          /\ UNCHANGED <<stagingArea, pendingHash, nextOp, orphaned>>
      BY <1>8, <2>1 DEF RecordCommit, freshVars
    <2>4. \A o \in Ops \ Ran(stagingArea) : Discarded(o)' <=> Discarded(o)
      BY <1>g, <2>2, <2>3, AppendShows
    <2>5. \A b \in Approvers : writer'[b].kind = writer[b].kind
      BY <1>8, <1>w, <2>1 DEF RecordCommit, WriterRecords
    <2>6. Phase' = Phase
      BY <2>3, <2>5 DEF Phase
    <2>7. \A o \in Ops \ Ran(stagingArea) : Fate(o)' = Fate(o)
      BY <2>3, <2>4 DEF Fate
    <2> QED
      BY <1>t, <1>p, <2>3, <2>6, <2>7, SameLives DEF GateStep
  <1>9. ASSUME NEW a \in Approvers, StateReadFails(a) \/ SaveRejected(a) PROVE GateStep
    <2>1. Busy(a) /\ AbortWrite(a)
      BY <1>9 DEF StateReadFails, SaveRejected, Busy
    <2>2. /\ UNCHANGED <<stagingArea, pendingHash, nextOp, commits>>
          /\ orphaned' = orphaned \cup Ran(stagingArea) /\ inflightWrite' = FALSE
      BY <1>h, <2>1 DEF AbortWrite, freshVars
    <2>3. \A b \in Approvers : ~Busy(b)'
      BY <1>t, <2>2 DEF GateInv, OneWriter, Busy
    <2>4. Phase' = "proposed" /\ stagingArea # <<>>
      BY <1>h, <1>t, <2>1, <2>2, <2>3, PhaseOfCallNext DEF PhaseTable
    <2>5. \A o \in Ran(stagingArea) : LifeOf(o)' \in {"proposed"}
      BY <1>p, <1>r, <2>2, <2>4, StagedLives
    <2>6. \A o \in Ops \ Ran(stagingArea) : Fate(o)' = Fate(o)
      BY <2>2 DEF Fate, Discarded
    <2>7. Ran(stagingArea)' \subseteq Ran(stagingArea)
      BY <2>2 DEF Ran
    <2>8. \A o \in Ops \ Ran(stagingArea) : LifeOf(o)' = LifeOf(o)
      BY <1>t, <1>p, <2>2, <2>6, <2>7, UnstagedLives
    <2>9. Phase \in {"pushing", "rejecting"}
      BY <1>h, <1>t, <2>1, PhaseOfCall DEF CallOf, PhaseTable
    <2>10. CASE Phase = "pushing"
      <3>1. Gate!MoveAll("pushing", {"proposed"})
        BY <1>t, <1>p, <2>4, <2>5, <2>8, <2>10, StagedMove
      <3> QED
        BY <3>1 DEF GateStep, Gate!Next, Gate!Fail
    <2>11. CASE Phase = "rejecting"
      <3>1. Gate!MoveAll("rejecting", {"proposed"})
        BY <1>t, <1>p, <2>4, <2>5, <2>8, <2>11, StagedMove
      <3> QED
        BY <3>1 DEF GateStep, Gate!Next, Gate!Fail
    <2> QED
      BY <2>9, <2>10, <2>11
  <1>10. ASSUME NEW a \in Approvers, FinishWrite(a) PROVE GateStep
    <2>1. /\ Busy(a) /\ stagingArea' = <<>>
          /\ UNCHANGED <<commits, nextOp, orphaned>>
      BY <1>10 DEF FinishWrite, Busy, freshVars
    <2>2. /\ CallOf(writer[a]) /\ writer[a].ops = stagingArea /\ stagingArea # <<>>
          /\ InLog(stagingArea, writer[a].results)
          /\ Len(writer[a].results) = Len(stagingArea)
      BY <1>10, <1>h, <2>1 DEF FinishWrite, CallOf
    <2>3. \A o : Fate(o)' = Fate(o)
      BY <2>1 DEF Fate, Discarded
    <2>4. Ran(stagingArea)' = {}
      BY <2>1 DEF Ran
    <2>5. \A o \in Ran(stagingArea) : LifeOf(o)' = Fate(o)
      <3>1. \A o \in Ran(stagingArea) : o \in Ops /\ o < nextOp'
        BY <1>p, <1>r, <2>1 DEF Placed
      <3> QED
        BY <1>p, <2>3, <2>4, <3>1 DEF Placed
    <2>6. \A o \in Ops \ Ran(stagingArea) : LifeOf(o)' = LifeOf(o)
      BY <1>t, <1>p, <2>1, <2>3, <2>4, UnstagedLives
    <2>7. CASE writer[a].kind = "push"
      <3>1. Phase = "pushing"
        BY <1>t, <2>1, <2>7, PhaseOfCall DEF PhaseTable
      <3>2. \A k \in 1..Len(stagingArea) : calls[stagingArea[k]] > 0
        BY <2>2, <2>7 DEF CallOf, PushOf
      <3>3. \A o \in Ran(stagingArea) : calls[o] > 0 /\ calls[o] \in Nat
        BY <1>g, <1>r, <3>2 DEF Ran
      <3>4. \A o \in Ran(stagingArea) : o \in orphaned \/ ~Discarded(o)
        BY <1>r, <1>t, <3>3, HonestMeans DEF HonestInv
      <3>5. \A o \in Ran(stagingArea) : LifeOf(o)' \in {"pushed", "open"}
        BY <2>5, <3>4 DEF Fate
      <3>6. Gate!MoveAll("pushing", {"pushed", "open"})
        BY <1>t, <1>p, <2>2, <2>6, <3>1, <3>5, StagedMove
      <3> QED
        BY <3>6 DEF GateStep, Gate!Next, Gate!Settle
    <2>8. CASE writer[a].kind = "reject"
      <3>1. Phase = "rejecting"
        BY <1>t, <2>1, <2>8, PhaseOfCall DEF PhaseTable
      <3>2. UserRejected(writer[a].results)
        <4>1. Len(stagingArea) >= 1
          BY <1>g, <2>2
        <4>2. 1 \in 1..Len(writer[a].results)
          BY <1>g, <2>2, <4>1
        <4> QED
          BY <2>2, <2>8, <4>2 DEF CallOf, RejectOf, UserRejected
      <3>3. \A o \in Ran(stagingArea) : Discarded(o)
        BY <2>2, <3>2 DEF InLog, Discarded
      <3>4. \A o \in Ran(stagingArea) : LifeOf(o)' \in {"rejected", "open"}
        BY <2>5, <3>3 DEF Fate
      <3>5. Gate!MoveAll("rejecting", {"rejected", "open"})
        BY <1>t, <1>p, <2>2, <2>6, <3>1, <3>4, StagedMove
      <3> QED
        BY <3>5 DEF GateStep, Gate!Next, Gate!Settle
    <2> QED
      BY <2>2, <2>7, <2>8 DEF CallOf
  <1>11. CASE RecordReconcile \/ RecordObservedOrders \/ Sync
    <2>1. PICK results \in Seq(Statuses) : AppendRecord(results)
      <3>1. <<"filled">> \in Seq(Statuses) /\ <<"submitted">> \in Seq(Statuses)
        BY DEF Statuses
      <3> QED
        BY <1>11, <3>1 DEF RecordReconcile, RecordObservedOrders, Sync
    <2>2. nextHash \in Nat /\ <<>> \in Seq(Ops)
      BY <1>g, BoundsAreNat
    <2>3. /\ AppendCommit(nextHash, <<>>, results, Recorder)
          /\ UNCHANGED <<stagingArea, pendingHash, nextOp, orphaned, writer>>
      BY <2>1 DEF AppendRecord
    <2>4. \A o : Discarded(o)' <=> Discarded(o)
      <3>1. Ran(<<>>) = {}
        BY DEF Ran
      <3> QED
        BY <1>g, <2>2, <2>3, <3>1, AppendShows
    <2>5. Phase' = Phase /\ \A o : Fate(o)' = Fate(o)
      BY <2>3, <2>4 DEF Phase, Fate
    <2> QED
      BY <1>t, <1>p, <2>3, <2>5, SameLives DEF GateStep
  <1>12. CASE Crash
    <2>1. /\ commits' = disk.parsed.commits /\ stagingArea' = <<>> /\ nextOp' = nextOp
          /\ orphaned' = orphaned \cup Ran(stagingArea)
                                  \cup (OpsIn(commits) \ OpsIn(disk.parsed.commits))
      BY <1>12 DEF Crash, LoadGitState, freshVars
    <2>2. Ran(stagingArea)' = {}
      BY <2>1 DEF Ran
    <2>3. OpsIn(disk.parsed.commits) = OpsIn(commits)'
      BY <2>1 DEF OpsIn
    <2>4. /\ Len(commits') <= Len(commits) /\ Len(commits') \in Nat /\ Len(commits) \in Nat
          /\ \A i \in 1..Len(commits') : commits'[i] = commits[i]
      <3>1. disk.parsed.commits \in Seq(CommitRecords)
        BY <1>t DEF TypeOK, FileTyped, States
      <3> QED
        BY <1>g, <1>t, <2>1, <3>1 DEF ChainInv, Begins
    <2>5. \A i \in 1..Len(commits') : i \in 1..Len(commits)
      BY <2>4
    <2>6. \A o : (Discarded(o)' => Discarded(o)) /\ (Answered(o)' => Answered(o))
      BY <2>4, <2>5 DEF Discarded, Answered
    <2>7. \A o \in Ops : Fate(o)' = Fate(o) \/ Fate(o)' = "open"
      <3> SUFFICES ASSUME NEW o \in Ops, o \notin orphaned' PROVE Fate(o)' = Fate(o)
        BY DEF Fate
      <3>1. o \notin orphaned /\ (o \in OpsIn(commits) => o \in OpsIn(commits)')
        BY <2>1, <2>3
      <3>2. Discarded(o) => Discarded(o)'
        <4> SUFFICES ASSUME Discarded(o), ~Discarded(o)' PROVE FALSE
          OBVIOUS
        <4>1. Answered(o)'
          BY <3>1, InLogEitherWay, InLogEitherWayNext
        <4>2. Answered(o)
          BY <2>6, <4>1
        <4>3. calls[o] > 0 /\ calls[o] = 0
          BY <1>t, <3>1, <4>2, HonestMeans DEF HonestInv
        <4> QED
          BY <4>3
      <3> QED
        BY <2>6, <3>1, <3>2 DEF Fate
    <2>8. ASSUME NEW o \in Ops
          PROVE  IF LifeOf(o) \in {"staged", "proposed", "pushing", "rejecting"}
                 THEN LifeOf(o)' = "open"
                 ELSE LifeOf(o)' = LifeOf(o) \/ (LifeOf(o) # "new" /\ LifeOf(o)' = "open")
      <3>0. o < nextOp \/ o >= nextOp
        BY <1>g, BoundsAreNat DEF Ops
      <3>1. CASE o >= nextOp
        BY <1>p, <2>1, <3>1 DEF Placed
      <3>2. CASE o < nextOp /\ o \in Ran(stagingArea)
        <4>1. LifeOf(o) \in {"staged", "proposed", "pushing", "rejecting"}
          BY <1>p, <3>2, PhaseIsLife DEF Placed
        <4>2. LifeOf(o)' = Fate(o)'
          BY <1>p, <2>1, <2>2, <3>2 DEF Placed
        <4>3. Fate(o)' = "open"
          BY <2>1, <3>2 DEF Fate
        <4> QED
          BY <4>1, <4>2, <4>3
      <3>3. CASE o < nextOp /\ o \notin Ran(stagingArea)
        <4>1. LifeOf(o) = Fate(o) /\ LifeOf(o)' = Fate(o)'
          BY <1>p, <2>1, <2>2, <3>3 DEF Placed
        <4>2. Fate(o) \in {"pushed", "rejected", "open"}
          BY FateIsLife
        <4> QED
          BY <2>7, <4>1, <4>2
      <3> QED
        BY <3>0, <3>1, <3>2, <3>3
    <2>9. \A o \in Ops : LifeOf(o)' \in Gate!Lives
      BY <1>t, <1>p, LifeTypedNext
    <2>10. Gate!Restart
      BY <2>8, <2>9 DEF Gate!Restart
    <2> QED
      BY <2>10 DEF GateStep, Gate!Next
  <1> QED
    BY <1>1, <1>2, <1>3, <1>5, <1>6, <1>7, <1>8, <1>9, <1>10, <1>11, <1>12 DEF Next

(* Initially every operation is new.                                       *)
LEMMA InitGateLife == Init => Gate!Init
  <1> SUFFICES ASSUME Init PROVE Gate!Init
    OBVIOUS
  <1>1. Placed
    BY InitTyped, InitOnce, AllPlaced
  <1>2. \A o \in Ops : o >= nextOp
    BY BoundsAreNat DEF Init, Ops
  <1> QED
    BY <1>1, <1>2 DEF Placed, Gate!Init

-----------------------------------------------------------------------------
(* The theorems.                                                           *)

(* The inductive invariant holds in every state of every behaviour.        *)
THEOREM Inductive == Spec => []IInv
  <1>1. Init => IInv
    BY InitTyped, InitGate, InitChain, InitOnce, InitHonest DEF IInv
  <1>2. IInv /\ [Next]_vars => IInv'
    BY NextTyped, NextGate, NextChain, NextOnce, NextHonest DEF IInv
  <1> QED
    BY <1>1, <1>2, PTL DEF Spec

(* The fields, the calls in progress and the file always have their types. *)
THEOREM TypeCorrect == Spec => []TypeOK
  <1>1. IInv => TypeOK
    BY DEF IInv
  <1> QED
    BY <1>1, Inductive, PTL

(* However many approvers race, at most one push or reject owns the        *)
(* wallet, and inflightWrite says so.                                      *)
THEOREM AtMostOneWriter == Spec => []OneWriter
  <1>1. IInv => OneWriter
    BY DEF IInv, GateInv
  <1> QED
    BY <1>1, Inductive, PTL

(* A push sends, and a reject discards, exactly what its approver was      *)
(* shown with the hash it sends back.                                      *)
THEOREM DecidesWhatWasShown == Spec => []ShownIsWritten
  <1>1. IInv => ShownIsWritten
    BY DEF IInv, GateInv
  <1> QED
    BY <1>1, Inductive, PTL

(* The log is one chain of hashes that ends at head, across concurrent     *)
(* recorders, failures and restarts.                                       *)
THEOREM LogIsChain == Spec => []HashChain
  <1>1. IInv => HashChain
    BY DEF IInv, ChainInv
  <1> QED
    BY <1>1, Inductive, PTL

(* Whatever the overlap of saves, commit.json parses to a chain that       *)
(* begins the log in memory, or not at all.                                *)
THEOREM FileIsPrefix == Spec => []FileBeginsLog
  <1>1. IInv => FileBeginsLog
    BY DEF IInv, ChainInv, Begins, FileBeginsLog, LoadGitState
  <1> QED
    BY <1>1, Inductive, PTL

(* No operation is sent to the broker twice unless a failed push or a      *)
(* crash left it open.                                                     *)
THEOREM SentAtMostOnce == Spec => []AtMostOnce
  <1>1. IInv => AtMostOnce
    BY DEF IInv, OnceInv
  <1> QED
    BY <1>1, Inductive, PTL

(* The log never shows what did not happen: what it calls rejected by the  *)
(* user was not sent, what it shows answered was sent, and what was sent   *)
(* is in the log once its push has ended.                                  *)
THEOREM LogIsHonest == Spec => []HonestLog
  <1>1. IInv => HonestLog
    BY DEF IInv, HonestInv
  <1> QED
    BY <1>1, Inductive, PTL

(* What a call in progress decides about does not change under it, and     *)
(* every step but a crash keeps the log and adds at most one commit.       *)
THEOREM WritesAreExclusive == Spec => WriteIsExclusive
  <1>1. IInv => TypeOK
    BY DEF IInv
  <1> QED
    BY <1>1, Inductive, NextExclusive, PTL DEF Spec, WriteIsExclusive

(* Every behaviour of the code is a behaviour of the approval gate: what   *)
(* is staged is proposed, decided and settled as one batch, and nothing    *)
(* reaches the broker that was not proposed and pushed.                    *)
THEOREM ApprovalIsKept == Spec => ImplementsGate
  <1>1. ASSUME IInv, IInv', [Next]_vars
        PROVE  [Gate!Next]_([o \in Ops |-> LifeOf(o)])
    <2>1. GateStep
      BY <1>1, NextGateStep
    <2> QED
      BY <2>1 DEF GateStep
  <1> QED
    BY <1>1, InitGateLife, Inductive, PTL DEF Spec, ImplementsGate, Gate!Spec
=============================================================================
