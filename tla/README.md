# Specifications of the OpenAlice core

OpenAlice lets AI agents research markets and propose trades. These
specifications are about the parts of it that keep state and promises. What may
lose money is kept in one service, the UTA ("unified trading account") service
in `services/uta`: the approval gate every order passes, the log that remembers
what was sent, the machinery that follows orders and connections, the envelope
around automated trading, and the store of account snapshots. What may lose work
is in the launcher and the Alice process: the lock that keeps one process per
home, who may run on a conversation, when a scheduled Issue is fired, and the
life of a workspace between the office floor and the archive. All paths below are
relative to the repository; `T/` stands for `services/uta/src/domain/trading/`
and `W/` for `src/workspaces/`.

Each service is one Node.js process. Its concurrency is that of `await`: HTTP
requests, timers and broker events interleave wherever a function awaits the
broker or the file system, and run undisturbed in between. Every module follows
that rule: what the code does between two awaits is one action. The runtime lock
is the exception: there whole processes compete, and every file operation is an
action.

## 1. The system and its parts

| Part | State | Operations | What is hard | What makes it correct |
|---|---|---|---|---|
| **TradingGit** `T/git/TradingGit.ts` | staging area, pending hash, `inflightWrite`, commits, head | `add`, `commit`, `status`, `push`, `reject`, `recordReconcile`, `recordObservedOrders`, `sync`, `exportState`, `restore` | two approvers; a push that awaits the broker per operation while the poller appends commits; failures after orders went out; restart | an approver decides exactly what was displayed; one writer; orders sent once; an honest, linear log |
| **Git persistence** `T/git-persistence.ts` | `commit.json` | the persister (`mkdir`, truncate, write), `loadGitState` | saves are not serialised; a crash in a save | the file is a prefix of the log |
| **Account health** `T/UnifiedTradingAccount.ts` | reach, failure count, flags `_recovering`, `_disabled`, `_connecting`, recovery timer | `_connect`, `_attemptReach`, `_callBroker`, `_onSuccess`, `_onFailure`, `nudgeRecovery`, recovery loop, connection events, `close` | probes, live calls, timers and events overlap, each overwriting the same fields | an account that refuses calls because it recovers does recover; disabled is final |
| **Order sync** `T/UnifiedTradingAccount.ts`, `T/order-sync-poller.ts`, `T/cost-basis.ts` | the log, seen through its readers | `sync`, `observeExternalOrders`, the poller's tick, `getPositions` with `_reconcileWalletPositions`, `recomputeCostBasisFromCommits` | every pass compares a broker answer and a log of different moments | no fill invented or counted twice, no end invented, ends learnt, drift disappears |
| **Risk envelope** `T/auto-trading-risk.ts` and `push` | day counters, hourly stamps, error count, pause; `automation-risk.json` | `check`, `recordFailure`, `pause`, `resetPause`, `rollDay`, `load`, `persist` | a flag of the account stands for a property of one push; check and reservation are separated by awaits; load is not awaited | caps, pause, breaker |
| **Snapshot store** `T/snapshot/store.ts` | index, chunk files | `append`, `deleteByTimestamp`, `readRange` | two files per write; a read beside the write chain | nothing confirmed is lost |
| Snapshot builder, service, scheduler `T/snapshot/` | pump state | `buildSnapshot`, `takeAllSnapshots` with a retry | overlapping passes | one snapshot per trigger |
| Guards `T/guards/` | last trade times | the pipeline, cooldown, size, whitelist | cooldown taken before the order is accepted | no order past a refusal |
| UTA manager `T/uta-manager.ts`, `services/uta/src/main.ts` | map of accounts, hooks | `initUTA`, `reconnectUTA`, `removeUTA` | boot order; requests that hold a replaced account | one live object per account |
| Brokers `T/brokers/`, `packages/ibkr` | connections to venues | the `IBroker` interface | external | — |
| Connector service `services/connector` | adapters, queues of inbound messages and actions, retry timers | `enqueue`, `deliver`, `bootAdapter`, `reconnect`, acknowledgement of actions | retries racing reconnects, queues at their limit, expiry | an accepted action is delivered once or expires |
| **Runtime lock** `packages/guardian-runtime/src/runtime-lock.ts` | the lock directory, `owner.json`, `reclaiming`, mtime | `acquireRuntimeLock`, `inspectRuntimeLock`, `recoverRuntimeOwner`, `claimAndRemove`, heartbeat, `release` | processes that compete by path on a directory that others replace; a crash between any two file operations; a slow publisher | a holder owns the path; two holders do not both go on |
| Supervision `packages/guardian-runtime` | children, back-off timers | `RestartBackoff`, process control | signals | — |
| Core of Alice `src/core` | event log, inbox, pump | append, read, tick | sequence numbers across restarts; overlapping ticks | order and no loss |
| **Session occupancy** `W/service.ts`, `src/webui/routes/workspaces.ts`, `W/session-pool.ts`, `W/webpi-session-host.ts` | leases of conversations, session records, tasks, presence, terminals, Pi hosts | `dispatchHeadlessTask`, open, resume, pause, stop, WebPi open, `setSessionPresence`, `deleteSessionPresence` | five kinds of requests that check, await and act on one conversation | one headless turn, nothing beside it, nothing out of reach |
| **Issue scheduling** `W/schedule/`, `W/issues/` | markers and their file, dispatch lock, Issue files | the scan, `fire`, `noteCronMiss`, `prune`, `runIssueNow`, `completeOneShotIssueAfterRun` | refusals, misses, lost markers, requests beside the scan | a slot fires once, a refused one later |
| **Workspace lifecycle** `W/workspace-lifecycle.ts`, `W/workspace-absorb.ts`, catalog, registry, resume identities | lifecycle row, registry row, retired flag, two directories, absorb journal | `offboard`, `restore`, `purge`, `apply` (absorb), `recover` | three files and a directory change one after the other; a crash between any two | the stores agree after a launch; the checkout is never lost |
| Other workspace code `W/` | transcripts, providers, templates | — | — | — |
| Web UI, CLI, desktop shell, market data, configuration, migrations | — | — | — | — |

How they interact: agents call `add` and `commit` through tools, people and
automated callers call `push` and `reject` through the HTTP routes. `push` of
the account sets the automation flag, asks AccountHealth's fields whether the
account is usable, and calls TradingGit, whose dispatcher asks the guards, then
the risk envelope, then the broker. TradingGit calls the persister at every
commit. The poller, the routes and the snapshot builder call `sync`;
`getPositions` may append a reconcile commit. Every broker call goes through
`_callBroker` and so feeds AccountHealth. In Alice, the scheduler dispatches
headless turns, which take the lease of their conversation (session occupancy)
and the operation guard of their workspace (lifecycle); offboarding takes the
same guard and pauses the sessions. `IssueScheduler` sees of a dispatch whether
it was refused, `WorkspaceLifecycle` sees of a run whether it has the guard.

## 2. Modules

| Module | Models | Proved about |
|---|---|---|
| `GitPersistence` | the persister and `commit.json`; extended by TradingGit | through TradingGit |
| `TradingGit` | the gate, the log, the approvers, the recorder, failures and crashes | yes |
| `ApprovalGate` | abstract: the life of one batch of operations | refinement, by TLC and by proof |
| `AccountHealth` | connect, recovery, live calls, events, close | yes |
| `OrderSync` | push of orders, cancels and modifications, sync, observation, reconciliation, cost basis | yes |
| `AutoTradingRisk` | automated and manual pushes, envelope, its file | yes |
| `SnapshotStore` | append, delete, read | yes |
| `RuntimeLock` | the directory lock between processes | yes |
| `SessionOccupancy` | requests on one conversation | yes |
| `IssueScheduler` | scan, markers, run-now requests, crashes | no, model-checked |
| `WorkspaceLifecycle` | offboard, restore, purge, absorb, recovery | yes |

The theorems about module `M` and their proofs are in `M_proofs`. `MC...` modules
declare the model values for TLC. Every definition
with a comment "Mutant of X" is a version of X with a plausible fault; it
is used to see that a property would notice the fault, and by nothing else.

### TradingGit and GitPersistence

An operation is a number in the order of staging; a commit hash is a number that
is never reused (the code hashes content and timestamp), and 0 is null.
`writer[a]` is the call of `push` or `reject` that request `a` has in progress:
`executing` while the loop of `executePush` awaits the broker, `reading` while
`getGitState` is awaited, `saving` while `onCommit` is. `shown[a]` is what
`status` displayed to that approver last. The commits of `recordReconcile`,
`recordObservedOrders` and `sync` are appended by an owner called the recorder,
without a look at `inflightWrite`, as in the code. `saves` holds the calls of the
persister in progress: `mkdir`, then the truncation, then the write; `disk` is
the file by its parsed content and its size, so that a shorter text written over
a longer one is torn. `calls` and `orphaned` are history: how often each
operation went to the broker, and which ones a failure or a crash left open.

`ApprovalGate` promises that operations are staged, proposed, decided and settled
as a batch, and that nothing is sent that was not decided. TradingGit implements
it under the mapping `LifeOf`.

### AccountHealth

The fields keep their names. Probes in flight are counted by the await they are
at, and `crossed` counts those, `_connect`'s among them, that were asked before the
venue changed: their answer may be from either side, so a stale success may follow a
dead event. A call made during the initial connect waits in `waitingCalls` for its end
or for the grace, and goes out without another look at `_disabled`. A timer is
`tracked` when `_recoveryTimer` refers to it and otherwise one of `orphans`. `link` and `private` are the venue: whether it is reachable and
whether its private endpoints answer.

### OrderSync

Orders are for `Size` units of one instrument: the legs of Alice's brackets sell,
every other order buys. A commit is the rows it appends; `push` is the rows the push
in progress has collected, and becomes part of the log in `RecordPush`, or is lost
in `PushFails`. A push may place, cancel or modify: the row of a cancel says
cancelled although the venue may only have accepted the request (`MayEndLate`), and
a modification may replace the order by one with another id. A batch with two
operations on one order is left out.

A pass is at the await it waits for and carries the orders it read before it, so
each pass acts on what may be old. `healthy` is the account's health, which the
poller looks at when the account's turn comes. `ApplyRow` is one step of the replay
in `cost-basis.ts`. The broker may lose an answer, forget an order (null), leave an
open order out of its listing, fill at once, fill in parts, cancel or reject, report
a live order in a transitional word (`MayBePending`), and may or may not implement
`getOpenOrders` (`listing`).

A reader is one call of `getPositions`. It captures the race guard once for all
positions; `late` is a reader whose position waits while the drift of another one is
recorded, and which then works with the captured guard and the log of that moment.

### AutoTradingRisk

Two callers of `push`, one with `{automated: true}`. The git's lock is `inflight`;
a push that meets the lock, an empty stage or a stale hash fails inside the `try`
and so runs the `finally` that clears `_automatedPushActive`. The rules about
prices, quotes, exposure and losses only ever deny, and are one nondeterministic
denial; the counters, the pause and the breaker are modelled exactly. The clock
ticks in parts of an hour.

### SnapshotStore

A snapshot is its timestamp, a chunk file its lines. The write chain admits one
write at a time (`op`); a failure or crash may come between chunk file and index,
and a failing `unlink` is swallowed. `readIndex` answers an empty index for every
error (`IndexRead`): an append then starts again at chunk 1 and replaces
`index.json` (`op.blind`), a deletion answers false (`DeleteMisses`), and a read
succeeds with nothing (`reader.blind`). `forgot` and `strayed` remember what such a
blind append put out of reach, and which lines it wrote among older ones; the
properties that do not survive it name them.

### RuntimeLock

A process makes one call of `acquireRuntimeLock`, and a restart is another
process, so a process also names the directory it made (the code compares inode
and birth time). `dir`, `owner`, `claim` and `tmp` are what is found by path at
this moment; `seen` is what an inspection read, which may belong to a directory
that is gone. `young` is the initialization grace on the directory's mtime.
`outrun` remembers the two ways in which a claimant gets ahead of a process that
is still at work: an inspection that took a directory for invalid whose maker was
between `mkdir` and the published owner, or in `rm -r`, and a `finally` that
removed another's `reclaiming`. Both need a process to be held up for longer than
the grace, or a third process.

### SessionOccupancy

One conversation. A call is a request of any of the five kinds, at one of its
awaits. `lease` is `activeResumeIds`, `guard` the operation guard of the
workspace, `inFlight` the entry of `resumeInFlight`. `pool` and `webPi` are the
entries the routes look at, `ptys` and `pis` what really runs; their difference
is what the properties are about. `stopping` holds the Pi hosts told to stop: a stop
returns when its host has exited or after two seconds, so that a host may still run
when the caller goes on. `leaked` remembers a dispatch that threw between
its claim and its `try`.

### IssueScheduler

One workspace and its Issues, each with a `when` of one of four kinds: one-shot,
interval, cron, and cron without catch-up. The slots of a cron are the multiples
of `Period`; time zones and fields are left out. `marker` and `disk` are the
marker store and its file, which a prune writes only when it forgot something. A scan
works on the Issues it read when it began.
`settled`, `lost`, `owed` and `again` are history.

### WorkspaceLifecycle

`catalog`, `registry` and `retired` are each a value in memory and one on disk;
the step after a change writes it. `dir` says what is at the two places: nothing,
a husk (a directory with the handoff files only) or the whole checkout. `frame`
is the function a call is in, so that `Throw` goes to the right `catch`. `Boot`
is the launch: load, recover the row, recover a journal of absorb. A move, a copy,
a removal, a handoff write and each part of an absorb's rollback may fail. Purge has
no `catch` and the two callers of `restoreTargetTransaction` only log its error;
`left` remembers what such a failure left to the next launch, and the properties
say what is true meanwhile. `upset` marks behaviours in which restore or purge, which
take no guard, overlapped another request, a recovery of the row threw, or an absorb
began over the journal that another had left in its target (`apply` does not look
for one).

## 3. Runs

| Run | Bounds | Shows |
|---|---|---|
| `git` | 2 approvers, 2 operations, 2 hashes, 1 recorder commit, 1 failure, 1 crash | `OneWriter`, `ShownIsWritten`, `HashChain`, `AtMostOnce`, `HonestLog`, `FileBeginsLog`, `WriteIsExclusive`, `WalletReleased`, `ImplementsGate` |
| `health` | degraded at 2 failures and offline at 3 (3 and 6 in the code), 2 flaps, 4 live calls, 1 nudge, permanent error, close | `RecoveryIsAlive`, `OfflineByFailuresRecovers`, `DisabledIsFinal`, `Recovers`, `ConnectSettlesAtLast` |
| `sync_safety` | own and external order, poller, route, both kinds of broker, transitional words, forgotten orders | `FillsAreReal`, `LoggedEndIsReal` |
| `sync_live` | own order with a leg, poller, reader, both kinds of broker, and one of: a cancel or modification, a transfer, a failing pass | `LoggedEndIsReal`, `EndsAreLearnt`, `DriftHeals` |
| `risk_limits` | automated and manual caller, batches of 2, 4 ticks over a midnight, 2 pushes, 1 event | `CapsHold`, `OnlyDisturbedEscape`, `BreakerTrips` |
| `risk_flag` | violation of `EveryAutomatedIsChecked` | finding 1 |
| `store_safety` | chunks of 2, 5 snapshots, any deletions, 2 failures, 1 reader | `AckedIsStored`, `AckedIsNamed`, `ReadIsComplete`, `AppendsReadNewestFirst` |
| `lock` | 3 processes, 2 attempts each (40 in the code), 1 crash besides takeovers | `HolderOwnsPath`, `HoldersResolve` |
| `occupancy` | 3 requests of any kind | `OneTurn`, `DeletedStaysQuiet`, `NoOrphanPi`, `TurnsExclude`, `LeaseReturns` |
| `scheduler` | an Issue of any kind, 8 half intervals of clock, a slot every 4, 2 refusals, 1 request, 2 faults or crashes | `SlotFiresOnce`, `RefusedIsRetried` |
| `lifecycle` | 3 requests, 2 crashes, 2 failing operations, one or two file systems | `Settled`, `CheckoutSurvives`, `WorkHasItsDesk`, `NoHalfAbsorb` |
| `lifecycle_recall` | violation of `RestoredIsRecalled`: 2 requests, 1 crash | finding 2 |

`git` also checks `TypeOK`; for every module with proofs it is a theorem.

Why the bounds are enough for what they are meant to show. Two approvers are the
smallest number that can compete, and the second also plays the stale tab; with
two operations one can have been sent when the other has not; two hashes allow
a proposal that is replaced, or one with a recorder commit beside it (what holds
for any number is proved). One failure and one
crash reach every error path, and a retry after it. In `health` four live calls
reach the offline threshold and leave one that succeeds. In `sync_safety` two passes
are the fewest that can hold an old answer at the same time, and an external order
distinguishes the observation lane; in `sync_live` (bounds by cases, `LiveBudgets`)
a pass, a push and a reader hold an old position, log or guard beside each other, a
leg makes the position shrink, and a second id is there for the order that a
modification puts in the place of the first. Four ticks hold two disjoint hours and a
midnight. With chunks of two, five snapshots need three chunks, so a middle one
can be deleted. Three processes are a holder, a claimant and the one that comes
between them; two attempts let a process reclaim and then acquire. Three requests
on a conversation are two that compete and one that changes what both looked at.
The scheduler's clock holds at least two slots of every periodic kind, before
and after a fire, and a scan that comes late. Three lifecycle requests make a
round (offboard, restore, offboard; or offboard, purge; or absorb, restore), and
with two crashes the recovery itself is interrupted. With two failing operations
an absorb fails and its rollback does too, or a purge fails and its repetition.

Deadlock is not checked where the bounds exhaust the model (`CHECK_DEADLOCK FALSE`):
agents need not propose and venues need not move. `store_safety` checks it, since
a read is always possible.

### Fairness

Only what the runtime guarantees: an awaited promise settles (weak fairness of the
steps that resume a call), an armed timer fires, the persister's writes proceed,
the poller and the snapshot scheduler keep ticking, the lock's heartbeat and the
scheduler's scan timer fire, a headless child exits or is killed at its timeout,
a Pi host told to stop is killed, and time goes on. No agent, approver, venue or
market is ever forced to act, so `Recovers` and `DriftHeals` are conditional on a
venue that stays up and an order book that comes to rest, and `EndsAreLearnt` and
`DriftHeals` on an account that stays healthy, since the poller passes by any other.
Where the broker has no listing, each order is polled again and again although each
pass may leave it out (strong fairness): `_pollBackoffDue` skips an order for five
minutes at most. A broker call that never
settles is outside these assumptions; the code has no timeout for it (see the
hazard at `placeOrder`). The modules without liveness properties, AutoTradingRisk,
SnapshotStore and WorkspaceLifecycle, state no fairness.

## 4. Proofs

`TradingGit_proofs` proves, for any set of approvers and any bounds, from the two
assumptions `BoundsAreNat` and `RecorderIsNoApprover`:

- `TypeCorrect`: `TypeOK`;
- `AtMostOneWriter`: `OneWriter`;
- `DecidesWhatWasShown`: `ShownIsWritten`;
- `LogIsChain`: `HashChain`;
- `FileIsPrefix`: `FileBeginsLog`;
- `SentAtMostOnce`: `AtMostOnce`;
- `LogIsHonest`: `HonestLog`;
- `WritesAreExclusive`: the action property `WriteIsExclusive`;
- `ApprovalIsKept`: `ImplementsGate`, the refinement of `ApprovalGate`.

The argument is one inductive invariant, `IInv`, the conjunction of

- `TypeOK`;
- `GateInv`: the lock is up exactly while one call is in progress, that call's
  hash and operations are the pending ones, and whatever an approver was shown
  under a hash that is still pending is what is staged. `ShownIsWritten` alone
  is not inductive, because what makes a stale decision harmless is the
  comparison of hashes in `beginWrite` together with the fact that `add` is
  refused while a hash is pending, so one hash never covers two stages;
- `ChainInv`: the log is a chain, and so is every state held by a save in
  progress and by the file, each of them a prefix of the log. It carries the
  interleaved saves, which the file alone does not remember;
- `OnceInv`: an operation that is staged and not orphaned has been called only
  by the push in progress, and only for the results it has collected; staged
  operations are distinct and older than `nextOp`;
- `HonestInv`: `HonestLog`, and what it needs of the calls whose commit is not in
  the log yet: a push has sent every operation it has a result for, a reject
  decides on operations that nobody sent, and a staged operation that was not left
  open is neither logged nor sent but by the call that decides it.

`Inductive` shows `Init => IInv` and `IInv /\ [Next]_vars => IInv'`, one step per
action, one lemma per part; the theorems above follow by `PTL`.

The refinement is shown step by step. `PhaseOfCall` gives the life of a staged
operation from the lock and the kind of the call in progress, `NextGateStep` matches
each action with a step of the gate or a stutter: the begin of `push` and `reject`
with a decision, their end with the settlement of the batch, a failure with the
return to the proposal, a crash with the restart. The gate has one life per operation and
moves a batch at a time, which is why `OnceInv` and `HonestInv` are needed: no
operation is in two places.

`RuntimeLock_proofs` proves, for any set of processes and any bounds, from
`LockConstants`:

- `LockTypeCorrect`: `TypeOK`;
- `HolderKeepsPath`: `HolderOwnsPath`;
- `OneHolder`: at most one holder, unless a claimant was outrun.

`HolderOwnsPath` says nothing of a claimant that is about to rename the directory
away, so it is not inductive. The invariant `Inv` is `TypeOK`, `Basic` and, until a
claimant is outrun, `Guarded`:

- `Basic`: who is alive, that an attempt under way is one of the `MaxAttempts`, that
  a missing directory holds nothing, and that whatever is at the path or was seen
  was made by a process that had come so far (`MadeInv`);
- `MakerInv`: a directory belongs to its maker from `mkdir` to the end of `rm -r`,
  with the owner file that step has;
- `OwnerInv`: the token at the path, and the token seen in it, is the maker's;
- `ClaimInv`: what a claimant read still says that the owner is gone, or that the
  maker of a directory without an owner is through with it; from the comparison of
  identities on, the claim at the path is its own, and the token it compared is
  still there when it renames.

`Inspect` and `Unclaim` raise `outrun` exactly where the argument breaks in the
code too.

`AccountHealth_proofs` proves, for any thresholds and bounds, from `HealthConstants`:
`HealthTypeCorrect` (`TypeOK`), `RecoveryNeverStalls` (`RecoveryIsAlive`),
`FailuresStartRecovery` (`OfflineByFailuresRecovers`) and the action property
`PermanentIsFinal` (`DisabledIsFinal`). The two invariants are
inductive together with `TypeOK` and `BootInv`, which ties `_connecting` to the await
of `_connect`: an event that arrives before `_connect` has settled is left to it.

`OrderSync_proofs` proves, for any finite set of orders, any passes and readers and
a log of any length, from `SyncConstants`: `SyncTypeCorrect` (`TypeOK`),
`NoFillIsInvented` (`FillsAreReal`) and `EndsAreTheBrokers` (`LoggedEndIsReal`, also
for brokers with transitional words). The invariant adds to `TypeOK`

- `IsBook`: an order is filled exactly when all of its units are executed;
- `LogInv`: every row of the log, and of the push in progress, is truthful to the
  broker's book: an end that it shows is the order's end, but for the row of a
  cancel and a rejection read from a transitional word;
- `PassInv`: the orders that a pass is about to record as ended have ended, or are
  among those it read in such a word. A pass waits between the broker's answer and
  its commit, so this holds only because an order that has ended does not change
  again.

`FillsAreReal` is about what a recursive function computes from the log, and so needs
induction over data. The induction theorems of the library take an operator as
parameter and cannot be used; the induction principles needed here, over the naturals
and over the subsets of a finite set, are derived for sets instead
(`NatSetInduction`, `SubsetInduction`) from the minimum principle of well-founded
relations. `WalkExists` and `GatherExists` show that functions defined by recursion
along a sequence and over the subsets of a finite set exist; `BasisInduction` is the
induction over a log that `FillsAreDone` uses: the replay credits no order with more
than its `done`.

`AutoTradingRisk_proofs` proves, for any callers, limits, batches and clock, from
`RiskConstants`: `RiskTypeCorrect` (`TypeOK`), `BreakerAlwaysTrips` (`BreakerTrips`),
`EscapesWereDisturbed` (`OnlyDisturbedEscape`) and `CapsAlwaysHold` (`CapsHold`). The
invariant adds to `TypeOK`

- `TripInv`: not only the controller but the file, what `load` has read of it and
  every write in progress obey the breaker, since each may become the controller's
  state;
- `ActiveInv`: the flag is up under an automated push that nobody disturbed;
- `LockInv`: one push at a time is past the git's lock;
- `BootInv`, `CountInv`: `CapsHold` counts orders that were sent, the controller
  counts stamps that were reserved, and several awaits lie between the two. The
  orders of the controller's day are never more than its stamps, one less while a
  slot is reserved, over the day and in every window of an hour.

`SnapshotStore_proofs` proves, for any chunk size and number of snapshots, from
`StoreConstants`: `StoreTypeCorrect` (`TypeOK`), `NothingAckedIsLost`
(`AckedIsStored`), `NamesAreKept` (`AckedIsNamed`), `ReadsMissNothing`
(`ReadIsComplete`) and `ReadsAreNewestFirst` (`AppendsReadNewestFirst`). The first is
unconditional; the others except what a blind append or a blind read does. The
invariant adds

- `WriteInv`: what the write under way may take away, a line whose deletion was begun
  and, unless it is blind, the entry of a file that it leaves empty, and that its
  index names what it adds;
- `ReadInv`: what a read has yet to return is in a file that it has yet to read;
- `SizeInv`: fewer chunks than timestamps handed out;
- `OrderInv`, until something is deleted or a blind append writes: chunk n is file n,
  the files continue one another, and only the last is written.

`SessionOccupancy_proofs` proves, for any number of requests on the conversation,
from `CallsAssumption`: `OccupancyTypeCorrect` (`TypeOK`), `OneTurnAtATime`
(`OneTurn`), `DeletionIsQuiet` (`DeletedStaysQuiet`), `PiHostsAreKnown`
(`NoOrphanPi`) and the action property `NoTerminalBesideTurn` (`TurnsExclude`). The
invariant adds

- `LeaseInv`: the lease has at most one holder, through every await of a dispatch, an
  open, a resume or a deletion; a lease without one was leaked;
- `QuietInv`: a dispatch that has looked at the presence finds it as it was, because
  a deletion takes the lease;
- `GuardInv`: a call between taking and returning the workspace guard owns it;
- `PiInv`: the entry names a host that runs, and while a start waits for its host no
  other takes the entry, which the failing start may delete unseen.

`WorkspaceLifecycle_proofs` proves, for any number of requests, crashes and failing
operations, from `BoundsAssumption`: `LifecycleTypeCorrect` (`TypeOK`),
`LifecycleSettles` (`Settled`), `CheckoutIsNeverLost` (`CheckoutSurvives`),
`WorkKeepsItsDesk` (`WorkHasItsDesk`) and `AbsorbIsWhole` (`NoHalfAbsorb`).
`LifecycleSettles` names the one row that may rest in a transition, that of a purge
that threw, and `AbsorbIsWhole` the files that a failed rollback leaves, with the
journal that can still take them back. None of
the four is inductive: they speak of moments of rest, or of one of five stores. As
long as `upset` is down, at most one request or launch is under way, and the
invariant is a table (`Cond`): for every step that one can be at, what the catalog, the
registry and the resume identities hold in memory and on disk, where the checkout is,
and what became of journal and target. Every row implies `Durable`, what the next
launch can finish from disk; that is the case of a crash. `PurgeInv` says that only a
purge that was asked for leads to a purged row.

TLC checked the parts of these invariants on small instances first; what was not
inductive showed there.

Only model-checked are

- the liveness properties, `WalletReleased`, `Recovers`, `ConnectSettlesAtLast`,
  `EndsAreLearnt`, `DriftHeals`, `HoldersResolve`, `LeaseReturns` and
  `RefusedIsRetried`: fairness and ENABLED are out of the prover's reach;
- `SlotFiresOnce` of IssueScheduler, for which no inductive invariant has been written.

## 5. Findings

Two runs show TLC violating what the repository says; the quotes are in full in
`PROJECT.json`.

1. `risk_flag`: a second push that is refused takes down the shared flag, and the
   rest of an automated push goes out unchecked. `OnlyDisturbedEscape` shows that
   this is the only way.
2. `lifecycle_recall`: after a crash between `registry.add` and `recallWorkspace` of
   a restore, `WorkspaceCatalog.load` takes the restore for complete, and the
   sessions of the active workspace stay retired.

Statements of the repository that the models define and that do not hold; none
has a run of its own, and each can be put into its module's cfg to see the
behaviour (`DriftWaitsForOrders` as a property of `MCOrderSyncLive.cfg`, the others
as invariants).

- `TradingGit.FileHoldsLog` ("Create a callback that persists git state to disk on
  each commit", `T/git-persistence.ts:42`): saves of `commit.json` are not
  serialised, and the older of two may be written last. `FileBeginsLog` (proved)
  bounds it: the file is still an honest prefix.
- `AccountHealth.BelowTargetRecovers` ("Below target → recover toward it.",
  `T/UnifiedTradingAccount.ts:401`; "'connected' but funded wants 'readable' —
  partial; recovery pursues it.", line 409): `_onSuccess` of any live call (line 469)
  clears the timer and the flag, whatever the reach is. A funded account that is
  connected and cannot be read stays degraded with no attempt to come, although the
  broker may serve the read again. `Recovers` is stated for the outages in which no
  live call is made.
- `OrderSync.LiveIsFollowed` ("poll broker until terminal", `T/order-sync-poller.ts:10`):
  `sync` knows two words for a live order, Submitted and PreSubmitted
  (`T/UnifiedTradingAccount.ts:911`). FutuBroker also says PendingSubmit and
  PendingCancel (`T/brokers/futu/FutuBroker.ts:111`, 120); such an order is recorded
  as rejected (line 923), and nobody polls it until it ends. `LoggedEndIsReal` shows
  that this and the row of an accepted cancel are the only ends that the log invents.
- `OrderSync.DriftWaitsForOrders` ("While an aliceId has in-flight orders, its drift
  belongs to sync; reconcile only what no pending order can explain.",
  `T/UnifiedTradingAccount.ts:1095`): the guard is captured once (line 1099), and each
  recorded drift is awaited (line 1126). An order that a push records meanwhile is in
  flight, and the drift of its instrument is booked all the same. `DriftHeals` shows
  that the quantity comes right in the end.
- `OrderSync.FillsBelongToSync` (the comment just quoted), the same statement for orders that are not in the log
  yet: an order that fills before its push is recorded is booked as drift, and a
  second time by sync. The quantity is corrected later, the two rows stay.
- `RuntimeLock.StaleIsReclaimable` ("The next Alice process performs the atomic
  stale-lock reclamation itself", `runtime-lock.ts:281`): a claimant that crashes
  leaves `reclaiming` behind, and every later process gives up.
- `RuntimeLock.SingleWriter`: two holders for a while, in the cases `outrun` names;
  `HoldersResolve` shows that the heartbeat ends it.
- `SessionOccupancy.OneTerminal` (the comment on `resumeInFlight` in the routes): a
  resume does not look at the pool again after its awaits, and two terminals may
  run, one of them in no entry. `OneSurface` ("Never leave Pi's RPC host and PTY
  alive against the same native session file"): WebPi takes no lease.
  `LeaseHasHolder`: a dispatch that throws between its claim and its `try` keeps
  the lease until Alice restarts.
- `IssueScheduler.RecruitsOnce`: a scan that read an Issue before a request claimed
  it recruits again. `LookbackCatches`: a cron without a marker misses a slot when
  two scans are further apart than the interval.

Behaviour met while modelling that no run is spent on: an automated push that
throws because the account is offline leaves the flag up, so that the next manual
push is checked; midnight empties the hourly window together with the daily one;
the saved pause is not in force until `load` has ended; nothing calls
`recordSuccess`, so the breaker counts all rejected pushes of a day; a withdrawal
of the whole balance is not reconciled, since a wallet lists no empty position;
a cancel is recorded as cancelled when the venue has accepted it, and a fill that
crosses it is never learnt as one; the fill of an order that a modification put in
the place of another one is not attributed to its instrument and comes as drift;
restore and purge take no operation guard: a purge beside a restore can remove
the only checkout, and an offboarding beside a restore can end in a recovery that
throws; an absorb after one whose rollback failed writes its journal over the old
one, and nothing takes the old one's files back (`upset` in WorkspaceLifecycle);
one unreadable Issue file in one scan prunes its marker, and its slot may fire again;
a failed marker write is made good by the next write only; the replacement of an
account by `reconnectUTA` does not wait for a push of the old object;
a chunk is named by the length of the index, so that after a whole chunk was
deleted a name can be used twice and a read returns snapshots twice
(`AckedIsNamed` shows that nothing is lost by it);
one error while `index.json` is read makes the next append replace it by an index of
one chunk: what the other chunks hold stays on disk (`AckedIsStored`) but is not
named any more, and when their names come up again it returns between newer
snapshots (`AckedIsNamed` without `forgot`, `ReadIsComplete` without `blind` and
`AppendsReadNewestFirst` without `strayed` are false of the code);
an attempt that waits for the broker while the account is closed arms a timer; a
failed index write lets a chunk grow past `CHUNK_SIZE`.

## 6. Not modelled

- Decimal arithmetic, prices, FX, position mathematics, order-history
  presentation, contract search: pure, over domains TLC cannot enumerate.
- Brokers and wire protocols: external, represented by their answers.
- HTTP routes: stateless; their concurrency is the sets of callers.
- `simulatePriceChange`, log and show formatting, rehydration of decimals.
- Torn lines inside a chunk file, and the legacy paths of `commit.json`.
- Of order sync: `closePosition`, whose answer is an order that was not placed
  before, and a second instrument (what another position does to this one is the wait
  of a `late` reader).
- Of the runtime lock: the second lock around a takeover (the same protocol again),
  owners on another machine, renames retried on Windows.
- Of sessions: the respawns of a terminal before its breaker gives up, transcripts,
  providers, turns that open a new conversation.
- Of scheduling: time zones and the fields of cron expressions, edits of Issue files.
- Of the lifecycle: Pi hosts (the work of `WorkHasItsDesk` is headless runs and
  terminals), writes of the catalog, the registry and the resume identities
  that fail, a `pauseWorkspaceSessions` that throws, an absorb that fails before its
  journal is written (nothing was changed then), a removal of the transaction
  directory that takes only a part of it, templates and their upgrades, which files of
  an absorb conflict.
- Connector service, UTA manager, pump, guards: see the plan.
- Web UI, CLI, desktop shell, market data, configuration, migrations: no protocol of
  their own; together with the generated wire types they are most of the
  repository's lines.

## 7. Plan

Done, in this order: GitPersistence, TradingGit, ApprovalGate; AccountHealth;
OrderSync; AutoTradingRisk; SnapshotStore; RuntimeLock; SessionOccupancy;
IssueScheduler; WorkspaceLifecycle; the proofs of section 4.

The theorems about every invariant and action property the runs check are proved,
but for one. Next: `SlotFiresOnce` of IssueScheduler; an abstract specification of
the snapshot store (a map from timestamps to snapshots, written and read in one step)
and of the runtime lock (a mutex), each with its refinement. The modules declare no
RECURSIVE operator, so that this stays possible.

Modules next:

1. `DeliveryManager` (connector): adapters, retries, reconnects, inbound queues with
   their limits, acknowledgement and expiry of actions.
2. `Pump` and the snapshot service: serial ticks, `runNow`, retry; the guard
   pipeline with the cooldown.
3. `UTAManager`: boot order of hooks, reconnect beside requests that hold the old
   account, composed with TradingGit over one file.
