------------------------------ MODULE OrderSync ------------------------------
(***************************************************************************)
(* How the log of one account learns what became of its orders: the push   *)
(* that places an order, the sync passes, the observer of orders placed    *)
(* elsewhere, and the reconciliation of wallet positions                   *)
(* (UnifiedTradingAccount.ts, order-sync-poller.ts, cost-basis.ts and the  *)
(* readers of the log in git/TradingGit.ts).                               *)
(*                                                                         *)
(* Every pass reads, awaits the broker, and writes.  An order is for Size  *)
(* units of one instrument whose position the wallet reports: the legs of  *)
(* a bracket sell, every other order buys.  A commit is the rows it adds:  *)
(* an order's row carries its orderId and status, a reconcile row a        *)
(* quantity.  The broker is external and is modelled by the answers the    *)
(* code handles.                                                           *)
(***************************************************************************)
EXTENDS Integers, Sequences, FiniteSets

CONSTANTS
    Own, External,    \* the orders Alice places, and those placed elsewhere
    Legs,             \* take-profit and stop-loss legs of Alice's brackets
    Size,             \* units of an order
    Poller, Others,   \* the poller, and the passes a route or a snapshot starts
    Readers,          \* the concurrent calls of getPositions
    MayFillAtOnce,    \* an order may be filled in the answer to its placement
    MayLose,          \* an answer to a push, or the read before its commit, may fail
    MayEnd,           \* an order may end without a fill
    MayEndLate,       \* the answer to a cancel may only say that it was accepted
    Listings,         \* whether the broker implements getOpenOrders: the cases
    MayForget,        \* getOrder may answer null
    MayBePending,     \* a live order may be reported as PendingSubmit or PendingCancel
    Budgets           \* bounds: how often the agent may act and things may fail

Orders == Own \cup External \cup Legs
Passes == {Poller} \cup Others

ASSUME SyncConstants ==
    /\ Own \cap External = {} /\ (Own \cup External) \cap Legs = {}
    /\ IsFiniteSet(Orders) /\ Poller \notin Others
    /\ Size \in Nat \ {0}
    /\ {MayFillAtOnce, MayLose, MayEnd, MayEndLate} \subseteq BOOLEAN
    /\ {MayForget, MayBePending} \subseteq BOOLEAN
    /\ Listings \subseteq BOOLEAN
    \* placeOrder; cancelOrder and modifyOrder; deposits and withdrawals;
    \* passes that a broker error ends
    /\ Budgets \subseteq [placements: Nat, requests: Nat, transfers: Nat, fails: Nat]

VARIABLES
    order,      \* the broker's orders: status and units done
    position,   \* the broker's position
    push,       \* the results of the push in progress
    log,
    pass,       \* per pass: what it awaits and the orders it carries
    reader,     \* per reader: what it awaits and the quantity the broker answered
    listing,    \* the broker implements getOpenOrders
    healthy,    \* the account's health is 'healthy'
    budget

vars == <<order, position, push, log, pass, reader, listing, healthy, budget>>

Terminal == {"filled", "cancelled", "rejected"}
OpenOrders == {o \in Orders : order[o].status = "open"}

Row(kind, o, status) == [kind |-> kind, order |-> o, status |-> status, qty |-> 0]
ReconcileRow(delta) == [kind |-> "reconcile", order |-> Poller, status |-> "filled",
                        qty |-> delta]

\* One row for each order, with the status given for it.
RowsFor(kind, status) ==
    LET rows[s \in SUBSET DOMAIN status] ==
            IF s = {} THEN <<>>
            ELSE LET o == CHOOSE o \in s : TRUE
                 IN  Append(rows[s \ {o}], Row(kind, o, status[o]))
    IN  rows[DOMAIN status]

-----------------------------------------------------------------------------
(* The readers of the log.                                                 *)

RowsOf(l, o) == {i \in 1..Len(l) : l[i].kind # "reconcile" /\ l[i].order = o}

GetKnownOrderIds(l) == {o \in Orders : RowsOf(l, o) # {}}

\* A newest-to-oldest scan: the first row seen wins.
LatestRow(l, o) == l[CHOOSE i \in RowsOf(l, o) : \A j \in RowsOf(l, o) : j <= i]

LatestStatus(l, o) == LatestRow(l, o).status

\* Mutant of GetPendingOrderIds: only orders Alice placed are followed up.
PendingFromPlacements(l) ==
    {o \in GetKnownOrderIds(l) :
        /\ LatestStatus(l, o) = "submitted"
        /\ \E i \in RowsOf(l, o) : l[i].kind = "place"}

GetPendingOrderIds(l) ==
    {o \in GetKnownOrderIds(l) : LatestStatus(l, o) = "submitted"}

(* The pending orders whose instrument is known: the oldest row of an      *)
(* order gives it, and a modification's operation has no contract.         *)
InFlight(l) ==
    {o \in GetPendingOrderIds(l) :
        \E i \in RowsOf(l, o) : /\ l[i].kind \in {"place", "leg", "observe"}
                               /\ \A j \in RowsOf(l, o) : i <= j}

(* The orders whose fills cost basis attributes to the instrument: those   *)
(* with a placement or an observation.                                     *)
Attributed(l) ==
    {o \in Orders : \E i \in RowsOf(l, o) : l[i].kind \in {"place", "observe"}}

\* A quantity that a sale takes to zero or below is reset.
Moved(qty, delta) == IF qty + delta <= 0 THEN 0 ELSE qty + delta

FillOf(o) == IF o \in Legs THEN -Size ELSE Size

\* Mutant of ApplyRow: a fill is applied each time a sync row reports it.
ApplyRowAgain(basis, row, attributed) ==
    IF row.kind = "reconcile" THEN [basis EXCEPT !.qty = Moved(@, row.qty)]
    ELSE IF row.kind = "sync" /\ row.status = "filled" /\ row.order \in attributed
    THEN [basis EXCEPT !.qty = Moved(@, FillOf(row.order)), !.fills = @ + Size]
    ELSE basis

(* One row of recomputeCostBasisFromCommits.  A sync row applies the fill  *)
(* of its order once; a row of a push never carries a filled quantity, and *)
(* a cancelled order's partial fill is not applied.                        *)
ApplyRow(basis, row, attributed) ==
    IF row.kind = "reconcile" THEN [basis EXCEPT !.qty = Moved(@, row.qty)]
    ELSE IF /\ row.kind = "sync" /\ row.status = "filled"
            /\ row.order \in attributed \ basis.counted
    THEN [qty |-> Moved(basis.qty, FillOf(row.order)), fills |-> basis.fills + Size,
          counted |-> basis.counted \cup {row.order}]
    ELSE basis

RecomputeCostBasis(l) ==
    LET after[n \in 0..Len(l)] ==
            IF n = 0 THEN [qty |-> 0, fills |-> 0, counted |-> {}]
            ELSE ApplyRow(after[n - 1], l[n], Attributed(l))
    IN  after[Len(l)]

Projected == RecomputeCostBasis(log).qty

-----------------------------------------------------------------------------
Quiet == [at |-> "idle", orders |-> {}, live |-> {}]

NoReading == [at |-> "idle", qty |-> 0]

Init ==
    /\ order = [o \in Orders |-> [status |-> "none", done |-> 0]]
    /\ position = 0
    /\ push = <<>>
    /\ log = <<>>
    /\ pass = [p \in Passes |-> Quiet]
    /\ reader = [r \in Readers |-> NoReading]
    /\ listing \in Listings
    /\ healthy = TRUE
    /\ budget \in Budgets

(* The push of a batch, operation by operation; TradingGit admits one push *)
(* at a time.  A batch holds at most one operation on an order.            *)

InPush(o) == \E i \in 1..Len(push) : push[i].order = o

\* The answer makes rows of the commit; an operation whose answer is lost has none.
Answer(rows) == push' = push \o rows \/ (MayLose /\ push' = push)

Book(o, status) ==
    [order EXCEPT ![o] = [status |-> status,
                          done |-> IF status = "filled" THEN Size ELSE @.done]]

PlacementRows(o, status, legs) ==
    <<Row("place", o, status)>> \o RowsFor("leg", [l \in legs |-> "submitted"])

(* broker.placeOrder, of a bracket when it has legs: the orders are at the *)
(* broker before the answer is here.  An order may have been filled by     *)
(* then, or have failed; a word for failure that mapOrderStatus does not   *)
(* know is recorded as submitted.                                          *)
PlaceOrder(o) ==
    /\ budget.placements > 0 /\ order[o].status = "none"
    /\ \/ \E legs \in SUBSET {l \in Legs : order[l].status = "none"} :
             /\ order' = [q \in Orders |-> IF q \in {o} \cup legs
                                           THEN [order[q] EXCEPT !.status = "open"]
                                           ELSE order[q]]
             /\ Answer(PlacementRows(o, "submitted", legs))
             /\ UNCHANGED position
       \/ /\ MayFillAtOnce
          /\ order' = Book(o, "filled")
          /\ position' = position + Size
          /\ Answer(PlacementRows(o, "filled", {}))
       \/ /\ MayEnd
          /\ \E status \in {"cancelled", "rejected"} :
                /\ order' = Book(o, status)
                /\ \E said \in {status, "submitted"} : Answer(PlacementRows(o, said, {}))
          /\ UNCHANGED position
    /\ budget' = [budget EXCEPT !.placements = @ - 1]
    /\ UNCHANGED <<log, pass, reader, listing, healthy>>

(* broker.cancelOrder: an answer records the order as cancelled, also when *)
(* the venue has only accepted the request.                                *)
CancelOrder(o) ==
    /\ budget.requests > 0 /\ order[o].status = "open" /\ ~InPush(o)
    /\ order' = Book(o, "cancelled") \/ (MayEndLate /\ order' = order)
    /\ Answer(<<Row("cancel", o, "cancelled")>>)
    /\ budget' = [budget EXCEPT !.requests = @ - 1]
    /\ UNCHANGED <<position, log, pass, reader, listing, healthy>>

(* broker.modifyOrder: in place, or by an order with another id that       *)
(* replaces this one.                                                      *)
ModifyOrder(o) ==
    /\ budget.requests > 0 /\ order[o].status = "open" /\ ~InPush(o)
    /\ \/ order' = order /\ Answer(<<Row("modify", o, "submitted")>>)
       \/ \E n \in IF o \in Legs THEN Legs ELSE Own :
             /\ order[n].status = "none"
             /\ order' = [Book(o, "cancelled") EXCEPT ![n].status = "open"]
             /\ Answer(<<Row("modify", n, "submitted")>>)
    /\ budget' = [budget EXCEPT !.requests = @ - 1]
    /\ UNCHANGED <<position, log, pass, reader, listing, healthy>>

\* After getGitState: the commit holds the results of the batch.
RecordPush ==
    /\ push # <<>>
    /\ log' = log \o push
    /\ push' = <<>>
    /\ UNCHANGED <<order, position, pass, reader, listing, healthy, budget>>

\* getGitState fails: the results of the batch are gone.
PushFails ==
    /\ MayLose /\ push # <<>>
    /\ push' = <<>>
    /\ UNCHANGED <<order, position, log, pass, reader, listing, healthy, budget>>

-----------------------------------------------------------------------------
(* sync, split at its awaits, and the poller's observation before it.      *)

Goto(p, at, set) ==
    pass' = [pass EXCEPT ![p] = IF at = "idle" THEN Quiet
                                ELSE [Quiet EXCEPT !.at = at, !.orders = set]]

\* The poller leaves out an account that is not healthy when its turn comes.
Visits(p) == p = Poller => healthy

\* A tick of the poller that begins with the observation lane.
ObserveStart(p) ==
    /\ listing /\ p = Poller /\ pass[p].at = "idle" /\ Visits(p)
    /\ Goto(p, "listed", OpenOrders)
    /\ UNCHANGED <<order, position, push, log, reader, listing, healthy, budget>>

\* The listing is here: what no row of the log knows is to be recorded.
ObserveDiff(p) ==
    LET unknown == pass[p].orders \ GetKnownOrderIds(log) IN
    /\ pass[p].at = "listed"
    /\ Goto(p, IF unknown = {} THEN "scan" ELSE "recording", unknown)
    /\ UNCHANGED <<order, position, push, log, reader, listing, healthy, budget>>

\* recordObservedOrders, after another await (getGitState).
RecordObserved(p) ==
    /\ pass[p].at = "recording"
    /\ log' = log \o RowsFor("observe", [o \in pass[p].orders |-> "submitted"])
    /\ Goto(p, "scan", {})
    /\ UNCHANGED <<order, position, push, reader, listing, healthy, budget>>

(* sync: the pending orders are read before anything is awaited.  After an *)
(* observation the poller does not look at the health again.               *)
SyncStart(p) ==
    LET pending == GetPendingOrderIds(log) IN
    /\ pass[p].at \in {"idle", "scan"}
    /\ pass[p].at = "idle" => pending # {} /\ Visits(p)
    /\ Goto(p, IF pending = {} THEN "idle" ELSE "asked", pending)
    /\ UNCHANGED <<order, position, push, log, reader, listing, healthy, budget>>

(* getOpenOrders answers; an open order may be missing from the listing.   *)
(* What is in it is alive, the rest must be confirmed.  Without a listing  *)
(* _pollBackoffDue skips any orders polled too recently.                   *)
SyncList(p) ==
    /\ pass[p].at = "asked"
    /\ \E skipped \in SUBSET (IF listing THEN OpenOrders ELSE pass[p].orders) :
          LET candidates == pass[p].orders \ skipped IN
          Goto(p, IF candidates = {} THEN "idle" ELSE "confirming", candidates)
    /\ UNCHANGED <<order, position, push, log, reader, listing, healthy, budget>>

\* Mutant of Confirmed: an order missing from the listing is taken as ended.
ConfirmedByAbsence(answered, live) == answered

(* getOrder on each candidate: every status but Submitted and PreSubmitted *)
(* makes an update.  live are the open orders the broker reports in one of *)
(* its transitional words.                                                 *)
Confirmed(answered, live) == {o \in answered : order[o].status \in Terminal} \cup live

(* The answers are here; a null one makes no update.  What has ended does  *)
(* not change again, so they may be taken as the answers of one moment.    *)
SyncConfirm(p) ==
    /\ pass[p].at = "confirming"
    /\ \E forgotten \in IF MayForget THEN SUBSET pass[p].orders ELSE {{}} :
          LET answered == pass[p].orders \ forgotten IN
          \E live \in IF MayBePending THEN SUBSET (answered \cap OpenOrders) ELSE {{}} :
             LET updates == Confirmed(answered, live) IN
             pass' = [pass EXCEPT ![p] =
                IF updates = {} THEN Quiet
                ELSE [at |-> "saving", orders |-> updates, live |-> live]]
    /\ UNCHANGED <<order, position, push, log, reader, listing, healthy, budget>>

\* Mutant of SyncStatus: whatever is not reported as Cancelled is a fill.
SyncStatusFilled(p, o) == IF order[o].status = "cancelled" THEN "cancelled" ELSE "filled"

(* The status of an update, as the confirmation read it: what has ended    *)
(* stays as it ended, so the broker's book still shows it.  Any word but   *)
(* Filled and Cancelled is recorded as rejected.                           *)
SyncStatus(p, o) ==
    IF o \notin pass[p].live /\ order[o].status \in {"filled", "cancelled"}
    THEN order[o].status ELSE "rejected"

\* git.sync, after another await (getGitState).
SyncCommit(p) ==
    /\ pass[p].at = "saving"
    /\ log' = log \o RowsFor("sync", [o \in pass[p].orders |-> SyncStatus(p, o)])
    /\ Goto(p, "idle", {})
    /\ UNCHANGED <<order, position, push, reader, listing, healthy, budget>>

(* A broker error: the observation falls through to the sync, a sync ends. *)
(* The account may cease to be healthy over it.                            *)
PassFails(p) ==
    /\ budget.fails > 0
    /\ pass[p].at \notin {"idle", "scan"}
    /\ Goto(p, IF pass[p].at \in {"listed", "recording"} THEN "scan" ELSE "idle", {})
    /\ healthy' \in {healthy, FALSE}
    /\ budget' = [budget EXCEPT !.fails = @ - 1]
    /\ UNCHANGED <<order, position, push, log, reader, listing>>

\* A later call succeeds; AccountHealth is about when that happens.
Heals ==
    /\ ~healthy /\ healthy' = TRUE
    /\ UNCHANGED <<order, position, push, log, pass, reader, listing, budget>>

-----------------------------------------------------------------------------
(* getPositions and _reconcileWalletPositions.                             *)

\* The broker answers with the position of this moment.
ReadPosition(r) ==
    /\ reader[r].at = "idle"
    /\ reader' = [reader EXCEPT ![r] = [at |-> "read", qty |-> position]]
    /\ UNCHANGED <<order, position, push, log, pass, listing, healthy, budget>>

\* Mutant of DriftRows: a position that shrank is not reconciled.
DriftRowsUpwards(qty) ==
    IF qty > 0 /\ qty > Projected THEN <<ReconcileRow(qty - Projected)>> ELSE <<>>

(* The drift of the instrument against the log of this moment.  The wallet *)
(* lists no position whose balance is zero, so there is nothing to         *)
(* reconcile then.                                                         *)
DriftRows(qty) ==
    IF qty > 0 /\ qty # Projected THEN <<ReconcileRow(qty - Projected)>> ELSE <<>>

BookDrift(r) ==
    /\ log' = log \o DriftRows(reader[r].qty)
    /\ reader' = [reader EXCEPT ![r] = NoReading]
    /\ UNCHANGED <<order, position, push, pass, listing, healthy, budget>>

(* The answer is here: inFlight is captured once for all its positions.    *)
(* The drift of an instrument in it is left to sync.  Otherwise the drift  *)
(* is booked, or this position waits while that of another one is recorded *)
(* (recordReconcile is awaited).                                           *)
Reconcile(r) ==
    /\ reader[r].at = "read"
    /\ IF InFlight(log) = {} THEN BookDrift(r)
       ELSE /\ reader' = [reader EXCEPT ![r] = NoReading]
            /\ UNCHANGED <<order, position, push, log, pass, listing, healthy, budget>>

ReconcileAnother(r) ==
    /\ reader[r].at = "read" /\ InFlight(log) = {}
    /\ reader' = [reader EXCEPT ![r].at = "late"]
    /\ UNCHANGED <<order, position, push, log, pass, listing, healthy, budget>>

\* This position's turn, on the guard captured before the wait.
ReconcileLate(r) == reader[r].at = "late" /\ BookDrift(r)

-----------------------------------------------------------------------------
(* The broker and the market (external).                                   *)

PlacedElsewhere(o) ==
    /\ o \in External /\ order[o].status = "none"
    /\ order' = Book(o, "open")
    /\ UNCHANGED <<position, push, log, pass, reader, listing, healthy, budget>>

\* A unit of the order is executed; a leg sells what there is.
Trades(o) ==
    LET done == order[o].done + 1 IN
    /\ order[o].status = "open"
    /\ o \in Legs => position > 0
    /\ order' = [order EXCEPT ![o] =
          [status |-> IF done = Size THEN "filled" ELSE "open", done |-> done]]
    /\ position' = IF o \in Legs THEN position - 1 ELSE position + 1
    /\ UNCHANGED <<push, log, pass, reader, listing, healthy, budget>>

Ends(o) ==
    /\ MayEnd /\ order[o].status = "open"
    /\ \E status \in {"cancelled", "rejected"} : order' = Book(o, status)
    /\ UNCHANGED <<position, push, log, pass, reader, listing, healthy, budget>>

Transfer ==
    /\ budget.transfers > 0
    /\ \E d \in {-1, 1} : position + d >= 0 /\ position' = position + d
    /\ budget' = [budget EXCEPT !.transfers = @ - 1]
    /\ UNCHANGED <<order, push, log, pass, reader, listing, healthy>>

PassStarts(p) == ObserveStart(p) \/ (pass[p].at = "idle" /\ SyncStart(p))

PassGoesOn(p) ==
    \/ ObserveDiff(p) \/ RecordObserved(p) \/ (pass[p].at = "scan" /\ SyncStart(p))
    \/ SyncList(p) \/ SyncConfirm(p) \/ SyncCommit(p)

ReaderStep(r) ==
    ReadPosition(r) \/ Reconcile(r) \/ ReconcileAnother(r) \/ ReconcileLate(r)

Next ==
    \/ \E o \in Own : PlaceOrder(o)
    \/ \E o \in Orders : CancelOrder(o) \/ ModifyOrder(o)
    \/ RecordPush \/ PushFails
    \/ \E p \in Passes : PassStarts(p) \/ PassGoesOn(p) \/ PassFails(p)
    \/ Heals
    \/ \E r \in Readers : ReaderStep(r)
    \/ \E o \in Orders : PlacedElsewhere(o) \/ Trades(o) \/ Ends(o)
    \/ Transfer

(* The poller ticks for ever, accounts are read for ever (the snapshot     *)
(* scheduler does), calls return; the backoff asks again about every       *)
(* pending order after at most five minutes.  Nothing makes a user come,   *)
(* the market move or an account heal.                                     *)
Fairness ==
    /\ WF_vars(RecordPush)
    /\ WF_vars(PassStarts(Poller))
    /\ \A p \in Passes : WF_vars(PassGoesOn(p))
    /\ \A o \in Orders : SF_vars(\E p \in Passes :
          ~listing /\ SyncList(p) /\ o \in pass'[p].orders)
    /\ \A r \in Readers : WF_vars(ReaderStep(r))

Spec == Init /\ [][Next]_vars /\ Fairness

-----------------------------------------------------------------------------
(* Properties.                                                             *)

Statuses == {"submitted"} \cup Terminal

\* The broker's book, the log, and what each pass and reader carries.
TypeOK ==
    /\ order \in [Orders -> [status: {"none", "open"} \cup Terminal, done: 0..Size]]
    /\ position \in Nat
    /\ \A i \in 1..Len(push) :
          /\ push[i].kind \in {"place", "leg", "cancel", "modify"}
          /\ push[i].status \in Statuses
    /\ \A i \in 1..Len(log) :
          /\ log[i].kind \in {"place", "leg", "cancel", "modify",
                             "observe", "sync", "reconcile"}
          /\ log[i].status \in Statuses
          /\ log[i].qty \in Int
    /\ pass \in [Passes -> [at: {"idle", "listed", "recording", "scan", "asked",
                                 "confirming", "saving"},
                            orders: SUBSET Orders, live: SUBSET Orders]]
    /\ reader \in [Readers -> [at: {"idle", "read", "late"}, qty: Nat]]
    /\ listing \in BOOLEAN /\ healthy \in BOOLEAN
    /\ budget \in [placements: Nat, requests: Nat, transfers: Nat, fails: Nat]

Executed ==
    LET sum[s \in SUBSET Orders] ==
            IF s = {} THEN 0
            ELSE LET o == CHOOSE o \in s : TRUE IN order[o].done + sum[s \ {o}]
    IN  sum[Orders]

(* However many sync passes race and however often an order is reported,   *)
(* cost basis never credits the account with more fills than the broker    *)
(* executed.                                                               *)
FillsAreReal == RecomputeCostBasis(log).fills <= Executed

(* What the log says an order came to is what it came to at the broker,    *)
(* whatever a listing lost sight of, whichever passes raced and whenever   *)
(* an observation was late.  Two things are excepted: the row of a cancel, *)
(* which only says that the request was accepted, and a rejection that     *)
(* sync read into a transitional word.                                     *)
LoggedEndIsReal ==
    \A o \in GetKnownOrderIds(log) :
        LET row == LatestRow(log, o) IN
        \/ row.status = "submitted" \/ row.kind = "cancel"
        \/ row.status = order[o].status
        \/ MayBePending /\ row.kind = "sync" /\ row.status = "rejected"

(* An order that is alive at the broker and known to the log is pending in *)
(* the log, so that somebody polls it until it ends.  It does not hold for *)
(* a broker that reports a live order as PendingSubmit or PendingCancel.   *)
LiveIsFollowed == \A o \in OpenOrders \cap GetKnownOrderIds(log) :
                      o \in GetPendingOrderIds(log)

(* While the log holds an order in flight for the instrument, no step      *)
(* books drift of it.  It does not hold for a position that waited while   *)
(* another one's drift was recorded: the guard was captured before.        *)
DriftWaitsForOrders ==
    [][InFlight(log) # {} =>
          \A i \in (Len(log) + 1)..Len(log') : log'[i].kind # "reconcile"]_vars

(* Fill detection completes: in an account that stays healthy the log      *)
(* shows, from some moment on, the end of every order it knows that has    *)
(* ended at the broker, although a late observation or modification can    *)
(* reopen an order in the log.                                             *)
EndsAreLearnt ==
    <>[]healthy => <>[](\A o \in GetKnownOrderIds(log) :
            order[o].status \in Terminal => LatestStatus(log, o) # "submitted")

(* Drift heals: when the account stays healthy, no order is left open and  *)
(* something is left in the wallet, the quantity the log projects comes to *)
(* equal the broker's position and stays so, whatever was booked twice or  *)
(* from a stale reading on the way.                                        *)
DriftHeals ==
    <>[](healthy /\ OpenOrders = {} /\ position > 0) => <>[](Projected = position)

(* Reconcile books only what no order explains: without transfers, without *)
(* orders from elsewhere, and with every order followed up by sync, the    *)
(* log has no reconcile row.  It does not hold: the race guard sees only   *)
(* orders that are in the log.                                             *)
FillsBelongToSync == \A i \in 1..Len(log) : log[i].kind # "reconcile"
=============================================================================
