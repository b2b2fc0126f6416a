----------------------------- MODULE MCOrderSync -----------------------------
EXTENDS OrderSync
CONSTANTS o1, o2, x1, l1, poller, route, r1

Budget(p, r, t, f) == [placements |-> p, requests |-> r, transfers |-> t, fails |-> f]

\* One placement; for liveness with a request, a transfer or a failing pass.
SafetyBudgets == {Budget(1, 0, 0, 0)}
LiveBudgets == {Budget(1, 1, 0, 0), Budget(1, 0, 1, 0), Budget(1, 0, 0, 1)}
=============================================================================
