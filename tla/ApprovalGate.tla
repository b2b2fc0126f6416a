---------------------------- MODULE ApprovalGate ----------------------------
(***************************************************************************)
(* What TradingGit promises about the life of an operation, without        *)
(* hashes, files or calls in progress.  Operations are staged one by one,  *)
(* proposed together, decided together and settled together.  An operation *)
(* is sent to the broker only after it was proposed and a push was begun   *)
(* on the whole proposal.  A decided proposal may come back undecided when *)
(* the call fails; only a restart makes the fate of an operation open.     *)
(***************************************************************************)
CONSTANT Ops

VARIABLE life

Lives == {"new", "staged", "proposed", "pushing", "rejecting",
          "pushed", "rejected", "open"}

In(l) == {o \in Ops : life[o] = l}

\* Every operation in state l moves to one of the states the set lists.
MoveAll(l, targets) ==
    /\ In(l) # {}
    /\ life' \in [Ops -> Lives]
    /\ \A o \in Ops : IF o \in In(l) THEN life'[o] \in targets
                                     ELSE life'[o] = life[o]

Init == life = [o \in Ops |-> "new"]

NothingProposed == In("proposed") \cup In("pushing") \cup In("rejecting") = {}

Stage(o) ==
    /\ NothingProposed
    /\ life[o] = "new"
    /\ life' = [life EXCEPT ![o] = "staged"]

Propose == MoveAll("staged", {"proposed"})

Decide == MoveAll("proposed", {"pushing"}) \/ MoveAll("proposed", {"rejecting"})

Settle == \/ MoveAll("pushing", {"pushed", "open"})
          \/ MoveAll("rejecting", {"rejected", "open"})

Fail == MoveAll("pushing", {"proposed"}) \/ MoveAll("rejecting", {"proposed"})

\* Staging is emptied; settled operations may drop out of the restored log.
Restart ==
    /\ life' \in [Ops -> Lives]
    /\ \A o \in Ops :
          IF life[o] \in {"staged", "proposed", "pushing", "rejecting"}
          THEN life'[o] = "open"
          ELSE life'[o] = life[o] \/ (life[o] # "new" /\ life'[o] = "open")

Next == (\E o \in Ops : Stage(o)) \/ Propose \/ Decide \/ Settle \/ Fail \/ Restart

Spec == Init /\ [][Next]_life
=============================================================================
