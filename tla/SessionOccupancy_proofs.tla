------------------------ MODULE SessionOccupancy_proofs ------------------------
(***************************************************************************)
(* The lease and the operation guard do their work for any number of       *)
(* requests on a conversation.                                             *)
(*                                                                         *)
(* Neither is a lock that knows its holder: activeResumeIds is a set of    *)
(* conversations, and every path gives back whatever is in it.  The        *)
(* argument is therefore about places in the code: Holding lists the steps *)
(* at which a call has claimed and not yet released, and every step of     *)
(* every call is one of three moves, to take, to keep or to give back.     *)
(***************************************************************************)
EXTENDS SessionOccupancy, TLAPS

\* Where a call has the lease, and where it has the operation guard.
Holding == HeadSteps \cup EditSteps
           \cup {"openEnsure", "openSpawn", "openLog", "watch", "unlease"}
Guarding == {"prepare", "webBind", "webStart", "webStop"}

(* The lease has at most one holder; a lease without one was leaked.       *)
LeaseInv ==
    /\ \A c \in Call : pc[c] \in Holding => lease
    /\ \A c, d \in Call : pc[c] \in Holding /\ pc[d] \in Holding => c = d
(* A dispatch that passed the look at the presence finds it as it was.     *)
QuietInv == presence = "deleted" => \A c \in Call : pc[c] \notin HeadSteps
GuardInv == \A c \in Call : pc[c] \in Guarding => guard = c
(* The entry names a host that runs, and while a start waits for its host  *)
(* no other host takes the entry, which the start may delete unseen.       *)
PiInv ==
    /\ NoOrphanPi
    /\ webPi # None => webPi \in pis
    /\ \A c \in Call : pc[c] = "webStart" => webPi \in {c, None}
IInv == TypeOK /\ LeaseInv /\ QuietInv /\ GuardInv /\ PiInv

-----------------------------------------------------------------------------
(* What one step of call c may do.                                         *)
Others(c) == \A d \in Call : d # c => pc'[d] = pc[d]
LeaseMove(c) ==
    \/ ~lease /\ lease'
    \/ lease' = lease /\ (pc'[c] \in Holding => pc[c] \in Holding)
    \/ pc[c] \in Holding /\ pc'[c] \notin Holding
PresenceMove(c) ==
    /\ presence' = "deleted" => presence = "deleted" \/ ~lease \/ pc[c] = "archive"
    /\ pc'[c] \in HeadSteps =>
          presence' = presence /\ (pc[c] \in HeadSteps \/ presence # "deleted")
GuardMove(c) ==
    \/ guard = None /\ guard' = c
    \/ guard' = guard /\ (pc'[c] \in Guarding => pc[c] \in Guarding)
    \/ guard = c /\ pc'[c] \notin Guarding
\* WebPi's entry and hosts: left alone, stopped, started, ended, or given up.
PiMove(c) ==
    \/ UNCHANGED <<webPi, pis, stopping>> /\ (pc'[c] = "webStart" => pc[c] = "webStart")
    \/ /\ webPi' = None /\ pis' = pis /\ stopping' = stopping \cup ({webPi} \ {None})
       /\ pc'[c] # "webStart"
    \/ /\ pc[c] = "webBind" /\ webPi = None
       /\ webPi' = c /\ pis' = pis \cup {c} /\ stopping' = stopping
    \/ /\ pc' = pc /\ pis' = pis \ {c} /\ stopping' = stopping \ {c}
       /\ webPi' = (IF webPi = c THEN None ELSE webPi)
    \/ /\ pc[c] = "webStart" /\ pc'[c] # "webStart"
       /\ webPi' = None /\ pis' = pis /\ stopping' = stopping \cup ({c} \cap pis)
PtyMove(c) == ptys' \subseteq ptys \/ ~lease \/ pc[c] = "openSpawn"

Moved(c) == /\ Others(c) /\ LeaseMove(c) /\ PresenceMove(c)
            /\ GuardMove(c) /\ PiMove(c) /\ PtyMove(c)

LEMMA NoneIsNoCall == None \notin Call
  BY DEF None, Call

\* A call that returns leaves the types.
FinishTyped(c) == Finish(c) => /\ pc' \in [Call -> Steps]
                               /\ guard' \in Opt /\ inFlight' \in Opt

LEMMA FinishKeepsTypes == ASSUME TypeOK, NEW c \in Call PROVE FinishTyped(c)
<1>1. "done" \in Steps
  BY DEF Steps
<1>2. SUFFICES ASSUME Finish(c)
               PROVE  pc' \in [Call -> Steps] /\ guard' \in Opt /\ inFlight' \in Opt
  BY DEF FinishTyped
<1>3. pc' \in [Call -> Steps]
  BY <1>1, <1>2 DEF Finish, Goto, TypeOK
<1>4. guard' \in Opt /\ inFlight' \in Opt
  BY <1>2 DEF Finish, TypeOK, Opt
<1>5. QED
  BY <1>3, <1>4

\* Every step keeps the types; a host is only told to stop when it runs.
LEMMA TypeStep ==
    ASSUME IInv, NEW c \in Call, Begins(c) \/ Proceeds(c) \/ PtyEnds(c) \/ PiExits(c)
    PROVE  TypeOK'
<1>0. Finish(c) => pc' \in [Call -> Steps] /\ guard' \in Opt /\ inFlight' \in Opt
  BY FinishKeepsTypes DEF IInv, FinishTyped
<1> USE DEF TypeOK, IInv, PiInv, Steps, HeadSteps, OpenSteps, ResumeSteps, WebSteps, EditSteps, runs, slots, turn, Opt
<1>1. ASSUME HeadClaim(c) PROVE TypeOK'
  BY <1>1 DEF HeadClaim, Arrives, Goto
<1>2. ASSUME Open(c) PROVE TypeOK'
  BY <1>2 DEF Open, Arrives, Goto
<1>3. ASSUME Resume(c) PROVE TypeOK'
  BY <1>3 DEF Resume, Arrives, Goto
<1>4. ASSUME Pause(c) PROVE TypeOK'
  BY <1>4 DEF Pause, Arrives, Goto, Dispose, StopWebPi
<1>5. ASSUME WebOpen(c) PROVE TypeOK'
  BY <1>5 DEF WebOpen, Arrives, Goto
<1>6. ASSUME SetPresence(c) PROVE TypeOK'
  <2>1. pc' \in [Call -> Steps]
    BY <1>6 DEF SetPresence, Goto
  <2>2. lease' = TRUE /\ presence' \in {"active", "archived", "deleted"}
    BY <1>6 DEF SetPresence
  <2>3. UNCHANGED <<record, turn, slots, awaited, runs, leaked>>
    BY <1>6 DEF SetPresence
  <2>4. QED
    BY <2>1, <2>2, <2>3
<1>7. ASSUME HeadBind(c) PROVE TypeOK'
  <2>1. CASE Goto(c, "ensure") /\ UNCHANGED <<slots, leaked>>
    BY <1>7, <2>1 DEF HeadBind, Goto
  <2>2. CASE Finish(c) /\ leaked' = TRUE
    BY <1>7, <1>0, <2>2 DEF HeadBind
  <2>3. QED
    BY <1>7, <2>1, <2>2 DEF HeadBind
<1>8. ASSUME HeadEnsure(c) PROVE TypeOK'
  BY <1>8 DEF HeadEnsure, Goto
<1>9. ASSUME HeadCreate(c) PROVE TypeOK'
  BY <1>9 DEF HeadCreate, Goto
<1>10. ASSUME HeadLink(c) PROVE TypeOK'
  BY <1>10 DEF HeadLink, Goto
<1>11. ASSUME HeadRest(c) PROVE TypeOK'
  BY <1>11 DEF HeadRest, Goto
<1>12. ASSUME HeadRun(c) PROVE TypeOK'
  BY <1>12 DEF HeadRun, Goto
<1>13. ASSUME HeadSpawn(c) PROVE TypeOK'
  BY <1>13 DEF HeadSpawn, Goto
<1>14. ASSUME ChildExits(c) PROVE TypeOK'
  BY <1>14 DEF ChildExits, Goto
<1>15. ASSUME HeadComplete(c) PROVE TypeOK'
  BY <1>15 DEF HeadComplete, Goto
<1>16. ASSUME Unlease(c) PROVE TypeOK'
  BY <1>16, <1>0 DEF Unlease, Goto
<1>17. ASSUME OpenClaim(c) PROVE TypeOK'
  <2>1. pc' \in [Call -> Steps]
    BY <1>17, <1>0 DEF OpenClaim, Goto
  <2>2. QED
    BY <1>17, <2>1, <1>0 DEF OpenClaim, Goto
<1>18. ASSUME OpenEnsure(c) PROVE TypeOK'
  BY <1>18 DEF OpenEnsure, Goto
<1>19. ASSUME OpenSpawn(c) PROVE TypeOK'
  <2>1. pc' \in [Call -> Steps]
    BY <1>19 DEF OpenSpawn, Goto, Spawn
  <2>2. QED
    BY <1>19, <2>1 DEF OpenSpawn, Goto, Spawn
<1>20. ASSUME OpenLog(c) PROVE TypeOK'
  BY <1>20, <1>0 DEF OpenLog, Goto
<1>21. ASSUME OpenUndo(c) PROVE TypeOK'
  BY <1>21, <1>0 DEF OpenUndo, Goto
<1>22. ASSUME DoResume(c) PROVE TypeOK'
  BY <1>22 DEF DoResume, Goto, StopWebPi
<1>23. ASSUME Handoff(c) PROVE TypeOK'
  BY <1>23 DEF Handoff, Goto
<1>24. ASSUME ResumeSpawn(c) PROVE TypeOK'
  <2>1. CASE lease' = TRUE /\ Spawn(c) /\ Goto(c, "watch") /\ UNCHANGED slots
    BY <1>24, <2>1 DEF ResumeSpawn, Goto, Spawn
  <2>2. CASE UNCHANGED <<lease, runs>> /\ Finish(c)
    BY <1>24, <1>0, <2>2 DEF ResumeSpawn
  <2>3. QED
    BY <1>24, <2>1, <2>2 DEF ResumeSpawn
<1>25. ASSUME Watch(c) PROVE TypeOK'
  BY <1>25 DEF Watch, Goto, Dispose
<1>26. ASSUME PauseStopped(c) PROVE TypeOK'
  BY <1>26 DEF PauseStopped, Goto
<1>27. ASSUME WebHandoff(c) PROVE TypeOK'
  BY <1>27 DEF WebHandoff, Goto, Dispose
<1>28. ASSUME WebStart(c) PROVE TypeOK'
  BY <1>28, <1>0 DEF WebStart, Goto
<1>29. ASSUME WebStarted(c) PROVE TypeOK'
  BY <1>29, <1>0 DEF WebStarted, Goto
<1>30. ASSUME WebFail(c) PROVE TypeOK'
  BY <1>30 DEF WebFail, Goto
<1>31. ASSUME DeleteArchived(c) PROVE TypeOK'
  BY <1>31, <1>0 DEF DeleteArchived, Goto
<1>32. ASSUME PresenceFlushed(c) PROVE TypeOK'
  BY <1>32, <1>0 DEF PresenceFlushed, Goto
<1>33. ASSUME PtyEnds(c) PROVE TypeOK'
  BY <1>33 DEF PtyEnds
<1>34. ASSUME PiExits(c) PROVE TypeOK'
  BY <1>34 DEF PiExits
<1>35. ASSUME WebStopped(c) PROVE TypeOK'
  BY <1>35 DEF WebStopped, Goto
<1> QED
  BY <1>1, <1>2, <1>3, <1>4, <1>5, <1>6, <1>7, <1>8, <1>9, <1>10, <1>11, <1>12,
     <1>13, <1>14, <1>15, <1>16, <1>17, <1>18, <1>19, <1>20, <1>21, <1>22, <1>23, <1>24,
     <1>25, <1>26, <1>27, <1>28, <1>29, <1>30, <1>31, <1>32, <1>33, <1>34, <1>35
     DEF Begins, Proceeds

\* Every step is one of the moves, in each respect.
LEMMA Moves ==
    ASSUME TypeOK, GuardInv, NEW c \in Call, Begins(c) \/ Proceeds(c) \/ PtyEnds(c) \/ PiExits(c)
    PROVE  Moved(c)
<1> USE DEF TypeOK, Moved, Others, LeaseMove, PresenceMove, GuardMove, PiMove, PtyMove,
           Holding, Guarding, HeadSteps, OpenSteps, ResumeSteps, WebSteps, EditSteps,
           runs, slots, turn
<1>1. ASSUME HeadClaim(c) PROVE Moved(c)
  BY <1>1 DEF HeadClaim, Arrives, Goto
<1>2. ASSUME Open(c) PROVE Moved(c)
  BY <1>2 DEF Open, Arrives, Goto
<1>3. ASSUME Resume(c) PROVE Moved(c)
  BY <1>3 DEF Resume, Arrives, Goto
<1>4. ASSUME Pause(c) PROVE Moved(c)
  BY <1>4 DEF Pause, Arrives, Goto, Dispose, StopWebPi
<1>5. ASSUME WebOpen(c) PROVE Moved(c)
  BY <1>5 DEF WebOpen, Arrives, Goto
<1>6. ASSUME SetPresence(c) PROVE Moved(c)
  BY <1>6 DEF SetPresence, Arrives, Goto, Quiet
<1>7. ASSUME HeadBind(c) PROVE Moved(c)
  BY <1>7 DEF HeadBind, Goto, Finish
<1>8. ASSUME HeadEnsure(c) PROVE Moved(c)
  BY <1>8 DEF HeadEnsure, Goto
<1>9. ASSUME HeadCreate(c) PROVE Moved(c)
  BY <1>9 DEF HeadCreate, Goto
<1>10. ASSUME HeadLink(c) PROVE Moved(c)
  BY <1>10 DEF HeadLink, Goto
<1>11. ASSUME HeadRest(c) PROVE Moved(c)
  BY <1>11 DEF HeadRest, Goto
<1>12. ASSUME HeadRun(c) PROVE Moved(c)
  BY <1>12 DEF HeadRun, Goto
<1>13. ASSUME HeadSpawn(c) PROVE Moved(c)
  BY <1>13 DEF HeadSpawn, Goto, GuardInv
<1>14. ASSUME ChildExits(c) PROVE Moved(c)
  BY <1>14 DEF ChildExits, Goto
<1>15. ASSUME HeadComplete(c) PROVE Moved(c)
  BY <1>15 DEF HeadComplete, Goto
<1>16. ASSUME Unlease(c) PROVE Moved(c)
  BY <1>16 DEF Unlease, Finish, Goto
<1>17. ASSUME OpenClaim(c) PROVE Moved(c)
  BY <1>17 DEF OpenClaim, Goto, Finish
<1>18. ASSUME OpenEnsure(c) PROVE Moved(c)
  BY <1>18 DEF OpenEnsure, Goto
<1>19. ASSUME OpenSpawn(c) PROVE Moved(c)
  BY <1>19 DEF OpenSpawn, Goto, Spawn
<1>20. ASSUME OpenLog(c) PROVE Moved(c)
  BY <1>20 DEF OpenLog, Finish, Goto
<1>21. ASSUME OpenUndo(c) PROVE Moved(c)
  BY <1>21 DEF OpenUndo, Finish, Goto
<1>22. ASSUME DoResume(c) PROVE Moved(c)
  BY <1>22 DEF DoResume, Goto, StopWebPi
<1>23. ASSUME Handoff(c) PROVE Moved(c)
  BY <1>23 DEF Handoff, Goto
<1>24. ASSUME ResumeSpawn(c) PROVE Moved(c)
  BY <1>24 DEF ResumeSpawn, Goto, Finish, Spawn
<1>25. ASSUME Watch(c) PROVE Moved(c)
  BY <1>25 DEF Watch, Goto, Dispose
<1>26. ASSUME PauseStopped(c) PROVE Moved(c)
  BY <1>26 DEF PauseStopped, Goto
<1>27. ASSUME WebHandoff(c) PROVE Moved(c)
  BY <1>27 DEF WebHandoff, Goto, Dispose
<1>28. ASSUME WebStart(c) PROVE Moved(c)
  BY <1>28 DEF WebStart, Goto, Finish, GuardInv
<1>29. ASSUME WebStarted(c) PROVE Moved(c)
  BY <1>29 DEF WebStarted, Goto, Finish, GuardInv
<1>30. ASSUME WebFail(c) PROVE Moved(c)
  BY <1>30 DEF WebFail, Goto
<1>31. ASSUME DeleteArchived(c) PROVE Moved(c)
  BY <1>31 DEF DeleteArchived, Goto, Finish
<1>32. ASSUME PresenceFlushed(c) PROVE Moved(c)
  BY <1>32 DEF PresenceFlushed, Finish, Goto
<1>33. ASSUME PtyEnds(c) PROVE Moved(c)
  BY <1>33 DEF PtyEnds
<1>34. ASSUME PiExits(c) PROVE Moved(c)
  BY <1>34 DEF PiExits
<1>35. ASSUME WebStopped(c) PROVE Moved(c)
  BY <1>35 DEF WebStopped, Goto, GuardInv
<1> QED
  BY <1>1, <1>2, <1>3, <1>4, <1>5, <1>6, <1>7, <1>8, <1>9, <1>10, <1>11, <1>12,
     <1>13, <1>14, <1>15, <1>16, <1>17, <1>18, <1>19, <1>20, <1>21, <1>22, <1>23, <1>24,
     <1>25, <1>26, <1>27, <1>28, <1>29, <1>30, <1>31, <1>32, <1>33, <1>34, <1>35
     DEF Begins, Proceeds

LEMMA InitInv == Init => IInv
<1> SUFFICES ASSUME Init PROVE IInv
  OBVIOUS
<1>1. TypeOK
  BY DEF Init, TypeOK, Steps, Opt
<1>2. LeaseInv /\ QuietInv /\ GuardInv /\ PiInv
  BY DEF Init, LeaseInv, QuietInv, GuardInv, PiInv, NoOrphanPi, Holding, Guarding,
         HeadSteps, EditSteps
<1>3. QED
  BY <1>1, <1>2 DEF IInv

\* The invariant is inductive.
LEMMA Inductive == IInv /\ [Next]_vars => IInv'
<1> SUFFICES ASSUME IInv, [Next]_vars PROVE IInv'
  OBVIOUS
<1>1. ASSUME UNCHANGED vars PROVE IInv'
  BY <1>1 DEF vars, IInv, TypeOK, LeaseInv, QuietInv, GuardInv, PiInv, NoOrphanPi
<1>2. ASSUME NEW c \in Call, Begins(c) \/ Proceeds(c) \/ PtyEnds(c) \/ PiExits(c)
      PROVE  IInv'
  <2>1. TypeOK'
    BY <1>2, TypeStep
  <2>2. Moved(c)
    BY <1>2, Moves DEF IInv
  <2>3. LeaseInv'
    BY <2>2 DEF Moved, Others, LeaseMove, IInv, LeaseInv
  <2>4. QuietInv'
    <3>1. QuietInv /\ LeaseInv /\ Others(c) /\ PresenceMove(c)
      BY <2>2 DEF Moved, IInv
    <3>2. ASSUME presence' = "deleted", NEW d \in Call, pc'[d] \in HeadSteps PROVE FALSE
      <4>1. CASE d = c
        BY <4>1, <3>1, <3>2 DEF PresenceMove, QuietInv
      <4>2. CASE d # c
        <5>1. pc[d] \in HeadSteps
          BY <4>2, <3>1, <3>2 DEF Others
        <5>2. lease /\ pc[c] # "archive"
          BY <4>2, <5>1, <3>1 DEF LeaseInv, Holding, EditSteps
        <5>3. QED
          BY <5>1, <5>2, <3>1, <3>2 DEF PresenceMove, QuietInv
      <4>3. QED
        BY <4>1, <4>2
    <3>3. QED
      BY <3>2 DEF QuietInv
  <2>5. GuardInv'
    BY <2>2, NoneIsNoCall DEF Moved, Others, GuardMove, IInv, GuardInv
  <2>6. PiInv'
    <3>1. GuardInv /\ PiInv /\ TypeOK /\ Others(c) /\ PiMove(c)
      BY <2>2 DEF Moved, IInv
    <3>2. \A d \in Call : d # c /\ pc[c] \in {"webBind", "webStart"} => pc[d] # "webStart"
      BY <3>1 DEF GuardInv, Guarding
    <3>3. QED
      BY <3>1, <3>2, <2>1, NoneIsNoCall DEF PiInv, NoOrphanPi, PiMove, Others, TypeOK, Opt
  <2>7. QED
    BY <2>1, <2>3, <2>4, <2>5, <2>6 DEF IInv
<1>3. QED
  BY <1>1, <1>2 DEF Next

\* The fields of the calls, the stores and what runs keep their types.
THEOREM OccupancyTypeCorrect == Spec => []TypeOK
<1>1. IInv => TypeOK
  BY DEF IInv
<1>2. QED
  BY InitInv, Inductive, <1>1, PTL DEF Spec

(* At most one headless turn has its child on the transcript, however many *)
(* requests come in and wherever the others are.                           *)
THEOREM OneTurnAtATime == Spec => []OneTurn
<1>1. IInv => OneTurn
  BY DEF IInv, LeaseInv, OneTurn, InChild, Holding, HeadSteps
<1>2. QED
  BY InitInv, Inductive, <1>1, PTL DEF Spec

(* A deleted conversation has no headless turn, not even one that was      *)
(* dispatched before it was deleted.                                       *)
THEOREM DeletionIsQuiet == Spec => []DeletedStaysQuiet
<1>1. IInv => DeletedStaysQuiet
  BY DEF IInv, QuietInv, DeletedStaysQuiet, HeadSteps
<1>2. QED
  BY InitInv, Inductive, <1>1, PTL DEF Spec

(* Every Pi host that runs can be reached through WebPi's entry or was     *)
(* told to stop: the operation guard keeps a start that fails from         *)
(* deleting the entry of another.                                          *)
THEOREM PiHostsAreKnown == Spec => []NoOrphanPi
<1>1. IInv => NoOrphanPi
  BY DEF IInv, PiInv
<1>2. QED
  BY InitInv, Inductive, <1>1, PTL DEF Spec

(* No step starts a terminal while the child of a headless turn runs.      *)
THEOREM NoTerminalBesideTurn == Spec => TurnsExclude
<1>1. ASSUME IInv, [Next]_vars
      PROVE  [(\E c \in Call : InChild(c)) => ptys' \subseteq ptys]_vars
  <2>1. CASE UNCHANGED vars
    BY <2>1
  <2>2. ASSUME NEW c \in Call, Begins(c) \/ Proceeds(c) \/ PtyEnds(c) \/ PiExits(c),
               NEW d \in Call, InChild(d)
        PROVE  ptys' \subseteq ptys
    <3>1. PtyMove(c) /\ LeaseInv
      BY <1>1, <2>2, Moves DEF IInv, Moved
    <3>2. lease /\ pc[c] # "openSpawn"
      BY <2>2, <3>1 DEF LeaseInv, InChild, Holding, HeadSteps
    <3>3. QED
      BY <3>1, <3>2 DEF PtyMove
  <2>3. QED
    BY <1>1, <2>1, <2>2 DEF Next
<1>2. QED
  BY InitInv, Inductive, <1>1, PTL DEF Spec, TurnsExclude
=============================================================================
