--------------------------- MODULE GitPersistence ---------------------------
(***************************************************************************)
(* The file commit.json of one trading account and the calls that write it *)
(* (services/uta/src/domain/trading/git-persistence.ts).                   *)
(*                                                                         *)
(* createGitPersister returns a callback that runs mkdir and then          *)
(* fs.writeFile.  Nothing serialises two calls of it: writeFile opens the  *)
(* file (which truncates it), writes the JSON text from offset 0, and      *)
(* closes it, so two calls in flight interleave at these two points.  The  *)
(* text of a log is abstracted to the log; its length is the number of     *)
(* commits, which is all that decides whether one text covers another.     *)
(***************************************************************************)
EXTENDS Naturals, Sequences

VARIABLES
    saves,   \* the calls of the persister whose promise is not settled
    disk     \* the file: its size, and the state loadGitState reads from it

persistVars == <<saves, disk>>

(* loadGitState swallows a missing file and a text that does not parse and  *)
(* returns undefined: the account then starts from an empty log.  A torn    *)
(* text is therefore the same as the empty state.                           *)
EmptyState == [commits |-> <<>>, head |-> 0]
Torn == EmptyState

PersistInit == saves = {} /\ disk = [size |-> 0, parsed |-> EmptyState]

\* onCommit: the promise is created; nothing has touched the file yet.
StartSave(owner, state) ==
    saves' = saves \cup {[owner |-> owner, state |-> state, at |-> "mkdir"]}

MoveSave(s, at) == saves' = (saves \ {s}) \cup {[s EXCEPT !.at = at]}

\* writeFile opens with flag "w": the file is truncated at once.
SaveOpen(s) ==
    /\ s.at = "mkdir"
    /\ MoveSave(s, "open")
    /\ disk' = [size |-> 0, parsed |-> Torn]

(* The whole text is written from offset 0.  If another call wrote a longer *)
(* text since this one truncated the file, the tail of that text remains    *)
(* behind this one and the result is not JSON.                              *)
SaveWrite(s) ==
    LET n == Len(s.state.commits) IN
    /\ s.at = "open"
    /\ MoveSave(s, "done")
    /\ disk' = IF disk.size <= n THEN [size |-> n, parsed |-> s.state]
                                 ELSE [disk EXCEPT !.parsed = Torn]

\* mkdir or open fails and the file is as it was, or the write is cut short.
SaveFail(s) ==
    /\ s.at \in {"mkdir", "open"}
    /\ MoveSave(s, "failed")
    /\ \/ UNCHANGED disk
       \/ s.at = "open" /\ disk' = [disk EXCEPT !.parsed = Torn]

\* The awaiting call sees the promise settle.
SettleSave(s) == saves' = saves \ {s}

LoadGitState == disk.parsed
=============================================================================
