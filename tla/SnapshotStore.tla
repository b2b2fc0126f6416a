---------------------------- MODULE SnapshotStore ----------------------------
(***************************************************************************)
(* The chunked store of one account's snapshots: chunk files of JSON lines *)
(* and an index (services/uta/src/domain/trading/snapshot/store.ts).       *)
(*                                                                         *)
(* append and deleteByTimestamp run one at a time behind a promise chain;  *)
(* readRange runs beside them.  A snapshot is its timestamp, and they are  *)
(* appended in the order of their timestamps.  A chunk file is the         *)
(* sequence of its lines; a file without lines does not exist.  index.json *)
(* is replaced by a rename, at once.                                       *)
(***************************************************************************)
EXTENDS Naturals, Sequences

CONSTANTS
    CHUNK_SIZE,
    MaxSnapshots,  \* bound: snapshots appended
    MaxFails       \* bound: writes and reads of the index that fail, and crashes

ASSUME StoreConstants ==
    /\ CHUNK_SIZE \in Nat \ {0}
    /\ MaxSnapshots \in Nat /\ MaxFails \in Nat

VARIABLES
    index,     \* index.json: per chunk the file, the count and the time range
    files,     \* the lines of chunk file n
    op,        \* the write at the head of the chain
    reader,    \* a readRange in progress
    next,      \* the next timestamp
    acked,     \* history: what append confirmed
    deleted,   \* history: what a deletion was begun for
    forgot,    \* history: what was confirmed when a blind append replaced the index
    strayed,   \* history: what blind appends wrote
    fails

ghosts == <<acked, deleted, forgot, strayed>>
vars == <<index, files, op, reader, next, ghosts, fails>>

Times == 1..MaxSnapshots
Numbers == 1..(MaxSnapshots + 1)
Chunk(n, count, lo, hi) == [file |-> n, count |-> count, startTime |-> lo, endTime |-> hi]
NoOp == [kind |-> "none", at |-> "idle", time |-> 0, file |-> 0, lines |-> <<>>,
         index |-> <<>>, blind |-> FALSE]
NoRead == [at |-> "idle", chunks |-> <<>>, got |-> <<>>, wanted |-> {}, blind |-> FALSE]

Init ==
    /\ index = <<>> /\ files = [n \in Numbers |-> <<>>]
    /\ op = NoOp /\ reader = NoRead
    /\ next = 1 /\ fails = MaxFails
    /\ acked = {} /\ deleted = {} /\ forgot = {} /\ strayed = {}

Lines(s) == {s[i] : i \in 1..Len(s)}

-----------------------------------------------------------------------------
(* readIndex.  Whatever goes wrong is caught, and the answer is an index   *)
(* without chunks: the caller cannot tell it from a store that is new.     *)

IndexRead == {index} \cup (IF fails > 0 THEN {<<>>} ELSE {})

Spent(ix) == fails' = IF ix = index THEN fails ELSE fails - 1

-----------------------------------------------------------------------------
(* doAppend.                                                               *)

\* Mutant of AppendedIndex: the new chunk is put in the place of the last one.
AppendedIndexReplaces(ix, t) ==
    LET n == Len(ix) IN
    IF n = 0 \/ ix[n].count >= CHUNK_SIZE
    THEN Append(SubSeq(ix, 1, n - 1), Chunk(n + 1, 1, t, t))
    ELSE [ix EXCEPT ![n].count = @ + 1, ![n].endTime = t]

\* The new chunk is numbered by the length of the index.
AppendedIndex(ix, t) ==
    LET n == Len(ix) IN
    IF n = 0 \/ ix[n].count >= CHUNK_SIZE
    THEN Append(ix, Chunk(n + 1, 1, t, t))
    ELSE [ix EXCEPT ![n].count = @ + 1, ![n].endTime = t]

\* Mutant of AppendedLines: the first snapshot of a chunk creates its file.
AppendedLinesCreates(f, chunk, t) == IF chunk.count = 1 THEN <<t>> ELSE Append(files[f], t)

\* appendFile: after what the file holds already, whatever the index says of it.
AppendedLines(f, chunk, t) == Append(files[f], t)

\* A blind append starts again at chunk 1, and will replace the whole index.
AppendStart ==
    /\ op.at = "idle" /\ next <= MaxSnapshots
    /\ \E ix \in IndexRead :
          LET new == AppendedIndex(ix, next)
              f == new[Len(new)].file
          IN  /\ op' = [kind |-> "append", at |-> "file", time |-> next, file |-> f,
                        lines |-> AppendedLines(f, new[Len(new)], next),
                        index |-> new, blind |-> ix # index]
              /\ Spent(ix)
    /\ next' = next + 1
    /\ UNCHANGED <<index, files, reader, ghosts>>

-----------------------------------------------------------------------------
(* doDelete.                                                               *)

Covers(i, t) == index[i].startTime <= t /\ t <= index[i].endTime

\* The lines that are left; a timestamp is appended once, so one line goes.
Without(s, t) ==
    IF t \in Lines(s)
    THEN LET i == CHOOSE i \in 1..Len(s) : s[i] = t
         IN  SubSeq(s, 1, i - 1) \o SubSeq(s, i + 1, Len(s))
    ELSE s

\* Mutant of RemainingIndex: the entry goes although lines are left.
RemainingIndexDropped(i, kept) ==
    SubSeq(index, 1, i - 1) \o SubSeq(index, i + 1, Len(index))

RemainingIndex(i, kept) ==
    IF kept = <<>> THEN SubSeq(index, 1, i - 1) \o SubSeq(index, i + 1, Len(index))
    ELSE [index EXCEPT ![i] = Chunk(@.file, Len(kept), kept[1], kept[Len(kept)])]

(* The chunks whose range covers the timestamp are read in order, up to    *)
(* the first that holds it; a missing file throws, and the write ends.     *)
DeleteStart(t) ==
    /\ op.at = "idle" /\ t < next
    /\ \E i \in 1..Len(index) :
          LET kept == Without(files[index[i].file], t) IN
          /\ Covers(i, t) /\ kept # files[index[i].file]
          /\ \A j \in 1..(i - 1) :
                Covers(j, t) => files[index[j].file] # <<>> /\ t \notin Lines(files[index[j].file])
          /\ op' = [kind |-> "delete", at |-> "file", time |-> t, file |-> index[i].file,
                    lines |-> kept, index |-> RemainingIndex(i, kept), blind |-> FALSE]
    /\ deleted' = deleted \cup {t}
    /\ UNCHANGED <<index, files, reader, next, acked, forgot, strayed, fails>>

\* An index that could not be read has no chunk: the answer is false.
DeleteMisses ==
    /\ op.at = "idle" /\ index # <<>> /\ fails > 0
    /\ fails' = fails - 1
    /\ UNCHANGED <<index, files, op, reader, next, ghosts>>

-----------------------------------------------------------------------------
(* What the two share: the chunk file first, then the index.               *)

\* appendFile, or unlink, or a rewrite that is renamed into place.
WriteFile ==
    /\ op.at = "file"
    /\ files' = [files EXCEPT ![op.file] = op.lines]
    /\ op' = [op EXCEPT !.at = "index"]
    /\ strayed' = IF op.blind THEN strayed \cup {op.time} ELSE strayed
    /\ UNCHANGED <<index, reader, next, acked, deleted, forgot, fails>>

\* An unlink that fails is swallowed, and the entry goes all the same.
UnlinkFails ==
    /\ op.at = "file" /\ op.kind = "delete" /\ op.lines = <<>> /\ fails > 0
    /\ op' = [op EXCEPT !.at = "index"]
    /\ fails' = fails - 1
    /\ UNCHANGED <<index, files, reader, next, ghosts>>

SaveIndex ==
    /\ op.at = "index"
    /\ index' = op.index
    /\ acked' = IF op.kind = "append" THEN acked \cup {op.time} ELSE acked
    /\ forgot' = IF op.blind THEN acked ELSE forgot
    /\ op' = NoOp
    /\ UNCHANGED <<files, reader, next, deleted, strayed, fails>>

\* An error, or a crash and a restart, between any two of these steps.
WriteFails ==
    /\ op.at # "idle" /\ fails > 0
    /\ op' = NoOp
    /\ fails' = fails - 1
    /\ UNCHANGED <<index, files, reader, next, ghosts>>

-----------------------------------------------------------------------------
(* readRange without bounds: the index, then chunk after chunk.            *)

\* A blind read finds no chunks, and succeeds with nothing.
ReadStart ==
    /\ reader.at = "idle"
    /\ \E ix \in IndexRead :
          /\ reader' = [at |-> "reading", chunks |-> [i \in 1..Len(ix) |-> ix[i].file],
                        got |-> <<>>, wanted |-> acked \ forgot, blind |-> ix # index]
          /\ Spent(ix)
    /\ UNCHANGED <<index, files, op, next, ghosts>>

\* Mutant of Backwards: the lines of a chunk are read oldest first.
Forwards(s) == s

Backwards(s) == [i \in 1..Len(s) |-> s[Len(s) + 1 - i]]

\* The newest chunk that is left; a missing file rejects the read.
ReadChunk ==
    LET n == Len(reader.chunks) IN
    /\ reader.at = "reading"
    /\ reader' =
          IF n = 0 THEN [reader EXCEPT !.at = "done"]
          ELSE LET s == files[reader.chunks[n]] IN
               IF s = <<>> THEN [NoRead EXCEPT !.at = "rejected"]
               ELSE [reader EXCEPT !.chunks = SubSeq(@, 1, n - 1), !.got = @ \o Backwards(s)]
    /\ UNCHANGED <<index, files, op, next, ghosts, fails>>

ReadReturns ==
    /\ reader.at \in {"done", "rejected"}
    /\ reader' = NoRead
    /\ UNCHANGED <<index, files, op, next, ghosts, fails>>

Next ==
    \/ AppendStart \/ (\E t \in Times : DeleteStart(t)) \/ DeleteMisses
    \/ WriteFile \/ UnlinkFails \/ SaveIndex \/ WriteFails
    \/ ReadStart \/ ReadChunk \/ ReadReturns

Spec == Init /\ [][Next]_vars

-----------------------------------------------------------------------------
(* Properties.                                                             *)

Chunks == [file: Numbers, count: Nat, startTime: Times, endTime: Times]

\* The files, the index, and what the write and the read carry.
TypeOK ==
    /\ index \in Seq(Chunks)
    /\ files \in [Numbers -> Seq(Times)]
    /\ op \in [kind: {"none", "append", "delete"}, at: {"idle", "file", "index"},
               time: Nat, file: Nat, lines: Seq(Times), index: Seq(Chunks), blind: BOOLEAN]
    /\ reader \in [at: {"idle", "reading", "done", "rejected"}, chunks: Seq(Numbers),
                   got: Seq(Times), wanted: SUBSET Times, blind: BOOLEAN]
    /\ next \in Nat /\ fails \in Nat
    /\ acked \subseteq Times /\ deleted \subseteq Times
    /\ forgot \subseteq Times /\ strayed \subseteq Times

(* A confirmed snapshot whose deletion was never begun is a line of some   *)
(* chunk file, whatever failed: writes, the reading of the index, unlinks, *)
(* crashes; also where a new chunk is given the file of an older one.      *)
AckedIsStored ==
    \A t \in acked \ deleted : \E n \in Numbers : t \in Lines(files[n])

(* The index names that file, unless a blind append has put its own index  *)
(* of one chunk in the place of the one it could not read: then what was   *)
(* confirmed up to then may be out of reach, what is confirmed later is    *)
(* not.  No failed write, deletion or reused file number takes a name away. *)
AckedIsNamed ==
    \A t \in acked \ (deleted \cup forgot) :
        \E i \in 1..Len(index) : t \in Lines(files[index[i].file])

(* A read that succeeds, and did read the index, returns every snapshot    *)
(* that was confirmed and named when it began and that no deletion took    *)
(* since, whatever appends and deletions did beside it.                    *)
ReadIsComplete ==
    reader.at = "done" /\ ~reader.blind =>
        reader.wanted \ deleted \subseteq Lines(reader.got)

\* A read returns snapshots in reverse chronological order, each of them once.
ReadsNewestFirst ==
    \A i, j \in 1..Len(reader.got) : i < j => reader.got[i] > reader.got[j]

(* As long as nothing was deleted and no blind append wrote its line to    *)
(* chunk 1, failed and repeated appends do not disturb that order, and a   *)
(* read beside them sees each snapshot once.                               *)
AppendsReadNewestFirst == deleted = {} /\ strayed = {} => ReadsNewestFirst
=============================================================================
