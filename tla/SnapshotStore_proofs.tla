------------------------ MODULE SnapshotStore_proofs ------------------------
(***************************************************************************)
(* Proofs about SnapshotStore, for every chunk size and every bound.       *)
(***************************************************************************)
EXTENDS SnapshotStore, TLAPS

Named(ix) == {ix[i].file : i \in 1..Len(ix)}

(* A chunk is entered for an append only, so there are fewer chunks than   *)
(* timestamps were handed out, and every file has a number.                *)
SizeInv ==
    /\ next <= MaxSnapshots + 1
    /\ Len(index) < next
    /\ op.at # "idle" =>
          /\ op.kind \in {"append", "delete"}
          /\ op.file \in Numbers /\ op.time \in Times /\ op.time < next
          /\ Len(op.index) < next

(* What the write at the head of the chain may take away: nothing but a    *)
(* line whose deletion was begun, and, unless it is blind, no entry but    *)
(* that of a file that it leaves empty.  What it adds, its index names.    *)
WriteInv ==
    op.at # "idle" =>
        /\ \A f \in Named(index) :
              f \in Named(op.index) \/ (f = op.file /\ op.lines = <<>>) \/ op.blind
        /\ \A u \in Lines(files[op.file]) : u \in Lines(op.lines) \/ u \in deleted
        /\ op.kind = "append" => op.file \in Named(op.index) /\ op.time \in Lines(op.lines)
        /\ op.at = "index" /\ op.kind = "append" => op.time \in Lines(files[op.file])

(* What a read has yet to return is in a file that it has yet to read.     *)
ReadInv ==
    /\ reader.at = "reading" /\ ~reader.blind =>
          \A t \in reader.wanted \ deleted :
              \/ t \in Lines(reader.got)
              \/ \E i \in 1..Len(reader.chunks) : t \in Lines(files[reader.chunks[i]])
    /\ ReadIsComplete

(* As long as nothing was deleted and no blind append wrote, chunk n is    *)
(* file n, the files continue one another, and only the last of them is    *)
(* written.                                                                *)
Numbered(ix) == \A i \in 1..Len(ix) : ix[i].file = i

Ascending(s) == \A i, j \in 1..Len(s) : i < j => s[i] < s[j]

Descending(s) == \A i, j \in 1..Len(s) : i < j => s[i] > s[j]

Full(ix) == ix = <<>> \/ ix[Len(ix)].count >= CHUNK_SIZE

\* The file that an append to this index writes.
LastFile(ix) == IF Full(ix) THEN Len(ix) + 1 ELSE Len(ix)

FilesInv ==
    /\ Numbered(index)
    /\ \A n \in Numbers : Ascending(files[n])
    /\ \A m, n \in Numbers : m < n =>
          \A u \in Lines(files[m]), v \in Lines(files[n]) : u < v
    /\ \A n \in Numbers : Lines(files[n]) # {} => n <= LastFile(index)

AppendInv ==
    /\ op.at # "idle" => op.kind = "append"
    /\ op.at # "idle" /\ ~op.blind =>
          op.file = LastFile(index) /\ op.index = AppendedIndex(index, op.time)
    /\ op.at = "index" => ~op.blind
    /\ op.at = "file" => op.lines = Append(files[op.file], op.time)
    /\ \A n \in Numbers : \A u \in Lines(files[n]) :
          u < next /\ (op.at = "file" => u < op.time)

BackwardsInv ==
    /\ reader.at = "reading" =>
          /\ \A i \in 1..Len(reader.chunks) : reader.chunks[i] = i
          /\ Len(reader.chunks) <= Len(index)
          /\ reader.got = <<>> \/ Len(reader.chunks) < Len(index)
          /\ \A i \in 1..Len(reader.chunks) :
                \A u \in Lines(reader.got), v \in Lines(files[i]) : v < u
    /\ Descending(reader.got)

OrderInv == deleted = {} /\ strayed = {} => FilesInv /\ AppendInv /\ BackwardsInv

IInv == TypeOK /\ SizeInv /\ WriteInv /\ AckedIsStored /\ AckedIsNamed /\ ReadInv /\ OrderInv

-----------------------------------------------------------------------------
(* What the helpers of the model return.                                   *)

LEMMA LinesAppend ==
    ASSUME NEW s \in Seq(Times), NEW t \in Times
    PROVE  /\ Append(s, t) \in Seq(Times)
           /\ Lines(Append(s, t)) = Lines(s) \cup {t}
  <1>1. /\ Append(s, t) \in Seq(Times)
        /\ Len(Append(s, t)) = Len(s) + 1 /\ Len(s) \in Nat
        /\ \A i \in 1..Len(s) : Append(s, t)[i] = s[i]
        /\ Append(s, t)[Len(s) + 1] = t
    OBVIOUS
  <1>2. \A i : i \in 1..(Len(s) + 1) <=> i \in 1..Len(s) \/ i = Len(s) + 1
    BY <1>1
  <1> QED
    BY <1>1, <1>2 DEF Lines

LEMMA LinesConcat ==
    ASSUME NEW s \in Seq(Times), NEW r \in Seq(Times)
    PROVE  /\ s \o r \in Seq(Times)
           /\ Lines(s \o r) = Lines(s) \cup Lines(r)
  <1>1. /\ s \o r \in Seq(Times) /\ Len(s) \in Nat /\ Len(r) \in Nat
        /\ Len(s \o r) = Len(s) + Len(r)
        /\ \A i \in 1..Len(s) : (s \o r)[i] = s[i]
        /\ \A i \in 1..Len(r) : (s \o r)[Len(s) + i] = r[i]
    OBVIOUS
  <1>2. \A i \in 1..(Len(s) + Len(r)) :
           i \in 1..Len(s) \/ \E j \in 1..Len(r) : i = Len(s) + j
    <2> SUFFICES ASSUME NEW i \in 1..(Len(s) + Len(r)), i \notin 1..Len(s)
                 PROVE  \E j \in 1..Len(r) : i = Len(s) + j
      OBVIOUS
    <2>1. i - Len(s) \in 1..Len(r) /\ i = Len(s) + (i - Len(s))
      BY <1>1
    <2> QED
      BY <2>1
  <1>3. /\ \A i \in 1..Len(s) : i \in 1..(Len(s) + Len(r))
        /\ \A j \in 1..Len(r) : Len(s) + j \in 1..(Len(s) + Len(r))
    BY <1>1
  <1>4. \A u : u \in Lines(s \o r) => u \in Lines(s) \/ u \in Lines(r)
    BY <1>1, <1>2 DEF Lines
  <1>5. \A u : u \in Lines(s) \/ u \in Lines(r) => u \in Lines(s \o r)
    BY <1>1, <1>3 DEF Lines
  <1> QED
    BY <1>1, <1>4, <1>5

LEMMA LinesAreTimes == ASSUME NEW s \in Seq(Times) PROVE Lines(s) \subseteq Times
  BY DEF Lines

LEMMA BackwardsLines ==
    ASSUME NEW s \in Seq(Times)
    PROVE  /\ Backwards(s) \in Seq(Times) /\ Len(Backwards(s)) = Len(s)
           /\ \A i \in 1..Len(s) : Backwards(s)[i] = s[Len(s) + 1 - i]
           /\ Lines(Backwards(s)) = Lines(s)
  <1>1. \A i \in 1..Len(s) : Len(s) + 1 - i \in 1..Len(s) /\ Len(s) \in Nat
    OBVIOUS
  <1>2. /\ Backwards(s) \in Seq(Times) /\ Len(Backwards(s)) = Len(s)
        /\ \A i \in 1..Len(s) : Backwards(s)[i] = s[Len(s) + 1 - i]
    BY <1>1 DEF Backwards
  <1>3. \A i \in 1..Len(s) : s[i] = Backwards(s)[Len(s) + 1 - i]
    <2> SUFFICES ASSUME NEW i \in 1..Len(s) PROVE s[i] = Backwards(s)[Len(s) + 1 - i]
      OBVIOUS
    <2>1. Len(s) + 1 - (Len(s) + 1 - i) = i
      OBVIOUS
    <2> QED
      BY <1>1, <1>2, <2>1
  <1>4. \A u : u \in Lines(Backwards(s)) <=> u \in Lines(s)
    <2>1. \A i \in 1..Len(s) : Backwards(s)[i] \in Lines(s)
      BY <1>1, <1>2 DEF Lines
    <2>2. \A i \in 1..Len(s) : s[i] \in Lines(Backwards(s))
      BY <1>1, <1>2, <1>3 DEF Lines
    <2> QED
      BY <1>2, <2>1, <2>2 DEF Lines
  <1> QED
    BY <1>2, <1>4

(* Dropping one line leaves a sequence that has all the others.            *)
Drop(s, i) == SubSeq(s, 1, i - 1) \o SubSeq(s, i + 1, Len(s))

LEMMA Dropped ==
    ASSUME NEW S, NEW s \in Seq(S), NEW i \in 1..Len(s)
    PROVE  /\ Drop(s, i) \in Seq(S) /\ Len(Drop(s, i)) = Len(s) - 1
           /\ \A j \in 1..Len(s) : j # i => \E k \in 1..Len(Drop(s, i)) : Drop(s, i)[k] = s[j]
  <1> DEFINE a == SubSeq(s, 1, i - 1)
             b == SubSeq(s, i + 1, Len(s))
             r == a \o b
  <1>1. /\ a \in Seq(S) /\ Len(a) = i - 1 /\ \A k \in 1..(i - 1) : a[k] = s[k]
    OBVIOUS
  <1>2. /\ b \in Seq(S) /\ Len(b) = Len(s) - i
        /\ \A k \in 1..(Len(s) - i) : b[k] = s[i + k]
    OBVIOUS
  <1>3. Len(s) \in Nat /\ i \in Nat
    OBVIOUS
  <1> HIDE DEF a, b
  <1>4. /\ r \in Seq(S) /\ Len(r) = Len(s) - 1
        /\ \A k \in 1..(i - 1) : r[k] = a[k]
        /\ \A k \in 1..(Len(s) - i) : r[(i - 1) + k] = b[k]
    <2>1. r \in Seq(S) /\ Len(r) = Len(a) + Len(b)
      <3>1. a \in Seq(S) /\ b \in Seq(S)
        BY <1>1, <1>2
      <3> QED
        BY <3>1
    <2>2. \A k \in 1..Len(a) : r[k] = a[k]
      BY <1>1, <1>2
    <2>3. \A k \in 1..Len(b) : r[Len(a) + k] = b[k]
      BY <1>1, <1>2
    <2> HIDE DEF r
    <2> QED
      BY <1>1, <1>2, <1>3, <2>1, <2>2, <2>3
  <1> HIDE DEF r
  <1>5. ASSUME NEW j \in 1..Len(s), j # i PROVE \E k \in 1..Len(r) : r[k] = s[j]
    <2>1. CASE j < i
      <3>1. j \in 1..(i - 1) /\ j \in 1..Len(r)
        BY <1>3, <1>4, <1>5, <2>1
      <3> QED
        BY <1>1, <1>4, <3>1
    <2>2. CASE j > i
      <3>1. /\ j - i \in 1..(Len(s) - i) /\ (i - 1) + (j - i) \in 1..Len(r)
            /\ i + (j - i) = j
        BY <1>3, <1>4, <2>2
      <3> QED
        BY <1>2, <1>4, <3>1
    <2> QED
      BY <1>5, <2>1, <2>2
  <1>6. Drop(s, i) = r
    BY DEF Drop, r, a, b
  <1> QED
    BY <1>4, <1>5, <1>6

LEMMA WithoutLines ==
    ASSUME NEW s \in Seq(Times), NEW t
    PROVE  /\ Without(s, t) \in Seq(Times)
           /\ \A u \in Lines(s) : u # t => u \in Lines(Without(s, t))
  <1>1. CASE t \notin Lines(s)
    BY <1>1 DEF Without
  <1>2. CASE t \in Lines(s)
    <2> DEFINE i == CHOOSE i \in 1..Len(s) : s[i] = t
    <2>1. i \in 1..Len(s) /\ s[i] = t
      BY <1>2 DEF Lines
    <2>2. Without(s, t) = Drop(s, i)
      BY <1>2 DEF Without, Drop
    <2> HIDE DEF i
    <2>3. /\ Without(s, t) \in Seq(Times)
          /\ \A j \in 1..Len(s) : j # i =>
                \E k \in 1..Len(Without(s, t)) : Without(s, t)[k] = s[j]
      <3>1. /\ Drop(s, i) \in Seq(Times)
            /\ \A j \in 1..Len(s) : j # i =>
                  \E k \in 1..Len(Drop(s, i)) : Drop(s, i)[k] = s[j]
        BY <2>1, Dropped
      <3> QED
        BY <2>2, <3>1
    <2> QED
      BY <2>1, <2>3 DEF Lines
  <1> QED
    BY <1>1, <1>2

LEMMA ChunkTyped ==
    ASSUME NEW n \in Numbers, NEW c \in Nat, NEW lo \in Times, NEW hi \in Times
    PROVE  Chunk(n, c, lo, hi) \in Chunks /\ Chunk(n, c, lo, hi).file = n
  BY DEF Chunk, Chunks

(* The index of an append: the names stay, and the last one is the file    *)
(* that is written.                                                        *)
LEMMA AppendedNames ==
    ASSUME NEW ix \in Seq(Chunks), NEW t \in Times, Len(ix) + 1 \in Numbers
    PROVE  LET new == AppendedIndex(ix, t) IN
           /\ new \in Seq(Chunks)
           /\ Len(new) = LastFile(ix)
           /\ Len(new) \in {Len(ix), Len(ix) + 1} /\ Len(new) >= 1
           /\ \A i \in 1..Len(ix) : new[i].file = ix[i].file
           /\ Full(ix) => new[Len(new)].file = Len(ix) + 1
  <1>1. CASE Full(ix)
    <2>1. AppendedIndex(ix, t) = Append(ix, Chunk(Len(ix) + 1, 1, t, t))
      BY <1>1 DEF Full, AppendedIndex
    <2>2. /\ Chunk(Len(ix) + 1, 1, t, t) \in Chunks
          /\ Chunk(Len(ix) + 1, 1, t, t).file = Len(ix) + 1
      BY ChunkTyped
    <2> QED
      BY <1>1, <2>1, <2>2 DEF LastFile
  <1>2. CASE ~Full(ix)
    <2>1. /\ Len(ix) \in 1..Len(ix) /\ ix # <<>>
          /\ ~(ix[Len(ix)].count >= CHUNK_SIZE)
      BY <1>2 DEF Full
    <2> DEFINE n == Len(ix)
               c == [ix[n] EXCEPT !.count = @ + 1]
               d == [c EXCEPT !.endTime = t]
    <2>2. AppendedIndex(ix, t) = [ix EXCEPT ![n] = d]
      <3>1. AppendedIndex(ix, t) = [ix EXCEPT ![n].count = @ + 1, ![n].endTime = t]
        BY <2>1 DEF AppendedIndex
      <3> QED
        BY <2>1, <3>1
    <2>3. d \in Chunks /\ d.file = ix[n].file
      <3>1. ix[n] \in Chunks
        BY <2>1
      <3>2. c \in Chunks /\ c.file = ix[n].file
        <4>1. ix[n].count + 1 \in Nat
          BY <3>1 DEF Chunks
        <4> QED
          BY <3>1, <4>1 DEF Chunks
      <3> HIDE DEF c
      <3> QED
        BY <3>2 DEF Chunks
    <2> HIDE DEF d
    <2>4. AppendedIndex(ix, t) \in Seq(Chunks) /\ Len(AppendedIndex(ix, t)) = n
          /\ \A i \in 1..n : AppendedIndex(ix, t)[i].file = ix[i].file
      BY <2>1, <2>2, <2>3
    <2> QED
      BY <1>2, <2>1, <2>4 DEF LastFile
  <1> QED
    BY <1>1, <1>2

(* The index of a deletion: only the name of an emptied file goes.         *)
LEMMA RemainingNames ==
    ASSUME index \in Seq(Chunks), NEW i \in 1..Len(index), NEW kept \in Seq(Times)
    PROVE  LET new == RemainingIndex(i, kept) IN
           /\ new \in Seq(Chunks) /\ Len(new) <= Len(index)
           /\ \A f \in Named(index) : f \in Named(new) \/ (f = index[i].file /\ kept = <<>>)
  <1>1. CASE kept = <<>>
    <2>1. RemainingIndex(i, kept) = Drop(index, i)
      BY <1>1 DEF RemainingIndex, Drop
    <2>2. /\ RemainingIndex(i, kept) \in Seq(Chunks)
          /\ Len(RemainingIndex(i, kept)) = Len(index) - 1
          /\ \A j \in 1..Len(index) : j # i =>
                \E k \in 1..Len(RemainingIndex(i, kept)) : RemainingIndex(i, kept)[k] = index[j]
      BY <2>1, Dropped
    <2>3. \A f \in Named(index) : f \in Named(RemainingIndex(i, kept)) \/ f = index[i].file
      BY <2>2 DEF Named
    <2> QED
      BY <1>1, <2>2, <2>3
  <1>2. CASE kept # <<>>
    <2> DEFINE c == Chunk(index[i].file, Len(kept), kept[1], kept[Len(kept)])
    <2>1. c \in Chunks /\ c.file = index[i].file
      <3>1. index[i].file \in Numbers
        <4>1. index[i] \in Chunks
          OBVIOUS
        <4> QED
          BY <4>1 DEF Chunks
      <3>2. kept[1] \in Times /\ kept[Len(kept)] \in Times /\ Len(kept) \in Nat
        BY <1>2
      <3> QED
        BY <3>1, <3>2, ChunkTyped
    <2>2. RemainingIndex(i, kept) = [index EXCEPT ![i] = c]
      BY <1>2 DEF RemainingIndex
    <2> HIDE DEF c
    <2>3. /\ RemainingIndex(i, kept) \in Seq(Chunks)
          /\ Len(RemainingIndex(i, kept)) = Len(index) /\ Len(index) \in Nat
          /\ \A j \in 1..Len(index) : RemainingIndex(i, kept)[j].file = index[j].file
      BY <2>1, <2>2
    <2> QED
      BY <2>3 DEF Named
  <1> QED
    BY <1>1, <1>2

-----------------------------------------------------------------------------
(* Types and sizes.                                                        *)

OpRecords ==
    [kind: {"none", "append", "delete"}, at: {"idle", "file", "index"},
     time: Nat, file: Nat, lines: Seq(Times), index: Seq(Chunks), blind: BOOLEAN]

ReadRecords ==
    [at: {"idle", "reading", "done", "rejected"}, chunks: Seq(Numbers),
     got: Seq(Times), wanted: SUBSET Times, blind: BOOLEAN]

LEMMA TypeMeans ==
    TypeOK <=>
        /\ index \in Seq(Chunks) /\ files \in [Numbers -> Seq(Times)]
        /\ op \in OpRecords /\ reader \in ReadRecords
        /\ next \in Nat /\ fails \in Nat
        /\ acked \subseteq Times /\ deleted \subseteq Times
        /\ forgot \subseteq Times /\ strayed \subseteq Times
  BY DEF TypeOK, OpRecords, ReadRecords

LEMMA NoOpTyped == NoOp \in OpRecords /\ NoOp.at = "idle"
  BY DEF NoOp, OpRecords

LEMMA NoReadTyped == NoRead \in ReadRecords /\ NoRead.at = "idle" /\ NoRead.got = <<>>
  BY DEF NoRead, ReadRecords

(* The names of the chunks have files.                                     *)
LEMMA NamesAreNumbers == TypeOK => \A i \in 1..Len(index) : index[i].file \in Numbers
  <1> SUFFICES ASSUME TypeOK, NEW i \in 1..Len(index) PROVE index[i].file \in Numbers
    OBVIOUS
  <1>1. index[i] \in Chunks
    BY TypeMeans
  <1> QED
    BY <1>1 DEF Chunks

(* What the start of an append does with the index it read.                *)
Starts(ix) ==
    LET new == AppendedIndex(ix, next) IN
    /\ next \in Times /\ op.at = "idle"
    /\ ix \in Seq(Chunks) /\ Len(ix) + 1 \in Numbers
    /\ new[Len(new)].file \in Numbers
    /\ op' = [kind |-> "append", at |-> "file", time |-> next,
              file |-> new[Len(new)].file,
              lines |-> Append(files[new[Len(new)].file], next),
              index |-> new, blind |-> ix # index]
    /\ next' = next + 1 /\ fails' \in Nat
    /\ UNCHANGED <<index, files, reader, acked, deleted, forgot, strayed>>

LEMMA AppendStarts ==
    ASSUME TypeOK, SizeInv, AppendStart
    PROVE  \E ix \in {index, <<>>} : Starts(ix)
  <1>1. PICK ix \in IndexRead :
           /\ op' = [kind |-> "append", at |-> "file", time |-> next,
                     file |-> AppendedIndex(ix, next)[Len(AppendedIndex(ix, next))].file,
                     lines |-> Append(files[AppendedIndex(ix, next)[Len(AppendedIndex(ix, next))].file], next),
                     index |-> AppendedIndex(ix, next), blind |-> ix # index]
           /\ Spent(ix)
    BY DEF AppendStart, AppendedLines
  <1> DEFINE new == AppendedIndex(ix, next)
  <1>2. /\ next \in Times /\ op.at = "idle" /\ next' = next + 1
        /\ UNCHANGED <<index, files, reader, acked, deleted, forgot, strayed>>
    BY StoreConstants DEF AppendStart, ghosts, TypeOK, SizeInv, Times
  <1>3. ix \in {index, <<>>} /\ (ix # index => fails > 0) /\ ix \in Seq(Chunks)
    <2>1. ix \in {index, <<>>} /\ (ix # index => fails > 0)
      BY DEF IndexRead
    <2>2. index \in Seq(Chunks) /\ <<>> \in Seq(Chunks)
      BY DEF TypeOK
    <2> QED
      BY <2>1, <2>2
  <1>4. fails' \in Nat
    BY <1>1, <1>3 DEF Spent, TypeOK
  <1>5. Len(ix) + 1 \in Numbers
    <2>1. Len(index) \in Nat /\ Len(index) < next
      BY DEF TypeOK, SizeInv
    <2>2. Len(ix) \in Nat /\ Len(ix) < next
      BY <1>2, <1>3, <2>1 DEF Times
    <2>3. next \in 1..MaxSnapshots /\ MaxSnapshots \in Nat
      BY <1>2, StoreConstants DEF Times
    <2> QED
      BY <2>2, <2>3 DEF Numbers
  <1>6. new \in Seq(Chunks) /\ Len(new) >= 1
    BY <1>2, <1>3, <1>5, AppendedNames
  <1>7. new[Len(new)].file \in Numbers
    <2> HIDE DEF new
    <2>1. new[Len(new)] \in Chunks
      BY <1>6
    <2> QED
      BY <2>1 DEF Chunks
  <1>8. Starts(ix)
    BY <1>1, <1>2, <1>3, <1>4, <1>5, <1>7 DEF Starts
  <1> QED
    BY <1>3, <1>8

(* What the start of a deletion does: t leaves file f, and what is kept of *)
(* the file and of the index follows.                                      *)
Deletes(t, f, kept, new) ==
    /\ op.at = "idle" /\ t < next
    /\ Len(new) <= Len(index)
    /\ \A u \in Lines(files[f]) : u # t => u \in Lines(kept)
    /\ \A g \in Named(index) : g \in Named(new) \/ (g = f /\ kept = <<>>)
    /\ op' = [kind |-> "delete", at |-> "file", time |-> t, file |-> f,
              lines |-> kept, index |-> new, blind |-> FALSE]
    /\ deleted' = deleted \cup {t}
    /\ UNCHANGED <<index, files, reader, next, acked, forgot, strayed, fails>>

LEMMA DeleteStarts ==
    ASSUME TypeOK, SizeInv, NEW t \in Times, DeleteStart(t)
    PROVE  \E f \in Numbers, kept \in Seq(Times), new \in Seq(Chunks) :
              Deletes(t, f, kept, new)
  <1>1. PICK i \in 1..Len(index) :
           op' = [kind |-> "delete", at |-> "file", time |-> t, file |-> index[i].file,
                  lines |-> Without(files[index[i].file], t),
                  index |-> RemainingIndex(i, Without(files[index[i].file], t)),
                  blind |-> FALSE]
    BY DEF DeleteStart
  <1> DEFINE f == index[i].file
             kept == Without(files[f], t)
             new == RemainingIndex(i, kept)
  <1>2. f \in Numbers
    BY NamesAreNumbers
  <1>3. files[f] \in Seq(Times)
    BY <1>2 DEF TypeOK
  <1> HIDE DEF f
  <1>4. kept \in Seq(Times) /\ \A u \in Lines(files[f]) : u # t => u \in Lines(kept)
    BY <1>3, WithoutLines
  <1> HIDE DEF kept
  <1>5. /\ new \in Seq(Chunks) /\ Len(new) <= Len(index)
        /\ \A g \in Named(index) : g \in Named(new) \/ (g = f /\ kept = <<>>)
    BY <1>4, RemainingNames DEF TypeOK, f
  <1>6. op' = [kind |-> "delete", at |-> "file", time |-> t, file |-> f,
               lines |-> kept, index |-> new, blind |-> FALSE]
    BY <1>1 DEF f, kept
  <1> HIDE DEF new
  <1>7. /\ op.at = "idle" /\ t < next /\ deleted' = deleted \cup {t}
        /\ UNCHANGED <<index, files, reader, next, acked, forgot, strayed, fails>>
    BY DEF DeleteStart
  <1>8. Deletes(t, f, kept, new)
    BY <1>4, <1>5, <1>6, <1>7 DEF Deletes
  <1> QED
    BY <1>2, <1>4, <1>5, <1>8

LEMMA InitTyped == Init => TypeOK /\ SizeInv
  <1> SUFFICES ASSUME Init PROVE TypeOK /\ SizeInv
    OBVIOUS
  <1>1. /\ index = <<>> /\ files \in [Numbers -> Seq(Times)] /\ next = 1
        /\ op = NoOp /\ reader = NoRead /\ acked = {} /\ deleted = {} /\ fails \in Nat
        /\ forgot = {} /\ strayed = {}
    BY StoreConstants DEF Init
  <1>2. TypeOK
    <2>1. index \in Seq(Chunks) /\ next \in Nat
      BY <1>1
    <2> QED
      BY <1>1, <2>1, NoOpTyped, NoReadTyped, TypeMeans
  <1>3. SizeInv
    BY <1>1, NoOpTyped, StoreConstants DEF SizeInv
  <1> QED
    BY <1>2, <1>3

(* The next chunk of a read, in its three ways.                            *)
LEMMA ReadsChunk ==
    ASSUME TypeOK, ReadChunk
    PROVE  /\ reader.at = "reading"
           /\ UNCHANGED <<index, files, op, next, acked, deleted, forgot, strayed, fails>>
           /\ \/ /\ reader.chunks = <<>>
                 /\ reader' = [reader EXCEPT !.at = "done"]
              \/ reader' = [NoRead EXCEPT !.at = "rejected"]
              \/ \E n \in 1..Len(reader.chunks) :
                    /\ n = Len(reader.chunks)
                    /\ reader' = [reader EXCEPT
                                     !.chunks = SubSeq(reader.chunks, 1, n - 1),
                                     !.got = reader.got \o Backwards(files[reader.chunks[n]])]
  <1>1. /\ reader.at = "reading"
        /\ UNCHANGED <<index, files, op, next, acked, deleted, forgot, strayed, fails>>
    BY DEF ReadChunk, ghosts
  <1>2. reader.chunks \in Seq(Numbers)
    BY TypeMeans DEF ReadRecords
  <1>3. CASE Len(reader.chunks) = 0
    BY <1>1, <1>2, <1>3 DEF ReadChunk
  <1>4. CASE Len(reader.chunks) # 0
    <2>1. Len(reader.chunks) \in 1..Len(reader.chunks)
      BY <1>2, <1>4
    <2>2. CASE files[reader.chunks[Len(reader.chunks)]] = <<>>
      BY <1>1, <1>4, <2>2 DEF ReadChunk
    <2>3. CASE files[reader.chunks[Len(reader.chunks)]] # <<>>
      BY <1>1, <1>4, <2>1, <2>3 DEF ReadChunk
    <2> QED
      BY <2>2, <2>3
  <1> QED
    BY <1>3, <1>4

(* Reading one more chunk: what is left to read and what was got.          *)
LEMMA ReadsOne ==
    ASSUME TypeOK, NEW n \in 1..Len(reader.chunks), n = Len(reader.chunks),
           reader' = [reader EXCEPT
                         !.chunks = SubSeq(reader.chunks, 1, n - 1),
                         !.got = reader.got \o Backwards(files[reader.chunks[n]])]
    PROVE  /\ reader' \in ReadRecords
           /\ reader'.at = reader.at /\ reader'.wanted = reader.wanted
           /\ reader'.blind = reader.blind
           /\ Len(reader'.chunks) = n - 1
           /\ \A i \in 1..(n - 1) : reader'.chunks[i] = reader.chunks[i]
           /\ reader'.got = reader.got \o Backwards(files[reader.chunks[n]])
           /\ Lines(reader'.got) = Lines(reader.got) \cup Lines(files[reader.chunks[n]])
  <1>1. reader \in ReadRecords /\ reader.chunks \in Seq(Numbers) /\ reader.got \in Seq(Times)
    BY TypeMeans DEF ReadRecords
  <1> DEFINE s == files[reader.chunks[n]]
             rest == SubSeq(reader.chunks, 1, n - 1)
             got == reader.got \o Backwards(s)
  <1>2. s \in Seq(Times)
    <2>1. reader.chunks[n] \in Numbers
      BY <1>1
    <2> QED
      BY <2>1, TypeMeans
  <1>3. /\ rest \in Seq(Numbers) /\ Len(rest) = n - 1
        /\ \A i \in 1..(n - 1) : rest[i] = reader.chunks[i]
    BY <1>1
  <1> HIDE DEF s, rest
  <1>4. got \in Seq(Times) /\ Lines(got) = Lines(reader.got) \cup Lines(s)
    BY <1>1, <1>2, BackwardsLines, LinesConcat
  <1>5. reader' = [reader EXCEPT !.chunks = rest, !.got = got]
    BY DEF s, rest
  <1> HIDE DEF got
  <1>6. /\ reader' \in ReadRecords
        /\ reader'.at = reader.at /\ reader'.wanted = reader.wanted
        /\ reader'.blind = reader.blind
        /\ reader'.chunks = rest /\ reader'.got = got
    BY <1>1, <1>3, <1>4, <1>5 DEF ReadRecords
  <1> QED
    BY <1>3, <1>4, <1>6 DEF s, got

(* Every step keeps the types and the sizes.                               *)
LEMMA NextTyped == TypeOK /\ SizeInv /\ [Next]_vars => TypeOK' /\ SizeInv'
  <1> SUFFICES ASSUME TypeOK, SizeInv, [Next]_vars PROVE TypeOK' /\ SizeInv'
    OBVIOUS
  <1> DEFINE Typed == /\ index \in Seq(Chunks) /\ files \in [Numbers -> Seq(Times)]
                      /\ op \in OpRecords /\ reader \in ReadRecords
                      /\ next \in Nat /\ fails \in Nat
                      /\ acked \subseteq Times /\ deleted \subseteq Times
                      /\ forgot \subseteq Times /\ strayed \subseteq Times
  <1>t. Typed /\ (TypeOK' <=> Typed')
    BY TypeMeans DEF TypeOK, OpRecords, ReadRecords
  <1>1. CASE AppendStart
    <2>1. PICK ix \in {index, <<>>} : Starts(ix)
      BY <1>1, AppendStarts
    <2> DEFINE new == AppendedIndex(ix, next)
               f == new[Len(new)].file
    <2>2. /\ next \in Times /\ Len(ix) + 1 \in Numbers /\ f \in Numbers
          /\ ix \in Seq(Chunks)
          /\ op' = [kind |-> "append", at |-> "file", time |-> next, file |-> f,
                    lines |-> Append(files[f], next), index |-> new, blind |-> ix # index]
          /\ next' = next + 1 /\ fails' \in Nat
          /\ UNCHANGED <<index, files, reader, acked, deleted, forgot, strayed>>
      BY <2>1 DEF Starts
    <2>3. new \in Seq(Chunks) /\ Len(new) \in {Len(ix), Len(ix) + 1}
      BY <2>2, AppendedNames
    <2>4. Len(new) < next + 1
      <3>1. Len(index) \in Nat /\ Len(index) < next
        BY <1>t DEF SizeInv
      <3>2. Len(ix) \in Nat /\ Len(ix) < next
        BY <2>1, <2>2, <3>1 DEF Times
      <3> HIDE DEF new
      <3> QED
        BY <2>2, <2>3, <3>2 DEF Times
    <2> HIDE DEF new, f
    <2>5. Append(files[f], next) \in Seq(Times)
      BY <1>t, <2>2
    <2>6. op' \in OpRecords
      BY <2>2, <2>3, <2>5, StoreConstants DEF OpRecords, Times, Numbers
    <2>7. Typed'
      BY <1>t, <2>2, <2>6 DEF Times
    <2>8. SizeInv'
      BY <1>t, <2>2, <2>4, StoreConstants DEF SizeInv, Times
    <2> QED
      BY <1>t, <2>7, <2>8
  <1>2. ASSUME NEW t \in Times, DeleteStart(t) PROVE TypeOK' /\ SizeInv'
    <2>0. PICK f \in Numbers, kept \in Seq(Times), new \in Seq(Chunks) :
             Deletes(t, f, kept, new)
      BY <1>2, DeleteStarts
    <2>1. /\ t < next /\ Len(new) <= Len(index)
          /\ op' = [kind |-> "delete", at |-> "file", time |-> t, file |-> f,
                    lines |-> kept, index |-> new, blind |-> FALSE]
          /\ deleted' = deleted \cup {t}
          /\ UNCHANGED <<index, files, reader, next, acked, forgot, strayed, fails>>
      BY <2>0 DEF Deletes
    <2>2. op' \in OpRecords
      BY <2>1, StoreConstants DEF OpRecords, Times, Numbers
    <2>3. Typed'
      BY <1>t, <2>1, <2>2
    <2>4. SizeInv'
      BY <1>t, <2>1, StoreConstants DEF SizeInv
    <2> QED
      BY <1>t, <2>3, <2>4
  <1>3. CASE WriteFile
    <2>1. op.file \in Numbers /\ op.lines \in Seq(Times)
      BY <1>t, <1>3 DEF WriteFile, SizeInv, OpRecords
    <2>2. op' \in OpRecords /\ op' = [op EXCEPT !.at = "index"]
      BY <1>t, <1>3 DEF WriteFile, OpRecords
    <2>3. Typed'
      <3>1. op.time \in Times
        BY <1>3 DEF WriteFile, SizeInv
      <3>2. strayed' \subseteq Times
        BY <1>t, <1>3, <3>1 DEF WriteFile
      <3> QED
        BY <1>t, <1>3, <2>1, <2>2, <3>2 DEF WriteFile
    <2>4. SizeInv'
      <3>1. /\ op.at # "idle" /\ op'.kind = op.kind /\ op'.file = op.file
            /\ op'.time = op.time /\ op'.index = op.index
        BY <1>t, <1>3, <2>2 DEF WriteFile, OpRecords
      <3> QED
        BY <1>3, <3>1 DEF WriteFile, SizeInv
    <2> QED
      BY <1>t, <2>3, <2>4
  <1>4. CASE SaveIndex
    <2>1. op.index \in Seq(Chunks) /\ op.time \in Times /\ Len(op.index) < next
      BY <1>t, <1>4 DEF SaveIndex, SizeInv, OpRecords
    <2>2. Typed'
      BY <1>t, <1>4, <2>1, NoOpTyped DEF SaveIndex
    <2>3. SizeInv'
      BY <1>4, <2>1, NoOpTyped DEF SaveIndex, SizeInv
    <2> QED
      BY <1>t, <2>2, <2>3
  <1>5. CASE WriteFails
    <2>1. Typed'
      BY <1>t, <1>5, NoOpTyped DEF WriteFails, ghosts
    <2>2. SizeInv'
      BY <1>5, NoOpTyped DEF WriteFails, SizeInv
    <2> QED
      BY <1>t, <2>1, <2>2
  <1>6. CASE ReadStart
    <2>1. PICK ix \in IndexRead :
             /\ reader' = [at |-> "reading", chunks |-> [i \in 1..Len(ix) |-> ix[i].file],
                           got |-> <<>>, wanted |-> acked \ forgot, blind |-> ix # index]
             /\ Spent(ix)
      BY <1>6 DEF ReadStart
    <2>2. ix \in {index, <<>>} /\ (ix # index => fails > 0)
      BY DEF IndexRead
    <2>3. [i \in 1..Len(ix) |-> ix[i].file] \in Seq(Numbers)
      <3>1. \A i \in 1..Len(ix) : ix[i].file \in Numbers
        BY <2>2, NamesAreNumbers
      <3>2. Len(ix) \in Nat
        BY <1>t, <2>2
      <3> QED
        BY <3>1, <3>2
    <2>4. reader' \in ReadRecords
      BY <1>t, <2>1, <2>3 DEF ReadRecords
    <2>5. fails' \in Nat
      BY <1>t, <2>1, <2>2 DEF Spent
    <2>6. Typed' /\ SizeInv'
      BY <1>t, <1>6, <2>4, <2>5 DEF ReadStart, ghosts, SizeInv
    <2> QED
      BY <1>t, <2>6
  <1>7. CASE ReadChunk
    <2>1. UNCHANGED <<index, files, op, next, acked, deleted, forgot, strayed, fails>>
      BY <1>7 DEF ReadChunk, ghosts
    <2>2. reader' \in ReadRecords
      <3>1. [reader EXCEPT !.at = "done"] \in ReadRecords
        BY <1>t DEF ReadRecords
      <3>2. [NoRead EXCEPT !.at = "rejected"] \in ReadRecords
        BY NoReadTyped DEF ReadRecords
      <3> QED
        BY <1>7, <3>1, <3>2, ReadsChunk, ReadsOne
    <2>3. Typed' /\ SizeInv'
      BY <1>t, <2>1, <2>2 DEF SizeInv
    <2> QED
      BY <1>t, <2>3
  <1>8. CASE ReadReturns
    <2>1. Typed' /\ SizeInv'
      BY <1>t, <1>8, NoReadTyped DEF ReadReturns, ghosts, SizeInv
    <2> QED
      BY <1>t, <2>1
  <1>9. CASE UNCHANGED vars
    BY <1>t, <1>9 DEF vars, ghosts, SizeInv
  <1>10. CASE UnlinkFails
    <2>0. fails' \in Nat
      BY <1>t, <1>10 DEF UnlinkFails
    <2>1. op' \in OpRecords /\ op' = [op EXCEPT !.at = "index"]
      BY <1>t, <1>10 DEF UnlinkFails, OpRecords
    <2>2. Typed'
      BY <1>t, <1>10, <2>0, <2>1 DEF UnlinkFails, ghosts
    <2>3. SizeInv'
      <3>1. /\ op.at # "idle" /\ op'.kind = op.kind /\ op'.file = op.file
            /\ op'.time = op.time /\ op'.index = op.index
        BY <1>t, <1>10, <2>1 DEF UnlinkFails, OpRecords
      <3> QED
        BY <1>10, <3>1 DEF UnlinkFails, SizeInv
    <2> QED
      BY <1>t, <2>2, <2>3
  <1>11. CASE DeleteMisses
    <2>1. Typed' /\ SizeInv'
      BY <1>t, <1>11 DEF DeleteMisses, ghosts, SizeInv
    <2> QED
      BY <1>t, <2>1
  <1> QED
    BY <1>1, <1>2, <1>3, <1>4, <1>5, <1>6, <1>7, <1>8, <1>9, <1>10, <1>11 DEF Next

-----------------------------------------------------------------------------
(* No confirmed snapshot is lost, and its file is named.                   *)

(* AckedIsNamed, read with the names of the index.                         *)
LEMMA AckedMeans ==
    AckedIsNamed <=>
        \A t \in acked \ (deleted \cup forgot) :
            \E f \in Named(index) : t \in Lines(files[f])
  BY DEF AckedIsNamed, Named

LEMMA AckedMeansNext ==
    AckedIsNamed' <=>
        \A t \in acked' \ (deleted' \cup forgot') :
            \E f \in Named(index)' : t \in Lines(files[f])'
  BY DEF AckedIsNamed, Named

LEMMA InitWrite == Init => WriteInv /\ AckedIsStored /\ AckedIsNamed
  BY DEF Init, NoOp, WriteInv, AckedIsStored, AckedIsNamed

(* Whatever the writes do to the files, only a deletion takes a line away. *)
LEMMA FilesKeepLines ==
    ASSUME TypeOK, SizeInv, WriteInv, [Next]_vars
    PROVE  \A f \in Numbers : \A u \in Lines(files[f]) : u \in Lines(files'[f]) \/ u \in deleted'
  <1>1. CASE WriteFile
    <2>1. /\ op.at = "file" /\ op.file \in Numbers /\ deleted' = deleted
          /\ files' = [files EXCEPT ![op.file] = op.lines]
      BY <1>1 DEF WriteFile, SizeInv
    <2>2. files'[op.file] = op.lines /\ \A f \in Numbers : f # op.file => files'[f] = files[f]
      BY <2>1 DEF TypeOK
    <2> QED
      BY <2>1, <2>2 DEF WriteInv
  <1>2. CASE ~WriteFile
    <2>1. files' = files
      BY <1>2 DEF Next, AppendStart, DeleteStart, DeleteMisses, UnlinkFails, SaveIndex,
                  WriteFails, ReadStart, ReadChunk, ReadReturns, vars
    <2> QED
      BY <2>1
  <1> QED
    BY <1>1, <1>2

(* The names of the index of an append, beside those of the index it read. *)
LEMMA StartNames ==
    ASSUME TypeOK, NEW ix \in {index, <<>>}, Starts(ix)
    PROVE  LET new == AppendedIndex(ix, next) f == new[Len(new)].file IN
           /\ f \in Numbers /\ f \in Named(new)
           /\ \A g \in Named(ix) : g \in Named(new)
           /\ op'.at = "file" /\ op'.kind = "append" /\ op'.file = f /\ op'.time = next
           /\ op'.lines = Append(files[f], next) /\ op'.index = new
           /\ op'.blind = (ix # index)
           /\ Lines(Append(files[f], next)) = Lines(files[f]) \cup {next}
  <1> DEFINE new == AppendedIndex(ix, next)
             f == new[Len(new)].file
  <1>1. /\ next \in Times /\ ix \in Seq(Chunks) /\ Len(ix) + 1 \in Numbers /\ f \in Numbers
        /\ op' = [kind |-> "append", at |-> "file", time |-> next, file |-> f,
                  lines |-> Append(files[f], next), index |-> new, blind |-> ix # index]
    BY DEF Starts
  <1>2. /\ new \in Seq(Chunks) /\ Len(new) \in {Len(ix), Len(ix) + 1} /\ Len(new) >= 1
        /\ \A i \in 1..Len(ix) : new[i].file = ix[i].file
    BY <1>1, AppendedNames
  <1> HIDE DEF new
  <1>3. \A g \in Named(ix) : g \in Named(new)
    <2>1. \A i \in 1..Len(ix) : i \in 1..Len(new)
      BY <1>1, <1>2
    <2> QED
      BY <1>2, <2>1 DEF Named
  <1>4. f \in Named(new)
    <2>1. Len(new) \in 1..Len(new)
      BY <1>2
    <2> QED
      BY <2>1 DEF Named
  <1> HIDE DEF f
  <1>5. Lines(Append(files[f], next)) = Lines(files[f]) \cup {next}
    <2>1. files[f] \in Seq(Times)
      BY <1>1 DEF TypeOK
    <2> QED
      BY <1>1, <2>1, LinesAppend
  <1>6. /\ op'.at = "file" /\ op'.kind = "append" /\ op'.file = f /\ op'.time = next
        /\ op'.lines = Append(files[f], next) /\ op'.index = new
        /\ op'.blind = (ix # index)
    BY <1>1
  <1> QED
    BY <1>1, <1>3, <1>4, <1>5, <1>6 DEF new, f

LEMMA NextWrite ==
    TypeOK /\ SizeInv /\ WriteInv /\ [Next]_vars => WriteInv'
  <1> SUFFICES ASSUME TypeOK, SizeInv, WriteInv, [Next]_vars PROVE WriteInv'
    OBVIOUS
  <1>t. /\ index \in Seq(Chunks) /\ files \in [Numbers -> Seq(Times)] /\ op \in OpRecords
    BY TypeMeans
  <1>1. CASE AppendStart
    <2>1. PICK ix \in {index, <<>>} : Starts(ix)
      BY <1>1, AppendStarts
    <2> DEFINE new == AppendedIndex(ix, next)
               f == new[Len(new)].file
    <2>2. /\ f \in Named(new) /\ \A g \in Named(ix) : g \in Named(new)
          /\ op'.at = "file" /\ op'.kind = "append" /\ op'.file = f /\ op'.time = next
          /\ op'.lines = Append(files[f], next) /\ op'.index = new
          /\ op'.blind = (ix # index)
          /\ Lines(Append(files[f], next)) = Lines(files[f]) \cup {next}
      BY <2>1, StartNames
    <2> HIDE DEF new, f
    <2>3. index' = index /\ files' = files /\ Named(index)' = Named(index)
      BY <2>1 DEF Starts, Named
    <2>4. \A g \in Named(index)' : g \in Named(new) \/ ix # index
      BY <2>2, <2>3
    <2>5. /\ \A u \in Lines(files'[f]) : u \in Lines(Append(files[f], next))
          /\ next \in Lines(Append(files[f], next))
      BY <2>2, <2>3
    <2> QED
      BY <2>2, <2>4, <2>5 DEF WriteInv
  <1>2. ASSUME NEW t \in Times, DeleteStart(t) PROVE WriteInv'
    <2>0. PICK f \in Numbers, kept \in Seq(Times), new \in Seq(Chunks) :
             Deletes(t, f, kept, new)
      BY <1>2, DeleteStarts
    <2>1. /\ \A u \in Lines(files[f]) : u # t => u \in Lines(kept)
          /\ \A g \in Named(index) : g \in Named(new) \/ (g = f /\ kept = <<>>)
          /\ op' = [kind |-> "delete", at |-> "file", time |-> t, file |-> f,
                    lines |-> kept, index |-> new, blind |-> FALSE]
          /\ deleted' = deleted \cup {t}
          /\ UNCHANGED <<index, files, reader, next, acked, forgot, strayed, fails>>
      BY <2>0 DEF Deletes
    <2>2. /\ op'.at = "file" /\ op'.kind = "delete" /\ op'.file = f /\ op'.time = t
          /\ op'.lines = kept /\ op'.index = new
      BY <2>1
    <2> QED
      BY <2>1, <2>2 DEF WriteInv, Named
  <1>3. CASE WriteFile
    <2>1. /\ op.at = "file" /\ op.file \in Numbers
          /\ files' = [files EXCEPT ![op.file] = op.lines]
          /\ op' = [op EXCEPT !.at = "index"]
          /\ UNCHANGED <<index, acked, deleted>>
      BY <1>3 DEF WriteFile, SizeInv
    <2>2. /\ op'.at = "index" /\ op'.kind = op.kind /\ op'.file = op.file
          /\ op'.time = op.time /\ op'.lines = op.lines /\ op'.index = op.index
          /\ op'.blind = op.blind
      BY <1>t, <2>1 DEF OpRecords
    <2>3. files'[op.file] = op.lines
      BY <1>t, <2>1
    <2> QED
      BY <2>1, <2>2, <2>3 DEF WriteInv, Named
  <1>4. CASE UnlinkFails
    <2>1. /\ op.at = "file" /\ op.kind = "delete" /\ op' = [op EXCEPT !.at = "index"]
          /\ UNCHANGED <<index, files, deleted>>
      BY <1>4 DEF UnlinkFails, ghosts
    <2>2. /\ op'.at = "index" /\ op'.kind = "delete" /\ op'.file = op.file
          /\ op'.lines = op.lines /\ op'.index = op.index /\ op'.blind = op.blind
      BY <1>t, <2>1 DEF OpRecords
    <2> QED
      BY <2>1, <2>2 DEF WriteInv, Named
  <1>5. CASE SaveIndex \/ WriteFails
    BY <1>5, NoOpTyped DEF SaveIndex, WriteFails, WriteInv
  <1>6. CASE DeleteMisses \/ ReadStart \/ ReadChunk \/ ReadReturns \/ UNCHANGED vars
    <2>1. UNCHANGED <<index, files, op, deleted>>
      BY <1>6 DEF DeleteMisses, ReadStart, ReadChunk, ReadReturns, ghosts, vars
    <2> QED
      BY <2>1 DEF WriteInv, Named
  <1> QED
    BY <1>1, <1>2, <1>3, <1>4, <1>5, <1>6 DEF Next

(* Only a saved index confirms, and it confirms a line that is written.    *)
LEMMA Confirms ==
    ASSUME TypeOK, SizeInv, WriteInv, [Next]_vars
    PROVE  /\ deleted \subseteq deleted'
           /\ \/ acked' = acked
              \/ /\ SaveIndex /\ op.kind = "append" /\ acked' = acked \cup {op.time}
                 /\ op.file \in Numbers /\ op.file \in Named(op.index)
                 /\ op.time \in Lines(files[op.file])
  <1>1. CASE SaveIndex
    BY <1>1 DEF SaveIndex, SizeInv, WriteInv
  <1>2. CASE ~SaveIndex
    BY <1>2 DEF Next, AppendStart, DeleteStart, DeleteMisses, WriteFile, UnlinkFails,
                WriteFails, ReadStart, ReadChunk, ReadReturns, ghosts, vars
  <1> QED
    BY <1>1, <1>2

LEMMA NextStored ==
    TypeOK /\ SizeInv /\ WriteInv /\ AckedIsStored /\ [Next]_vars => AckedIsStored'
  <1> SUFFICES ASSUME TypeOK, SizeInv, WriteInv, AckedIsStored, [Next]_vars,
                      NEW t \in acked' \ deleted'
               PROVE  \E n \in Numbers : t \in Lines(files'[n])
    BY DEF AckedIsStored, Lines
  <1>1. \/ t \in acked \ deleted
        \/ op.file \in Numbers /\ t \in Lines(files[op.file])
    BY Confirms
  <1>2. \E n \in Numbers : t \in Lines(files[n])
    BY <1>1 DEF AckedIsStored
  <1> QED
    BY <1>2, FilesKeepLines

LEMMA NextNamed ==
    TypeOK /\ SizeInv /\ WriteInv /\ AckedIsNamed /\ [Next]_vars => AckedIsNamed'
  <1> SUFFICES ASSUME TypeOK, SizeInv, WriteInv, AckedIsNamed, [Next]_vars
               PROVE  AckedIsNamed'
    OBVIOUS
  <1>a. \A t \in acked \ (deleted \cup forgot) :
           \E f \in Named(index) : t \in Lines(files[f])
    BY AckedMeans
  <1>1. CASE SaveIndex
    <2>1. /\ op.at = "index" /\ index' = op.index /\ files' = files /\ deleted' = deleted
          /\ forgot' = IF op.blind THEN acked ELSE forgot
      BY <1>1 DEF SaveIndex
    <2>2. \A f \in Named(index) : \A t \in Lines(files[f]) :
             t \in deleted \/ op.blind \/ f \in Named(op.index)
      <3>1. Lines(<<>>) = {}
        BY DEF Lines
      <3> QED
        BY <2>1, <3>1 DEF WriteInv
    <2>3. ASSUME NEW t \in acked' \ (deleted' \cup forgot')
          PROVE  \E f \in Named(op.index) : t \in Lines(files[f])
      <3>1. CASE t \in acked
        <4>1. ~op.blind /\ t \in acked \ (deleted \cup forgot)
          BY <2>1, <2>3, <3>1
        <4> QED
          BY <1>a, <2>2, <4>1
      <3>2. CASE t \notin acked
        BY <2>3, <3>2, Confirms
      <3> QED
        BY <3>1, <3>2
    <2> QED
      BY <2>1, <2>3, AckedMeansNext DEF Named, Lines
  <1>2. CASE ~SaveIndex
    <2>1. index' = index /\ acked' = acked /\ forgot' = forgot /\ deleted \subseteq deleted'
      BY <1>2, Confirms DEF Next, AppendStart, DeleteStart, DeleteMisses, WriteFile,
                  UnlinkFails, WriteFails, ReadStart, ReadChunk, ReadReturns, ghosts, vars
    <2>2. Named(index) \subseteq Numbers
      BY NamesAreNumbers DEF Named
    <2>3. \A t \in acked' \ (deleted' \cup forgot') :
             \E f \in Named(index) : t \in Lines(files'[f])
      BY <1>a, <2>1, <2>2, FilesKeepLines
    <2> QED
      BY <2>1, <2>3, AckedMeansNext DEF Named, Lines
  <1> QED
    BY <1>1, <1>2

-----------------------------------------------------------------------------
(* A read beside the writes returns what was confirmed when it began.      *)

LEMMA InitRead == Init => ReadInv
  BY DEF Init, NoRead, ReadInv, ReadIsComplete

LEMMA NextRead ==
    TypeOK /\ SizeInv /\ WriteInv /\ AckedIsNamed /\ ReadInv /\ [Next]_vars => ReadInv'
  <1> SUFFICES ASSUME TypeOK, SizeInv, WriteInv, AckedIsNamed, ReadInv, [Next]_vars
               PROVE  ReadInv'
    OBVIOUS
  <1>t. reader \in ReadRecords /\ files \in [Numbers -> Seq(Times)] /\ index \in Seq(Chunks)
    BY TypeMeans
  <1>1. CASE ReadStart
    <2>1. PICK ix \in {index, <<>>} :
             reader' = [at |-> "reading", chunks |-> [i \in 1..Len(ix) |-> ix[i].file],
                        got |-> <<>>, wanted |-> acked \ forgot, blind |-> ix # index]
      BY <1>1 DEF ReadStart, IndexRead
    <2> DEFINE names == [i \in 1..Len(ix) |-> ix[i].file]
    <2>2. UNCHANGED <<files, acked, deleted>>
      BY <1>1 DEF ReadStart, ghosts
    <2>3. /\ reader'.at = "reading" /\ reader'.chunks = names
          /\ reader'.wanted = acked \ forgot /\ reader'.blind = (ix # index)
      BY <2>1
    <2>4. ix = index =>
             \A t \in acked \ (deleted \cup forgot) :
                \E i \in 1..Len(names) : t \in Lines(files[names[i]])
      <3>1. ix = index =>
               Len(names) = Len(index) /\ \A i \in 1..Len(index) : names[i] = index[i].file
        BY <1>t
      <3> HIDE DEF names
      <3> QED
        BY <3>1 DEF AckedIsNamed
    <2> HIDE DEF names
    <2> QED
      BY <2>2, <2>3, <2>4 DEF ReadInv, ReadIsComplete
  <1>2. CASE ReadChunk
    <2>1. reader.at = "reading" /\ UNCHANGED <<files, deleted>>
      BY <1>2 DEF ReadChunk, ghosts
    <2>2. ASSUME reader.chunks = <<>>, reader' = [reader EXCEPT !.at = "done"]
          PROVE  ReadInv'
      <3>1. /\ reader'.at = "done" /\ reader'.wanted = reader.wanted
            /\ reader'.got = reader.got /\ Len(reader.chunks) = 0
            /\ reader'.blind = reader.blind
        BY <1>t, <2>2 DEF ReadRecords
      <3>2. ~reader.blind => reader.wanted \ deleted \subseteq Lines(reader.got)
        BY <2>1, <3>1 DEF ReadInv
      <3> QED
        BY <2>1, <3>1, <3>2 DEF ReadInv, ReadIsComplete
    <2>3. ASSUME reader' = [NoRead EXCEPT !.at = "rejected"] PROVE ReadInv'
      BY <2>3 DEF NoRead, ReadInv, ReadIsComplete
    <2>4. ASSUME NEW n \in 1..Len(reader.chunks), n = Len(reader.chunks),
                 reader' = [reader EXCEPT
                               !.chunks = SubSeq(reader.chunks, 1, n - 1),
                               !.got = reader.got \o Backwards(files[reader.chunks[n]])]
          PROVE  ReadInv'
      <3>1. /\ reader'.at = "reading" /\ reader'.wanted = reader.wanted
            /\ reader'.blind = reader.blind
            /\ Len(reader'.chunks) = n - 1
            /\ \A i \in 1..(n - 1) : reader'.chunks[i] = reader.chunks[i]
            /\ Lines(reader'.got) = Lines(reader.got) \cup Lines(files[reader.chunks[n]])
        BY <2>1, <2>4, ReadsOne
      <3>2. \A i \in 1..Len(reader.chunks) : i = n \/ i \in 1..(n - 1)
        BY <2>4
      <3>3. ~reader.blind => \A t \in reader.wanted \ deleted :
               \/ t \in Lines(reader'.got)
               \/ \E i \in 1..Len(reader'.chunks) : t \in Lines(files[reader'.chunks[i]])
        BY <2>1, <2>4, <3>1, <3>2 DEF ReadInv
      <3> QED
        BY <2>1, <3>1, <3>3 DEF ReadInv, ReadIsComplete
    <2> QED
      BY <1>2, <2>2, <2>3, <2>4, ReadsChunk
  <1>3. CASE ReadReturns
    BY <1>3 DEF ReadReturns, NoRead, ReadInv, ReadIsComplete
  <1>4. CASE ~ReadStart /\ ~ReadChunk /\ ~ReadReturns
    <2>1. reader' = reader /\ deleted \subseteq deleted'
      BY <1>4 DEF Next, AppendStart, DeleteStart, DeleteMisses, WriteFile, UnlinkFails,
                  SaveIndex, WriteFails, ghosts, vars
    <2>2. \A i \in 1..Len(reader.chunks) : reader.chunks[i] \in Numbers
      <3>1. reader.chunks \in Seq(Numbers)
        BY <1>t DEF ReadRecords
      <3> QED
        BY <3>1
    <2>3. \A i \in 1..Len(reader.chunks) : \A u \in Lines(files[reader.chunks[i]]) :
             u \in Lines(files'[reader.chunks[i]]) \/ u \in deleted'
      BY <2>2, FilesKeepLines
    <2>4. reader.at = "reading" /\ ~reader.blind =>
             \A t \in reader.wanted \ deleted' :
                \/ t \in Lines(reader.got)
                \/ \E i \in 1..Len(reader.chunks) : t \in Lines(files'[reader.chunks[i]])
      BY <2>1, <2>3 DEF ReadInv
    <2>5. ReadIsComplete'
      BY <2>1 DEF ReadInv, ReadIsComplete
    <2> QED
      BY <2>1, <2>4, <2>5 DEF ReadInv
  <1> QED
    BY <1>1, <1>2, <1>3, <1>4

-----------------------------------------------------------------------------
(* Without deletions a read returns the newest snapshot first.             *)

LEMMA InitOrder == Init => OrderInv
  <1> SUFFICES ASSUME Init PROVE OrderInv
    OBVIOUS
  <1>1. /\ index = <<>> /\ op.at = "idle" /\ reader.at = "idle" /\ reader.got = <<>>
        /\ \A n \in Numbers : files[n] = <<>>
    BY DEF Init, NoOp, NoRead
  <1>2. \A n \in Numbers : Lines(files[n]) = {}
    BY <1>1 DEF Lines
  <1>3. FilesInv
    <2>1. Numbered(index)
      BY <1>1 DEF Numbered
    <2>2. \A n \in Numbers : Ascending(files[n])
      BY <1>1 DEF Ascending
    <2> QED
      BY <1>2, <2>1, <2>2 DEF FilesInv
  <1>4. AppendInv
    BY <1>1, <1>2 DEF AppendInv
  <1>5. BackwardsInv
    BY <1>1 DEF BackwardsInv, Descending
  <1> QED
    BY <1>3, <1>4, <1>5 DEF OrderInv

(* A step that leaves the files and the index alone leaves their order.    *)
LEMMA SameFiles ==
    ASSUME FilesInv, UNCHANGED <<index, files>> PROVE FilesInv'
  <1>1. LastFile(index') = LastFile(index) /\ Numbered(index)'
    BY DEF FilesInv, LastFile, Full, Numbered
  <1>2. \A n \in Numbers : Ascending(files'[n])
    BY DEF FilesInv
  <1>3. /\ \A m, n \in Numbers : m < n =>
              \A u \in Lines(files'[m]), v \in Lines(files'[n]) : u < v
        /\ \A n \in Numbers : Lines(files'[n]) # {} => n <= LastFile(index')
    BY <1>1 DEF FilesInv
  <1> QED
    BY <1>1, <1>2, <1>3 DEF FilesInv

LEMMA SameReader ==
    ASSUME BackwardsInv, UNCHANGED <<index, files, reader>> PROVE BackwardsInv'
  <1>1. index' = index /\ files' = files /\ reader' = reader
    OBVIOUS
  <1>2. Descending(reader'.got)
    BY <1>1 DEF BackwardsInv
  <1>3. reader'.at = "reading" =>
            /\ \A i \in 1..Len(reader'.chunks) : reader'.chunks[i] = i
            /\ Len(reader'.chunks) <= Len(index')
            /\ reader'.got = <<>> \/ Len(reader'.chunks) < Len(index')
            /\ \A i \in 1..Len(reader'.chunks) :
                  \A u \in Lines(reader'.got), v \in Lines(files'[i]) : v < u
    BY <1>1 DEF BackwardsInv
  <1> QED
    BY <1>2, <1>3 DEF BackwardsInv

(* The line an append adds to the last file is the newest of all.          *)
LEMMA AppendKeepsOrder ==
    ASSUME TypeOK, FilesInv, NEW f \in Numbers, f = LastFile(index), NEW t \in Times,
           \A n \in Numbers : \A u \in Lines(files[n]) : u < t,
           index' = index, files' = [files EXCEPT ![f] = Append(files[f], t)]
    PROVE  FilesInv' /\ \A n \in Numbers : \A u \in Lines(files'[n]) :
                           u \in Lines(files[n]) \/ (n = f /\ u = t)
  <1>1. files[f] \in Seq(Times)
    BY DEF TypeOK
  <1>2. /\ files'[f] = Append(files[f], t)
        /\ \A n \in Numbers : n # f => files'[n] = files[n]
    BY DEF TypeOK
  <1>3. Lines(files'[f]) = Lines(files[f]) \cup {t}
    BY <1>1, <1>2, LinesAppend
  <1>4. \A n \in Numbers : \A u \in Lines(files'[n]) : u \in Lines(files[n]) \/ (n = f /\ u = t)
    BY <1>2, <1>3
  <1>5. Ascending(files'[f])
    <2>1. /\ Len(files'[f]) = Len(files[f]) + 1 /\ Len(files[f]) \in Nat
          /\ \A i \in 1..Len(files[f]) : files'[f][i] = files[f][i]
          /\ files'[f][Len(files[f]) + 1] = t
      BY <1>1, <1>2
    <2>2. \A i \in 1..Len(files[f]) : files[f][i] < t
      BY DEF Lines
    <2>3. \A i, j \in 1..Len(files[f]) : i < j => files[f][i] < files[f][j]
      BY DEF FilesInv, Ascending
    <2>4. ASSUME NEW i \in 1..(Len(files[f]) + 1), NEW j \in 1..(Len(files[f]) + 1), i < j
          PROVE  files'[f][i] < files'[f][j]
      <3>1. i \in 1..Len(files[f])
        BY <2>1, <2>4
      <3>2. CASE j \in 1..Len(files[f])
        BY <2>1, <2>3, <2>4, <3>1, <3>2
      <3>3. CASE j = Len(files[f]) + 1
        BY <2>1, <2>2, <3>1, <3>3
      <3> QED
        BY <2>1, <3>2, <3>3
    <2> QED
      BY <2>1, <2>4 DEF Ascending
  <1>6. \A n \in Numbers : Ascending(files'[n])
    BY <1>2, <1>5 DEF FilesInv
  <1>7. ASSUME NEW m \in Numbers, NEW n \in Numbers, m < n,
               NEW u \in Lines(files'[m]), NEW v \in Lines(files'[n])
        PROVE  u < v
    <2>1. CASE m = f
      <3>1. n # f /\ ~(n <= LastFile(index))
        <4>1. m \in Nat /\ n \in Nat
          BY DEF Numbers
        <4> QED
          BY <1>7, <2>1, <4>1
      <3>2. Lines(files[n]) = {}
        BY <3>1 DEF FilesInv
      <3> QED
        BY <1>2, <1>7, <3>1, <3>2
    <2>2. CASE m # f
      <3>1. u \in Lines(files[m]) /\ u < t
        BY <1>4, <2>2
      <3>2. v \in Lines(files[n]) \/ v = t
        BY <1>4
      <3> QED
        BY <1>7, <3>1, <3>2 DEF FilesInv
    <2> QED
      BY <2>1, <2>2
  <1>8. LastFile(index') = LastFile(index)
    BY DEF LastFile, Full
  <1>9. \A n \in Numbers : Lines(files'[n]) # {} => n <= LastFile(index)
    <2>1. f <= LastFile(index)
      BY DEF Numbers
    <2> QED
      BY <1>2, <2>1 DEF FilesInv
  <1>10. FilesInv'
    <2>1. \A m, n \in Numbers : m < n =>
             \A u \in Lines(files'[m]), v \in Lines(files'[n]) : u < v
      BY <1>7
    <2>2. Numbered(index)'
      BY DEF FilesInv, Numbered
    <2> QED
      BY <1>6, <1>8, <1>9, <2>1, <2>2 DEF FilesInv, Ascending, Lines
  <1> QED
    BY <1>4, <1>10

(* Entering the chunk of an append keeps the numbers, and the last file    *)
(* that may be written does not move back.                                 *)
LEMMA EnterKeepsOrder ==
    ASSUME TypeOK, TypeOK', FilesInv, NEW t \in Times, Len(index) + 1 \in Numbers,
           index' = AppendedIndex(index, t), files' = files
    PROVE  FilesInv' /\ Len(index) <= Len(index')
  <1>1. /\ index' \in Seq(Chunks) /\ Len(index') = LastFile(index)
        /\ Len(index') \in {Len(index), Len(index) + 1}
        /\ \A i \in 1..Len(index) : index'[i].file = index[i].file
        /\ Full(index) => index'[Len(index')].file = Len(index) + 1
    BY AppendedNames DEF TypeOK
  <1>2. Len(index) \in Nat /\ Len(index') \in Nat
    <2>1. index \in Seq(Chunks)
      BY DEF TypeOK
    <2> QED
      BY <1>1, <2>1
  <1>3. LastFile(index) = IF Full(index) THEN Len(index) + 1 ELSE Len(index)
    BY DEF LastFile
  <1>4. \A i \in 1..Len(index') : index'[i].file = i
    <2> SUFFICES ASSUME NEW i \in 1..Len(index') PROVE index'[i].file = i
      OBVIOUS
    <2>1. CASE i \in 1..Len(index)
      BY <1>1, <2>1 DEF FilesInv, Numbered
    <2>2. CASE i \notin 1..Len(index)
      <3>1. i = Len(index) + 1 /\ i = Len(index') /\ Full(index)
        BY <1>1, <1>2, <1>3, <2>2
      <3> QED
        BY <1>1, <3>1
    <2> QED
      BY <2>1, <2>2
  <1>5. LastFile(index') \in {Len(index'), Len(index') + 1}
    BY DEF LastFile
  <1>6. \A n \in Numbers : Lines(files[n]) # {} => n <= LastFile(index')
    <2> SUFFICES ASSUME NEW n \in Numbers, Lines(files[n]) # {} PROVE n <= LastFile(index')
      OBVIOUS
    <2>1. n <= Len(index') /\ n \in Nat
      <3>1. n <= LastFile(index)
        BY DEF FilesInv
      <3>2. n \in Nat
        BY DEF Numbers
      <3> QED
        BY <1>1, <3>1, <3>2
    <2> QED
      BY <1>2, <1>5, <2>1
  <1>7. FilesInv'
    <2>1. Numbered(index)'
      BY <1>4 DEF Numbered
    <2>2. \A n \in Numbers : Ascending(files'[n])
      BY DEF FilesInv
    <2>3. /\ \A m, n \in Numbers : m < n =>
                \A u \in Lines(files'[m]), v \in Lines(files'[n]) : u < v
          /\ \A n \in Numbers : Lines(files'[n]) # {} => n <= LastFile(index')
      BY <1>6 DEF FilesInv
    <2> QED
      BY <2>1, <2>2, <2>3 DEF FilesInv
  <1> QED
    BY <1>1, <1>2, <1>7

(* The read goes on: what it got is newer than what it has yet to read.    *)
LEMMA ReadKeepsOrder ==
    ASSUME TypeOK, TypeOK', FilesInv, BackwardsInv, ReadChunk
    PROVE  BackwardsInv'
  <1>t. /\ reader \in ReadRecords /\ files \in [Numbers -> Seq(Times)]
        /\ reader.got \in Seq(Times) /\ reader.chunks \in Seq(Numbers)
    BY TypeMeans DEF ReadRecords
  <1>1. reader.at = "reading" /\ UNCHANGED <<index, files>>
    BY DEF ReadChunk
  <1>2. ASSUME reader' = [reader EXCEPT !.at = "done"] PROVE BackwardsInv'
    <2>1. reader'.at = "done" /\ reader'.got = reader.got
      BY <1>t, <1>2 DEF ReadRecords
    <2> QED
      BY <2>1 DEF BackwardsInv, Descending
  <1>3. ASSUME reader' = [NoRead EXCEPT !.at = "rejected"] PROVE BackwardsInv'
    <2>1. reader'.at = "rejected" /\ reader'.got = <<>>
      BY <1>3 DEF NoRead
    <2> QED
      BY <2>1 DEF BackwardsInv, Descending
  <1>4. ASSUME NEW n \in 1..Len(reader.chunks), n = Len(reader.chunks),
               reader' = [reader EXCEPT
                             !.chunks = SubSeq(reader.chunks, 1, n - 1),
                             !.got = reader.got \o Backwards(files[reader.chunks[n]])]
        PROVE  BackwardsInv'
    <2>1. reader.chunks[n] = n /\ n \in Numbers
      BY <1>1, <1>t DEF BackwardsInv
    <2> DEFINE s == files[n]
               b == Backwards(s)
               g == reader.got
    <2>2. s \in Seq(Times)
      BY <1>t, <2>1
    <2>3. /\ reader'.at = "reading" /\ Len(reader'.chunks) = n - 1
          /\ \A i \in 1..(n - 1) : reader'.chunks[i] = reader.chunks[i]
          /\ reader'.got = g \o b /\ Lines(reader'.got) = Lines(g) \cup Lines(s)
      BY <1>1, <1>4, <2>1, ReadsOne
    <2>4. /\ b \in Seq(Times) /\ Len(b) = Len(s)
          /\ \A i \in 1..Len(s) : b[i] = s[Len(s) + 1 - i]
          /\ Lines(b) = Lines(s)
      BY <2>2, BackwardsLines
    <2>5. Ascending(s) /\ Descending(g) /\ \A u \in Lines(g), v \in Lines(s) : v < u
      BY <1>1, <2>1 DEF FilesInv, BackwardsInv
    <2>6. g \in Seq(Times) /\ Len(g) \in Nat /\ Len(s) \in Nat
      BY <1>t, <2>2
    <2> HIDE DEF s, b, g
    <2>7. /\ Len(g \o b) = Len(g) + Len(b)
          /\ \A i \in 1..Len(g) : (g \o b)[i] = g[i]
          /\ \A i \in 1..Len(b) : (g \o b)[Len(g) + i] = b[i]
      <3>1. b \in Seq(Times) /\ g \in Seq(Times)
        BY <2>4, <2>6
      <3> QED
        BY <3>1
    <2>8. ASSUME NEW i \in 1..Len(b), NEW j \in 1..Len(b), i < j PROVE b[i] > b[j]
      <3>1. /\ Len(s) + 1 - i \in 1..Len(s) /\ Len(s) + 1 - j \in 1..Len(s)
            /\ Len(s) + 1 - j < Len(s) + 1 - i
        BY <2>4, <2>6, <2>8
      <3>2. s[Len(s) + 1 - j] < s[Len(s) + 1 - i]
        BY <2>5, <3>1 DEF Ascending
      <3>3. s[Len(s) + 1 - j] \in Nat /\ s[Len(s) + 1 - i] \in Nat
        <4>1. s[Len(s) + 1 - j] \in Times /\ s[Len(s) + 1 - i] \in Times
          BY <2>2, <3>1
        <4> QED
          BY <4>1 DEF Times
      <3> QED
        BY <2>4, <3>2, <3>3
    <2>9. ASSUME NEW i \in 1..(Len(g) + Len(b)), NEW j \in 1..(Len(g) + Len(b)), i < j
          PROVE  (g \o b)[i] > (g \o b)[j]
      <3>1. CASE j \in 1..Len(g)
        <4>1. i \in 1..Len(g)
          BY <2>6, <2>9, <3>1
        <4> QED
          BY <2>5, <2>7, <2>9, <3>1, <4>1 DEF Descending
      <3>2. CASE i \in 1..Len(g) /\ j \notin 1..Len(g)
        <4>1. j - Len(g) \in 1..Len(b) /\ j = Len(g) + (j - Len(g))
          BY <2>4, <2>6, <3>2
        <4>2. (g \o b)[i] = g[i] /\ (g \o b)[j] = b[j - Len(g)]
          BY <2>7, <3>2, <4>1
        <4>3. g[i] \in Lines(g) /\ b[j - Len(g)] \in Lines(s)
          BY <2>4, <3>2, <4>1 DEF Lines
        <4>4. g[i] \in Nat /\ b[j - Len(g)] \in Nat
          <5>1. g[i] \in Times /\ b[j - Len(g)] \in Times
            BY <2>4, <2>6, <3>2, <4>1
          <5> QED
            BY <5>1 DEF Times
        <4> QED
          BY <2>5, <4>2, <4>3, <4>4
      <3>3. CASE i \notin 1..Len(g) /\ j \notin 1..Len(g)
        <4>1. /\ i - Len(g) \in 1..Len(b) /\ i = Len(g) + (i - Len(g))
              /\ j - Len(g) \in 1..Len(b) /\ j = Len(g) + (j - Len(g))
              /\ i - Len(g) < j - Len(g)
          BY <2>4, <2>6, <2>9, <3>3
        <4>2. b[i - Len(g)] > b[j - Len(g)]
          BY <2>8, <4>1
        <4>3. (g \o b)[i] = b[i - Len(g)] /\ (g \o b)[j] = b[j - Len(g)]
          BY <2>7, <4>1
        <4> QED
          BY <4>2, <4>3
      <3>4. i \in 1..Len(g) => j \in 1..Len(g) \/ j \notin 1..Len(g)
        OBVIOUS
      <3>5. i \notin 1..Len(g) => j \notin 1..Len(g)
        BY <2>6, <2>9
      <3> QED
        BY <3>1, <3>2, <3>3, <3>5
    <2>10. Descending(reader'.got)
      BY <2>3, <2>7, <2>9 DEF Descending
    <2>11. \A i \in 1..Len(reader'.chunks) :
              /\ reader'.chunks[i] = i
              /\ \A u \in Lines(reader'.got), v \in Lines(files[i]) : v < u
      <3> SUFFICES ASSUME NEW i \in 1..(n - 1)
                   PROVE  /\ reader'.chunks[i] = i
                          /\ \A u \in Lines(reader'.got), v \in Lines(files[i]) : v < u
        BY <2>3
      <3>1. i \in 1..Len(reader.chunks) /\ i \in Numbers /\ i < n
        <4>1. n \in Nat /\ i \in Nat /\ 1 <= i /\ i < n
          BY <2>1 DEF Numbers
        <4>2. i \in Numbers
          BY <2>1, <4>1, StoreConstants DEF Numbers
        <4> QED
          BY <1>4, <4>1, <4>2
      <3>2. reader'.chunks[i] = i /\ \A u \in Lines(g), v \in Lines(files[i]) : v < u
        BY <1>1, <2>3, <3>1 DEF BackwardsInv, g
      <3>3. \A u \in Lines(s), v \in Lines(files[i]) : v < u
        <4>1. i \in Numbers /\ n \in Numbers /\ i < n /\ s = files[n]
          BY <2>1, <3>1 DEF s
        <4> QED
          BY <1>1, <4>1 DEF FilesInv
      <3> QED
        BY <2>3, <3>2, <3>3
    <2>12. Len(reader'.chunks) < Len(index)
      <3>1. Len(index) \in Nat /\ n \in Nat /\ n <= Len(index)
        <4>1. index \in Seq(Chunks) /\ reader.chunks \in Seq(Numbers)
          BY DEF TypeOK
        <4> QED
          BY <1>1, <1>4, <4>1 DEF BackwardsInv
      <3> QED
        BY <2>3, <3>1
    <2>13. Len(reader'.chunks) <= Len(index)
      <3>1. Len(index) \in Nat /\ Len(reader'.chunks) \in Nat
        BY <2>3 DEF TypeOK
      <3> QED
        BY <2>12, <3>1
    <2> QED
      BY <1>1, <2>10, <2>11, <2>12, <2>13 DEF BackwardsInv
  <1> QED
    BY <1>2, <1>3, <1>4, ReadsChunk

LEMMA NextOrder ==
    TypeOK /\ TypeOK' /\ SizeInv /\ OrderInv /\ [Next]_vars => OrderInv'
  <1> SUFFICES ASSUME TypeOK, TypeOK', SizeInv, OrderInv, [Next]_vars,
                      deleted' = {}, strayed' = {}
               PROVE  FilesInv' /\ AppendInv' /\ BackwardsInv'
    BY DEF OrderInv
  <1>d. deleted = {} /\ strayed = {}
    BY DEF Next, AppendStart, DeleteStart, DeleteMisses, WriteFile, UnlinkFails, SaveIndex,
           WriteFails, ReadStart, ReadChunk, ReadReturns, ghosts, vars
  <1>o. FilesInv /\ AppendInv /\ BackwardsInv
    BY <1>d DEF OrderInv
  <1>t. /\ index \in Seq(Chunks) /\ files \in [Numbers -> Seq(Times)] /\ op \in OpRecords
        /\ reader \in ReadRecords /\ next \in Nat /\ Len(index) \in Nat
    BY TypeMeans
  <1>l. \A n \in Numbers : \A u \in Lines(files[n]) : u \in Nat
    BY <1>t, LinesAreTimes DEF Times
  <1>1. CASE AppendStart
    <2>1. PICK ix \in {index, <<>>} : Starts(ix)
      BY <1>1, AppendStarts
    <2>2. /\ next \in Times /\ next' = next + 1 /\ UNCHANGED <<index, files, reader>>
          /\ Len(ix) + 1 \in Numbers
      BY <2>1 DEF Starts
    <2>3. /\ op'.at = "file" /\ op'.kind = "append" /\ op'.time = next
          /\ op'.blind = (ix # index)
          /\ op'.lines = Append(files[op'.file], next)
      BY <2>1, StartNames
    <2>4. ix = index =>
             op'.file = LastFile(index) /\ op'.index = AppendedIndex(index, next)
      <3> SUFFICES ASSUME ix = index
                   PROVE  op'.file = LastFile(index) /\ op'.index = AppendedIndex(index, next)
        OBVIOUS
      <3> DEFINE new == AppendedIndex(index, next)
      <3>1. /\ Len(new) = LastFile(index)
            /\ Len(new) \in {Len(index), Len(index) + 1} /\ Len(new) >= 1
            /\ \A i \in 1..Len(index) : new[i].file = index[i].file
            /\ Full(index) => new[Len(new)].file = Len(index) + 1
        BY <1>t, <2>2, AppendedNames
      <3>2. op'.file = new[Len(new)].file /\ op'.index = new
        BY <2>1, StartNames
      <3> HIDE DEF new
      <3>3. CASE Full(index)
        BY <3>1, <3>2, <3>3 DEF LastFile, new
      <3>4. CASE ~Full(index)
        <4>1. LastFile(index) = Len(index) /\ Len(new) \in 1..Len(index)
          BY <1>t, <3>1, <3>4 DEF LastFile
        <4> QED
          BY <1>o, <3>1, <3>2, <4>1 DEF FilesInv, Numbered, new
      <3> QED
        BY <3>3, <3>4
    <2>5. \A n \in Numbers : \A u \in Lines(files[n]) : u < next /\ u < next'
      BY <1>l, <1>o, <1>t, <2>2 DEF AppendInv
    <2>6. AppendInv'
      <3>1. op'.at # "idle" /\ ~op'.blind =>
               op'.file = LastFile(index') /\ op'.index = AppendedIndex(index', op'.time)
        BY <2>2, <2>3, <2>4
      <3>2. op'.lines = Append(files'[op'.file], op'.time)
        BY <2>2, <2>3
      <3>3. \A n \in Numbers : \A u \in Lines(files'[n]) : u < next' /\ u < op'.time
        BY <2>2, <2>3, <2>5
      <3> QED
        BY <2>3, <3>1, <3>2, <3>3 DEF AppendInv
    <2> QED
      BY <1>o, <2>2, <2>6, SameFiles, SameReader
  <1>2. CASE WriteFile
    <2>1. /\ op.at = "file" /\ op.file \in Numbers /\ op.time \in Times /\ op.time < next
          /\ op.file = LastFile(index) /\ op.kind = "append" /\ op.index = AppendedIndex(index, op.time)
          /\ files' = [files EXCEPT ![op.file] = Append(files[op.file], op.time)]
          /\ op' = [op EXCEPT !.at = "index"]
          /\ UNCHANGED <<index, reader, next>> /\ ~op.blind
      <3>1. /\ op.at = "file" /\ op' = [op EXCEPT !.at = "index"] /\ ~op.blind
            /\ files' = [files EXCEPT ![op.file] = op.lines]
            /\ UNCHANGED <<index, reader, next>>
        BY <1>2 DEF WriteFile
      <3> QED
        BY <1>o, <3>1 DEF SizeInv, AppendInv
    <2>2. /\ FilesInv'
          /\ \A n \in Numbers : \A u \in Lines(files'[n]) :
                u \in Lines(files[n]) \/ (n = op.file /\ u = op.time)
      BY <1>o, <2>1, AppendKeepsOrder DEF AppendInv
    <2>3. /\ op'.at = "index" /\ op'.kind = op.kind /\ op'.file = op.file
          /\ op'.time = op.time /\ op'.index = op.index /\ op'.blind = op.blind
      BY <1>t, <2>1 DEF OpRecords
    <2>4. AppendInv'
      <3>1. LastFile(index') = LastFile(index)
        BY <2>1 DEF LastFile, Full
      <3>2. op'.index = AppendedIndex(index', op'.time)
        BY <2>1, <2>3 DEF AppendedIndex
      <3>3. \A n \in Numbers : \A u \in Lines(files'[n]) : u < next
        BY <1>o, <2>1, <2>2 DEF AppendInv
      <3> QED
        BY <2>1, <2>3, <3>1, <3>2, <3>3 DEF AppendInv, Lines
    <2>5. BackwardsInv'
      <3>1. ASSUME reader.at = "reading", NEW i \in 1..Len(reader.chunks),
                   NEW u \in Lines(reader.got), NEW v \in Lines(files'[i])
            PROVE  v < u
        <4>1. reader.chunks \in Seq(Numbers) /\ reader.chunks[i] = i
          BY <1>o, <1>t, <3>1 DEF ReadRecords, BackwardsInv
        <4>2. i \in Numbers
          BY <4>1
        <4>3. Len(reader.chunks) < Len(index) /\ Len(reader.chunks) \in Nat
          BY <1>o, <3>1, <4>1 DEF BackwardsInv, Lines
        <4>4. i # op.file
          BY <1>t, <2>1, <4>3 DEF LastFile
        <4>5. v \in Lines(files[i])
          BY <2>2, <4>2, <4>4
        <4> QED
          BY <1>o, <3>1, <4>5 DEF BackwardsInv
      <3> QED
        BY <1>o, <2>1, <3>1 DEF BackwardsInv, Descending, Lines
    <2> QED
      BY <2>2, <2>4, <2>5
  <1>3. CASE SaveIndex
    <2>1. /\ op.time \in Times /\ index' = AppendedIndex(index, op.time) /\ files' = files
          /\ op' = NoOp /\ UNCHANGED <<reader, next>> /\ op.file \in Numbers
          /\ op.file = LastFile(index)
      BY <1>3, <1>o DEF SaveIndex, SizeInv, AppendInv
    <2>2. Len(index) + 1 \in Numbers
      BY <1>3, <1>t, StoreConstants DEF SaveIndex, SizeInv, Numbers
    <2>3. FilesInv' /\ Len(index) <= Len(index')
      BY <1>o, <2>1, <2>2, EnterKeepsOrder
    <2>4. AppendInv'
      BY <1>o, <2>1, NoOpTyped DEF AppendInv, Lines
    <2>5. BackwardsInv'
      <3>1. Len(index') \in Nat
        BY DEF TypeOK
      <3>2. reader.at = "reading" => Len(reader.chunks) \in Nat
        BY <1>t DEF ReadRecords
      <3> QED
        BY <1>o, <1>t, <2>1, <2>3, <3>1, <3>2 DEF BackwardsInv, Descending, Lines
    <2> QED
      BY <2>3, <2>4, <2>5
  <1>4. CASE WriteFails
    <2>1. op' = NoOp /\ UNCHANGED <<index, files, reader, next>>
      BY <1>4 DEF WriteFails
    <2>2. AppendInv'
      BY <1>o, <2>1, NoOpTyped DEF AppendInv, Lines
    <2> QED
      BY <1>o, <2>1, <2>2, SameFiles, SameReader
  <1>11. ASSUME UnlinkFails PROVE FALSE
    BY <1>11, <1>o DEF UnlinkFails, AppendInv
  <1>12. CASE DeleteMisses
    <2>1. UNCHANGED <<index, files, op, next, reader>>
      BY <1>12 DEF DeleteMisses
    <2>2. AppendInv'
      BY <1>o, <2>1 DEF AppendInv, Lines
    <2> QED
      BY <1>o, <2>1, <2>2, SameFiles, SameReader
  <1>5. ASSUME UNCHANGED <<index, files, op, next>> PROVE FilesInv' /\ AppendInv'
    <2>1. AppendInv'
      BY <1>o, <1>5 DEF AppendInv, Lines, LastFile, Full, AppendedIndex
    <2> QED
      BY <1>o, <1>5, <2>1, SameFiles
  <1>6. CASE ReadStart
    <2>1. PICK ix \in {index, <<>>} :
             reader' = [at |-> "reading", chunks |-> [i \in 1..Len(ix) |-> ix[i].file],
                        got |-> <<>>, wanted |-> acked \ forgot, blind |-> ix # index]
      BY <1>6 DEF ReadStart, IndexRead
    <2> DEFINE names == [i \in 1..Len(ix) |-> ix[i].file]
    <2>2. UNCHANGED <<index, files, op, next>>
      BY <1>6 DEF ReadStart
    <2>3. Len(names) <= Len(index) /\ \A i \in 1..Len(names) : names[i] = i
      <3>1. CASE ix = index
        BY <1>o, <1>t, <3>1 DEF FilesInv, Numbered
      <3>2. CASE ix = <<>>
        BY <1>t, <3>2
      <3> QED
        BY <3>1, <3>2
    <2>4. reader'.chunks = names /\ reader'.got = <<>>
      BY <2>1
    <2> HIDE DEF names
    <2>5. Lines(<<>>) = {}
      BY DEF Lines
    <2>6. BackwardsInv'
      BY <1>t, <2>2, <2>3, <2>4, <2>5 DEF BackwardsInv, Descending, Lines
    <2> QED
      BY <1>5, <2>2, <2>6
  <1>7. CASE ReadChunk
    <2>1. BackwardsInv'
      BY <1>7, <1>o, ReadKeepsOrder
    <2> QED
      BY <1>5, <1>7, <2>1 DEF ReadChunk
  <1>8. CASE ReadReturns
    <2>1. reader'.at = "idle" /\ reader'.got = <<>>
      BY <1>8, NoReadTyped DEF ReadReturns
    <2>2. BackwardsInv'
      BY <2>1 DEF BackwardsInv, Descending
    <2> QED
      BY <1>5, <1>8, <2>2 DEF ReadReturns
  <1>9. CASE UNCHANGED vars
    <2>1. UNCHANGED <<index, files, op, next, reader>>
      BY <1>9 DEF vars
    <2> QED
      BY <1>5, <1>o, <2>1, SameReader
  <1>10. ASSUME NEW t \in Times, DeleteStart(t) PROVE FALSE
    BY <1>10 DEF DeleteStart
  <1> QED
    BY <1>1, <1>2, <1>3, <1>4, <1>6, <1>7, <1>8, <1>9, <1>10, <1>11, <1>12 DEF Next

-----------------------------------------------------------------------------
(* The theorems.                                                           *)

(* The inductive invariant holds in every state of every behaviour.        *)
THEOREM StoreInductive == Spec => []IInv
  <1>1. Init => IInv
    BY InitTyped, InitWrite, InitRead, InitOrder DEF IInv
  <1>2. IInv /\ [Next]_vars => IInv'
    BY NextTyped, NextWrite, NextStored, NextNamed, NextRead, NextOrder DEF IInv
  <1> QED
    BY <1>1, <1>2, PTL DEF Spec

(* The files, the index, and what a write and a read carry are always what *)
(* the store writes.                                                       *)
THEOREM StoreTypeCorrect == Spec => []TypeOK
  <1>1. IInv => TypeOK
    BY DEF IInv
  <1> QED
    BY <1>1, StoreInductive, PTL

(* What append confirmed stays a line of a chunk file until its deletion   *)
(* begins, whichever writes failed or were cut off, and however often the  *)
(* index could not be read and was begun anew.                             *)
THEOREM NothingAckedIsLost == Spec => []AckedIsStored
  <1>1. IInv => AckedIsStored
    BY DEF IInv
  <1> QED
    BY <1>1, StoreInductive, PTL

(* The index names its file, but for what was confirmed before an append   *)
(* that could not read the index replaced it.                              *)
THEOREM NamesAreKept == Spec => []AckedIsNamed
  <1>1. IInv => AckedIsNamed
    BY DEF IInv
  <1> QED
    BY <1>1, StoreInductive, PTL

(* readRange, which takes no part in the chain of writes, returns all that *)
(* was confirmed and named before it began and not deleted since, if it    *)
(* could read the index.                                                   *)
THEOREM ReadsMissNothing == Spec => []ReadIsComplete
  <1>1. IInv => ReadIsComplete
    BY DEF IInv, ReadInv
  <1> QED
    BY <1>1, StoreInductive, PTL

(* Until the first deletion, and until an append that could not read the   *)
(* index writes, a read returns each snapshot once and the newest first,   *)
(* whatever failed and was appended again.                                 *)
THEOREM ReadsAreNewestFirst == Spec => []AppendsReadNewestFirst
  <1>1. IInv => AppendsReadNewestFirst
    BY DEF IInv, OrderInv, BackwardsInv, Descending, AppendsReadNewestFirst, ReadsNewestFirst
  <1> QED
    BY <1>1, StoreInductive, PTL
=============================================================================
