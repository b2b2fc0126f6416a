-------------------------- MODULE OrderSync_proofs --------------------------
(***************************************************************************)
(* Proofs about OrderSync, for any finite set of orders, any size, any     *)
(* passes and readers, and whichever things the broker may do.             *)
(*                                                                         *)
(* The model walks the log and sets of orders with recursive functions.    *)
(* What they return is proved by induction, and the induction itself from  *)
(* the library's WFMin: a set of numbers without a least counterexample.   *)
(***************************************************************************)
EXTENDS OrderSync, FiniteSetTheorems, SequenceTheorems, WellFoundedInduction, TLAPS

(* Induction over the numbers: S has 0 and, with n, also n + 1.            *)
LEMMA NatSetInduction ==
    ASSUME NEW S \in SUBSET Nat, 0 \in S, \A n \in S : n + 1 \in S
    PROVE  \A n \in Nat : n \in S
  <1> DEFINE T == Nat \ S
             R == OpToRel(<, Nat)
  <1> SUFFICES ASSUME T # {} PROVE FALSE
    OBVIOUS
  <1>1. \A x, y \in Nat : x < y => <<x, y>> \in R
    BY DEF OpToRel
  <1>2. IsWellFoundedOn(R, Nat)
    BY NatLessThanWellFounded
  <1> HIDE DEF R
  <1>3. PICK m \in T : \A k \in T : ~(<<k, m>> \in R)
    BY <1>2, WFMin
  <1>4. m \in Nat /\ m # 0
    OBVIOUS
  <1>5. m - 1 \in Nat /\ m - 1 < m /\ (m - 1) + 1 = m
    BY <1>4
  <1>6. m - 1 \in S
    BY <1>1, <1>3, <1>4, <1>5
  <1> QED
    BY <1>5, <1>6

(* Induction over the subsets of a finite set: P has a set if it has all   *)
(* that miss one of its elements.                                          *)
LEMMA SubsetInduction ==
    ASSUME NEW D, IsFiniteSet(D), NEW P \in SUBSET SUBSET D,
           \A s \in SUBSET D : (\A o \in s : s \ {o} \in P) => s \in P
    PROVE  \A s \in SUBSET D : s \in P
  <1> DEFINE S == {n \in Nat : \A s \in SUBSET D : Cardinality(s) = n => s \in P}
  <1>1. \A s \in SUBSET D : IsFiniteSet(s) /\ Cardinality(s) \in Nat
    BY FS_Subset, FS_CardinalityType
  <1>2. \A s \in SUBSET D : Cardinality(s) = 0 => s = {}
    BY <1>1, FS_EmptySet
  <1>3. 0 \in S
    BY <1>2
  <1>4. ASSUME NEW n \in S PROVE n + 1 \in S
    <2> SUFFICES ASSUME NEW s \in SUBSET D, Cardinality(s) = n + 1 PROVE s \in P
      OBVIOUS
    <2>1. ASSUME NEW o \in s PROVE s \ {o} \in P
      <3>1. Cardinality(s \ {o}) = Cardinality(s) - 1
        BY <1>1, FS_RemoveElement
      <3>2. Cardinality(s \ {o}) = n
        BY <3>1
      <3> QED
        BY <3>2
    <2> QED
      BY <2>1
  <1>5. \A n \in Nat : n \in S
    <2> HIDE DEF S
    <2>1. S \in SUBSET Nat
      BY DEF S
    <2> QED
      BY <1>3, <1>4, <2>1, NatSetInduction
  <1> QED
    BY <1>1, <1>5

(* f is defined along the numbers up to n.                                 *)
Walks(f, n, base, step) ==
    f = [k \in 0..n |-> IF k = 0 THEN base ELSE step[k][f[k - 1]]]

(* A function defined along a sequence exists.                             *)
LEMMA WalkExists ==
    ASSUME NEW T, NEW base \in T, NEW step \in [Nat -> [T -> T]]
    PROVE  \A n \in Nat : \E f \in [0..n -> T] : Walks(f, n, base, step)
  <1> DEFINE Walk(n, f) == /\ f \in [0..n -> T] /\ f[0] = base
                           /\ \A k \in 1..n : f[k] = step[k][f[k - 1]]
             S == {n \in Nat : \E f : Walk(n, f)}
  <1>1. 0 \in S
    <2>1. Walk(0, [k \in 0..0 |-> base])
      OBVIOUS
    <2> QED
      BY <2>1
  <1>2. ASSUME NEW n \in S PROVE n + 1 \in S
    <2>1. PICK f : Walk(n, f)
      OBVIOUS
    <2> DEFINE g == [k \in 0..(n + 1) |-> IF k <= n THEN f[k] ELSE step[n + 1][f[n]]]
    <2>2. step[n + 1][f[n]] \in T
      BY <2>1
    <2>3. g \in [0..(n + 1) -> T] /\ g[0] = base
      BY <2>1, <2>2
    <2>4. ASSUME NEW k \in 1..(n + 1) PROVE g[k] = step[k][g[k - 1]]
      <3>1. k - 1 \in 0..n /\ g[k - 1] = f[k - 1]
        OBVIOUS
      <3>2. CASE k <= n
        BY <2>1, <3>1, <3>2
      <3>3. CASE k = n + 1
        BY <3>1, <3>3
      <3> QED
        BY <3>2, <3>3
    <2>5. Walk(n + 1, g)
      <3> HIDE DEF g
      <3> QED
        BY <2>3, <2>4
    <2>6. \E h : Walk(n + 1, h)
      <3> HIDE DEF Walk
      <3> QED
        BY <2>5
    <2> QED
      BY <2>6
  <1>3. \A n \in Nat : n \in S
    <2> HIDE DEF S
    <2>1. S \in SUBSET Nat
      BY DEF S
    <2> QED
      BY <1>1, <1>2, <2>1, NatSetInduction
  <1> SUFFICES ASSUME NEW n \in Nat
               PROVE  \E f \in [0..n -> T] : Walks(f, n, base, step)
    OBVIOUS
  <1>4. PICK f : Walk(n, f)
    BY <1>3
  <1>5. \A k \in 0..n : f[k] = IF k = 0 THEN base ELSE step[k][f[k - 1]]
    BY <1>4
  <1>6. Walks(f, n, base, step)
    BY <1>4, <1>5 DEF Walks
  <1> QED
    BY <1>4, <1>6

AnyOf(s) == CHOOSE o \in s : TRUE

(* f is defined by taking the subsets of D apart.                          *)
Gathers(f, D, base, step) ==
    f = [s \in SUBSET D |-> IF s = {} THEN base
                            ELSE step[AnyOf(s)][f[s \ {AnyOf(s)}]]]

(* A function defined by taking a finite set apart exists.                 *)
LEMMA GatherExists ==
    ASSUME NEW D, IsFiniteSet(D), NEW T, NEW base \in T, NEW step \in [D -> [T -> T]]
    PROVE  \E f \in [SUBSET D -> T] : Gathers(f, D, base, step)
  <1> DEFINE Taken(f, s) == f[s] = step[AnyOf(s)][f[s \ {AnyOf(s)}]]
             Good(n, f) == /\ f \in [SUBSET D -> T] /\ f[{}] = base
                           /\ \A s \in SUBSET D :
                                 s # {} /\ Cardinality(s) <= n => Taken(f, s)
             S == {n \in Nat : \E f : Good(n, f)}
  <1>f. \A s \in SUBSET D : IsFiniteSet(s) /\ Cardinality(s) \in Nat
    BY FS_Subset, FS_CardinalityType
  <1>e. Cardinality({}) = 0 /\ \A s \in SUBSET D : Cardinality(s) = 0 => s = {}
    BY <1>f, FS_EmptySet
  <1>a. \A s \in SUBSET D : s # {} => /\ AnyOf(s) \in s /\ s \ {AnyOf(s)} \in SUBSET D
                                      /\ Cardinality(s \ {AnyOf(s)}) = Cardinality(s) - 1
    <2> SUFFICES ASSUME NEW s \in SUBSET D, s # {}
                 PROVE  /\ AnyOf(s) \in s
                        /\ Cardinality(s \ {AnyOf(s)}) = Cardinality(s) - 1
      OBVIOUS
    <2>1. AnyOf(s) \in s
      BY DEF AnyOf
    <2> QED
      BY <1>f, <2>1, FS_RemoveElement
  <1>1. 0 \in S
    <2> DEFINE f == [s \in SUBSET D |-> base]
    <2>1. f \in [SUBSET D -> T] /\ f[{}] = base
      OBVIOUS
    <2>2. \A s \in SUBSET D : Cardinality(s) <= 0 => s = {}
      BY <1>e, <1>f
    <2>3. Good(0, f)
      BY <2>1, <2>2
    <2> QED
      BY <2>3
  <1>2. ASSUME NEW n \in S PROVE n + 1 \in S
    <2>1. PICK f : Good(n, f)
      OBVIOUS
    <2> DEFINE g == [s \in SUBSET D |->
                        IF Cardinality(s) = n + 1 THEN step[AnyOf(s)][f[s \ {AnyOf(s)}]]
                        ELSE f[s]]
    <2>2. \A s \in SUBSET D : Cardinality(s) = n + 1 =>
             s # {} /\ step[AnyOf(s)][f[s \ {AnyOf(s)}]] \in T
      <3> SUFFICES ASSUME NEW s \in SUBSET D, Cardinality(s) = n + 1
                   PROVE  s # {} /\ step[AnyOf(s)][f[s \ {AnyOf(s)}]] \in T
        OBVIOUS
      <3>1. s # {}
        <4>1. n + 1 # 0
          OBVIOUS
        <4> QED
          BY <1>e, <4>1
      <3>2. AnyOf(s) \in D /\ f[s \ {AnyOf(s)}] \in T
        BY <1>a, <2>1, <3>1
      <3> QED
        BY <3>1, <3>2
    <2>3. g \in [SUBSET D -> T]
      BY <2>1, <2>2
    <2>4. \A s \in SUBSET D : Cardinality(s) # n + 1 => g[s] = f[s]
      OBVIOUS
    <2>5. \A s \in SUBSET D :
             Cardinality(s) = n + 1 => g[s] = step[AnyOf(s)][f[s \ {AnyOf(s)}]]
      OBVIOUS
    <2> HIDE DEF g
    <2>6. g[{}] = base
      BY <1>e, <2>1, <2>4
    <2>7. ASSUME NEW s \in SUBSET D, s # {}, Cardinality(s) <= n + 1 PROVE Taken(g, s)
      <3>1. g[s \ {AnyOf(s)}] = f[s \ {AnyOf(s)}]
        <4>1. Cardinality(s \ {AnyOf(s)}) # n + 1 /\ s \ {AnyOf(s)} \in SUBSET D
          BY <1>a, <1>f, <2>7
        <4> QED
          BY <2>4, <4>1
      <3>2. CASE Cardinality(s) = n + 1
        BY <2>5, <3>1, <3>2
      <3>3. CASE Cardinality(s) # n + 1
        <4>1. Cardinality(s) <= n
          BY <1>f, <2>7, <3>3
        <4>2. Taken(f, s)
          BY <2>1, <2>7, <4>1
        <4> QED
          BY <2>4, <3>1, <3>3, <4>2
      <3> QED
        BY <3>2, <3>3
    <2>8. Good(n + 1, g)
      BY <2>3, <2>6, <2>7
    <2>9. \E h : Good(n + 1, h)
      <3> HIDE DEF Good
      <3> QED
        BY <2>8
    <2> HIDE DEF Good
    <2> QED
      BY <2>9
  <1>3. \A n \in Nat : n \in S
    <2> HIDE DEF S
    <2>1. S \in SUBSET Nat
      BY DEF S
    <2> QED
      BY <1>1, <1>2, <2>1, NatSetInduction
  <1>4. PICK f : Good(Cardinality(D), f)
    <2>1. Cardinality(D) \in S
      BY <1>3, <1>f
    <2> QED
      BY <2>1
  <1>5. \A s \in SUBSET D : Cardinality(s) <= Cardinality(D)
    BY FS_Subset
  <1>6. \A s \in SUBSET D : f[s] = IF s = {} THEN base ELSE step[AnyOf(s)][f[s \ {AnyOf(s)}]]
    BY <1>4, <1>5
  <1>7. Gathers(f, D, base, step)
    BY <1>4, <1>6 DEF Gathers
  <1> QED
    BY <1>4, <1>7

-----------------------------------------------------------------------------
(* What the recursive functions of the model return.                       *)

PushKinds == {"place", "leg", "cancel", "modify"}

RowsOfKind(kinds) == [kind: kinds, order: Orders, status: Statuses, qty: {0}]

PushRows == RowsOfKind(PushKinds)

OrderRows == RowsOfKind(PushKinds \cup {"observe", "sync"})

ReconcileRows == {ReconcileRow(d) : d \in Int}

Rows == OrderRows \cup ReconcileRows

LEMMA RowTyped ==
    ASSUME NEW kinds, NEW k \in kinds, NEW o \in Orders, NEW s \in Statuses
    PROVE  /\ Row(k, o, s) \in RowsOfKind(kinds)
           /\ Row(k, o, s).kind = k /\ Row(k, o, s).order = o /\ Row(k, o, s).status = s
  BY DEF Row, RowsOfKind

RowsOfUpdates(kind, status) == {Row(kind, o, status[o]) : o \in DOMAIN status}

(* A commit has rows for the orders it names, of its kind and with the     *)
(* status given for the order, and no others.                              *)
LEMMA RowsForAreRows ==
    ASSUME NEW D \in SUBSET Orders, IsFiniteSet(D), NEW kind, NEW status, DOMAIN status = D
    PROVE  RowsFor(kind, status) \in Seq(RowsOfUpdates(kind, status))
  <1> DEFINE Eq(f) == f = [s \in SUBSET D |->
                 IF s = {} THEN <<>>
                 ELSE Append(f[s \ {AnyOf(s)}], Row(kind, AnyOf(s), status[AnyOf(s)]))]
             R == RowsOfUpdates(kind, status)
             T == Seq(R)
             step == [o \in D |-> [r \in T |-> Append(r, Row(kind, o, status[o]))]]
  <1>r. \A o \in D : Row(kind, o, status[o]) \in R
    BY DEF RowsOfUpdates
  <1> HIDE DEF R
  <1>1. <<>> \in T /\ step \in [D -> [T -> T]]
    BY <1>r
  <1>2. \A s \in SUBSET D : s # {} => AnyOf(s) \in s /\ AnyOf(s) \in D
    BY DEF AnyOf
  <1>3. \E f : Eq(f)
    <2>1. PICK f \in [SUBSET D -> T] : Gathers(f, D, <<>>, step)
      <3> HIDE DEF T, step
      <3> QED
        BY <1>1, GatherExists
    <2>2. \A s \in SUBSET D : s # {} =>
             step[AnyOf(s)][f[s \ {AnyOf(s)}]]
                 = Append(f[s \ {AnyOf(s)}], Row(kind, AnyOf(s), status[AnyOf(s)]))
      <3> SUFFICES ASSUME NEW s \in SUBSET D, s # {}
                   PROVE  step[AnyOf(s)][f[s \ {AnyOf(s)}]]
                            = Append(f[s \ {AnyOf(s)}], Row(kind, AnyOf(s), status[AnyOf(s)]))
        OBVIOUS
      <3>1. f[s \ {AnyOf(s)}] \in T /\ AnyOf(s) \in D
        BY <1>2, <2>1
      <3> HIDE DEF T
      <3> QED
        BY <3>1
    <2> HIDE DEF step, T
    <2>3. Eq(f)
      BY <2>1, <2>2 DEF Gathers
    <2> HIDE DEF Eq
    <2> QED
      BY <2>3
  <1> DEFINE rows == CHOOSE f : Eq(f)
  <1>4. Eq(rows)
    <2> HIDE DEF Eq
    <2> QED
      BY <1>3
  <1>5. RowsFor(kind, status) = rows[D]
    BY DEF RowsFor, AnyOf
  <1> HIDE DEF rows
  <1> DEFINE P == {s \in SUBSET D : rows[s] \in T}
  <1>6. ASSUME NEW s \in SUBSET D, \A o \in s : s \ {o} \in P PROVE s \in P
    <2>1. CASE s = {}
      BY <1>1, <1>4, <2>1
    <2>2. CASE s # {}
      <3>1. AnyOf(s) \in s /\ AnyOf(s) \in D /\ rows[s \ {AnyOf(s)}] \in T
        BY <1>2, <1>6, <2>2
      <3>2. rows[s] = Append(rows[s \ {AnyOf(s)}], Row(kind, AnyOf(s), status[AnyOf(s)]))
        BY <1>4, <2>2
      <3> QED
        <4>1. Append(rows[s \ {AnyOf(s)}], Row(kind, AnyOf(s), status[AnyOf(s)])) \in T
          <5>1. Row(kind, AnyOf(s), status[AnyOf(s)]) \in R
            BY <1>r, <3>1
          <5> QED
            BY <3>1, <5>1, AppendProperties
        <4> HIDE DEF T
        <4> QED
          BY <3>2, <4>1
    <2> QED
      BY <2>1, <2>2
  <1>7. \A s \in SUBSET D : s \in P
    <2> HIDE DEF P
    <2>1. P \in SUBSET SUBSET D
      BY DEF P
    <2> QED
      BY <1>6, <2>1, SubsetInduction
  <1> QED
    BY <1>5, <1>7 DEF R

Zero == [qty |-> 0, fills |-> 0, counted |-> {}]

(* What holds before the first row and is kept by every row holds of the   *)
(* cost basis that is recomputed from a log.                               *)
LEMMA BasisInduction ==
    ASSUME NEW l \in Seq(Rows), NEW T, Zero \in T,
           \A n \in 1..Len(l) : \A b \in T : ApplyRow(b, l[n], Attributed(l)) \in T
    PROVE  RecomputeCostBasis(l) \in T
  <1> DEFINE N == Len(l)
             Apply(b, n) == ApplyRow(b, l[n], Attributed(l))
             Eq(f) == f = [n \in 0..N |-> IF n = 0 THEN Zero ELSE Apply(f[n - 1], n)]
             step == [n \in Nat |-> [b \in T |-> IF n \in 1..N THEN Apply(b, n) ELSE b]]
  <1>n. N \in Nat
    OBVIOUS
  <1>1. step \in [Nat -> [T -> T]]
    OBVIOUS
  <1> HIDE DEF N
  <1>2. \E f : Eq(f)
    <2>1. PICK f \in [0..N -> T] : Walks(f, N, Zero, step)
      <3> HIDE DEF step
      <3> QED
        BY <1>1, <1>n, WalkExists
    <2>2. \A n \in 1..N : step[n][f[n - 1]] = Apply(f[n - 1], n)
      <3> SUFFICES ASSUME NEW n \in 1..N
                   PROVE  step[n][f[n - 1]] = Apply(f[n - 1], n)
        OBVIOUS
      <3>1. f[n - 1] \in T /\ n \in Nat
        BY <1>n, <2>1
      <3> QED
        BY <3>1
    <2> HIDE DEF step
    <2>3. \A n \in 0..N : n # 0 => n \in 1..N
      BY <1>n
    <2>4. Eq(f)
      BY <2>1, <2>2, <2>3 DEF Walks
    <2> HIDE DEF Eq
    <2> QED
      BY <2>4
  <1> DEFINE after == CHOOSE f : Eq(f)
  <1>3. Eq(after)
    <2> HIDE DEF Eq
    <2> QED
      BY <1>2
  <1>4. RecomputeCostBasis(l) = after[N]
    BY DEF RecomputeCostBasis, Zero, N
  <1> HIDE DEF after
  <1>5. after[0] = Zero /\ \A n \in 1..N : after[n] = Apply(after[n - 1], n)
    BY <1>3, <1>n
  <1> HIDE DEF Eq
  <1> DEFINE S == {n \in Nat : n <= N => after[n] \in T}
  <1>6. 0 \in S
    BY <1>5
  <1>7. ASSUME NEW n \in S PROVE n + 1 \in S
    <2> SUFFICES ASSUME n + 1 <= N PROVE after[n + 1] \in T
      OBVIOUS
    <2>1. n + 1 \in 1..N /\ (n + 1) - 1 = n /\ n <= N
      BY <1>n
    <2>2. after[n] \in T
      BY <2>1
    <2>3. after[n + 1] = Apply(after[n], n + 1)
      BY <1>5, <2>1
    <2> QED
      BY <2>1, <2>2, <2>3 DEF N
  <1>8. \A n \in Nat : n \in S
    <2> HIDE DEF S
    <2>1. S \in SUBSET Nat
      BY DEF S
    <2> QED
      BY <1>6, <1>7, <2>1, NatSetInduction
  <1> QED
    BY <1>4, <1>8, <1>n

(* What the orders of a set have done, as Executed adds it up.             *)
Sums(b) ==
    CHOOSE f : f = [s \in SUBSET Orders |->
        IF s = {} THEN 0 ELSE b[AnyOf(s)].done + f[s \ {AnyOf(s)}]]

LEMMA ExecutedIsSum == Executed = Sums(order)[Orders]
  BY DEF Executed, Sums, AnyOf

(* The sum does not depend on the order in which it is taken.              *)
LEMMA SumsAdd ==
    ASSUME NEW b, \A o \in Orders : b[o].done \in Nat
    PROVE  /\ Sums(b)[{}] = 0
           /\ \A s \in SUBSET Orders : Sums(b)[s] \in Nat
           /\ \A s \in SUBSET Orders : \A o \in s :
                 Sums(b)[s] = b[o].done + Sums(b)[s \ {o}]
  <1> DEFINE D == Orders
             Eq(f) == f = [s \in SUBSET D |->
                 IF s = {} THEN 0 ELSE b[AnyOf(s)].done + f[s \ {AnyOf(s)}]]
             step == [o \in D |-> [n \in Nat |-> b[o].done + n]]
             sum == Sums(b)
  <1>f. IsFiniteSet(D)
    BY SyncConstants
  <1>d. \A o \in D : b[o].done \in Nat
    OBVIOUS
  <1> HIDE DEF D
  <1>1. step \in [D -> [Nat -> Nat]]
    BY <1>d
  <1>2. \A s \in SUBSET D : s # {} => AnyOf(s) \in s /\ AnyOf(s) \in D
    BY DEF AnyOf
  <1>3. \E f : Eq(f)
    <2>1. PICK f \in [SUBSET D -> Nat] : Gathers(f, D, 0, step)
      <3> HIDE DEF step
      <3> QED
        BY <1>1, <1>f, GatherExists
    <2>2. \A s \in SUBSET D : s # {} =>
             step[AnyOf(s)][f[s \ {AnyOf(s)}]] = b[AnyOf(s)].done + f[s \ {AnyOf(s)}]
      <3> SUFFICES ASSUME NEW s \in SUBSET D, s # {}
                   PROVE  step[AnyOf(s)][f[s \ {AnyOf(s)}]]
                            = b[AnyOf(s)].done + f[s \ {AnyOf(s)}]
        OBVIOUS
      <3>1. f[s \ {AnyOf(s)}] \in Nat /\ AnyOf(s) \in D
        BY <1>2, <2>1
      <3> QED
        BY <3>1
    <2> HIDE DEF step
    <2>3. Eq(f)
      BY <2>1, <2>2 DEF Gathers
    <2> HIDE DEF Eq
    <2> QED
      BY <2>3
  <1>4. Eq(sum)
    <2>1. sum = CHOOSE f : Eq(f)
      BY DEF Sums, D
    <2> HIDE DEF Eq, sum
    <2> QED
      BY <1>3, <2>1
  <1> HIDE DEF sum
  <1>5. /\ sum[{}] = 0
        /\ \A s \in SUBSET D : s # {} => sum[s] = b[AnyOf(s)].done + sum[s \ {AnyOf(s)}]
    BY <1>4
  <1> HIDE DEF Eq
  <1>t. \A s \in SUBSET D : sum[s] \in Nat
    <2> DEFINE Q == {s \in SUBSET D : sum[s] \in Nat}
    <2>1. ASSUME NEW s \in SUBSET D, \A o \in s : s \ {o} \in Q PROVE s \in Q
      <3>1. CASE s = {}
        BY <1>5, <3>1
      <3>2. CASE s # {}
        <4>1. AnyOf(s) \in s /\ b[AnyOf(s)].done \in Nat
          BY <1>2, <1>d, <3>2
        <4>2. sum[s \ {AnyOf(s)}] \in Nat
          BY <2>1, <4>1
        <4>3. sum[s] = b[AnyOf(s)].done + sum[s \ {AnyOf(s)}]
          BY <1>5, <3>2
        <4> QED
          BY <4>1, <4>2, <4>3
      <3> QED
        BY <3>1, <3>2
    <2>2. \A s \in SUBSET D : s \in Q
      <3> HIDE DEF Q
      <3>1. Q \in SUBSET SUBSET D
        BY DEF Q
      <3> QED
        BY <1>f, <2>1, <3>1, SubsetInduction
    <2> QED
      BY <2>2
  <1> DEFINE P == {s \in SUBSET D :
                    \A o \in s : sum[s] = b[o].done + sum[s \ {o}]}
  <1>6. ASSUME NEW s \in SUBSET D, \A o \in s : s \ {o} \in P PROVE s \in P
    <2>1. CASE s = {}
      BY <1>5, <2>1
    <2>2. CASE s # {}
      <3> DEFINE c == AnyOf(s)
      <3>1. c \in s /\ c \in D
        BY <1>2, <2>2
      <3>2. sum[s] = b[c].done + sum[s \ {c}]
        BY <1>5, <2>2
      <3> HIDE DEF c
      <3>4. ASSUME NEW o \in s PROVE sum[s] = b[o].done + sum[s \ {o}]
        <4>1. CASE o = c
          BY <3>2, <4>1
        <4>2. CASE o # c
          <5>1. o \in s \ {c} /\ c \in s \ {o}
            BY <3>1, <4>2
          <5>2. sum[s \ {c}] = b[o].done + sum[(s \ {c}) \ {o}]
            BY <1>6, <3>1, <5>1
          <5>3. sum[s \ {o}] = b[c].done + sum[(s \ {o}) \ {c}]
            BY <1>6, <5>1
          <5>4. sum[(s \ {c}) \ {o}] = sum[(s \ {o}) \ {c}]
            <6>1. (s \ {c}) \ {o} = (s \ {o}) \ {c}
              OBVIOUS
            <6> QED
              BY <6>1
          <5>5. /\ s \ {o} \in SUBSET D /\ s \ {c} \in SUBSET D
                /\ (s \ {o}) \ {c} \in SUBSET D
            OBVIOUS
          <5>6. /\ sum[s \ {o}] \in Nat /\ sum[s \ {c}] \in Nat
                /\ sum[(s \ {o}) \ {c}] \in Nat
            BY <1>t, <5>5
          <5>7. b[c].done \in Nat /\ b[o].done \in Nat
            BY <1>d, <3>1
          <5>8. \A x, y, z, u, v \in Nat : \A w :
                   w = x + u /\ u = y + z /\ v = x + z => w = y + v
            OBVIOUS
          <5>9. sum[s \ {c}] = b[o].done + sum[(s \ {o}) \ {c}]
            BY <5>2, <5>4
          <5> QED
            BY <3>2, <5>3, <5>6, <5>7, <5>8, <5>9
        <4> QED
          BY <4>1, <4>2
      <3> QED
        BY <3>4
    <2> QED
      BY <2>1, <2>2
  <1>7. \A s \in SUBSET D : s \in P
    <2> HIDE DEF P
    <2>1. P \in SUBSET SUBSET D
      BY DEF P
    <2> QED
      BY <1>6, <1>f, <2>1, SubsetInduction
  <1> QED
    BY <1>5, <1>7, <1>t DEF D, sum

LEMMA SumsGrow ==
    ASSUME NEW b, \A o \in Orders : b[o].done \in Nat
    PROVE  \A s \in SUBSET Orders : Sums(b)[s] <= Sums(b)[Orders]
  <1> DEFINE D == Orders
             sum == Sums(b)
             P == {s \in SUBSET D : sum[D \ s] <= sum[D]}
  <1>f. IsFiniteSet(D)
    BY SyncConstants
  <1>1. /\ \A s \in SUBSET D : sum[s] \in Nat
        /\ \A s \in SUBSET D : \A o \in s : sum[s] = b[o].done + sum[s \ {o}]
        /\ \A o \in D : b[o].done \in Nat
    BY SumsAdd
  <1> HIDE DEF D, sum
  <1>2. ASSUME NEW s \in SUBSET D, \A o \in s : s \ {o} \in P PROVE s \in P
    <2>1. CASE s = {}
      <3>1. D \ s = D /\ sum[D] \in Nat
        BY <1>1, <2>1
      <3> QED
        BY <3>1
    <2>2. CASE s # {}
      <3>1. PICK o \in s : TRUE
        BY <2>2
      <3> DEFINE r == D \ (s \ {o})
      <3>2. o \in r /\ r \in SUBSET D /\ r \ {o} = D \ s
        OBVIOUS
      <3>3. sum[r] <= sum[D]
        BY <1>2
      <3> HIDE DEF r
      <3>4. sum[r] = b[o].done + sum[r \ {o}]
        BY <1>1, <3>2
      <3>5. sum[r] \in Nat /\ sum[r \ {o}] \in Nat /\ sum[D] \in Nat /\ b[o].done \in Nat
        BY <1>1, <3>2
      <3>6. sum[r \ {o}] <= sum[D]
        BY <3>3, <3>4, <3>5
      <3> QED
        BY <3>2, <3>6
    <2> QED
      BY <2>1, <2>2
  <1>3. \A s \in SUBSET D : s \in P
    <2> HIDE DEF P
    <2>1. P \in SUBSET SUBSET D
      BY DEF P
    <2> QED
      BY <1>f, <1>2, <2>1, SubsetInduction
  <1>4. ASSUME NEW s \in SUBSET D PROVE sum[s] <= sum[D]
    <2>1. D \ s \in SUBSET D /\ D \ (D \ s) = s
      OBVIOUS
    <2> QED
      BY <1>3, <2>1
  <1> QED
    BY <1>4 DEF D, sum

Bases == [qty: Nat, fills: Nat, counted: SUBSET Orders]

(* A row of the log is read as what it is.                                 *)
LEMMA RowCases ==
    ASSUME NEW r \in Rows
    PROVE  /\ r.kind \in PushKinds \cup {"observe", "sync", "reconcile"}
           /\ r.status \in Statuses /\ r.qty \in Int
           /\ r.kind # "reconcile" => r.order \in Orders
  BY DEF Rows, OrderRows, RowsOfKind, ReconcileRows, ReconcileRow, Statuses, Terminal

LEMMA MovedTyped ==
    ASSUME NEW q \in Nat, NEW d \in Int PROVE Moved(q, d) \in Nat
  BY DEF Moved

LEMMA BasisTyped == ASSUME NEW l \in Seq(Rows) PROVE RecomputeCostBasis(l) \in Bases
  <1>1. Zero \in Bases
    BY DEF Zero, Bases
  <1>2. ASSUME NEW n \in 1..Len(l), NEW b \in Bases
        PROVE  ApplyRow(b, l[n], Attributed(l)) \in Bases
    <2> DEFINE att == Attributed(l)
    <2>1. l[n] \in Rows
      OBVIOUS
    <2>2. l[n].qty \in Int /\ (l[n].kind # "reconcile" => l[n].order \in Orders)
      BY <2>1, RowCases
    <2>3. Size \in Nat /\ FillOf(l[n].order) \in Int
      BY SyncConstants DEF FillOf
    <2> HIDE DEF att
    <2>4. CASE l[n].kind = "reconcile"
      <3>1. Moved(b.qty, l[n].qty) \in Nat
        BY <2>2, MovedTyped DEF Bases
      <3> QED
        BY <2>4, <3>1 DEF ApplyRow, Bases
    <2>5. CASE /\ l[n].kind = "sync" /\ l[n].status = "filled"
               /\ l[n].order \in att \ b.counted
      <3> DEFINE q == Moved(b.qty, FillOf(l[n].order))
      <3>1. q \in Nat
        BY <2>3, MovedTyped DEF Bases
      <3> HIDE DEF q
      <3>2. b.fills + Size \in Nat /\ b.counted \cup {l[n].order} \in SUBSET Orders
        BY <2>2, <2>3, <2>5 DEF Bases
      <3>3. ApplyRow(b, l[n], att) = [qty |-> q, fills |-> b.fills + Size,
                                      counted |-> b.counted \cup {l[n].order}]
        BY <2>5 DEF ApplyRow, q
      <3> QED
        BY <3>1, <3>2, <3>3 DEF Bases, att
    <2> QED
      BY <2>4, <2>5 DEF ApplyRow, att
  <1> QED
    BY <1>1, <1>2, BasisInduction

(* The fills that are credited are those of the orders that are counted,   *)
(* and these have done them.                                               *)
LEMMA FillsAreDone ==
    ASSUME NEW b, \A o \in Orders : b[o].done \in Nat,
           \A o \in Orders : b[o].status = "filled" => b[o].done = Size,
           NEW l \in Seq(Rows),
           \A i \in 1..Len(l) : l[i].kind = "sync" /\ l[i].status = "filled" =>
               b[l[i].order].status = "filled"
    PROVE  RecomputeCostBasis(l).fills <= Sums(b)[Orders]
  <1> DEFINE T == {c \in Bases : c.fills = Sums(b)[c.counted]}
  <1>s. /\ Sums(b)[{}] = 0
        /\ \A s \in SUBSET Orders : \A o \in s :
              Sums(b)[s] = b[o].done + Sums(b)[s \ {o}]
    BY SumsAdd
  <1>1. Zero \in T
    BY <1>s DEF Zero, Bases
  <1>2. ASSUME NEW n \in 1..Len(l), NEW c \in T
        PROVE  ApplyRow(c, l[n], Attributed(l)) \in T
    <2> DEFINE att == Attributed(l)
    <2>1. l[n] \in Rows /\ l[n].qty \in Int /\ (l[n].kind # "reconcile" => l[n].order \in Orders)
      <3>1. l[n] \in Rows
        OBVIOUS
      <3> QED
        BY <3>1, RowCases
    <2>c. c.qty \in Nat /\ c.fills \in Nat /\ c.fills = Sums(b)[c.counted]
      BY DEF Bases
    <2> HIDE DEF att
    <2>2. CASE l[n].kind = "reconcile"
      <3>1. Moved(c.qty, l[n].qty) \in Nat
        BY <2>1, <2>c, MovedTyped
      <3>2. ApplyRow(c, l[n], att) = [c EXCEPT !.qty = Moved(c.qty, l[n].qty)]
        BY <2>2 DEF ApplyRow
      <3> QED
        BY <3>1, <3>2 DEF Bases, att
    <2>3. CASE /\ l[n].kind = "sync" /\ l[n].status = "filled"
               /\ l[n].order \in att \ c.counted
      <3> DEFINE o == l[n].order
                 s == c.counted \cup {o}
                 q == Moved(c.qty, FillOf(o))
      <3>1. o \in Orders /\ b[o].done = Size /\ Size \in Nat
        BY <2>1, <2>3, SyncConstants
      <3>2. s \in SUBSET Orders /\ o \in s /\ s \ {o} = c.counted
        BY <2>3, <3>1 DEF Bases
      <3>3. Sums(b)[s] = Size + Sums(b)[c.counted]
        <4> HIDE DEF o, s
        <4>1. Sums(b)[s] = b[o].done + Sums(b)[s \ {o}]
          BY <1>s, <3>2
        <4> QED
          BY <3>1, <3>2, <4>1
      <3>4. ApplyRow(c, l[n], att) = [qty |-> q, fills |-> c.fills + Size, counted |-> s]
        BY <2>3 DEF ApplyRow
      <3>5. q \in Nat
        <4>1. FillOf(o) \in Int
          BY <3>1 DEF FillOf
        <4> QED
          BY <2>c, <4>1, MovedTyped
      <3> HIDE DEF o, s, q
      <3>6. /\ [qty |-> q, fills |-> c.fills + Size, counted |-> s] \in Bases
            /\ c.fills + Size = Sums(b)[s]
        BY <2>c, <3>1, <3>2, <3>3, <3>5 DEF Bases
      <3> QED
        BY <3>4, <3>6 DEF att
    <2>4. CASE /\ l[n].kind # "reconcile"
               /\ ~(/\ l[n].kind = "sync" /\ l[n].status = "filled"
                     /\ l[n].order \in att \ c.counted)
      BY <2>4 DEF ApplyRow, att
    <2> QED
      BY <2>2, <2>3, <2>4
  <1>3. RecomputeCostBasis(l) \in T
    <2> HIDE DEF T
    <2> QED
      BY <1>1, <1>2, BasisInduction
  <1> QED
    BY <1>3, SumsGrow DEF Bases

(* A set of line numbers has a last one.                                   *)
LEMMA LastExists ==
    ASSUME NEW n \in Nat, NEW s \in SUBSET (1..n), s # {}
    PROVE  \E i \in s : \A j \in s : j <= i
  <1> DEFINE S == {m \in Nat : \A r \in SUBSET (1..m) :
                                  r # {} => \E i \in r : \A j \in r : j <= i}
  <1>1. 0 \in S
    <2>1. 1..0 = {}
      OBVIOUS
    <2> QED
      BY <2>1
  <1>2. ASSUME NEW m \in S PROVE m + 1 \in S
    <2> SUFFICES ASSUME NEW r \in SUBSET (1..(m + 1)), r # {}
                 PROVE  \E i \in r : \A j \in r : j <= i
      OBVIOUS
    <2>1. CASE m + 1 \in r
      BY <2>1
    <2>2. CASE m + 1 \notin r
      <3>1. r \in SUBSET (1..m)
        BY <2>2
      <3> QED
        BY <3>1
    <2> QED
      BY <2>1, <2>2
  <1>3. \A m \in Nat : m \in S
    <2> HIDE DEF S
    <2>1. S \in SUBSET Nat
      BY DEF S
    <2> QED
      BY <1>1, <1>2, <2>1, NatSetInduction
  <1> QED
    BY <1>3

(* The latest row of an order is one of its rows.                          *)
LEMMA LatestIsARow ==
    ASSUME NEW l \in Seq(Rows), NEW o, RowsOf(l, o) # {}
    PROVE  \E i \in RowsOf(l, o) : LatestRow(l, o) = l[i]
  <1>1. Len(l) \in Nat /\ RowsOf(l, o) \in SUBSET (1..Len(l))
    BY DEF RowsOf
  <1>2. \E i \in RowsOf(l, o) : \A j \in RowsOf(l, o) : j <= i
    BY <1>1, LastExists
  <1> DEFINE c == CHOOSE i \in RowsOf(l, o) : \A j \in RowsOf(l, o) : j <= i
  <1>3. c \in RowsOf(l, o)
    BY <1>2
  <1>4. LatestRow(l, o) = l[c]
    BY DEF LatestRow
  <1> QED
    BY <1>3, <1>4

-----------------------------------------------------------------------------
(* The inductive invariant.                                                *)

OrderRecords == [status: {"none", "open"} \cup Terminal, done: 0..Size]

\* A book of the broker: an order is filled when all its units are.
IsBook(b) ==
    /\ b \in [Orders -> OrderRecords]
    /\ \A o \in Orders : b[o].status = "filled" <=> b[o].done = Size

\* What a row says its order came to is what it came to in this book.
Truthful(row, b) ==
    row.kind # "reconcile" =>
        \/ row.status = "submitted" \/ row.kind = "cancel"
        \/ row.status = b[row.order].status
        \/ MayBePending /\ row.kind = "sync" /\ row.status = "rejected"

Sound(rows, kinds, b) ==
    rows \in Seq(kinds) /\ \A i \in 1..Len(rows) : Truthful(rows[i], b)

\* The log and the results of a push that is not recorded yet.
LogInv == Sound(log, Rows, order) /\ Sound(push, PushRows, order)

(* What a pass is about to save has ended, unless the broker calls a live  *)
(* order by another name.  It stays true while the pass waits, since what  *)
(* has ended does not change again.                                        *)
PassInv ==
    \A p \in Passes : pass[p].at = "saving" =>
        /\ \A o \in pass[p].orders \ pass[p].live : order[o].status \in Terminal
        /\ pass[p].live # {} => MayBePending

IInv == TypeOK /\ IsBook(order) /\ LogInv /\ PassInv

PassRecords == [at: {"idle", "listed", "recording", "scan", "asked", "confirming", "saving"},
                orders: SUBSET Orders, live: SUBSET Orders]

ReaderRecords == [at: {"idle", "read", "late"}, qty: Nat]

LEMMA TypeMeans ==
    ASSUME TypeOK
    PROVE  /\ order \in [Orders -> OrderRecords] /\ position \in Nat
           /\ pass \in [Passes -> PassRecords] /\ reader \in [Readers -> ReaderRecords]
           /\ listing \in BOOLEAN /\ healthy \in BOOLEAN
           /\ budget \in [placements: Nat, requests: Nat, transfers: Nat, fails: Nat]
           /\ \A o \in Orders : order[o].done \in Nat
           /\ \A p \in Passes : pass[p].orders \in SUBSET Orders
  <1>1. order \in [Orders -> OrderRecords]
    BY DEF TypeOK, OrderRecords
  <1>2. pass \in [Passes -> PassRecords] /\ reader \in [Readers -> ReaderRecords]
    BY DEF TypeOK, PassRecords, ReaderRecords
  <1>3. \A o \in Orders : order[o].done \in Nat
    <2> SUFFICES ASSUME NEW o \in Orders PROVE order[o].done \in Nat
      OBVIOUS
    <2>1. order[o].done \in 0..Size
      BY <1>1 DEF OrderRecords
    <2> QED
      BY <2>1, SyncConstants
  <1>4. \A p \in Passes : pass[p].orders \in SUBSET Orders
    BY <1>2 DEF PassRecords
  <1> QED
    BY <1>1, <1>2, <1>3, <1>4 DEF TypeOK

LEMMA InitInv == Init => IInv
  <1> SUFFICES ASSUME Init PROVE IInv
    OBVIOUS
  <1>s. Size \in Nat \ {0}
    BY SyncConstants
  <1>1. /\ order = [o \in Orders |-> [status |-> "none", done |-> 0]]
        /\ push = <<>> /\ log = <<>> /\ pass = [p \in Passes |-> Quiet]
    BY DEF Init
  <1>2. TypeOK
    <2>1. order \in [Orders -> [status: {"none", "open"} \cup Terminal, done: 0..Size]]
      BY <1>s, <1>1
    <2>2. pass \in [Passes -> PassRecords]
      BY <1>1 DEF Quiet, PassRecords
    <2>3. /\ budget \in [placements: Nat, requests: Nat, transfers: Nat, fails: Nat]
          /\ listing \in BOOLEAN /\ healthy \in BOOLEAN
      BY SyncConstants DEF Init
    <2>4. position \in Nat /\ reader \in [Readers -> ReaderRecords]
      BY DEF Init, NoReading, ReaderRecords
    <2>5. (\A i \in 1..Len(log) : FALSE) /\ (\A i \in 1..Len(push) : FALSE)
      BY <1>1
    <2> QED
      BY <2>1, <2>2, <2>3, <2>4, <2>5 DEF TypeOK, PassRecords, ReaderRecords
  <1>3. IsBook(order)
    BY <1>1, <1>s DEF IsBook, OrderRecords
  <1>4. LogInv
    BY <1>1 DEF LogInv, Sound
  <1>5. PassInv
    BY <1>1 DEF PassInv, Quiet
  <1> QED
    BY <1>2, <1>3, <1>4, <1>5 DEF IInv

-----------------------------------------------------------------------------
(* The broker's book.                                                      *)

\* From one book to the next: what has ended stays as it is.
Follows(b, c) ==
    IsBook(c) /\ \A o \in Orders : b[o].status \in Terminal => c[o].status = b[o].status

\* An entry that stays, or one that had not ended and is put right.
Enters(b, c, o) ==
    \/ c[o] = b[o]
    \/ /\ b[o].status \notin Terminal /\ c[o] \in OrderRecords
       /\ c[o].status = "filled" <=> c[o].done = Size

LEMMA EntriesFollow ==
    ASSUME NEW b, IsBook(b), NEW c, c = [o \in Orders |-> c[o]],
           \A o \in Orders : Enters(b, c, o)
    PROVE  Follows(b, c)
  <1>1. \A o \in Orders : b[o] \in OrderRecords
    BY DEF IsBook
  <1>2. \A o \in Orders : c[o] \in OrderRecords
    BY <1>1 DEF Enters
  <1>3. c \in [Orders -> OrderRecords]
    BY <1>2
  <1>4. \A o \in Orders : c[o].status = "filled" <=> c[o].done = Size
    BY DEF IsBook, Enters
  <1>5. \A o \in Orders : b[o].status \in Terminal => c[o].status = b[o].status
    BY DEF Enters
  <1> QED
    BY <1>3, <1>4, <1>5 DEF Follows, IsBook

(* An order that has not ended is given a status.                          *)
LEMMA BookEnters ==
    ASSUME IsBook(order), NEW o \in Orders, order[o].status \notin Terminal,
           NEW status \in {"open"} \cup Terminal
    PROVE  /\ Follows(order, Book(o, status)) /\ Book(o, status)[o].status = status
           /\ \A q \in Orders : q # o => Book(o, status)[q] = order[q]
  <1> DEFINE rec == [status |-> status,
                     done |-> IF status = "filled" THEN Size ELSE order[o].done]
             c == [order EXCEPT ![o] = rec]
  <1>1. order \in [Orders -> OrderRecords] /\ order[o] \in OrderRecords /\ Size \in Nat
    BY SyncConstants DEF IsBook
  <1>2. order[o].done \in 0..Size /\ order[o].done # Size
    BY <1>1 DEF IsBook, OrderRecords, Terminal
  <1>3. rec \in OrderRecords /\ rec.status = status /\ (rec.status = "filled" <=> rec.done = Size)
    BY <1>1, <1>2 DEF OrderRecords, Terminal
  <1>4. Book(o, status) = c
    BY DEF Book
  <1> HIDE DEF rec
  <1>5. c[o] = rec /\ \A q \in Orders : q # o => c[q] = order[q]
    BY <1>1
  <1>6. c = [q \in Orders |-> c[q]]
    BY <1>1
  <1> HIDE DEF c
  <1>7. \A q \in Orders : Enters(order, c, q)
    BY <1>3, <1>5 DEF Enters
  <1>8. Follows(order, c)
    BY <1>6, <1>7, EntriesFollow
  <1> QED
    BY <1>3, <1>4, <1>5, <1>8

LEMMA NextBook == ASSUME IInv, [Next]_vars PROVE Follows(order, order')
  <1>i. IsBook(order) /\ order \in [Orders -> OrderRecords] /\ Size \in Nat \ {0}
    BY SyncConstants DEF IInv, IsBook
  <1>o. Own \subseteq Orders /\ External \subseteq Orders /\ Legs \subseteq Orders
    BY DEF Orders
  <1>n. \A o \in Orders : /\ order[o] \in OrderRecords /\ order[o].done \in 0..Size
                          /\ order[o].status # "filled" => order[o].done # Size
    BY <1>i DEF IsBook, OrderRecords
  <1>1. CASE order' = order
    BY <1>i, <1>1 DEF Follows
  <1>2. ASSUME NEW o \in Orders, order[o].status \notin Terminal,
               NEW status \in {"open"} \cup Terminal, order' = Book(o, status)
        PROVE  Follows(order, order')
    BY <1>i, <1>2, BookEnters
  <1>3. ASSUME NEW o \in Own, PlaceOrder(o) PROVE Follows(order, order')
    <2>1. o \in Orders /\ order[o].status \notin Terminal
      BY <1>3, <1>o DEF PlaceOrder, Terminal
    <2>2. ASSUME NEW legs \in SUBSET {l \in Legs : order[l].status = "none"},
                 order' = [q \in Orders |-> IF q \in {o} \cup legs
                                           THEN [order[q] EXCEPT !.status = "open"]
                                           ELSE order[q]]
          PROVE  Follows(order, order')
      <3>1. ASSUME NEW q \in Orders PROVE Enters(order, order', q)
        <4>1. CASE q \in {o} \cup legs
          <5> DEFINE rec == [order[q] EXCEPT !.status = "open"]
          <5>1. order'[q] = rec /\ order[q].status \notin Terminal
            BY <2>1, <2>2, <4>1 DEF Terminal
          <5>2. rec \in OrderRecords /\ rec.status = "open" /\ rec.done = order[q].done
            BY <1>n DEF OrderRecords
          <5> HIDE DEF rec
          <5>3. order[q].done # Size
            BY <1>n, <5>1 DEF Terminal
          <5> QED
            BY <5>1, <5>2, <5>3 DEF Enters
        <4>2. CASE q \notin {o} \cup legs
          BY <2>2, <4>2 DEF Enters
        <4> QED
          BY <4>1, <4>2
      <3>2. order' = [q \in Orders |-> order'[q]]
        BY <2>2
      <3> QED
        BY <1>i, <3>1, <3>2, EntriesFollow
    <2>3. \/ \E legs \in SUBSET {l \in Legs : order[l].status = "none"} :
                order' = [q \in Orders |-> IF q \in {o} \cup legs
                                          THEN [order[q] EXCEPT !.status = "open"]
                                          ELSE order[q]]
          \/ \E status \in Terminal : order' = Book(o, status)
      BY <1>3 DEF PlaceOrder, Terminal
    <2> QED
      BY <1>2, <2>1, <2>2, <2>3
  <1>4. ASSUME NEW o \in Orders, CancelOrder(o) \/ PlacedElsewhere(o) \/ Ends(o)
        PROVE  Follows(order, order')
    <2>1. /\ order[o].status \notin Terminal
          /\ order' = order \/ \E status \in {"open"} \cup Terminal : order' = Book(o, status)
      BY <1>4 DEF CancelOrder, PlacedElsewhere, Ends, Terminal
    <2> QED
      BY <1>1, <1>2, <2>1
  <1>5. ASSUME NEW o \in Orders, ModifyOrder(o) PROVE Follows(order, order')
    <2>1. /\ order[o].status = "open" /\ order[o].status \notin Terminal
          /\ \/ order' = order
             \/ \E n \in Orders : /\ order[n].status = "none"
                                  /\ order' = [Book(o, "cancelled") EXCEPT ![n].status = "open"]
      BY <1>5, <1>o DEF ModifyOrder, Terminal
    <2>2. ASSUME NEW n \in Orders, order[n].status = "none",
                 order' = [Book(o, "cancelled") EXCEPT ![n].status = "open"]
          PROVE  Follows(order, order')
      <3> DEFINE b == Book(o, "cancelled")
                 rec == [b[n] EXCEPT !.status = "open"]
      <3>1. Follows(order, b) /\ b[n] = order[n] /\ IsBook(b)
        BY <1>i, <2>1, <2>2, BookEnters DEF Terminal, Follows
      <3>2. order' = [b EXCEPT ![n] = rec]
        BY <2>2
      <3>3. rec \in OrderRecords /\ rec.status = "open" /\ rec.done # Size
        BY <1>n, <2>2, <3>1 DEF OrderRecords
      <3> HIDE DEF b, rec
      <3>4. /\ order' = [q \in Orders |-> order'[q]] /\ order'[n] = rec
            /\ \A q \in Orders : q # n => order'[q] = b[q]
        BY <3>1, <3>2 DEF IsBook
      <3>5. b[n].status \notin Terminal
        BY <2>2, <3>1 DEF Terminal
      <3>6. \A q \in Orders : Enters(b, order', q)
        BY <3>3, <3>4, <3>5 DEF Enters
      <3>7. Follows(b, order')
        BY <3>1, <3>4, <3>6, EntriesFollow
      <3> QED
        BY <3>1, <3>7 DEF Follows
    <2> QED
      BY <1>1, <2>1, <2>2
  <1>6. ASSUME NEW o \in Orders, Trades(o) PROVE Follows(order, order')
    <2> DEFINE d == order[o].done + 1
               rec == [status |-> IF d = Size THEN "filled" ELSE "open", done |-> d]
    <2>1. order[o].status = "open" /\ order' = [order EXCEPT ![o] = rec]
      BY <1>6 DEF Trades
    <2>2. d \in 0..Size
      BY <1>i, <1>n, <2>1
    <2>3. rec \in OrderRecords /\ (rec.status = "filled" <=> rec.done = Size)
      BY <2>2 DEF OrderRecords, Terminal
    <2> HIDE DEF rec
    <2>4. \A q \in Orders : Enters(order, order', q)
      BY <1>i, <2>1, <2>3 DEF Enters, Terminal
    <2>5. order' = [q \in Orders |-> order'[q]]
      BY <1>i, <2>1
    <2> QED
      BY <1>i, <2>4, <2>5, EntriesFollow
  <1>7. \/ order' = order
        \/ \E o \in Own : PlaceOrder(o)
        \/ \E o \in Orders : \/ CancelOrder(o) \/ ModifyOrder(o)
                             \/ PlacedElsewhere(o) \/ Trades(o) \/ Ends(o)
    BY DEF Next, RecordPush, PushFails, PassStarts, PassGoesOn, PassFails, ObserveStart,
           ObserveDiff, RecordObserved, SyncStart, SyncList, SyncConfirm, SyncCommit, Heals,
           ReaderStep, ReadPosition, Reconcile, ReconcileAnother, ReconcileLate, BookDrift,
           Transfer, vars
  <1> QED
    BY <1>1, <1>3, <1>4, <1>5, <1>6, <1>7

-----------------------------------------------------------------------------
(* The rows of the log and of a push.                                      *)

LEMMA RowKinds == PushRows \subseteq OrderRows /\ OrderRows \subseteq Rows
  BY DEF PushRows, OrderRows, Rows, RowsOfKind

LEMMA SoundEmpty == ASSUME NEW K, NEW b PROVE Sound(<<>>, K, b)
  BY DEF Sound

LEMMA SoundOne ==
    ASSUME NEW K, NEW b, NEW row \in K, Truthful(row, b) PROVE Sound(<<row>>, K, b)
  <1>1. <<row>> \in Seq(K) /\ Len(<<row>>) = 1 /\ \A j \in 1..1 : <<row>>[j] = row
    OBVIOUS
  <1> QED
    BY <1>1 DEF Sound

LEMMA SoundAdds ==
    ASSUME NEW K, NEW b, NEW l, NEW r, Sound(l, K, b), Sound(r, K, b)
    PROVE  Sound(l \o r, K, b)
  <1>1. l \in Seq(K) /\ r \in Seq(K) /\ Len(l) \in Nat /\ Len(r) \in Nat
    BY DEF Sound
  <1>2. l \o r \in Seq(K) /\ Len(l \o r) = Len(l) + Len(r)
    BY <1>1, ConcatProperties
  <1>3. ASSUME NEW i \in 1..Len(l \o r) PROVE Truthful((l \o r)[i], b)
    <2>1. CASE i <= Len(l)
      <3>1. i \in 1..Len(l) /\ (l \o r)[i] = l[i]
        BY <1>1, <1>2, <2>1, ConcatProperties
      <3> QED
        BY <3>1 DEF Sound
    <2>2. CASE ~(i <= Len(l))
      <3>1. i - Len(l) \in 1..Len(r) /\ (l \o r)[i] = r[i - Len(l)]
        BY <1>1, <1>2, <2>2, ConcatProperties
      <3> QED
        BY <3>1 DEF Sound
    <2> QED
      BY <2>1, <2>2
  <1> QED
    BY <1>2, <1>3 DEF Sound

(* What a row says is still so in a later book.                            *)
LEMMA SoundFollows ==
    ASSUME NEW K \in SUBSET Rows, NEW b, NEW c, Follows(b, c), NEW l, Sound(l, K, b)
    PROVE  Sound(l, K, c)
  <1> SUFFICES ASSUME NEW i \in 1..Len(l) PROVE Truthful(l[i], c)
    BY DEF Sound
  <1>1. l[i] \in Rows /\ Truthful(l[i], b)
    BY DEF Sound
  <1>2. /\ l[i].status \in {"submitted"} \cup Terminal
        /\ l[i].kind # "reconcile" => l[i].order \in Orders
    BY <1>1, RowCases DEF Statuses
  <1> QED
    BY <1>1, <1>2 DEF Truthful, Follows

LEMMA SoundIn ==
    ASSUME NEW K, NEW K2, K \subseteq K2, NEW b, NEW l, Sound(l, K, b)
    PROVE  Sound(l, K2, b)
  <1>1. l \in Seq(K2)
    BY SeqMonotonic DEF Sound
  <1> QED
    BY <1>1 DEF Sound

(* The rows of a commit, when what it says of its orders is true.          *)
LEMMA SoundUpdates ==
    ASSUME NEW D \in SUBSET Orders, NEW kinds, NEW kind \in kinds, NEW b,
           NEW status \in [D -> Statuses],
           \A o \in D : Truthful(Row(kind, o, status[o]), b)
    PROVE  Sound(RowsFor(kind, status), RowsOfKind(kinds), b)
  <1> DEFINE rows == RowsFor(kind, status)
             R == RowsOfUpdates(kind, status)
  <1>1. IsFiniteSet(D) /\ DOMAIN status = D
    BY SyncConstants, FS_Subset
  <1>2. rows \in Seq(R)
    BY <1>1, RowsForAreRows
  <1>3. \A r \in R : r \in RowsOfKind(kinds) /\ Truthful(r, b)
    <2> SUFFICES ASSUME NEW o \in D
                 PROVE  /\ Row(kind, o, status[o]) \in RowsOfKind(kinds)
                        /\ Truthful(Row(kind, o, status[o]), b)
      BY <1>1 DEF RowsOfUpdates
    <2>1. o \in Orders /\ status[o] \in Statuses
      OBVIOUS
    <2> QED
      BY <2>1, RowTyped
  <1> HIDE DEF rows, R
  <1>4. rows \in Seq(RowsOfKind(kinds))
    BY <1>2, <1>3, SeqMonotonic
  <1>5. \A j \in 1..Len(rows) : rows[j] \in R
    BY <1>2
  <1>6. Sound(rows, RowsOfKind(kinds), b)
    BY <1>3, <1>4, <1>5 DEF Sound
  <1> QED
    BY <1>6 DEF rows

(* The row of one order.                                                   *)
LEMMA SoundRow ==
    ASSUME NEW kind \in PushKinds, NEW o \in Orders, NEW status \in Statuses, NEW b,
           \/ status = "submitted" \/ kind = "cancel" \/ b[o].status = status
    PROVE  Sound(<<Row(kind, o, status)>>, PushRows, b)
  <1>1. /\ Row(kind, o, status) \in PushRows
        /\ Row(kind, o, status).kind = kind /\ Row(kind, o, status).order = o
        /\ Row(kind, o, status).status = status
    BY RowTyped DEF PushRows
  <1>2. Truthful(Row(kind, o, status), b)
    BY <1>1 DEF Truthful
  <1> QED
    BY <1>1, <1>2, SoundOne

LEMMA SoundPlacement ==
    ASSUME NEW o \in Orders, NEW status \in Statuses, NEW legs \in SUBSET Orders, NEW b,
           status = "submitted" \/ b[o].status = status
    PROVE  Sound(PlacementRows(o, status, legs), PushRows, b)
  <1> DEFINE said == [l \in legs |-> "submitted"]
  <1>1. Sound(<<Row("place", o, status)>>, PushRows, b)
    BY SoundRow DEF PushKinds
  <1>2. said \in [legs -> Statuses]
    BY DEF Statuses
  <1>3. \A l \in legs : Truthful(Row("leg", l, said[l]), b)
    BY DEF Truthful, Row
  <1> HIDE DEF said
  <1>4. Sound(RowsFor("leg", said), PushRows, b)
    BY <1>2, <1>3, SoundUpdates DEF PushRows, PushKinds
  <1>5. PlacementRows(o, status, legs) = <<Row("place", o, status)>> \o RowsFor("leg", said)
    BY DEF PlacementRows, said
  <1> QED
    BY <1>1, <1>4, <1>5, SoundAdds

LEMMA NextPush == ASSUME IInv, [Next]_vars PROVE Sound(push, PushRows, order)'
  <1>f. Follows(order, order')
    BY NextBook
  <1>s. Sound(push, PushRows, order')
    BY <1>f, RowKinds, SoundFollows DEF IInv, LogInv
  <1>o. Own \subseteq Orders /\ Legs \subseteq Orders
    BY DEF Orders
  <1>b. IsBook(order)
    BY DEF IInv
  <1>1. CASE push' = push
    BY <1>s, <1>1 DEF Sound, Truthful
  <1>2. CASE push' = <<>>
    BY <1>2, SoundEmpty DEF Sound, Truthful
  <1>3. ASSUME NEW rows, Sound(rows, PushRows, order'), Answer(rows)
        PROVE  Sound(push, PushRows, order)'
    <2>1. CASE push' = push \o rows
      <3>1. Sound(push \o rows, PushRows, order')
        BY <1>3, <1>s, SoundAdds
      <3> QED
        BY <2>1, <3>1 DEF Sound, Truthful
    <2> QED
      BY <1>1, <1>3, <2>1 DEF Answer
  <1>4. ASSUME NEW o \in Own, PlaceOrder(o) PROVE Sound(push, PushRows, order)'
    <2>1. o \in Orders /\ order[o].status \notin Terminal
      BY <1>4, <1>o DEF PlaceOrder, Terminal
    <2>2. PICK legs \in SUBSET Orders, status \in Statuses :
             /\ Answer(PlacementRows(o, status, legs))
             /\ status = "submitted" \/ order' = Book(o, status)
      <3>1. \/ \E legs \in SUBSET Orders : Answer(PlacementRows(o, "submitted", legs))
            \/ /\ order' = Book(o, "filled")
               /\ Answer(PlacementRows(o, "filled", {}))
            \/ \E status \in {"cancelled", "rejected"} :
                  /\ order' = Book(o, status)
                  /\ \E said \in {status, "submitted"} : Answer(PlacementRows(o, said, {}))
        BY <1>4, <1>o DEF PlaceOrder
      <3>2. {} \in SUBSET Orders /\ {"submitted", "filled", "cancelled", "rejected"} \subseteq Statuses
        BY DEF Statuses, Terminal
      <3> QED
        BY <3>1, <3>2
    <2>3. status = "submitted" \/ order'[o].status = status
      <3>1. CASE status # "submitted"
        BY <1>b, <2>1, <2>2, <3>1, BookEnters DEF Statuses
      <3> QED
        BY <3>1
    <2>4. Sound(PlacementRows(o, status, legs), PushRows, order')
      BY <2>1, <2>3, SoundPlacement
    <2> QED
      BY <1>3, <2>2, <2>4
  <1>5. ASSUME NEW o \in Orders, CancelOrder(o) PROVE Sound(push, PushRows, order)'
    <2>1. Sound(<<Row("cancel", o, "cancelled")>>, PushRows, order')
      BY SoundRow DEF PushKinds, Statuses, Terminal
    <2> QED
      BY <1>3, <1>5, <2>1 DEF CancelOrder
  <1>6. ASSUME NEW o \in Orders, ModifyOrder(o) PROVE Sound(push, PushRows, order)'
    <2>1. \A n \in Orders : Sound(<<Row("modify", n, "submitted")>>, PushRows, order')
      BY SoundRow DEF PushKinds, Statuses
    <2>2. \E n \in Orders : Answer(<<Row("modify", n, "submitted")>>)
      BY <1>6, <1>o DEF ModifyOrder
    <2> QED
      BY <1>3, <2>1, <2>2
  <1>7. \/ push' = push \/ push' = <<>>
        \/ \E o \in Own : PlaceOrder(o)
        \/ \E o \in Orders : CancelOrder(o) \/ ModifyOrder(o)
    BY DEF Next, RecordPush, PushFails, PassStarts, PassGoesOn, PassFails, ObserveStart,
           ObserveDiff, RecordObserved, SyncStart, SyncList, SyncConfirm, SyncCommit, Heals,
           ReaderStep, ReadPosition, Reconcile, ReconcileAnother, ReconcileLate, BookDrift,
           PlacedElsewhere, Trades, Ends, Transfer, vars
  <1> QED
    BY <1>1, <1>2, <1>4, <1>5, <1>6, <1>7

LEMMA NextLog == ASSUME IInv, [Next]_vars PROVE Sound(log, Rows, order)'
  <1>f. Follows(order, order')
    BY NextBook
  <1>i. TypeOK /\ Sound(log, Rows, order) /\ Sound(push, PushRows, order) /\ log \in Seq(Rows)
    BY DEF IInv, LogInv, Sound
  <1>t. \A p \in Passes : pass[p].orders \in SUBSET Orders
    BY <1>i, TypeMeans
  <1>1. ASSUME NEW rows, Sound(rows, Rows, order), log' = log \o rows
        PROVE  Sound(log, Rows, order)'
    <2>1. Sound(log \o rows, Rows, order')
      BY <1>1, <1>f, <1>i, SoundAdds, SoundFollows
    <2> QED
      BY <1>1, <2>1 DEF Sound, Truthful
  <1>2. CASE log' = log
    <2>1. Sound(log, Rows, order')
      BY <1>f, <1>i, SoundFollows
    <2> QED
      BY <1>2, <2>1 DEF Sound, Truthful
  <1>3. CASE RecordPush
    <2>1. Sound(push, Rows, order)
      <3>1. PushRows \subseteq Rows
        BY RowKinds
      <3> QED
        BY <1>i, <3>1, SoundIn
    <2>2. log' = log \o push
      BY <1>3 DEF RecordPush
    <2> QED
      BY <1>1, <2>1, <2>2
  \* The rows of an observation and of a sync.
  <1>4. ASSUME NEW D \in SUBSET Orders, NEW kind \in {"observe", "sync"},
               NEW status \in [D -> Statuses],
               \A o \in D : Truthful(Row(kind, o, status[o]), order),
               log' = log \o RowsFor(kind, status)
        PROVE  Sound(log, Rows, order)'
    <2>1. Sound(RowsFor(kind, status), OrderRows, order)
      <3>1. kind \in PushKinds \cup {"observe", "sync"}
        OBVIOUS
      <3> QED
        BY <1>4, <3>1, SoundUpdates DEF OrderRows
    <2>2. Sound(RowsFor(kind, status), Rows, order)
      BY <2>1, RowKinds, SoundIn
    <2> QED
      BY <1>1, <1>4, <2>2
  <1>5. ASSUME NEW p \in Passes, RecordObserved(p) PROVE Sound(log, Rows, order)'
    <2> DEFINE status == [o \in pass[p].orders |-> "submitted"]
    <2>1. status \in [pass[p].orders -> Statuses]
      BY DEF Statuses
    <2>2. log' = log \o RowsFor("observe", status)
      BY <1>5 DEF RecordObserved
    <2>3. \A o \in pass[p].orders : Truthful(Row("observe", o, status[o]), order)
      BY DEF Truthful, Row
    <2> HIDE DEF status
    <2> QED
      BY <1>4, <1>t, <2>1, <2>2, <2>3
  <1>6. ASSUME NEW p \in Passes, SyncCommit(p) PROVE Sound(log, Rows, order)'
    <2> DEFINE status == [o \in pass[p].orders |-> SyncStatus(p, o)]
    <2>1. ASSUME NEW o \in pass[p].orders
          PROVE  /\ status[o] = SyncStatus(p, o) /\ SyncStatus(p, o) \in Statuses
                 /\ Truthful(Row("sync", o, SyncStatus(p, o)), order)
      <3>1. CASE o \in pass[p].live
        <4>1. MayBePending
          BY <1>6, <3>1 DEF SyncCommit, IInv, PassInv
        <4> QED
          BY <3>1, <4>1 DEF SyncStatus, Statuses, Terminal, Truthful, Row
      <3>2. CASE o \notin pass[p].live
        <4>1. order[o].status \in Terminal
          BY <1>6, <3>2 DEF SyncCommit, IInv, PassInv
        <4>2. SyncStatus(p, o) = order[o].status
          BY <3>2, <4>1 DEF SyncStatus, Terminal
        <4> QED
          BY <4>1, <4>2 DEF Statuses, Truthful, Row
      <3> QED
        BY <3>1, <3>2
    <2>2. status \in [pass[p].orders -> Statuses]
      BY <2>1
    <2>3. log' = log \o RowsFor("sync", status)
      BY <1>6 DEF SyncCommit
    <2>4. \A o \in pass[p].orders : Truthful(Row("sync", o, status[o]), order)
      BY <2>1
    <2> HIDE DEF status
    <2> QED
      BY <1>4, <1>t, <2>2, <2>3, <2>4
  <1>7. ASSUME NEW r \in Readers, BookDrift(r) PROVE Sound(log, Rows, order)'
    <2> DEFINE qty == reader[r].qty
               row == ReconcileRow(qty - Projected)
    <2>1. log' = log \o DriftRows(qty) /\ DriftRows(qty) \in {<<>>, <<row>>}
      BY <1>7 DEF BookDrift, DriftRows
    <2>2. qty - Projected \in Int
      <3>1. Projected \in Nat
        BY <1>i, BasisTyped DEF Projected, Bases
      <3>2. qty \in Nat
        BY <1>i, TypeMeans DEF ReaderRecords
      <3> HIDE DEF qty
      <3> QED
        BY <3>1, <3>2
    <2>3. row \in Rows /\ Truthful(row, order)
      BY <2>2 DEF Rows, ReconcileRows, ReconcileRow, Truthful
    <2> HIDE DEF row
    <2>4. Sound(DriftRows(qty), Rows, order)
      BY <2>1, <2>3, SoundOne, SoundEmpty
    <2> QED
      BY <1>1, <2>1, <2>4
  <1>8. \/ log' = log \/ RecordPush
        \/ \E p \in Passes : RecordObserved(p) \/ SyncCommit(p)
        \/ \E r \in Readers : BookDrift(r)
    BY DEF Next, PlaceOrder, CancelOrder, ModifyOrder, PushFails, PassStarts, PassGoesOn,
           PassFails, ObserveStart, ObserveDiff, SyncStart, SyncList, SyncConfirm, Heals,
           ReaderStep, ReadPosition, Reconcile, ReconcileAnother, ReconcileLate,
           PlacedElsewhere, Trades, Ends, Transfer, vars
  <1> QED
    BY <1>2, <1>3, <1>5, <1>6, <1>7, <1>8

-----------------------------------------------------------------------------
(* The passes and the types.                                               *)

LEMMA NextPass ==
    ASSUME IInv, [Next]_vars PROVE pass' \in [Passes -> PassRecords] /\ PassInv'
  <1>i. TypeOK /\ PassInv
    BY DEF IInv
  <1>t. pass \in [Passes -> PassRecords] /\ \A p \in Passes : pass[p].orders \in SUBSET Orders
    BY <1>i, TypeMeans
  <1>k. \A o \in Orders : order[o].status \in Terminal => order'[o].status \in Terminal
    BY NextBook DEF Follows
  \* A pass moves on, or waits with what it has.
  <1>1. ASSUME NEW p \in Passes, NEW rec \in PassRecords, pass' = [pass EXCEPT ![p] = rec],
               rec.at = "saving" =>
                   /\ \A o \in rec.orders \ rec.live : order[o].status \in Terminal
                   /\ rec.live # {} => MayBePending
        PROVE  pass' \in [Passes -> PassRecords] /\ PassInv'
    <2>1. /\ pass' \in [Passes -> PassRecords] /\ pass'[p] = rec
          /\ \A q \in Passes : q # p => pass'[q] = pass[q]
      BY <1>t, <1>1
    <2>2. rec.orders \in SUBSET Orders
      BY DEF PassRecords
    <2>3. ASSUME NEW q \in Passes, pass'[q].at = "saving"
          PROVE  /\ \A o \in pass'[q].orders \ pass'[q].live : order'[o].status \in Terminal
                 /\ pass'[q].live # {} => MayBePending
      <3>1. CASE q = p
        BY <1>1, <1>k, <2>1, <2>2, <2>3, <3>1
      <3>2. CASE q # p
        BY <1>i, <1>k, <1>t, <2>1, <2>3, <3>2 DEF PassInv
      <3> QED
        BY <3>1, <3>2
    <2> QED
      BY <2>1, <2>3 DEF PassInv
  <1>2. ASSUME NEW p \in Passes, NEW at \in {"idle", "listed", "recording", "scan", "asked",
                                             "confirming"},
               NEW set \in SUBSET Orders, Goto(p, at, set)
        PROVE  pass' \in [Passes -> PassRecords] /\ PassInv'
    <2> DEFINE rec == IF at = "idle" THEN Quiet ELSE [Quiet EXCEPT !.at = at, !.orders = set]
    <2>1. pass' = [pass EXCEPT ![p] = rec]
      BY <1>2 DEF Goto
    <2>2. rec \in PassRecords /\ rec.at # "saving"
      BY DEF Quiet, PassRecords
    <2> HIDE DEF rec
    <2> QED
      BY <1>1, <2>1, <2>2
  <1>3. ASSUME NEW p \in Passes, SyncConfirm(p)
        PROVE  pass' \in [Passes -> PassRecords] /\ PassInv'
    <2>0. PICK answered \in SUBSET pass[p].orders :
             \E live \in IF MayBePending THEN SUBSET (answered \cap OpenOrders) ELSE {{}} :
                pass' = [pass EXCEPT ![p] =
                   IF Confirmed(answered, live) = {} THEN Quiet
                   ELSE [at |-> "saving", orders |-> Confirmed(answered, live),
                         live |-> live]]
      BY <1>3 DEF SyncConfirm
    <2>1. PICK live \in IF MayBePending THEN SUBSET (answered \cap OpenOrders) ELSE {{}} :
             pass' = [pass EXCEPT ![p] =
                IF Confirmed(answered, live) = {} THEN Quiet
                ELSE [at |-> "saving", orders |-> Confirmed(answered, live), live |-> live]]
      BY <2>0
    <2> DEFINE updates == Confirmed(answered, live)
               rec == [at |-> "saving", orders |-> updates, live |-> live]
    <2>2. /\ live \subseteq Orders /\ (live # {} => MayBePending)
      BY <1>t, <2>1
    <2>3. /\ updates \in SUBSET Orders
          /\ \A o \in updates \ live : order[o].status \in Terminal
      BY <1>t, <2>2 DEF Confirmed
    <2> HIDE DEF updates
    <2>4. rec \in PassRecords
      BY <2>2, <2>3 DEF PassRecords
    <2>5. Quiet \in PassRecords /\ Quiet.at # "saving"
      BY DEF Quiet, PassRecords
    <2>6. CASE pass' = [pass EXCEPT ![p] = rec]
      BY <1>1, <2>2, <2>3, <2>4, <2>6
    <2>7. CASE pass' = [pass EXCEPT ![p] = Quiet]
      BY <1>1, <2>5, <2>7
    <2> QED
      BY <2>1, <2>6, <2>7 DEF updates
  <1>4. ASSUME NEW p \in Passes, PassStarts(p) \/ PassGoesOn(p) \/ PassFails(p)
        PROVE  pass' \in [Passes -> PassRecords] /\ PassInv'
    <2>1. GetPendingOrderIds(log) \in SUBSET Orders /\ OpenOrders \in SUBSET Orders
      BY DEF GetPendingOrderIds, GetKnownOrderIds, OpenOrders
    <2>2. CASE ObserveStart(p)
      BY <1>2, <2>1, <2>2 DEF ObserveStart
    <2>3. CASE ObserveDiff(p)
      <3> DEFINE unknown == pass[p].orders \ GetKnownOrderIds(log)
      <3>1. Goto(p, "scan", unknown) \/ Goto(p, "recording", unknown)
        BY <2>3 DEF ObserveDiff
      <3>2. unknown \in SUBSET Orders
        BY <1>t
      <3> HIDE DEF unknown
      <3> QED
        BY <1>2, <3>1, <3>2
    <2>4. CASE RecordObserved(p) \/ SyncCommit(p)
      BY <1>2, <2>4 DEF RecordObserved, SyncCommit
    <2>5. CASE SyncStart(p)
      <3>1. \/ Goto(p, "idle", GetPendingOrderIds(log))
            \/ Goto(p, "asked", GetPendingOrderIds(log))
        BY <2>5 DEF SyncStart
      <3> QED
        BY <1>2, <2>1, <3>1
    <2>6. CASE SyncList(p)
      <3>1. \E set \in SUBSET pass[p].orders : Goto(p, "idle", set) \/ Goto(p, "confirming", set)
        BY <2>6 DEF SyncList
      <3>2. PICK set \in SUBSET Orders : Goto(p, "idle", set) \/ Goto(p, "confirming", set)
        BY <1>t, <3>1
      <3> QED
        BY <1>2, <3>2
    <2>7. CASE PassFails(p)
      <3>1. Goto(p, "scan", {}) \/ Goto(p, "idle", {})
        BY <2>7 DEF PassFails
      <3> QED
        BY <1>2, <3>1
    <2> QED
      BY <1>3, <1>4, <2>2, <2>3, <2>4, <2>5, <2>6, <2>7 DEF PassStarts, PassGoesOn
  <1>5. CASE UNCHANGED pass
    BY <1>i, <1>k, <1>t, <1>5 DEF PassInv
  <1>6. UNCHANGED pass \/ \E p \in Passes : PassStarts(p) \/ PassGoesOn(p) \/ PassFails(p)
    BY DEF Next, PlaceOrder, CancelOrder, ModifyOrder, RecordPush, PushFails, Heals,
           ReaderStep, ReadPosition, Reconcile, ReconcileAnother, ReconcileLate, BookDrift,
           PlacedElsewhere, Trades, Ends, Transfer, vars
  <1> QED
    BY <1>4, <1>5, <1>6

(* The wallet, the readers, the health and the bounds stay what they are.  *)
LEMMA NextRest ==
    ASSUME IInv, [Next]_vars
    PROVE  /\ position' \in Nat /\ listing' \in BOOLEAN /\ healthy' \in BOOLEAN
           /\ reader' \in [Readers -> ReaderRecords]
           /\ budget' \in [placements: Nat, requests: Nat, transfers: Nat, fails: Nat]
  <1>i. TypeOK
    BY DEF IInv
  <1>t. /\ position \in Nat /\ listing \in BOOLEAN /\ healthy \in BOOLEAN /\ Size \in Nat
        /\ reader \in [Readers -> ReaderRecords]
        /\ budget \in [placements: Nat, requests: Nat, transfers: Nat, fails: Nat]
    BY <1>i, TypeMeans, SyncConstants
  <1>1. position' \in Nat
    <2>1. \/ position' \in {position, position + Size, position + 1}
          \/ position > 0 /\ position' = position - 1
          \/ \E d \in {-1, 1} : position + d >= 0 /\ position' = position + d
      BY DEF Next, PlaceOrder, CancelOrder, ModifyOrder, RecordPush, PushFails, PassStarts,
         PassGoesOn, PassFails, ObserveStart, ObserveDiff, RecordObserved, SyncStart, SyncList,
         SyncConfirm, SyncCommit, Heals, ReaderStep, ReadPosition, Reconcile, ReconcileAnother,
         ReconcileLate, BookDrift, PlacedElsewhere, Trades, Ends, Transfer, vars
    <2> QED
      BY <1>t, <2>1
  <1>2. reader' \in [Readers -> ReaderRecords]
    <2>1. ASSUME NEW r \in Readers, NEW rec \in ReaderRecords,
                 reader' = [reader EXCEPT ![r] = rec]
          PROVE  reader' \in [Readers -> ReaderRecords]
      BY <1>t, <2>1
    <2>2. /\ NoReading \in ReaderRecords /\ [at |-> "read", qty |-> position] \in ReaderRecords
          /\ \A r \in Readers : [reader[r] EXCEPT !.at = "late"] \in ReaderRecords
      BY <1>t DEF NoReading, ReaderRecords
    <2>3. \/ reader' = reader
          \/ \E r \in Readers :
                \/ reader' = [reader EXCEPT ![r] = NoReading]
                \/ reader' = [reader EXCEPT ![r] = [at |-> "read", qty |-> position]]
                \/ reader' = [reader EXCEPT ![r].at = "late"]
      BY DEF Next, PlaceOrder, CancelOrder, ModifyOrder, RecordPush, PushFails, PassStarts,
         PassGoesOn, PassFails, ObserveStart, ObserveDiff, RecordObserved, SyncStart, SyncList,
         SyncConfirm, SyncCommit, Heals, ReaderStep, ReadPosition, Reconcile, ReconcileAnother,
         ReconcileLate, BookDrift, PlacedElsewhere, Trades, Ends, Transfer, vars
    <2>4. ASSUME NEW r \in Readers, reader' = [reader EXCEPT ![r].at = "late"]
          PROVE  reader' = [reader EXCEPT ![r] = [reader[r] EXCEPT !.at = "late"]]
      BY <2>4
    <2> QED
      BY <1>t, <2>1, <2>2, <2>3, <2>4
  <1>3. budget' \in [placements: Nat, requests: Nat, transfers: Nat, fails: Nat]
    <2>1. \/ budget' = budget
          \/ budget.placements > 0 /\ budget' = [budget EXCEPT !.placements = @ - 1]
          \/ budget.requests > 0 /\ budget' = [budget EXCEPT !.requests = @ - 1]
          \/ budget.transfers > 0 /\ budget' = [budget EXCEPT !.transfers = @ - 1]
          \/ budget.fails > 0 /\ budget' = [budget EXCEPT !.fails = @ - 1]
      BY DEF Next, PlaceOrder, CancelOrder, ModifyOrder, RecordPush, PushFails, PassStarts,
         PassGoesOn, PassFails, ObserveStart, ObserveDiff, RecordObserved, SyncStart, SyncList,
         SyncConfirm, SyncCommit, Heals, ReaderStep, ReadPosition, Reconcile, ReconcileAnother,
         ReconcileLate, BookDrift, PlacedElsewhere, Trades, Ends, Transfer, vars
    <2> QED
      BY <1>t, <2>1
  <1>4. listing' \in BOOLEAN /\ healthy' \in BOOLEAN
    <2>1. listing' = listing /\ (healthy' = healthy \/ healthy' = TRUE \/ healthy' = FALSE)
      BY DEF Next, PlaceOrder, CancelOrder, ModifyOrder, RecordPush, PushFails, PassStarts,
         PassGoesOn, PassFails, ObserveStart, ObserveDiff, RecordObserved, SyncStart, SyncList,
         SyncConfirm, SyncCommit, Heals, ReaderStep, ReadPosition, Reconcile, ReconcileAnother,
         ReconcileLate, BookDrift, PlacedElsewhere, Trades, Ends, Transfer, vars
    <2> QED
      BY <1>t, <2>1
  <1> QED
    BY <1>1, <1>2, <1>3, <1>4

LEMMA NextInv == IInv /\ [Next]_vars => IInv'
  <1> SUFFICES ASSUME IInv, [Next]_vars PROVE IInv'
    OBVIOUS
  <1>1. IsBook(order)'
    BY NextBook DEF Follows, IsBook
  <1>2. TypeOK'
    <2>1. order' \in [Orders -> [status: {"none", "open"} \cup Terminal, done: 0..Size]]
      BY <1>1 DEF IsBook, OrderRecords
    <2>2. pass' \in [Passes -> [at: {"idle", "listed", "recording", "scan", "asked",
                                     "confirming", "saving"},
                                orders: SUBSET Orders, live: SUBSET Orders]]
      BY NextPass DEF PassRecords
    <2>3. reader' \in [Readers -> [at: {"idle", "read", "late"}, qty: Nat]]
      BY NextRest DEF ReaderRecords
    <2>4. ASSUME NEW i \in 1..Len(push')
          PROVE  push'[i].kind \in {"place", "leg", "cancel", "modify"} /\ push'[i].status \in Statuses
      <3>1. push'[i] \in PushRows
        BY NextPush DEF Sound
      <3> QED
        BY <3>1 DEF PushRows, RowsOfKind, PushKinds
    <2>5. ASSUME NEW i \in 1..Len(log')
          PROVE  /\ log'[i].kind \in {"place", "leg", "cancel", "modify",
                                       "observe", "sync", "reconcile"}
                 /\ log'[i].status \in Statuses /\ log'[i].qty \in Int
      <3>1. log'[i] \in Rows
        BY NextLog DEF Sound
      <3> QED
        BY <3>1, RowCases DEF PushKinds
    <2> QED
      BY <2>1, <2>2, <2>3, <2>4, <2>5, NextRest DEF TypeOK
  <1> QED
    BY <1>1, <1>2, NextPush, NextLog, NextPass DEF IInv, LogInv

-----------------------------------------------------------------------------
(* The theorems.                                                           *)

(* The inductive invariant holds in every state of every behaviour.        *)
THEOREM SyncInductive == Spec => []IInv
  <1> QED
    BY InitInv, NextInv, PTL DEF Spec

(* The book, the log, the pushes, the passes and the readers are always    *)
(* what the code writes.                                                   *)
THEOREM SyncTypeCorrect == Spec => []TypeOK
  <1>1. IInv => TypeOK
    BY DEF IInv
  <1> QED
    BY <1>1, SyncInductive, PTL

(* However many passes race, however often an order is reported and        *)
(* whatever the broker calls it, recomputeCostBasisFromCommits credits no  *)
(* more fills than were executed.                                          *)
THEOREM NoFillIsInvented == Spec => []FillsAreReal
  <1>1. IInv => FillsAreReal
    <2> SUFFICES ASSUME IInv PROVE RecomputeCostBasis(log).fills <= Executed
      BY DEF FillsAreReal
    <2>1. /\ \A o \in Orders : order[o].done \in Nat
          /\ \A o \in Orders : order[o].status = "filled" => order[o].done = Size
      BY TypeMeans DEF IInv, IsBook
    <2>2. /\ log \in Seq(Rows)
          /\ \A i \in 1..Len(log) : log[i].kind = "sync" /\ log[i].status = "filled" =>
                 order[log[i].order].status = "filled"
      BY DEF IInv, LogInv, Sound, Truthful
    <2> QED
      BY <2>1, <2>2, FillsAreDone, ExecutedIsSum
  <1> QED
    BY <1>1, SyncInductive, PTL

(* For every broker, also one that reports live orders in transitional     *)
(* words, loses them from its listing or answers a cancel too early: the   *)
(* log shows an order as filled, cancelled or rejected only if it is, but  *)
(* for the row of a cancel and for the rejection sync makes of a word it   *)
(* does not know.                                                          *)
THEOREM EndsAreTheBrokers == Spec => []LoggedEndIsReal
  <1>1. IInv => LoggedEndIsReal
    <2> SUFFICES ASSUME IInv, NEW o \in GetKnownOrderIds(log)
                 PROVE  LET row == LatestRow(log, o) IN
                        \/ row.status = "submitted" \/ row.kind = "cancel"
                        \/ row.status = order[o].status
                        \/ MayBePending /\ row.kind = "sync" /\ row.status = "rejected"
      BY DEF LoggedEndIsReal
    <2>1. log \in Seq(Rows) /\ RowsOf(log, o) # {}
      BY DEF IInv, LogInv, Sound, GetKnownOrderIds
    <2>2. PICK i \in RowsOf(log, o) : LatestRow(log, o) = log[i]
      BY <2>1, LatestIsARow
    <2>3. i \in 1..Len(log) /\ log[i].kind # "reconcile" /\ log[i].order = o
      BY DEF RowsOf
    <2>4. Truthful(log[i], order)
      BY <2>3 DEF IInv, LogInv, Sound
    <2> QED
      BY <2>2, <2>3, <2>4 DEF Truthful
  <1> QED
    BY <1>1, SyncInductive, PTL
=============================================================================
