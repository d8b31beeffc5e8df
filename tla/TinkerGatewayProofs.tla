-------------------------- MODULE TinkerGatewayProofs --------------------------
(***************************************************************************)
(* What the clients of the gateway may rely on, for any models, programs,  *)
(* slots and budgets: optimizer steps consume exactly their windows,       *)
(* barriers separate, slots are exclusive, and nobody is stranded.  The    *)
(* invariant IInv of TinkerGateway counts what was issued and answered,    *)
(* and says what the trainer has accumulated in the slot of every model.   *)
(***************************************************************************)
EXTENDS TinkerGateway, TLAPS, SequenceTheorems, FiniteSetTheorems, WellFoundedInduction

\* The naturals are well ordered, by a relation that provers can handle.
LEMMA NatIsWellOrdered ==
    \E R : IsWellFoundedOn(R, Nat) /\ \A p, q \in Nat : p < q => <<p, q>> \in R
<1>1. \A p, q \in Nat : p < q => <<p, q>> \in OpToRel(<, Nat)
  BY DEF OpToRel
<1> QED
  BY <1>1, NatLessThanWellFounded, Zenon

\* A set of numbers that is not empty has a least one.
LEMMA Least == ASSUME NEW S \in SUBSET Nat, S # {} PROVE \E x \in S : \A y \in S : x <= y
<1>1. PICK R : IsWellFoundedOn(R, Nat) /\ \A p, q \in Nat : p < q => <<p, q>> \in R
  BY NatIsWellOrdered
<1>2. IsWellFoundedOn(R, Nat) /\ S \subseteq Nat
  BY <1>1
<1>3. PICK x \in S : \A y \in S : ~(<<y, x>> \in R)
  BY <1>2, WFMin, Zenon
<1>4. \A y \in S : x \in Nat /\ y \in Nat /\ ~(y < x)
  BY <1>1, <1>2, <1>3, Zenon
<1>5. \A y \in S : x <= y
  BY <1>4
<1> QED
  BY <1>5

\* Min() and Max() of a set of numbers.
LEMMA MinIn == ASSUME NEW S \in SUBSET Nat, S # {} PROVE Min(S) \in S
BY Least DEF Min

LEMMA MaxIs ==
    ASSUME NEW n \in Nat, NEW S \in SUBSET (0..n), S # {}
    PROVE  Max(S) \in S /\ \A y \in S : y <= Max(S)
<1> DEFINE T == {n - x : x \in S}
<1>1. T \in SUBSET Nat /\ T # {}
  <2>1. \A x \in S : n - x \in Nat
    OBVIOUS
  <2> QED
    BY <2>1
<1> HIDE DEF T
<1>2. PICK z \in T : \A y \in T : z <= y
  BY <1>1, Least
<1>3. PICK x \in S : z = n - x
  BY DEF T
<1>4. \A y \in S : n - y \in T
  BY DEF T
<1>5. \A y \in S : x >= y /\ y \in Nat /\ x \in Nat
  BY <1>2, <1>3, <1>4
<1> QED
  BY <1>5 DEF Max

\* A part of an interval that holds with a number those before it is its beginning,
\* as long as it has members.
LEMMA Beginning ==
    ASSUME NEW a \in Nat, NEW b \in Nat, NEW I \in SUBSET ((a + 1)..b),
           \A i \in I : \A j \in (a + 1)..i : j \in I
    PROVE  IsFiniteSet(I) /\ Cardinality(I) \in Nat /\ I = (a + 1)..(a + Cardinality(I))
<1>1. CASE I = {}
  BY <1>1, FS_EmptySet
<1>2. CASE I # {}
  <2>1. I \in SUBSET (0..b)
    OBVIOUS
  <2> DEFINE k == Max(I)
  <2>2. k \in I /\ \A y \in I : y <= k
    BY <2>1, <1>2, MaxIs
  <2> HIDE DEF k
  <2>3. I = (a + 1)..k /\ k \in Nat /\ k >= a + 1
    <3>1. k \in (a + 1)..b /\ \A i \in (a + 1)..k : i \in I
      BY <2>2
    <3>2. k \in Nat /\ k >= a + 1 /\ \A y \in I : y \in (a + 1)..b /\ y <= k
      BY <2>2, <3>1
    <3>3. \A y \in I : y \in (a + 1)..k
      BY <3>2
    <3>4. I \subseteq (a + 1)..k /\ (a + 1)..k \subseteq I
      BY <3>1, <3>3, Zenon
    <3> QED
      BY <3>2, <3>4
  <2>4. IsFiniteSet(I) /\ Cardinality(I) = k - a
    <3>1. a + 1 \in Int /\ k \in Int /\ ~(a + 1 > k) /\ k - (a + 1) + 1 = k - a
      BY <2>3
    <3> QED
      BY <3>1, <2>3, FS_Interval
  <2> QED
    BY <2>3, <2>4
<1> QED
  BY <1>1, <1>2

\* The datums of a command are as many as their indices.
LEMMA Indices ==
    ASSUME NEW m, NEW s, NEW I, IsFiniteSet(I), NEW D, D = {<<m, s, i>> : i \in I}
    PROVE  IsFiniteSet(D) /\ Cardinality(D) = Cardinality(I)
<1> DEFINE f == [i \in I |-> <<m, s, i>>]
<1>1. f \in Surjection(I, D)
  BY DEF Surjection
<1>2. f \in Injection(I, D)
  <2>1. f \in [I -> D] /\ \A i \in I : f[i] = <<m, s, i>>
    OBVIOUS
  <2>2. \A i, j \in I : f[i] = f[j] => i = j
    <3>1. \A i, j \in I : <<m, s, i>> = <<m, s, j>> => i = j
      OBVIOUS
    <3> QED
      BY <2>1, <3>1
  <2> HIDE DEF f
  <2> QED
    BY <2>1, <2>2 DEF Injection, IsInjective
<1> QED
  BY <1>1, <1>2, FS_Surjection

\* A client's commands are numbered without gaps when they enter the queue.
LEMMA ContiguousIs ==
    ASSUME NEW m, NEW submitted, enqueued[m] \in Nat, Len(program[m]) \in Nat, enqueued[m] <= Len(program[m])
    PROVE  /\ Contiguous(m, submitted) \in enqueued[m]..Len(program[m])
           /\ \A k \in (enqueued[m] + 1)..Contiguous(m, submitted) : k \in submitted
<1> DEFINE S == {n \in enqueued[m]..Len(program[m]) : \A k \in (enqueued[m] + 1)..n : k \in submitted}
<1>1. S \in SUBSET (0..Len(program[m])) /\ enqueued[m] \in S
  OBVIOUS
<1> HIDE DEF S
<1>2. Max(S) \in S
  BY <1>1, MaxIs
<1> QED
  BY <1>2 DEF S, Contiguous

LEMMA CommandsAreFinite == IsFiniteSet(Commands)
<1>1. IsFiniteSet(Models) /\ IsFiniteSet(1..MaxLen)
  <2>1. 1 \in Int /\ MaxLen \in Int
    BY ProgramsAssumption
  <2>2. IsFiniteSet(1..MaxLen)
    BY <2>1, FS_Interval
  <2> QED
    BY <2>2, ModelsAssumption
<1> DEFINE I == 1..MaxLen
<1>2. Commands = Models \X I
  BY DEF Commands
<1> HIDE DEF I
<1>3. IsFiniteSet(Models \X I)
  BY <1>1, FS_Product DEF I
<1> QED
  BY <1>2, <1>3

LEMMA NextArrivalIs == NextArrival \in Nat /\ NextArrival # 0
<1> DEFINE S == {c \in Commands : arrival[c[1]][c[2]] # 0}
<1>1. S \in SUBSET Commands
  OBVIOUS
<1> HIDE DEF S
<1>2. Cardinality(S) \in Nat
  BY <1>1, CommandsAreFinite, FS_Subset, FS_CardinalityType
<1>3. NextArrival = 1 + Cardinality(S)
  BY DEF NextArrival, S
<1> QED
  BY <1>2, <1>3

\* The programs, as the provers need them.
LEMMA Program ==
    ASSUME program \in Programs, NEW m \in Models
    PROVE  /\ program[m] \in Seq([op : Ops, datums : Nat, bad : BOOLEAN])
           /\ Len(program[m]) \in Nat /\ Len(program[m]) <= MaxLen /\ MaxLen \in Nat
           /\ \A s \in Seqs(m) : /\ s \in 1..MaxLen /\ Cmd(m, s).op \in Ops /\ Cmd(m, s).datums \in Nat
                                 /\ Cmd(m, s).bad \in BOOLEAN
                                 /\ IsBatch(m, s) /\ Valid(m, s) => Cmd(m, s).datums > 0
<1>1. /\ program[m] \in Seq([op : Ops, datums : Nat, bad : BOOLEAN]) /\ Len(program[m]) <= MaxLen /\ MaxLen \in Nat
      /\ \A s \in 1..Len(program[m]) : program[m][s].op \in BatchOps /\ ~program[m][s].bad => program[m][s].datums > 0
  BY ProgramsAssumption
<1>2. Len(program[m]) \in Nat /\ \A s \in 1..Len(program[m]) : program[m][s] \in [op : Ops, datums : Nat, bad : BOOLEAN]
  BY <1>1, LenProperties, ElementOfSeq
<1> QED
  BY <1>1, <1>2 DEF Seqs, Cmd, IsBatch, Valid

\* The types of what is known of a command.
LEMMA CommandTypes ==
    ASSUME IInv, NEW m \in Models, NEW s \in 1..MaxLen
    PROVE  /\ issued[m][s] \in Nat /\ remaining[m][s] \in Nat /\ arrival[m][s] \in Nat
           /\ future[m][s] \in FutureStates /\ consumed[m][s] \in Seq(SUBSET Datums)
<1>1. /\ issued \in [Models -> [1..MaxLen -> Nat]] /\ remaining \in [Models -> [1..MaxLen -> Nat]]
      /\ arrival \in [Models -> [1..MaxLen -> Nat]] /\ future \in [Models -> [1..MaxLen -> FutureStates]]
      /\ consumed \in [Models -> [1..MaxLen -> Seq(SUBSET Datums)]]
  BY DEF IInv, TypeOK
<1>2. /\ issued[m] \in [1..MaxLen -> Nat] /\ remaining[m] \in [1..MaxLen -> Nat]
      /\ arrival[m] \in [1..MaxLen -> Nat] /\ future[m] \in [1..MaxLen -> FutureStates]
      /\ consumed[m] \in [1..MaxLen -> Seq(SUBSET Datums)]
  BY <1>1
<1> QED
  BY <1>2

\* A command of an open queue is one of its model's program.
LEMMA Queued ==
    ASSUME IInv, NEW m \in Models, NEW s \in queue[m]
    PROVE  s \in Seqs(m) /\ s \in 1..MaxLen /\ s \in 1..enqueued[m] /\ s \in Nat
           /\ enqueued[m] \in Nat /\ enqueued[m] <= Len(program[m]) /\ Len(program[m]) \in Nat /\ MaxLen \in Nat
<1>1. Len(program[m]) \in Nat /\ Len(program[m]) <= MaxLen /\ MaxLen \in Nat
  BY Program DEF IInv, TypeOK
<1>2. enqueued[m] \in 0..MaxLen /\ enqueued[m] <= Len(program[m]) /\ s \in 1..enqueued[m]
  BY DEF IInv, TypeOK, InSequence
<1> QED
  BY <1>1, <1>2 DEF Seqs

(***************************************************************************)
(* The scheduler.                                                          *)
(***************************************************************************)

\* _ready_datums(): finitely many, those of the open runs that were not issued.
LEMMA ReadyDatumsAre ==
    ASSUME IInv
    PROVE  /\ IsFiniteSet(ReadyDatums)
           /\ \A r : r \in ReadyDatums <=>
                 \E m \in Open : \E s \in OpenRun(m) : \E i \in (issued[m][s] + 1)..Cmd(m, s).datums : r = <<m, s, i>>
<1> DEFINE C == {d \in Commands : d[1] \in Open /\ d[2] \in OpenRun(d[1])}
           U == {Unissued(c[1], c[2]) : c \in C}
           f == [c \in C |-> Unissued(c[1], c[2])]
<1>1. \A c \in C : \E m \in Open : \E s \in OpenRun(m) : c = <<m, s>> /\ m \in Models /\ s \in Seqs(m)
  BY Queued DEF Commands, Open, OpenRun
<1>2. \A m \in Open : \A s \in OpenRun(m) : <<m, s>> \in C
  BY Queued DEF Commands, Open, OpenRun
<1>3. \A c \in C : IsFiniteSet(Unissued(c[1], c[2]))
  <2> SUFFICES ASSUME NEW c \in C PROVE IsFiniteSet(Unissued(c[1], c[2]))
    OBVIOUS
  <2>1. PICK m \in Open : \E s \in OpenRun(m) : c = <<m, s>> /\ m \in Models /\ s \in Seqs(m)
    BY <1>1
  <2> PICK s \in OpenRun(m) : c = <<m, s>> /\ m \in Models /\ s \in Seqs(m)
    BY <2>1
  <2>2. s \in 1..MaxLen /\ Cmd(m, s).datums \in Nat
    BY <2>1, Program DEF IInv, TypeOK
  <2>3. issued[m][s] \in Nat
    BY <2>2, CommandTypes
  <2> DEFINE I == (issued[m][s] + 1)..Cmd(m, s).datums
  <2>4. IsFiniteSet(I)
    <3>1. issued[m][s] + 1 \in Int /\ Cmd(m, s).datums \in Int
      BY <2>2, <2>3
    <3> QED
      BY <3>1, FS_Interval
  <2> HIDE DEF I
  <2>5. Unissued(c[1], c[2]) = {<<m, s, i>> : i \in I}
    BY <2>1 DEF Unissued, I
  <2> QED
    BY <2>4, <2>5, Indices
<1>4. IsFiniteSet(C)
  <2>1. C \in SUBSET Commands
    OBVIOUS
  <2> HIDE DEF C
  <2> QED
    BY <2>1, CommandsAreFinite, FS_Subset
<1>5. IsFiniteSet(U)
  <2>1. f \in Surjection(C, U)
    BY DEF Surjection
  <2> HIDE DEF C, U, f
  <2> QED
    BY <1>4, <2>1, FS_Surjection
<1>6. \A T \in U : IsFiniteSet(T)
  BY <1>3
<1>7. ReadyDatums = UNION U
  BY DEF ReadyDatums
<1>8. ASSUME NEW r PROVE r \in UNION U <=>
         \E m \in Open : \E s \in OpenRun(m) : \E i \in (issued[m][s] + 1)..Cmd(m, s).datums : r = <<m, s, i>>
  <2> HIDE DEF C
  <2>1. ASSUME NEW c \in C, r \in Unissued(c[1], c[2])
        PROVE  \E m \in Open : \E s \in OpenRun(m) : \E i \in (issued[m][s] + 1)..Cmd(m, s).datums : r = <<m, s, i>>
    BY <1>1, <2>1 DEF Unissued
  <2>2. ASSUME NEW m \in Open, NEW s \in OpenRun(m), NEW i \in (issued[m][s] + 1)..Cmd(m, s).datums, r = <<m, s, i>>
        PROVE  r \in UNION U
    <3>1. <<m, s>> \in C /\ <<m, s>>[1] = m /\ <<m, s>>[2] = s
      BY <1>2
    <3>2. r \in Unissued(m, s)
      BY <2>2 DEF Unissued
    <3> QED
      BY <3>1, <3>2
  <2> QED
    BY <2>1, <2>2
<1> HIDE DEF U
<1>9. IsFiniteSet(UNION U)
  BY <1>5, <1>6, FS_UNION
<1> QED
  BY <1>7, <1>8, <1>9

\* _pack_batch(): of a request the datums that come next are packed.
LEMMA PackedIs ==
    ASSUME IInv, NEW seed \in ReadyDatums
    PROVE  /\ Packed(seed) \subseteq ReadyDatums
           /\ \A r \in Packed(seed) : Cmd(r[1], r[2]).op = Cmd(seed[1], seed[2]).op
           /\ \A m \in Open : \A s \in OpenRun(m) : \A i \in Nat : \A j \in (issued[m][s] + 1)..i :
                 <<m, s, i>> \in Packed(seed) => <<m, s, j>> \in Packed(seed)
<1> DEFINE K == {r \in ReadyDatums : Cmd(r[1], r[2]).op = Cmd(seed[1], seed[2]).op}
           Ahead(r) == {q \in K : Earlier(q, r)}
<1>1. Packed(seed) = {r \in K : Cardinality(Ahead(r)) < Max({1, Budget})}
  BY DEF Packed
<1>2. K \in SUBSET ReadyDatums /\ IsFiniteSet(K)
  <2>1. K \in SUBSET ReadyDatums
    OBVIOUS
  <2> HIDE DEF K
  <2> QED
    BY <2>1, ReadyDatumsAre, FS_Subset
<1>3. ASSUME NEW m \in Open, NEW s \in OpenRun(m), NEW i \in Nat, NEW j \in (issued[m][s] + 1)..i,
             <<m, s, i>> \in Packed(seed)
      PROVE  <<m, s, j>> \in Packed(seed)
  <2>1. m \in Models /\ s \in 1..MaxLen /\ s \in Seqs(m)
    BY Queued DEF Open, OpenRun
  <2>2. issued[m][s] \in Nat /\ arrival[m][s] \in Nat /\ Cmd(m, s).datums \in Nat
    BY <2>1, Program, CommandTypes DEF IInv, TypeOK
  <2>3. <<m, s, i>> \in K /\ Cardinality(Ahead(<<m, s, i>>)) < Max({1, Budget})
    BY <1>1, <1>3
  <2>4. i \in (issued[m][s] + 1)..Cmd(m, s).datums
    BY <2>3, ReadyDatumsAre
  <2>5. j \in (issued[m][s] + 1)..Cmd(m, s).datums /\ j <= i /\ j \in Nat
    BY <2>2, <2>4
  <2>6. <<m, s, j>> \in K
    <3>1. <<m, s, j>> \in ReadyDatums
      BY <2>5, ReadyDatumsAre
    <3> QED
      BY <2>3, <3>1
  <2>7. \A q \in K : Earlier(q, <<m, s, j>>) => Earlier(q, <<m, s, i>>)
    <3> SUFFICES ASSUME NEW q \in K, Earlier(q, <<m, s, j>>) PROVE Earlier(q, <<m, s, i>>)
      OBVIOUS
    <3>0. PICK n \in Open : \E t \in OpenRun(n) : \E h \in (issued[n][t] + 1)..Cmd(n, t).datums : q = <<n, t, h>>
      BY ReadyDatumsAre
    <3>1. PICK t \in OpenRun(n) : \E h \in (issued[n][t] + 1)..Cmd(n, t).datums : q = <<n, t, h>>
      BY <3>0
    <3> PICK h \in (issued[n][t] + 1)..Cmd(n, t).datums : q = <<n, t, h>>
      BY <3>1
    <3>2. n \in Models /\ t \in 1..MaxLen /\ t \in Seqs(n)
      BY Queued DEF Open, OpenRun
    <3>3. h \in Int
      BY <3>2, Program DEF IInv, TypeOK
    <3> QED
      BY <3>1, <3>3, <2>5 DEF Earlier
  <2>8. Ahead(<<m, s, j>>) \in SUBSET Ahead(<<m, s, i>>) /\ Ahead(<<m, s, i>>) \in SUBSET K
    BY <2>7
  <2> DEFINE A == Ahead(<<m, s, i>>)
             B == Ahead(<<m, s, j>>)
  <2>9. Cardinality(B) <= Cardinality(A) /\ Cardinality(A) \in Nat /\ Cardinality(B) \in Nat
    <3>1. B \in SUBSET A /\ A \in SUBSET K
      BY <2>8
    <3> HIDE DEF A, B, K
    <3>2. IsFiniteSet(A)
      BY <3>1, <1>2, FS_Subset
    <3> QED
      BY <3>1, <3>2, FS_Subset, FS_CardinalityType
  <2>10. Max({1, Budget}) \in Nat
    <3>1. {1, Budget} \in SUBSET (0..(Budget + 1)) /\ {1, Budget} # {} /\ Budget + 1 \in Nat
      BY BoundsAssumption
    <3>2. Max({1, Budget}) \in {1, Budget}
      BY <3>1, MaxIs
    <3> QED
      BY <3>2, BoundsAssumption
  <2>11. Cardinality(A) < Max({1, Budget})
    BY <2>3
  <2> HIDE DEF A
  <2>12. Cardinality(B) < Max({1, Budget})
    BY <2>9, <2>10, <2>11
  <2> QED
    BY <1>1, <2>6, <2>12
<1>4. \A r \in Packed(seed) : r \in ReadyDatums /\ Cmd(r[1], r[2]).op = Cmd(seed[1], seed[2]).op
  BY <1>1
<1> QED
  BY <1>3, <1>4

\* schedule_next(): the next datums of requests at the front, or barriers at the head.
LEMMA UnitIs ==
    ASSUME IInv, NEW u \in NextUnits
    PROVE  \/ /\ u.op \in BatchOps /\ IsFiniteSet(u.refs)
              /\ \A r \in u.refs : \E m \in Open : \E s \in OpenRun(m) :
                    \E i \in (issued[m][s] + 1)..Cmd(m, s).datums : r = <<m, s, i>> /\ Cmd(m, s).op = u.op
              /\ \A m \in Models : \A s \in 1..MaxLen :
                    /\ Cardinality(DatumsIn(u, m, s)) \in Nat
                    /\ DatumsIn(u, m, s) =
                          {<<m, s, i>> : i \in (issued[m][s] + 1)..(issued[m][s] + Cardinality(DatumsIn(u, m, s)))}
           \/ /\ u.op \in BarrierOps
              /\ \A b \in u.refs : b \in ReadyBarriers /\ Cmd(b[1], b[2]).op = u.op
<1>1. \/ \E b \in ReadyBarriers : u = [op |-> Cmd(b[1], b[2]).op, refs |-> Merged(b)]
      \/ \E r \in ReadyDatums : u = [op |-> Cmd(r[1], r[2]).op, refs |-> Packed(r)]
  BY DEF NextUnits
<1>2. ASSUME NEW b \in ReadyBarriers, u = [op |-> Cmd(b[1], b[2]).op, refs |-> Merged(b)]
      PROVE  u.op \in BarrierOps /\ \A c \in u.refs : c \in ReadyBarriers /\ Cmd(c[1], c[2]).op = u.op
  <2>1. b[1] \in Models /\ b[2] \in Seqs(b[1]) /\ ~IsBatch(b[1], b[2])
    BY Queued DEF ReadyBarriers, AtHead, Commands
  <2>2. Cmd(b[1], b[2]).op \in Ops
    BY <2>1, Program DEF IInv, TypeOK
  <2> QED
    BY <1>2, <2>1, <2>2 DEF BarrierOps, IsBatch, Merged
<1>3. ASSUME NEW seed \in ReadyDatums, u = [op |-> Cmd(seed[1], seed[2]).op, refs |-> Packed(seed)]
      PROVE  /\ u.op \in BatchOps /\ IsFiniteSet(u.refs)
             /\ \A r \in u.refs : \E m \in Open : \E s \in OpenRun(m) :
                   \E i \in (issued[m][s] + 1)..Cmd(m, s).datums : r = <<m, s, i>> /\ Cmd(m, s).op = u.op
             /\ \A m \in Models : \A s \in 1..MaxLen :
                   /\ Cardinality(DatumsIn(u, m, s)) \in Nat
                   /\ DatumsIn(u, m, s) =
                         {<<m, s, i>> : i \in (issued[m][s] + 1)..(issued[m][s] + Cardinality(DatumsIn(u, m, s)))}
  <2>1. u.op \in BatchOps
    <3>0. PICK m \in Open : \E s \in OpenRun(m) :
             \E i \in (issued[m][s] + 1)..Cmd(m, s).datums : seed = <<m, s, i>>
      BY ReadyDatumsAre
    <3>1. PICK s \in OpenRun(m) : \E i \in (issued[m][s] + 1)..Cmd(m, s).datums : seed = <<m, s, i>>
      BY <3>0
    <3>2. s \in queue[m] /\ m \in Models
      BY DEF OpenRun, Open
    <3>3. s \in Nat
      BY <3>2, Queued
    <3>4. IsBatch(m, s)
      BY <3>2, <3>3 DEF OpenRun
    <3> QED
      BY <1>3, <3>1, <3>4 DEF IsBatch
  <2>2. IsFiniteSet(u.refs)
    BY <1>3, PackedIs, ReadyDatumsAre, FS_Subset
  <2>3. \A r \in u.refs : \E m \in Open : \E s \in OpenRun(m) :
           \E i \in (issued[m][s] + 1)..Cmd(m, s).datums : r = <<m, s, i>> /\ Cmd(m, s).op = u.op
    BY <1>3, PackedIs, ReadyDatumsAre
  <2>4. ASSUME NEW m \in Models, NEW s \in 1..MaxLen
        PROVE  /\ Cardinality(DatumsIn(u, m, s)) \in Nat
               /\ DatumsIn(u, m, s) =
                     {<<m, s, i>> : i \in (issued[m][s] + 1)..(issued[m][s] + Cardinality(DatumsIn(u, m, s)))}
    <3> DEFINE D == DatumsIn(u, m, s)
    <3>1. issued[m][s] \in Nat
      BY CommandTypes
    <3>2. CASE D = {}
      BY <3>1, <3>2, FS_EmptySet
    <3>3. CASE D # {}
      <4>1. m \in Open /\ s \in OpenRun(m)
        <5>1. PICK r \in u.refs : r[1] = m /\ r[2] = s
          BY <3>3 DEF DatumsIn
        <5> QED
          BY <2>3, <5>1
      <4>2. Cmd(m, s).datums \in Nat
        BY <4>1, Queued, Program DEF IInv, TypeOK, OpenRun, Open
      <4> DEFINE I == {i \in (issued[m][s] + 1)..Cmd(m, s).datums : <<m, s, i>> \in u.refs}
      <4>3. D = {<<m, s, i>> : i \in I}
        <5>1. \A r \in u.refs : r[1] = m /\ r[2] = s =>
                 \E i \in (issued[m][s] + 1)..Cmd(m, s).datums : r = <<m, s, i>>
          BY <2>3
        <5>2. D \subseteq {<<m, s, i>> : i \in I}
          BY <5>1 DEF DatumsIn
        <5>3. ASSUME NEW i \in I PROVE <<m, s, i>> \in D
          BY <2>1 DEF DatumsIn
        <5> QED
          BY <5>2, <5>3
      <4>4. I \in SUBSET ((issued[m][s] + 1)..Cmd(m, s).datums)
        OBVIOUS
      <4>5. \A i \in I : \A j \in (issued[m][s] + 1)..i : j \in I
        <5> SUFFICES ASSUME NEW i \in I, NEW j \in (issued[m][s] + 1)..i PROVE j \in I
          OBVIOUS
        <5>1. i \in Nat /\ j \in (issued[m][s] + 1)..Cmd(m, s).datums
          BY <3>1, <4>2
        <5>2. <<m, s, j>> \in u.refs
          BY <1>3, <4>1, <5>1, PackedIs
        <5> QED
          BY <5>1, <5>2
      <4> HIDE DEF I, D
      <4>6. IsFiniteSet(I) /\ Cardinality(I) \in Nat /\ I = (issued[m][s] + 1)..(issued[m][s] + Cardinality(I))
        BY <3>1, <4>2, <4>4, <4>5, Beginning
      <4>7. Cardinality(D) = Cardinality(I)
        <5>1. IsFiniteSet(I) /\ D = {<<m, s, i>> : i \in I}
          BY <4>3, <4>6
        <5> QED
          BY <5>1, Indices
      <4>8. Cardinality(D) \in Nat /\ D = {<<m, s, i>> : i \in (issued[m][s] + 1)..(issued[m][s] + Cardinality(D))}
        BY <4>3, <4>6, <4>7
      <4> QED
        BY <4>8 DEF D
    <3> QED
      BY <3>2, <3>3
  <2> QED
    BY <2>1, <2>2, <2>3, <2>4
<1> QED
  BY <1>1, <1>2, <1>3

\* schedule_next() finds nothing only where nothing is queued that is valid.
LEMMA NothingReady ==
    ASSUME IInv, NextUnits = {}
    PROVE  ReadyDatums = {} /\ ReadyBarriers = {}
<1> DEFINE A == {arrival[r[1]][r[2]] : r \in ReadyDatums}
           B == {arrival[b[1]][b[2]] : b \in ReadyBarriers}
<1>1. A \in SUBSET Nat
  <2>1. \A r \in ReadyDatums : r[1] \in Models /\ r[2] \in 1..MaxLen
    BY ReadyDatumsAre, Queued DEF Open, OpenRun
  <2>2. \A r \in ReadyDatums : arrival[r[1]][r[2]] \in Nat
    BY <2>1, CommandTypes
  <2> QED
    BY <2>2
<1>2. B \in SUBSET Nat
  <2>1. \A b \in ReadyBarriers : b[1] \in Models /\ b[2] \in 1..MaxLen
    BY DEF ReadyBarriers, Commands
  <2>2. \A b \in ReadyBarriers : arrival[b[1]][b[2]] \in Nat
    BY <2>1, CommandTypes
  <2> QED
    BY <2>2
<1> DEFINE datums == {r \in ReadyDatums : \A q \in ReadyDatums : arrival[r[1]][r[2]] <= arrival[q[1]][q[2]]}
           barriers == {b \in ReadyBarriers : \A c \in ReadyBarriers : arrival[b[1]][b[2]] <= arrival[c[1]][c[2]]}
           Precedes(b, r) == arrival[b[1]][b[2]] < arrival[r[1]][r[2]]
<1>3. ReadyDatums # {} => datums # {}
  <2> SUFFICES ASSUME ReadyDatums # {} PROVE datums # {}
    OBVIOUS
  <2>1. A # {}
    OBVIOUS
  <2>2. PICK a \in A : \A y \in A : a <= y
    BY <1>1, <2>1, Least
  <2> QED
    BY <2>2
<1>4. ReadyBarriers # {} => barriers # {}
  <2> SUFFICES ASSUME ReadyBarriers # {} PROVE barriers # {}
    OBVIOUS
  <2>1. B # {}
    OBVIOUS
  <2>2. PICK a \in B : \A y \in B : a <= y
    BY <1>2, <2>1, Least
  <2> QED
    BY <2>2
<1>5. /\ \A b \in barriers : \E r \in datums : ~Precedes(b, r)
      /\ \A r \in datums : \E b \in barriers : Precedes(b, r)
  BY DEF NextUnits
<1>6. \A b, c \in barriers : arrival[b[1]][b[2]] = arrival[c[1]][c[2]] /\ arrival[b[1]][b[2]] \in Nat
  <2>1. \A b \in ReadyBarriers : arrival[b[1]][b[2]] \in Nat
    BY <1>2
  <2>2. \A b, c \in barriers : /\ arrival[b[1]][b[2]] \in Nat /\ arrival[c[1]][c[2]] \in Nat
                               /\ arrival[b[1]][b[2]] <= arrival[c[1]][c[2]]
                               /\ arrival[c[1]][c[2]] <= arrival[b[1]][b[2]]
    BY <2>1
  <2> HIDE DEF barriers
  <2> QED
    BY <2>2
<1>7. \A r, q \in datums : arrival[r[1]][r[2]] = arrival[q[1]][q[2]] /\ arrival[r[1]][r[2]] \in Nat
  <2>1. \A b \in ReadyDatums : arrival[b[1]][b[2]] \in Nat
    BY <1>1
  <2>2. \A b, c \in datums : /\ arrival[b[1]][b[2]] \in Nat /\ arrival[c[1]][c[2]] \in Nat
                             /\ arrival[b[1]][b[2]] <= arrival[c[1]][c[2]]
                             /\ arrival[c[1]][c[2]] <= arrival[b[1]][b[2]]
    BY <2>1
  <2> HIDE DEF datums
  <2> QED
    BY <2>2
<1> HIDE DEF datums, barriers
<1>8. datums = {} /\ barriers = {}
  <2>1. \A b \in barriers, r \in datums : Precedes(b, r) => \A c \in barriers, q \in datums : Precedes(c, q)
    BY <1>6, <1>7
  <2> HIDE DEF Precedes
  <2> QED
    BY <1>5, <2>1
<1> QED
  BY <1>3, <1>4, <1>8


(***************************************************************************)
(* What a step leaves alone.                                               *)
(***************************************************************************)

LEMMA SlotFrame ==
    ASSUME IInv, UNCHANGED <<model, slotOf, ready, free, unloading, loaded, grads>>
    PROVE  SlotsAreOwned' /\ SlotsAreClean' /\ (ClientWaits => GradsAreOwned')
BY DEF IInv, GradsInv, SlotsAreOwned, GradsAreOwned, SlotsAreClean, Open

LEMMA LockFrame ==
    ASSUME IInv, UNCHANGED <<model, ready, lockQueue, holder, unit, closing, unloading>>
    PROVE  LockDiscipline' /\ OneTicket'
BY DEF IInv, LockDiscipline, OneTicket, Open

\* Who asks for the lock behind the others, with no model to load.
LEMMA AskFrame ==
    ASSUME IInv, NEW a \in {Dispatcher, EndSessions}, lockQueue' = Append(lockQueue, a),
           UNCHANGED <<model, ready, holder, unit>>
    PROVE  OneTicket' /\ lockQueue' \in Seq(Models \cup {Dispatcher, EndSessions})
<1>1. lockQueue \in Seq(Models \cup {Dispatcher, EndSessions}) /\ a \notin Models
  BY ModelsAssumption DEF IInv, TypeOK, Dispatcher, EndSessions
<1>2. /\ lockQueue' \in Seq(Models \cup {Dispatcher, EndSessions})
      /\ Len(lockQueue) \in Nat /\ DOMAIN lockQueue = 1..Len(lockQueue)
      /\ DOMAIN lockQueue' = 1..(Len(lockQueue) + 1)
      /\ \A i \in DOMAIN lockQueue : lockQueue'[i] = lockQueue[i]
      /\ lockQueue'[Len(lockQueue) + 1] = a
  BY <1>1
<1>3. \A i \in DOMAIN lockQueue' : lockQueue'[i] \in Models => i \in DOMAIN lockQueue
  BY <1>1, <1>2
<1>4. OneTicket
  BY DEF IInv
<1> QED
  BY <1>2, <1>3, <1>4 DEF OneTicket

\* The first who waits gets the lock.
LEMMA AcquireFrame ==
    ASSUME IInv, NEW a, Acquire(a), UNCHANGED <<model, ready>>,
           unit'.op = "load_slot" => unit = unit' \/ (holder' = a /\ a \in Models)
    PROVE  /\ OneTicket' /\ lockQueue' \in Seq(Models \cup {Dispatcher, EndSessions})
           /\ a \in Models \cup {Dispatcher, EndSessions}
           /\ a \in Models => model[a] # "absent" /\ ~ready[a]
           /\ holder = "nobody" /\ unit = NoUnit /\ closing = {} /\ unloading = NoSlot
<1>1. /\ lockQueue \in Seq(Models \cup {Dispatcher, EndSessions}) /\ lockQueue # <<>>
      /\ lockQueue' = Tail(lockQueue) /\ Head(lockQueue) = a
      /\ holder = "nobody" /\ unit = NoUnit /\ closing = {} /\ unloading = NoSlot
  BY DEF IInv, TypeOK, Acquire, LockDiscipline
<1>2. /\ lockQueue' \in Seq(Models \cup {Dispatcher, EndSessions})
      /\ Len(lockQueue) \in Nat \ {0} /\ DOMAIN lockQueue = 1..Len(lockQueue)
      /\ DOMAIN lockQueue' = 1..(Len(lockQueue) - 1)
      /\ \A i \in DOMAIN lockQueue' : lockQueue'[i] = lockQueue[i + 1] /\ i + 1 \in DOMAIN lockQueue /\ i + 1 # 1
      /\ lockQueue[1] = a /\ 1 \in DOMAIN lockQueue /\ a \in Models \cup {Dispatcher, EndSessions}
  BY <1>1
<1>3. \A i \in DOMAIN lockQueue : lockQueue[i] \in Models =>
        /\ model[lockQueue[i]] # "absent" /\ ~ready[lockQueue[i]]
        /\ unit.op = "load_slot" => holder # lockQueue[i]
        /\ \A j \in DOMAIN lockQueue : lockQueue[j] = lockQueue[i] => j = i
  BY DEF IInv, OneTicket
<1>4. unit.op # "load_slot"
  BY <1>1 DEF NoUnit
<1>5. ASSUME NEW i \in DOMAIN lockQueue', lockQueue'[i] \in Models
      PROVE  /\ model'[lockQueue'[i]] # "absent" /\ ~ready'[lockQueue'[i]]
             /\ unit'.op = "load_slot" => holder' # lockQueue'[i]
             /\ \A j \in DOMAIN lockQueue' : lockQueue'[j] = lockQueue'[i] => j = i
  <2>1. lockQueue'[i] = lockQueue[i + 1] /\ i + 1 \in DOMAIN lockQueue /\ i + 1 # 1 /\ i \in Int
    BY <1>2, <1>5
  <2>2. lockQueue'[i] # a
    BY <1>2, <1>3, <1>5, <2>1
  <2>3. ASSUME NEW j \in DOMAIN lockQueue', lockQueue'[j] = lockQueue'[i] PROVE j = i
    <3>1. lockQueue'[j] = lockQueue[j + 1] /\ j + 1 \in DOMAIN lockQueue /\ j \in Int
      BY <1>2
    <3>2. j + 1 = i + 1
      BY <1>3, <1>5, <2>1, <2>3, <3>1
    <3> QED
      BY <2>1, <3>1, <3>2
  <2> QED
    BY <1>3, <1>4, <1>5, <2>1, <2>2, <2>3
<1> QED
  BY <1>1, <1>2, <1>3, <1>5 DEF OneTicket

LEMMA RequestFrame ==
    ASSUME IInv, UNCHANGED <<program, model, ready, enqueued, arrival, queue, issued, future, consumed>>
    PROVE  Asked' /\ (ClientWaits => ClientsWait') /\ InSequence' /\ NoOvertaking' /\ ClosedModelsAreSettled'
<1>1. Asked' /\ (ClientWaits => ClientsWait')
  BY DEF IInv, GradsInv, Asked, ClientsWait
<1>2. InSequence'
  BY DEF IInv, InSequence, Open
<1>3. NoOvertaking'
  BY DEF IInv, NoOvertaking, Open, IsBatch, Valid, Cmd
<1>4. ClosedModelsAreSettled'
  BY DEF IInv, ClosedModelsAreSettled
<1> QED
  BY <1>1, <1>2, <1>3, <1>4

\* A request that was settled stays settled.
LEMMA SettledFrame ==
    ASSUME IInv, UNCHANGED <<program, model, ready, enqueued, arrival, queue, issued, consumed>>,
           future' \in [Models -> [1..MaxLen -> FutureStates]],
           \A m \in Models : \A s \in 1..MaxLen :
              future'[m][s] = future[m][s] \/ (future[m][s] \in Settled /\ future'[m][s] \in Settled)
    PROVE  Asked' /\ (ClientWaits => ClientsWait') /\ InSequence' /\ NoOvertaking' /\ ClosedModelsAreSettled'
<1>1. Asked' /\ (ClientWaits => ClientsWait')
  BY DEF IInv, GradsInv, Asked, ClientsWait, Settled
<1>2. InSequence'
  BY DEF IInv, InSequence, Open, Settled
<1>3. NoOvertaking'
  BY DEF IInv, NoOvertaking, Open, IsBatch, Valid, Cmd
<1>4. ClosedModelsAreSettled'
  BY DEF IInv, ClosedModelsAreSettled, Settled
<1> QED
  BY <1>1, <1>2, <1>3, <1>4


LEMMA IdleUnits ==
    ASSUME NEW u, u.op \notin Ops
    PROVE  u.op \notin BatchOps /\ u.op \notin BarrierOps /\ \A m, s : DatumsIn(u, m, s) = {}
BY DEF Ops, BatchOps, BarrierOps, DatumsIn

\* Calls to the trainer that are not commands come and go, and models are closed.
LEMMA UnitFrame ==
    ASSUME IInv, UNCHANGED <<program, enqueued, arrival, queue, issued, remaining>>,
           \/ UNCHANGED <<model, unit>>
           \/ unit.op \notin Ops /\ unit'.op \notin Ops,
           \A m \in Models : Live(m)' => Live(m)
    PROVE  UnitFits' /\ Counted' /\ NothingSkipped'
<1>1. UnitFits'
  BY IdleUnits DEF IInv, UnitFits, Open, AtHead, Valid, Cmd, Ops, BatchOps, BarrierOps
<1>2. \A m, s : DatumsIn(unit', m, s) = DatumsIn(unit, m, s)
  BY IdleUnits
<1>3. \A m \in Models : Seqs(m)' = Seqs(m) /\ \A s : Cmd(m, s)' = Cmd(m, s) /\ IsBatch(m, s)' = IsBatch(m, s)
          /\ Valid(m, s)' = Valid(m, s)
  BY DEF Seqs, Cmd, IsBatch, Valid
<1>4. Counted'
  BY <1>2, <1>3 DEF IInv, Counted
<1>5. NothingSkipped'
  BY <1>3 DEF IInv, NothingSkipped
<1> QED
  BY <1>1, <1>4, <1>5

\* The gradients of the models that stay live are left alone.
LEMMA GradFrame ==
    ASSUME IInv, UNCHANGED <<program, slotOf, queue, issued, consumed>>,
           unit' = unit \/ (unit.op \notin Ops /\ unit'.op \notin Ops),
           \A m \in Models : Live(m)' => Live(m),
           \A m \in Models : Live(m)' /\ ready'[m] => ready[m] /\ grads'[slotOf[m]] = grads[slotOf[m]]
    PROVE  Windows' /\ (ClientWaits => GradsAreSent' /\ StepConsumesItsWindow')
<1>1. \A m \in Models : Seqs(m)' = Seqs(m) /\ \A s : Cmd(m, s)' = Cmd(m, s) /\ Resets(m, s)' = Resets(m, s)
  BY DEF Seqs, Cmd, Resets
<1>2. \A m \in Models : Sent(m)' = Sent(m)
  BY <1>1 DEF Sent
<1>3. ClientWaits => GradsAreSent'
  BY <1>2 DEF IInv, GradsInv, GradsAreSent, Ops, BatchOps
<1>4. Windows'
  BY <1>1 DEF IInv, Windows
<1>5. \A m \in Models : \A b : Accumulated(m, b)' = Accumulated(m, b)
  BY <1>1 DEF Accumulated
<1>6. ClientWaits => StepConsumesItsWindow'
  BY <1>1, <1>5 DEF IInv, GradsInv, StepConsumesItsWindow
<1> QED
  BY <1>3, <1>4, <1>6

LEMMA SleepFrame ==
    ASSUME IInv, dispatcher' = dispatcher \/ dispatcher' # "sleeping", wake' = wake \/ wake',
           \A m \in Open' : m \in Open /\ queue'[m] \subseteq queue[m]
    PROVE  SleepsOnNothing'
BY DEF IInv, SleepsOnNothing

(***************************************************************************)
(* Each step preserves the invariant.                                      *)
(***************************************************************************)

LEMMA AskToEndSessionsKeeps == ASSUME IInv, AskToEndSessions PROVE IInv'
<1>1. OneTicket' /\ lockQueue' \in Seq(Models \cup {Dispatcher, EndSessions})
  BY AskFrame DEF AskToEndSessions, record
<1>2. TypeOK'
  BY <1>1, BoundsAssumption DEF IInv, TypeOK, AskToEndSessions, record, requests, trainer
<1>3. LockDiscipline'
  BY DEF IInv, LockDiscipline, Open, AskToEndSessions, record
<1>4. SlotsAreOwned' /\ SlotsAreClean' /\ (ClientWaits => GradsAreOwned')
  BY SlotFrame DEF AskToEndSessions, record, trainer
<1>5. Asked' /\ (ClientWaits => ClientsWait') /\ InSequence' /\ NoOvertaking' /\ ClosedModelsAreSettled'
  BY RequestFrame DEF AskToEndSessions, record, requests, trainer
<1>6. UnitFits' /\ Counted' /\ NothingSkipped'
  BY UnitFrame DEF AskToEndSessions, record, requests, Live, Open
<1>7. Windows' /\ (ClientWaits => GradsAreSent' /\ StepConsumesItsWindow')
  BY GradFrame DEF AskToEndSessions, record, requests, trainer, Live, Open
<1>8. SleepsOnNothing'
  BY SleepFrame DEF AskToEndSessions, record, requests, Open
<1> QED
  BY <1>1, <1>2, <1>3, <1>4, <1>5, <1>6, <1>7, <1>8 DEF IInv, GradsInv

LEMMA WakeUpKeeps == ASSUME IInv, WakeUp PROVE IInv'
<1>1. OneTicket' /\ lockQueue' \in Seq(Models \cup {Dispatcher, EndSessions})
  BY AskFrame DEF WakeUp, record
<1>2. TypeOK'
  BY <1>1 DEF IInv, TypeOK, WakeUp, client, record, requests, trainer
<1>3. LockDiscipline'
  BY DEF IInv, LockDiscipline, Open, WakeUp, record
<1>4. SlotsAreOwned' /\ SlotsAreClean' /\ (ClientWaits => GradsAreOwned')
  BY SlotFrame DEF WakeUp, record, trainer
<1>5. Asked' /\ (ClientWaits => ClientsWait') /\ InSequence' /\ NoOvertaking' /\ ClosedModelsAreSettled'
  BY RequestFrame DEF WakeUp, client, record, requests, trainer
<1>6. UnitFits' /\ Counted' /\ NothingSkipped'
  BY UnitFrame DEF WakeUp, client, record, requests, Live, Open
<1>7. Windows' /\ (ClientWaits => GradsAreSent' /\ StepConsumesItsWindow')
  BY GradFrame DEF WakeUp, client, record, requests, trainer, Live, Open
<1>8. SleepsOnNothing'
  BY DEF WakeUp, SleepsOnNothing
<1> QED
  BY <1>1, <1>2, <1>3, <1>4, <1>5, <1>6, <1>7, <1>8 DEF IInv, GradsInv

\* The dispatcher asks again before it can sleep: in SleepsOnNothing it is not asleep.
LEMMA DoneKeeps == ASSUME IInv, Done PROVE IInv'
<1>0. \/ holder = Dispatcher /\ dispatcher' = "acquiring" /\ lockQueue' = Append(lockQueue, Dispatcher)
      \/ holder # Dispatcher /\ dispatcher' = dispatcher /\ lockQueue' = lockQueue
  BY DEF Done, ReleaseAndAsk, Release
<1>a. holder' = "nobody" /\ unit = NoUnit /\ closing = {} /\ unloading = NoSlot
  BY DEF Done, ReleaseAndAsk, Release
<1>1. OneTicket' /\ lockQueue' \in Seq(Models \cup {Dispatcher, EndSessions})
  <2>1. lockQueue \in Seq(Models \cup {Dispatcher, EndSessions}) /\ OneTicket
    BY DEF IInv, TypeOK
  <2>2. unit = NoUnit /\ unit' = NoUnit /\ NoUnit.op # "load_slot"
    BY <1>a DEF Done, NoUnit
  <2>3. CASE holder = Dispatcher
    <3>1. lockQueue' \in Seq(Models \cup {Dispatcher, EndSessions}) /\ Dispatcher \notin Models
      BY <1>0, <2>1, <2>3, ModelsAssumption DEF Dispatcher, EndSessions
    <3>2. /\ Len(lockQueue) \in Nat /\ DOMAIN lockQueue = 1..Len(lockQueue)
          /\ DOMAIN lockQueue' = 1..(Len(lockQueue) + 1)
          /\ \A i \in DOMAIN lockQueue : lockQueue'[i] = lockQueue[i]
          /\ lockQueue'[Len(lockQueue) + 1] = Dispatcher
      BY <1>0, <2>1, <2>3 DEF Dispatcher, EndSessions
    <3>3. \A i \in DOMAIN lockQueue' : lockQueue'[i] \in Models => i \in DOMAIN lockQueue
      BY <3>1, <3>2
    <3>4. model' = model /\ ready' = ready
      BY DEF Done, record
    <3> QED
      BY <2>1, <2>2, <3>1, <3>2, <3>3, <3>4 DEF OneTicket
  <2>4. CASE holder # Dispatcher
    BY <1>0, <2>1, <2>2, <2>4 DEF Done, record, OneTicket
  <2> QED
    BY <2>3, <2>4
<1>2. TypeOK'
  BY <1>0, <1>1, <1>a DEF IInv, TypeOK, Done, client, record, requests, trainer
<1>3. LockDiscipline'
  BY <1>a DEF IInv, LockDiscipline, Open, Done, record
<1>4. SlotsAreOwned' /\ SlotsAreClean' /\ (ClientWaits => GradsAreOwned')
  BY SlotFrame DEF Done, record, trainer
<1>5. Asked' /\ (ClientWaits => ClientsWait') /\ InSequence' /\ NoOvertaking' /\ ClosedModelsAreSettled'
  BY RequestFrame DEF Done, client, record, requests, trainer
<1>6. UnitFits' /\ Counted' /\ NothingSkipped'
  BY UnitFrame DEF Done, client, record, requests, Live, Open
<1>7. Windows' /\ (ClientWaits => GradsAreSent' /\ StepConsumesItsWindow')
  BY GradFrame DEF Done, client, record, requests, trainer, Live, Open
<1>8. SleepsOnNothing'
  BY <1>0, SleepFrame DEF Done, record, requests, Open
<1> QED
  BY <1>1, <1>2, <1>3, <1>4, <1>5, <1>6, <1>7, <1>8 DEF IInv, GradsInv

LEMMA StartLoadKeeps == ASSUME IInv, NEW m \in Models, StartLoad(m) PROVE IInv'
<1>0. \/ model[m] = "open" /\ holder' = m /\ unit' = [op |-> "load_slot", refs |-> {m}]
      \/ model[m] # "open" /\ holder' = "nobody" /\ unit' = unit
  BY DEF StartLoad
<1>1. /\ OneTicket' /\ lockQueue' \in Seq(Models \cup {Dispatcher, EndSessions})
      /\ ~ready[m] /\ unit = NoUnit /\ closing = {} /\ unloading = NoSlot
  BY <1>0, AcquireFrame DEF StartLoad, record
<1>u. unit.op \notin Ops /\ unit'.op \notin Ops
  BY <1>0, <1>1 DEF NoUnit, Ops
<1>2. TypeOK'
  BY <1>0, <1>1 DEF IInv, TypeOK, StartLoad, client, record, requests, trainer
<1>3. LockDiscipline'
  <2>1. closing' = closing /\ unloading' = unloading /\ model' = model /\ ready' = ready
    BY DEF StartLoad, record
  <2>2. \/ unit'.op = "load_slot" /\ unit'.refs = {holder'} /\ holder' \in Open /\ ~ready[holder'] /\ holder' # "nobody"
        \/ unit' = NoUnit
    BY <1>0, <1>1, ModelsAssumption DEF Open
  <2> QED
    BY <1>0, <1>1, <2>1, <2>2, ModelsAssumption DEF LockDiscipline, Open
<1>4. SlotsAreOwned' /\ SlotsAreClean' /\ (ClientWaits => GradsAreOwned')
  BY SlotFrame DEF StartLoad, record, trainer
<1>5. Asked' /\ (ClientWaits => ClientsWait') /\ InSequence' /\ NoOvertaking' /\ ClosedModelsAreSettled'
  BY RequestFrame DEF StartLoad, client, record, requests, trainer
<1>6. UnitFits' /\ Counted' /\ NothingSkipped'
  BY <1>u, UnitFrame DEF StartLoad, client, record, requests, Live, Open
<1>7. Windows' /\ (ClientWaits => GradsAreSent' /\ StepConsumesItsWindow')
  BY <1>u, GradFrame DEF StartLoad, client, record, requests, trainer, Live, Open
<1>8. SleepsOnNothing'
  BY SleepFrame DEF StartLoad, record, requests, Open
<1> QED
  BY <1>1, <1>2, <1>3, <1>4, <1>5, <1>6, <1>7, <1>8 DEF IInv, GradsInv

LEMMA StartEndSessionsKeeps == ASSUME IInv, NEW S, StartEndSessions(S) PROVE IInv'
<1>1. /\ OneTicket' /\ lockQueue' \in Seq(Models \cup {Dispatcher, EndSessions})
      /\ unit = NoUnit /\ closing = {} /\ unloading = NoSlot
  <2>1. unit' = unit /\ UNCHANGED <<model, ready>> /\ Acquire(EndSessions)
    BY DEF StartEndSessions, record
  <2> QED
    BY <2>1, AcquireFrame
<1>c. closing' \subseteq Open /\ Open \subseteq Models
  BY DEF StartEndSessions, Open
<1>2. TypeOK'
  BY <1>1, <1>c DEF IInv, TypeOK, StartEndSessions, client, record, requests, trainer
<1>3. LockDiscipline'
  BY <1>1, <1>c DEF LockDiscipline, Open, StartEndSessions, record, EndSessions
<1>4. SlotsAreOwned' /\ SlotsAreClean' /\ (ClientWaits => GradsAreOwned')
  BY SlotFrame DEF StartEndSessions, record, trainer
<1>5. Asked' /\ (ClientWaits => ClientsWait') /\ InSequence' /\ NoOvertaking' /\ ClosedModelsAreSettled'
  BY RequestFrame DEF StartEndSessions, client, record, requests, trainer
<1>6. UnitFits' /\ Counted' /\ NothingSkipped'
  BY <1>1, UnitFrame DEF StartEndSessions, client, record, requests, Live, Open
<1>7. Windows' /\ (ClientWaits => GradsAreSent' /\ StepConsumesItsWindow')
  BY <1>1, GradFrame DEF StartEndSessions, client, record, requests, trainer, Live, Open
<1>8. SleepsOnNothing'
  BY SleepFrame DEF StartEndSessions, record, requests, Open
<1> QED
  BY <1>1, <1>2, <1>3, <1>4, <1>5, <1>6, <1>7, <1>8 DEF IInv, GradsInv

LEMMA ResubmitKeeps == ASSUME IInv, NEW m \in Models, NEW s \in Seqs(m), Resubmit(m, s) PROVE IInv'
<1>0. future \in [Models -> [1..MaxLen -> FutureStates]] /\ s \in 1..MaxLen
  BY Program DEF IInv, TypeOK
<1>f. /\ future' \in [Models -> [1..MaxLen -> FutureStates]]
      /\ \A n \in Models : \A k \in 1..MaxLen :
            future'[n][k] = future[n][k] \/ (future[n][k] \in Settled /\ future'[n][k] \in Settled)
  BY <1>0 DEF Resubmit, Settled, FutureStates
<1>2. TypeOK'
  BY <1>f DEF IInv, TypeOK, Resubmit, client, record, requests, lock, trainer
<1>3. LockDiscipline' /\ OneTicket'
  BY LockFrame DEF Resubmit, record, lock
<1>4. SlotsAreOwned' /\ SlotsAreClean' /\ (ClientWaits => GradsAreOwned')
  BY SlotFrame DEF Resubmit, record, lock, trainer
<1>5. Asked' /\ (ClientWaits => ClientsWait') /\ InSequence' /\ NoOvertaking' /\ ClosedModelsAreSettled'
  BY <1>f, SettledFrame DEF Resubmit, client, record, requests, trainer
<1>6. UnitFits' /\ Counted' /\ NothingSkipped'
  BY UnitFrame DEF Resubmit, client, record, requests, lock, Live, Open
<1>7. Windows' /\ (ClientWaits => GradsAreSent' /\ StepConsumesItsWindow')
  BY GradFrame DEF Resubmit, client, record, requests, lock, trainer, Live, Open
<1>8. SleepsOnNothing'
  BY SleepFrame DEF Resubmit, record, requests, lock, Open
<1> QED
  BY <1>2, <1>3, <1>4, <1>5, <1>6, <1>7, <1>8 DEF IInv, GradsInv

LEMMA ExpireFutureKeeps == ASSUME IInv, NEW m \in Models, NEW s \in Seqs(m), ExpireFuture(m, s) PROVE IInv'
<1>0. future \in [Models -> [1..MaxLen -> FutureStates]] /\ s \in 1..MaxLen
  BY Program DEF IInv, TypeOK
<1>f. /\ future' \in [Models -> [1..MaxLen -> FutureStates]]
      /\ \A n \in Models : \A k \in 1..MaxLen :
            future'[n][k] = future[n][k] \/ (future[n][k] \in Settled /\ future'[n][k] \in Settled)
  BY <1>0 DEF ExpireFuture, Settled, FutureStates
<1>2. TypeOK'
  BY <1>f DEF IInv, TypeOK, ExpireFuture, client, record, requests, lock, trainer
<1>3. LockDiscipline' /\ OneTicket'
  BY LockFrame DEF ExpireFuture, record, lock
<1>4. SlotsAreOwned' /\ SlotsAreClean' /\ (ClientWaits => GradsAreOwned')
  BY SlotFrame DEF ExpireFuture, record, lock, trainer
<1>5. Asked' /\ (ClientWaits => ClientsWait') /\ InSequence' /\ NoOvertaking' /\ ClosedModelsAreSettled'
  BY <1>f, SettledFrame DEF ExpireFuture, client, record, requests, trainer
<1>6. UnitFits' /\ Counted' /\ NothingSkipped'
  BY UnitFrame DEF ExpireFuture, client, record, requests, lock, Live, Open
<1>7. Windows' /\ (ClientWaits => GradsAreSent' /\ StepConsumesItsWindow')
  BY GradFrame DEF ExpireFuture, client, record, requests, lock, trainer, Live, Open
<1>8. SleepsOnNothing'
  BY SleepFrame DEF ExpireFuture, record, requests, lock, Open
<1> QED
  BY <1>2, <1>3, <1>4, <1>5, <1>6, <1>7, <1>8 DEF IInv, GradsInv

LEMMA CreateModelKeeps == ASSUME IInv, NEW m \in Models, CreateModel(m) PROVE IInv'
<1> DEFINE l == Min(free)
<1>0. /\ model[m] = "absent" /\ model' = [model EXCEPT ![m] = "open"]
      /\ slotOf' = [slotOf EXCEPT ![m] = l] /\ free' = free \ {l} /\ free # {}
      /\ lockQueue' = Append(lockQueue, m)
      /\ UNCHANGED <<client, ready, requests, future, holder, unit, closing, unloading, dispatcher, wake, trainer>>
  BY DEF CreateModel
<1>l. l \in free /\ l \in Slots /\ l # NoSlot
  <2>1. free \in SUBSET Nat /\ free \subseteq Slots
    BY SlotsAssumption DEF IInv, TypeOK
  <2> QED
    BY <1>0, <2>1, MinIn, SlotsAssumption DEF NoSlot
<1> HIDE DEF l
<1>t. /\ model \in [Models -> {"absent", "open", "closed"}] /\ slotOf \in [Models -> Slots \cup {NoSlot}]
      /\ lockQueue \in Seq(Models \cup {Dispatcher, EndSessions})
  BY DEF IInv, TypeOK
<1>o. Open' = Open \cup {m} /\ m \notin Open /\ slotOf'[m] = l /\ \A n \in Open : n # m /\ slotOf'[n] = slotOf[n]
  BY <1>0, <1>t DEF Open
<1>r. ~ready[m] /\ \A s \in 1..MaxLen : arrival[m][s] = 0 /\ future[m][s] = "none"
  BY <1>0 DEF IInv, Asked
<1>e. enqueued[m] = 0 /\ queue[m] = {}
  <2>1. enqueued[m] \in 0..MaxLen /\ \A s \in 1..MaxLen : s <= enqueued[m] => arrival[m][s] # 0
    BY DEF IInv, TypeOK, InSequence
  <2>2. enqueued[m] = 0
    BY <1>r, <2>1
  <2> QED
    BY <2>2 DEF IInv, InSequence
<1>1. OneTicket'
  <2>1. /\ lockQueue' \in Seq(Models \cup {Dispatcher, EndSessions})
        /\ Len(lockQueue) \in Nat /\ DOMAIN lockQueue = 1..Len(lockQueue)
        /\ DOMAIN lockQueue' = 1..(Len(lockQueue) + 1)
        /\ \A i \in DOMAIN lockQueue : lockQueue'[i] = lockQueue[i]
        /\ lockQueue'[Len(lockQueue) + 1] = m
    BY <1>0, <1>t
  <2>2. \A i \in DOMAIN lockQueue' : i \in DOMAIN lockQueue \/ i = Len(lockQueue) + 1
    BY <2>1
  <2>3. \A i \in DOMAIN lockQueue : lockQueue[i] # m
    BY <1>0 DEF IInv, OneTicket
  <2>4. unit.op = "load_slot" => holder # m
    <3>1. SUFFICES ASSUME unit.op = "load_slot" PROVE holder # m
      OBVIOUS
    <3>2. unit # NoUnit /\ unit.op \notin Ops
      BY <3>1 DEF NoUnit, Ops
    <3> QED
      BY <3>2, <1>o DEF IInv, LockDiscipline
  <2>5. ready' = ready /\ unit' = unit /\ holder' = holder /\ model'[m] = "open"
            /\ \A n \in Models : model[n] # "absent" => model'[n] # "absent"
    BY <1>0, <1>t
  <2>6. OneTicket
    BY DEF IInv
  <2>7. ASSUME NEW i \in DOMAIN lockQueue', lockQueue'[i] \in Models
        PROVE  /\ model'[lockQueue'[i]] # "absent" /\ ~ready'[lockQueue'[i]]
               /\ unit'.op = "load_slot" => holder' # lockQueue'[i]
               /\ \A j \in DOMAIN lockQueue' : lockQueue'[j] = lockQueue'[i] => j = i
    <3>1. CASE i \in DOMAIN lockQueue
      BY <2>1, <2>2, <2>3, <2>5, <2>6, <2>7, <3>1 DEF OneTicket
    <3>2. CASE i = Len(lockQueue) + 1
      BY <2>1, <2>2, <2>3, <2>4, <2>5, <3>2, <1>r
    <3> QED
      BY <2>2, <3>1, <3>2
  <2> QED
    BY <2>7 DEF OneTicket
<1>2. TypeOK'
  <2>1. lockQueue' \in Seq(Models \cup {Dispatcher, EndSessions})
    BY <1>0, <1>t
  <2> QED
    BY <1>0, <1>l, <2>1 DEF IInv, TypeOK, client, requests, trainer
<1>3. LockDiscipline'
  BY <1>0, <1>o DEF IInv, LockDiscipline
<1>x. /\ \A n \in Open' : (n = m /\ slotOf'[n] = l) \/ (n \in Open /\ n # m /\ slotOf'[n] = slotOf[n])
      /\ ready' = ready /\ loaded' = loaded /\ grads' = grads /\ unloading' = unloading /\ free' \subseteq free
                /\ l \notin free'
  <2>1. ready' = ready /\ loaded' = loaded /\ grads' = grads /\ unloading' = unloading
    BY <1>0 DEF trainer
  <2>2. free' \subseteq free /\ l \notin free'
    BY <1>0
  <2>3. \A n \in Open' : (n = m /\ slotOf'[n] = l) \/ (n \in Open /\ n # m /\ slotOf'[n] = slotOf[n])
    BY <1>o
  <2> QED
    BY <2>1, <2>2, <2>3
<1>4. SlotsAreOwned'
  <2>1. \A n \in Open : slotOf[n] # l
    BY <1>l DEF IInv, SlotsAreOwned
  <2>2. \A n, k \in Open' : n # k => slotOf'[n] # slotOf'[k]
    BY <1>x, <2>1 DEF IInv, SlotsAreOwned
  <2>3. \A n \in Open' : slotOf'[n] \notin free' /\ (ready'[n] => loaded'[slotOf'[n]] = n)
    BY <1>x, <1>r DEF IInv, SlotsAreOwned
  <2>4. \A k \in free' : loaded'[k] = NoModel
    BY <1>x DEF IInv, SlotsAreOwned
  <2> QED
    BY <2>2, <2>3, <2>4 DEF SlotsAreOwned
<1>16. ClientWaits => GradsAreOwned'
  BY <1>x DEF IInv, GradsInv, GradsAreOwned
<1>5. SlotsAreClean'
  <2>1. loaded[l] = NoModel /\ l # unloading
    BY <1>l DEF IInv, SlotsAreOwned, SlotsAreClean
  <2>2. \A n \in Open' : slotOf'[n] # NoSlot /\ slotOf'[n] # unloading' /\ (~ready'[n] => loaded'[slotOf'[n]] = NoModel)
    BY <1>x, <1>l, <2>1 DEF IInv, SlotsAreClean
  <2>3. unloading' \notin free'
    BY <1>x DEF IInv, SlotsAreClean
  <2> QED
    BY <2>2, <2>3 DEF SlotsAreClean
<1>6. Asked' /\ (ClientWaits => ClientsWait') /\ ClosedModelsAreSettled'
  BY <1>0, <1>t DEF IInv, GradsInv, Asked, ClientsWait, ClosedModelsAreSettled, requests
<1>7. InSequence'
  BY <1>0, <1>o, <1>e, <1>r DEF IInv, InSequence, client, requests, trainer
<1>8. NoOvertaking'
  BY <1>0, <1>o, <1>e DEF IInv, NoOvertaking, IsBatch, Valid, Cmd, client, requests
<1>9. UnitFits'
  BY <1>0, <1>o, <1>e DEF IInv, UnitFits, AtHead, Valid, Cmd, client, requests
<1>v. \A n \in Models : Live(n)' => Live(n) \/ n = m
  BY <1>0, <1>o DEF Live
<1>c. \A n \in Models : Seqs(n)' = Seqs(n) /\ \A s : Cmd(n, s)' = Cmd(n, s) /\ IsBatch(n, s)' = IsBatch(n, s)
        /\ Valid(n, s)' = Valid(n, s) /\ Resets(n, s)' = Resets(n, s) /\ DatumsIn(unit', n, s) = DatumsIn(unit, n, s)
  BY <1>0 DEF Seqs, Cmd, IsBatch, Valid, Resets, client, trainer
<1>10. Counted'
  <2>1. \A s \in Seqs(m) : s \in 1..MaxLen
    BY Program DEF IInv, TypeOK
  <2> QED
    BY <1>0, <1>v, <1>c, <1>r, <2>1 DEF IInv, Counted, requests
<1>11. NothingSkipped'
  BY <1>0, <1>v, <1>c, <1>e DEF IInv, NothingSkipped, requests
<1>12. ClientWaits => GradsAreSent'
  <2>1. \A n \in Models : Sent(n)' = Sent(n)
    BY <1>0, <1>c DEF Sent, requests
  <2>2. \A n \in Models : ready'[n] => n # m /\ slotOf'[n] = slotOf[n]
    BY <1>0, <1>r, <1>t
  <2> QED
    BY <1>0, <1>v, <2>1, <2>2 DEF IInv, GradsInv, GradsAreSent, trainer
<1>13. Windows'
  BY <1>0, <1>v, <1>c, <1>e DEF IInv, Windows, requests, trainer
<1>14. ClientWaits => StepConsumesItsWindow'
  <2>1. \A n \in Models : \A b : Accumulated(n, b)' = Accumulated(n, b)
    BY <1>c DEF Accumulated
  <2> QED
    BY <1>0, <1>c, <2>1 DEF IInv, GradsInv, StepConsumesItsWindow, trainer
<1>15. SleepsOnNothing'
  BY <1>0, <1>o, <1>e DEF IInv, SleepsOnNothing, requests
<1> QED
  BY <1>1, <1>2, <1>3, <1>4, <1>5, <1>6, <1>7, <1>8, <1>9, <1>10, <1>11, <1>12, <1>13, <1>14, <1>15,
     <1>16 DEF IInv, GradsInv

\* A model whose slot is being loaded has not sent anything yet, if its client waits.
LEMMA NothingSent ==
    ASSUME IInv, ClientWaits, NEW m \in Models, ~ready[m]
    PROVE  /\ \A s \in 1..MaxLen : arrival[m][s] = 0 /\ issued[m][s] = 0
           /\ Sent(m) = {}
<1>1. \A s \in 1..MaxLen : arrival[m][s] = 0 /\ enqueued[m] < s
  <2>1. enqueued[m] \in 0..MaxLen /\ \A s \in 1..MaxLen : s <= enqueued[m] => arrival[m][s] # 0
    BY DEF IInv, TypeOK, InSequence
  <2>2. \A s \in 1..MaxLen : arrival[m][s] = 0
    BY DEF IInv, GradsInv, ClientsWait
  <2> QED
    BY <2>1, <2>2
<1>2. \A s \in 1..MaxLen : issued[m][s] = 0
  BY <1>1 DEF IInv, InSequence, TypeOK
<1>3. \A s \in Seqs(m) : issued[m][s] = 0
  BY <1>2, Program DEF IInv, TypeOK
<1>4. \A s \in Seqs(m) : {<<m, s, i>> : i \in 1..issued[m][s]} = {}
  BY <1>3
<1> QED
  BY <1>1, <1>2, <1>4 DEF Sent

LEMMA SlotLoadedKeeps == ASSUME IInv, NEW m \in Models, NEW ok \in BOOLEAN, SlotLoaded(m, ok) PROVE IInv'
<1>0. /\ holder = m /\ unit.op = "load_slot"
      /\ ready' = [ready EXCEPT ![m] = TRUE] /\ loaded' = [loaded EXCEPT ![slotOf[m]] = m]
      /\ grads' = [grads EXCEPT ![slotOf[m]] = {}] /\ closing' = (IF ok THEN {} ELSE {m}) /\ unit' = NoUnit
      /\ UNCHANGED <<client, model, slotOf, free, requests, future, lockQueue, holder, unloading, dispatcher, wake,
                     consumed>>
  BY DEF SlotLoaded
<1>u. unit.op \notin Ops /\ unit'.op \notin Ops /\ unit # NoUnit /\ unit' = NoUnit
  BY <1>0 DEF NoUnit, Ops
<1>m. /\ m \in Open /\ ~ready[m] /\ closing = {} /\ unloading = NoSlot /\ m # "nobody"
      /\ slotOf[m] \in Slots /\ slotOf[m] \notin free
  <2>1. m \in Open /\ ~ready[m] /\ closing = {} /\ unloading = NoSlot /\ m # "nobody"
    BY <1>0, <1>u DEF IInv, LockDiscipline
  <2> QED
    BY <2>1 DEF IInv, TypeOK, SlotsAreOwned, SlotsAreClean
<1>o. Open' = Open /\ Open \subseteq Models /\ \A n \in Open : n # m => slotOf[n] # slotOf[m]
  BY <1>0, <1>m DEF IInv, Open, SlotsAreOwned
<1>t. /\ loaded \in [Slots -> Models \cup {NoModel}] /\ grads \in [Slots -> SUBSET Datums] /\ ready \in [Models -> BOOLEAN]
      /\ slotOf \in [Models -> Slots \cup {NoSlot}] /\ free \in SUBSET Slots
  BY DEF IInv, TypeOK
<1>1. OneTicket'
  <2>1. \A i \in DOMAIN lockQueue : lockQueue[i] \in Models => lockQueue[i] # m
    BY <1>0 DEF IInv, OneTicket
  <2>2. unit'.op # "load_slot"
    BY <1>0 DEF NoUnit
  <2> QED
    BY <1>0, <1>t, <2>1, <2>2 DEF IInv, OneTicket
<1>2. TypeOK'
  BY <1>0, <1>m DEF IInv, TypeOK, client, requests
<1>3. LockDiscipline'
  BY <1>0, <1>m, <1>o DEF LockDiscipline
<1>4. SlotsAreOwned'
  <2>1. \A n \in Open : slotOf[n] \in Slots
    BY <1>t, <1>o DEF IInv, SlotsAreClean
  <2>2. \A n \in Open : slotOf[n] \notin free /\ (ready'[n] => loaded'[slotOf[n]] = n)
    BY <1>0, <1>m, <1>o, <1>t, <2>1 DEF IInv, SlotsAreOwned
  <2>3. \A l \in free : loaded'[l] = NoModel
    BY <1>0, <1>m, <1>t DEF IInv, SlotsAreOwned
  <2> QED
    BY <1>0, <1>o, <2>2, <2>3 DEF IInv, SlotsAreOwned
<1>13. ClientWaits => GradsAreOwned'
  <2> SUFFICES ASSUME ClientWaits PROVE GradsAreOwned'
    OBVIOUS
  <2>1. \A l \in Slots : \A r \in grads'[l] : loaded'[l] = r[1]
    BY <1>0, <1>m, <1>t DEF IInv, GradsInv, GradsAreOwned
  <2>2. \A l \in free : grads'[l] = {}
    BY <1>0, <1>m, <1>t DEF IInv, GradsInv, GradsAreOwned
  <2> QED
    BY <1>0, <2>1, <2>2 DEF GradsAreOwned
<1>5. SlotsAreClean'
  BY <1>0, <1>m, <1>o, <1>t DEF IInv, SlotsAreClean
<1>6. Asked' /\ (ClientWaits => ClientsWait') /\ ClosedModelsAreSettled'
  BY <1>0, <1>m, <1>t DEF IInv, GradsInv, Asked, ClientsWait, ClosedModelsAreSettled, requests, Open
<1>7. InSequence' /\ NoOvertaking'
  BY <1>0, <1>o DEF IInv, InSequence, NoOvertaking, client, requests, IsBatch, Valid, Cmd
<1>v. \A n \in Models : Live(n)' => Live(n)
  BY <1>0, <1>m, <1>o DEF Live
<1>8. UnitFits' /\ Counted' /\ NothingSkipped'
  BY <1>0, <1>u, <1>v, UnitFrame DEF client, requests
<1>c. \A n \in Models : Seqs(n)' = Seqs(n) /\ \A s : Cmd(n, s)' = Cmd(n, s) /\ Resets(n, s)' = Resets(n, s)
  BY <1>0 DEF Seqs, Cmd, Resets, client
<1>9. ClientWaits => GradsAreSent'
  <2> SUFFICES ASSUME ClientWaits PROVE GradsAreSent'
    OBVIOUS
  <2>1. \A n \in Models : Sent(n)' = Sent(n)
    BY <1>0, <1>c DEF Sent, requests
  <2>2. Sent(m) = {} /\ grads'[slotOf[m]] = {}
    BY <1>0, <1>m, <1>t, NothingSent
  <2>3. \A n \in Models : Live(n)' /\ n # m => slotOf'[n] = slotOf[n] /\ ready'[n] = ready[n]
            /\ grads'[slotOf[n]] = grads[slotOf[n]]
    <3>1. \A n \in Models : Live(n)' /\ n # m => slotOf[n] # slotOf[m]
      BY <1>v, <1>o DEF Live
    <3> QED
      BY <1>0, <1>t, <3>1
  <2>4. slotOf' = slotOf /\ unit.op \notin BatchOps /\ unit'.op \notin BatchOps
    BY <1>0, <1>u DEF Ops, BatchOps
  <2> QED
    BY <1>v, <2>1, <2>2, <2>3, <2>4 DEF IInv, GradsInv, GradsAreSent
<1>10. Windows'
  BY <1>0, <1>v, <1>c DEF IInv, Windows, requests
<1>11. ClientWaits => StepConsumesItsWindow'
  <2>1. \A n \in Models : \A b : Accumulated(n, b)' = Accumulated(n, b)
    BY <1>c DEF Accumulated
  <2> QED
    BY <1>0, <1>c, <2>1 DEF IInv, GradsInv, StepConsumesItsWindow
<1>12. SleepsOnNothing'
  BY <1>0, <1>o, SleepFrame DEF requests
<1> QED
  BY <1>1, <1>2, <1>3, <1>4, <1>5, <1>6, <1>7, <1>8, <1>9, <1>10, <1>11, <1>12, <1>13 DEF IInv, GradsInv

\* The slot of a model that is closed goes to the unload, or is free if the trainer
\* never heard of it.
LEMMA CloseModelKeeps == ASSUME IInv, NEW m \in Models, CloseModel(m) PROVE IInv'
<1>0. /\ m \in closing /\ unloading = NoSlot /\ closing' = closing \ {m}
      /\ model' = [model EXCEPT ![m] = "closed"] /\ future' = [future EXCEPT ![m] = SettledByClose(m)]
      /\ \/ ready[m] /\ unloading' = slotOf[m] /\ free' = free
         \/ ~ready[m] /\ unloading' = NoSlot /\ free' = free \cup {slotOf[m]}
      /\ UNCHANGED <<client, slotOf, ready, requests, lockQueue, holder, unit, dispatcher, wake, trainer>>
  BY DEF CloseModel, Close
<1>t. /\ model \in [Models -> {"absent", "open", "closed"}] /\ slotOf \in [Models -> Slots \cup {NoSlot}]
      /\ future \in [Models -> [1..MaxLen -> FutureStates]] /\ free \in SUBSET Slots
      /\ loaded \in [Slots -> Models \cup {NoModel}] /\ grads \in [Slots -> SUBSET Datums]
  BY DEF IInv, TypeOK
<1>m. m \in Open /\ slotOf[m] \in Slots /\ slotOf[m] \notin free /\ unit = NoUnit /\ holder # "nobody"
          /\ closing \subseteq Open
  <2>1. m \in Open /\ unit = NoUnit /\ holder # "nobody" /\ closing \subseteq Open
    BY <1>0 DEF IInv, LockDiscipline
  <2> QED
    BY <2>1, <1>t DEF IInv, SlotsAreOwned, SlotsAreClean
<1>o. Open' = Open \ {m} /\ \A n \in Open' : n \in Models /\ n \in Open /\ n # m /\ slotOf[n] # slotOf[m]
  BY <1>0, <1>t, <1>m DEF IInv, SlotsAreOwned, Open
<1>f. /\ future' \in [Models -> [1..MaxLen -> FutureStates]]
      /\ \A s \in 1..MaxLen : future'[m][s] = IF future[m][s] = "pending" THEN "failed" ELSE future[m][s]
      /\ \A n \in Models : n # m => future'[n] = future[n]
  <2>1. SettledByClose(m) \in [1..MaxLen -> FutureStates]
    BY <1>t DEF SettledByClose, FutureStates
  <2> QED
    BY <1>0, <1>t, <2>1 DEF SettledByClose
<1>1. OneTicket'
  BY <1>0, <1>t DEF IInv, OneTicket
<1>2. TypeOK'
  BY <1>0, <1>m, <1>f DEF IInv, TypeOK, client, requests, trainer
<1>3. LockDiscipline'
  BY <1>0, <1>m, <1>o DEF LockDiscipline
<1>n. NoSlot \notin Slots /\ NoModel \notin Models
  BY SlotsAssumption, ModelsAssumption DEF NoSlot, NoModel
<1>l. ~ready[m] => loaded[slotOf[m]] = NoModel
  BY <1>m DEF IInv, SlotsAreClean
<1>4. SlotsAreOwned'
  BY <1>0, <1>o, <1>l DEF IInv, SlotsAreOwned, trainer
<1>12. ClientWaits => GradsAreOwned'
  <2> SUFFICES ASSUME ClientWaits PROVE GradsAreOwned'
    OBVIOUS
  <2>1. ~ready[m] => grads[slotOf[m]] = {}
    <3> SUFFICES ASSUME ~ready[m] PROVE grads[slotOf[m]] = {}
      OBVIOUS
    <3>1. \A r \in grads[slotOf[m]] : r[1] \in Models /\ r[1] = NoModel
      BY <1>l, <1>m, <1>t DEF IInv, GradsInv, GradsAreOwned, Datums
    <3> QED
      BY <3>1, <1>n
  <2> QED
    BY <1>0, <2>1 DEF IInv, GradsInv, GradsAreOwned, trainer
<1>5. SlotsAreClean'
  BY <1>0, <1>o, <1>m, <1>n, <1>t DEF IInv, SlotsAreClean, trainer
<1>6. Asked' /\ (ClientWaits => ClientsWait') /\ ClosedModelsAreSettled'
  <2>1. Asked' /\ (ClientWaits => ClientsWait')
    <3>1. \A n \in Models : /\ model[n] # "absent" => model'[n] # "absent"
                            /\ \A s \in 1..MaxLen : future'[n][s] = "none" <=> future[n][s] = "none"
      BY <1>0, <1>f, <1>t
    <3>2. ready' = ready /\ arrival' = arrival
      BY <1>0 DEF requests
    <3> QED
      BY <3>1, <3>2 DEF IInv, GradsInv, Asked, ClientsWait
  <2>2. ClosedModelsAreSettled'
    BY <1>0, <1>f, <1>t DEF IInv, ClosedModelsAreSettled, FutureStates
  <2> QED
    BY <2>1, <2>2
<1>7. InSequence'
  BY <1>0, <1>o, <1>f DEF IInv, InSequence, client, requests, trainer
<1>8. NoOvertaking'
  BY <1>0, <1>o DEF IInv, NoOvertaking, client, requests, IsBatch, Valid, Cmd
<1>v. \A n \in Models : Live(n)' => Live(n)
  BY <1>0, <1>o DEF Live
<1>u. unit' = unit /\ unit.op \notin Ops
  BY <1>0, <1>m DEF NoUnit, Ops
<1>9. UnitFits' /\ Counted' /\ NothingSkipped'
  BY <1>0, <1>u, <1>v, UnitFrame DEF client, requests
<1>10. Windows' /\ (ClientWaits => GradsAreSent' /\ StepConsumesItsWindow')
  BY <1>0, <1>u, <1>v, GradFrame DEF client, requests, trainer
<1>11. SleepsOnNothing'
  BY <1>0, <1>o, SleepFrame DEF requests
<1> QED
  BY <1>1, <1>2, <1>3, <1>4, <1>5, <1>6, <1>7, <1>8, <1>9, <1>10, <1>11, <1>12 DEF IInv, GradsInv

\* No model that is open has the slot that is being unloaded.
LEMMA UnloadedKeeps == ASSUME IInv, NEW ok \in BOOLEAN, Unloaded(ok) PROVE IInv'
<1>0. /\ unloading # NoSlot /\ unloading' = NoSlot
      /\ free' = (IF ok THEN free \cup {unloading} ELSE free)
      /\ loaded' = [loaded EXCEPT ![unloading] = IF ok THEN NoModel ELSE @]
      /\ grads' = [grads EXCEPT ![unloading] = IF ok THEN {} ELSE @]
      /\ UNCHANGED <<client, model, slotOf, ready, requests, future, lockQueue, holder, unit, closing, dispatcher, wake,
                     consumed>>
  BY DEF Unloaded
<1>t. /\ loaded \in [Slots -> Models \cup {NoModel}] /\ grads \in [Slots -> SUBSET Datums] /\ unloading \in Slots
      /\ slotOf \in [Models -> Slots \cup {NoSlot}] /\ free \in SUBSET Slots
  BY <1>0 DEF IInv, TypeOK
<1>g. /\ \A l \in Slots : l # unloading => loaded'[l] = loaded[l] /\ grads'[l] = grads[l]
      /\ ok => loaded'[unloading] = NoModel /\ grads'[unloading] = {}
      /\ ~ok => loaded' = loaded /\ grads' = grads
  BY <1>0, <1>t
<1>o. Open' = Open /\ \A n \in Open : n \in Models /\ slotOf[n] \in Slots /\ slotOf[n] # unloading
  BY <1>0, <1>t DEF IInv, SlotsAreClean, Open
<1>1. OneTicket'
  BY <1>0 DEF IInv, OneTicket
<1>2. TypeOK'
  <2>1. loaded' \in [Slots -> Models \cup {NoModel}] /\ grads' \in [Slots -> SUBSET Datums]
    BY <1>0, <1>t
  <2> QED
    BY <1>0, <1>t, <2>1 DEF IInv, TypeOK, client, requests
<1>3. LockDiscipline'
  BY <1>0, <1>o DEF IInv, LockDiscipline
<1>4. SlotsAreOwned' /\ (ClientWaits => GradsAreOwned')
  BY <1>0, <1>o, <1>g, <1>t DEF IInv, GradsInv, SlotsAreOwned, GradsAreOwned
<1>5. SlotsAreClean'
  <2>1. NoSlot \notin free'
    BY <1>0, <1>t, SlotsAssumption DEF NoSlot
  <2> QED
    BY <1>0, <1>o, <1>g, <2>1 DEF IInv, SlotsAreClean
<1>6. Asked' /\ (ClientWaits => ClientsWait') /\ InSequence' /\ NoOvertaking' /\ ClosedModelsAreSettled'
  BY <1>0, RequestFrame DEF client, requests
<1>v. \A n \in Models : Live(n)' => Live(n)
  BY <1>0, <1>o DEF Live
<1>7. UnitFits' /\ Counted' /\ NothingSkipped'
  BY <1>0, <1>v, UnitFrame DEF client, requests
<1>8. Windows' /\ (ClientWaits => GradsAreSent' /\ StepConsumesItsWindow')
  <2>1. \A n \in Models : Live(n)' /\ ready'[n] => ready[n] /\ grads'[slotOf[n]] = grads[slotOf[n]]
    BY <1>0, <1>o, <1>g DEF Live
  <2> QED
    BY <1>0, <1>v, <2>1, GradFrame DEF client, requests
<1>9. SleepsOnNothing'
  BY <1>0, <1>o, SleepFrame DEF requests
<1> QED
  BY <1>1, <1>2, <1>3, <1>4, <1>5, <1>6, <1>7, <1>8, <1>9 DEF IInv, GradsInv

\* The queue receives what is submitted in sequence; nothing of it was issued, and what
\* is in the unit is ahead of it.
LEMMA SubmitKeeps == ASSUME IInv, NEW m \in Models, NEW s \in Seqs(m), Submit(m, s) PROVE IInv'
<1> DEFINE last == Contiguous(m, {k \in Seqs(m) : arrival[m][k] # 0} \cup {s})
           first == enqueued[m] + 1
<1>0. /\ model[m] = "open" /\ (ClientWaits => ready[m]) /\ arrival[m][s] = 0
      /\ arrival' = [arrival EXCEPT ![m][s] = NextArrival]
      /\ enqueued' = [enqueued EXCEPT ![m] = last]
      /\ queue' = [queue EXCEPT ![m] = @ \cup first..last]
      /\ remaining' = [remaining EXCEPT ![m][s] = IF IsBatch(m, s) /\ ~Cmd(m, s).bad THEN Cmd(m, s).datums ELSE 0]
      /\ future' = [future EXCEPT ![m][s] = "pending"]
      /\ wake' = TRUE
      /\ UNCHANGED <<client, record, issued, lock, trainer>>
  BY DEF Submit
<1>p. /\ Len(program[m]) \in Nat /\ Len(program[m]) <= MaxLen /\ MaxLen \in Nat
      /\ s \in 1..MaxLen /\ Cmd(m, s).datums \in Nat /\ Seqs(m) = 1..Len(program[m])
  BY Program DEF IInv, TypeOK, Seqs
<1>e. enqueued[m] \in 0..MaxLen /\ enqueued[m] <= Len(program[m]) /\ queue[m] \subseteq 1..enqueued[m]
  BY DEF IInv, TypeOK, InSequence
<1>l. /\ last \in enqueued[m]..Len(program[m]) /\ last \in 0..MaxLen /\ last \in Nat /\ enqueued[m] <= last
      /\ \A k \in first..last : k = s \/ (k \in Seqs(m) /\ arrival[m][k] # 0)
  <2>1. /\ last \in enqueued[m]..Len(program[m])
        /\ \A k \in (enqueued[m] + 1)..last : k \in {j \in Seqs(m) : arrival[m][j] # 0} \cup {s}
    BY <1>p, <1>e, ContiguousIs
  <2> HIDE DEF last
  <2> QED
    BY <1>p, <1>e, <2>1
<1> HIDE DEF last
<1>t. /\ arrival \in [Models -> [1..MaxLen -> Nat]] /\ enqueued \in [Models -> 0..MaxLen]
      /\ queue \in [Models -> SUBSET (1..MaxLen)] /\ remaining \in [Models -> [1..MaxLen -> Nat]]
      /\ future \in [Models -> [1..MaxLen -> FutureStates]]
  BY DEF IInv, TypeOK
<1>n. NextArrival \in Nat /\ NextArrival # 0
  BY NextArrivalIs
<1>s. ~(s <= enqueued[m]) /\ s \notin queue[m] /\ future[m][s] = "none"
  BY <1>0, <1>p, <1>e DEF IInv, InSequence, Asked
<1>f. /\ arrival'[m][s] # 0 /\ future'[m][s] = "pending"
      /\ \A n \in Models : \A k \in 1..MaxLen : <<n, k>> # <<m, s>> =>
            arrival'[n][k] = arrival[n][k] /\ future'[n][k] = future[n][k] /\ remaining'[n][k] = remaining[n][k]
      /\ enqueued'[m] = last /\ queue'[m] = queue[m] \cup first..last
      /\ \A n \in Models : n # m => enqueued'[n] = enqueued[n] /\ queue'[n] = queue[n]
      /\ IsBatch(m, s) /\ Valid(m, s) => remaining'[m][s] = Cmd(m, s).datums
  BY <1>0, <1>p, <1>t, <1>n DEF Valid
<1>2. TypeOK'
  <2>1. arrival' \in [Models -> [1..MaxLen -> Nat]]
    BY <1>0, <1>t, <1>n
  <2>2. remaining' \in [Models -> [1..MaxLen -> Nat]]
    BY <1>0, <1>t, <1>p
  <2>3. future' \in [Models -> [1..MaxLen -> FutureStates]]
    BY <1>0, <1>t DEF FutureStates
  <2>4. queue' \in [Models -> SUBSET (1..MaxLen)]
    <3>1. first..last \subseteq 1..MaxLen
      BY <1>l, <1>e, <1>p
    <3> QED
      BY <1>0, <1>t, <3>1
  <2>5. enqueued' \in [Models -> 0..MaxLen]
    BY <1>0, <1>t, <1>l
  <2>6. issued' \in [Models -> [1..MaxLen -> Nat]]
    BY <1>0 DEF IInv, TypeOK
  <2> QED
    BY <1>0, <2>1, <2>2, <2>3, <2>4, <2>5, <2>6 DEF IInv, TypeOK, client, record, lock, trainer
<1>3. LockDiscipline' /\ OneTicket'
  BY <1>0, LockFrame DEF record, lock
<1>4. SlotsAreOwned' /\ SlotsAreClean' /\ (ClientWaits => GradsAreOwned')
  BY <1>0, SlotFrame DEF record, lock, trainer
<1>o. Open' = Open /\ m \in Open
  BY <1>0 DEF Open, record
<1>c. program' = program /\ \A n \in Models : Seqs(n)' = Seqs(n) /\ \A k : Cmd(n, k)' = Cmd(n, k)
          /\ IsBatch(n, k)' = IsBatch(n, k)
        /\ Valid(n, k)' = Valid(n, k) /\ Resets(n, k)' = Resets(n, k)
  BY <1>0 DEF Seqs, Cmd, IsBatch, Valid, Resets, client, trainer
<1>i. issued' = issued /\ consumed' = consumed /\ unit' = unit /\ closing' = closing /\ grads' = grads
      /\ slotOf' = slotOf /\ ready' = ready /\ model' = model
  BY <1>0 DEF record, lock, trainer
<1>5. Asked' /\ (ClientWaits => ClientsWait')
  <2>1. \A n \in Models : \A k \in 1..MaxLen :
           /\ arrival'[n][k] # 0 => model'[n] # "absent"
           /\ arrival'[n][k] = 0 <=> future'[n][k] = "none"
    BY <1>0, <1>f, <1>i DEF IInv, Asked
  <2>2. \A n \in Models : ready'[n] => model'[n] # "absent"
    BY <1>i DEF IInv, Asked
  <2>3. ClientWaits => \A n \in Models : \A k \in 1..MaxLen : arrival'[n][k] # 0 => ready'[n]
    BY <1>0, <1>f, <1>i DEF IInv, GradsInv, ClientsWait
  <2> QED
    BY <2>1, <2>2, <2>3 DEF Asked, ClientsWait
<1>6. ClosedModelsAreSettled'
  BY <1>0, <1>f, <1>i DEF IInv, ClosedModelsAreSettled
<1>7. InSequence'
  <2>1. ASSUME NEW n \in Models, NEW k \in 1..MaxLen
        PROVE  /\ enqueued'[n] <= Len(program'[n]) /\ queue'[n] \subseteq 1..enqueued'[n]
               /\ IF k <= enqueued'[n] THEN arrival'[n][k] # 0 ELSE issued'[n][k] = 0 /\ consumed'[n][k] = <<>>
               /\ n \in Open' =>
                    IF k \in queue'[n] THEN future'[n][k] = "pending"
                    ELSE IF k <= enqueued'[n] THEN future'[n][k] \in Settled
                    ELSE future'[n][k] \in {"none", "pending"}
    <3>0. InSequence
      BY DEF IInv
    <3>1. CASE n # m
      BY <3>0, <3>1, <1>f, <1>c, <1>i, <1>o DEF InSequence
    <3>2. CASE n = m
      <4>1. enqueued'[m] <= Len(program'[m]) /\ queue'[m] \subseteq 1..enqueued'[m]
        BY <1>f, <1>l, <1>e, <1>p, <1>c
      <4>2. CASE k <= enqueued[m]
        <5>1. <<m, k>> # <<m, s>> /\ k <= last /\ (k \in queue'[m] <=> k \in queue[m])
          BY <4>2, <1>s, <1>l, <1>e, <1>f
        <5> QED
          BY <3>0, <3>2, <4>1, <4>2, <5>1, <1>f, <1>i, <1>o DEF InSequence
      <4>3. CASE ~(k <= enqueued[m]) /\ k <= last
        <5>1. k \in first..last
          BY <4>3, <1>e, <1>l
        <5>2. k \in queue'[m] /\ k \notin queue[m]
          BY <5>1, <4>3, <1>f, <1>e
        <5>3. arrival'[m][k] # 0
          BY <5>1, <1>l, <1>f
        <5>4. future'[m][k] = "pending"
          <6>1. CASE k = s
            BY <6>1, <1>f
          <6>2. CASE k # s
            <7>1. future[m][k] \in {"none", "pending"}
              BY <3>0, <4>3, <5>2, <1>o DEF InSequence
            <7>2. future[m][k] # "none"
              BY <6>2, <5>1, <1>l DEF IInv, Asked
            <7>3. <<m, k>> # <<m, s>>
              BY <6>2
            <7> QED
              BY <7>1, <7>2, <7>3, <1>f
          <6> QED
            BY <6>1, <6>2
        <5> QED
          BY <3>2, <4>1, <4>3, <5>2, <5>3, <5>4, <1>f
      <4>4. CASE ~(k <= last)
        <5>1. ~(k <= enqueued[m]) /\ k \notin queue[m] /\ k \notin queue'[m]
          BY <4>4, <1>l, <1>e, <1>f
        <5>2. future'[m][k] \in {"none", "pending"}
          BY <3>0, <5>1, <1>f, <1>o DEF InSequence
        <5> QED
          BY <3>0, <3>2, <4>1, <4>4, <5>1, <5>2, <1>f, <1>i DEF InSequence
      <4> QED
        BY <4>2, <4>3, <4>4, <1>e, <1>l
    <3> QED
      BY <3>1, <3>2
  <2>2. \A n \in Models : enqueued'[n] <= Len(program'[n]) /\ queue'[n] \subseteq 1..enqueued'[n]
    <3>1. 1 \in 1..MaxLen
      BY <1>p
    <3> QED
      BY <2>1, <3>1
  <2> QED
    BY <2>1, <2>2 DEF InSequence
<1>8. NoOvertaking'
  <2>1. ASSUME NEW n \in Open, NEW j \in queue'[n], NEW k \in (j + 1)..enqueued'[n], k \notin queue'[n] \/ issued[n][k] > 0
        PROVE  IsBatch(n, j) /\ Valid(n, j)
    <3>0. n \in Models
      BY DEF Open
    <3>1. CASE n # m
      BY <2>1, <3>0, <3>1, <1>f DEF IInv, NoOvertaking
    <3>2. CASE n = m
      <4>1. j \in 1..MaxLen /\ k \in 1..MaxLen /\ k <= last /\ j < k
        <5>1. j \in 1..MaxLen
          <6>1. queue'[m] \subseteq 1..MaxLen
            BY <1>2 DEF TypeOK
          <6> QED
            BY <3>2, <6>1
        <5>2. k \in (j + 1)..last
          BY <3>2, <1>f
        <5> QED
          BY <5>1, <5>2, <1>l, <1>p
      <4>2. k <= enqueued[m]
        <5>1. SUFFICES ASSUME ~(k <= enqueued[m]) PROVE FALSE
          OBVIOUS
        <5>2. k \in first..last
          BY <5>1, <4>1, <1>e, <1>l
        <5>3. issued[m][k] = 0
          BY <5>1, <4>1 DEF IInv, InSequence
        <5> QED
          BY <2>1, <3>2, <5>2, <5>3, <1>f
      <4>3. j \in queue[m] /\ k \in (j + 1)..enqueued[m]
        BY <4>1, <4>2, <3>2, <1>f, <1>e, <1>l
      <4> QED
        BY <2>1, <3>2, <4>3, <1>f DEF IInv, NoOvertaking
    <3> QED
      BY <3>1, <3>2
  <2> QED
    BY <2>1, <1>o, <1>i, <1>c DEF NoOvertaking, Open
<1>q. \A n \in Models : \A k \in queue[n] : k \in queue'[n] /\ (AtHead(n, k) => AtHead(n, k)')
  <2>1. ASSUME NEW n \in Models, NEW k \in queue[n] PROVE k \in queue'[n] /\ (AtHead(n, k) => AtHead(n, k)')
    <3>1. CASE n # m
      BY <3>1, <1>f DEF AtHead
    <3>2. CASE n = m
      <4>1. k \in 1..enqueued[m] /\ \A j \in first..last : k <= j
        BY <3>2, <1>e, <1>l
      <4> QED
        BY <3>2, <4>1, <1>f DEF AtHead
    <3> QED
      BY <3>1, <3>2
  <2> QED
    BY <2>1
<1>9. UnitFits'
  <2>1. \A n \in Open : n \in Models
    BY DEF Open
  <2>2. unit.op \in BatchOps => IsFiniteSet(unit.refs) /\ \A r \in unit.refs :
          \E n \in Open' : \E k \in queue'[n] : \E i \in 1..issued'[n][k] :
             r = <<n, k, i>> /\ Cmd(n, k)'.op = unit.op /\ Valid(n, k)'
    <3>1. \A n \in Open : \A k \in queue[n] : k \in queue'[n] /\ issued'[n][k] = issued[n][k]
              /\ Cmd(n, k)' = Cmd(n, k) /\ Valid(n, k)' = Valid(n, k)
      BY <2>1, <1>q, <1>i, <1>c
    <3> QED
      BY <3>1, <1>o DEF IInv, UnitFits
  <2>3. unit.op \in BarrierOps => \A b \in unit.refs :
          \E n \in Open' : \E k \in queue'[n] :
             b = <<n, k>> /\ AtHead(n, k)' /\ Cmd(n, k)'.op = unit.op /\ Valid(n, k)'
    <3>1. \A n \in Open : \A k \in queue[n] : k \in queue'[n] /\ (AtHead(n, k) => AtHead(n, k)')
              /\ Cmd(n, k)' = Cmd(n, k) /\ Valid(n, k)' = Valid(n, k)
      BY <2>1, <1>q, <1>i, <1>c
    <3> QED
      BY <3>1, <1>o DEF IInv, UnitFits
  <2> QED
    BY <2>2, <2>3, <1>i DEF UnitFits
<1>v. \A n \in Models : Live(n)' = Live(n)
  BY <1>i, <1>o DEF Live
<1>10. Counted'
  <2>1. \A n, k : DatumsIn(unit', n, k) = DatumsIn(unit, n, k)
    BY <1>i
  <2>2. ASSUME NEW n \in Models, NEW k \in Seqs(n), Live(n), IsBatch(n, k), Valid(n, k), arrival'[n][k] # 0
        PROVE  IF k \in queue'[n] \/ k > enqueued'[n]
                 THEN /\ issued[n][k] <= Cmd(n, k).datums /\ remaining'[n][k] > 0
                      /\ remaining'[n][k] + issued[n][k] = Cmd(n, k).datums + Cardinality(DatumsIn(unit, n, k))
                 ELSE Cmd(n, k).op = "forward_backward" => issued[n][k] = Cmd(n, k).datums
    <3>0. k \in 1..MaxLen
      BY Program DEF IInv, TypeOK
    <3>1. CASE <<n, k>> # <<m, s>>
      <4>1. arrival[n][k] # 0 /\ remaining'[n][k] = remaining[n][k]
        BY <2>2, <3>0, <3>1, <1>f
      <4>2. (k \in queue'[n] \/ k > enqueued'[n]) <=> (k \in queue[n] \/ k > enqueued[n])
        <5>1. CASE n # m
          BY <5>1, <1>f
        <5>2. CASE n = m
          BY <3>0, <5>2, <1>f, <1>e, <1>l
        <5> QED
          BY <5>1, <5>2
      <4> QED
        BY <2>2, <4>1, <4>2 DEF IInv, Counted
    <3>2. CASE <<n, k>> = <<m, s>>
      <4>0. n = m /\ k = s
        BY <3>2
      <4>1. s \in queue'[m] \/ s > enqueued'[m]
        BY <1>f, <1>s, <1>l, <1>e, <1>p
      <4>2. issued[m][s] = 0
        BY <1>s, <1>p DEF IInv, InSequence
      <4>3. remaining'[m][s] = Cmd(m, s).datums /\ Cmd(m, s).datums > 0
        BY <2>2, <4>0, <1>f, Program DEF IInv, TypeOK
      <4>4. DatumsIn(unit, m, s) = {}
        <5>1. unit.op \in BatchOps => \A r \in unit.refs : ~(r[1] = m /\ r[2] = s)
          BY <1>s DEF IInv, UnitFits
        <5> QED
          BY <5>1 DEF DatumsIn
      <4>5. Cardinality(DatumsIn(unit, m, s)) = 0
        BY <4>4, FS_EmptySet
      <4> QED
        BY <4>0, <4>1, <4>2, <4>3, <4>5, <1>p
    <3> QED
      BY <3>1, <3>2
  <2> QED
    BY <2>1, <2>2, <1>v, <1>c, <1>i DEF Counted
<1>11. NothingSkipped'
  <2>1. ASSUME NEW n \in Models, NEW k \in 1..enqueued'[n], Live(n), k \notin queue'[n], Cmd(n, k).op = "forward_backward"
        PROVE  Valid(n, k)
    <3>1. k \in 1..enqueued[n] /\ k \notin queue[n]
      <4>1. CASE n # m
        BY <2>1, <4>1, <1>f
      <4>2. CASE n = m
        BY <2>1, <4>2, <1>f, <1>e, <1>l
      <4> QED
        BY <4>1, <4>2
    <3> QED
      BY <2>1, <3>1 DEF IInv, NothingSkipped
  <2> QED
    BY <2>1, <1>v, <1>c DEF NothingSkipped
<1>12. ClientWaits => GradsAreSent'
  <2>1. \A n \in Models : Sent(n)' = Sent(n)
    BY <1>i, <1>c DEF Sent
  <2> QED
    BY <1>i, <1>v, <2>1 DEF IInv, GradsInv, GradsAreSent
<1>13. Windows'
  <2>1. ASSUME NEW n \in Models, NEW b \in 1..MaxLen, consumed[n][b] # <<>>
        PROVE  Resets(n, b) /\ \A k \in queue'[n] : k >= b
    <3>1. Resets(n, b) /\ \A k \in queue[n] : k >= b
      BY <2>1 DEF IInv, Windows
    <3>2. CASE n # m
      BY <3>1, <3>2, <1>f
    <3>3. CASE n = m
      <4>1. b <= enqueued[m]
        BY <2>1, <3>3 DEF IInv, InSequence
      <4>2. \A k \in first..last : k >= b
        BY <4>1, <1>e, <1>l
      <4> QED
        BY <3>1, <3>3, <4>2, <1>f
    <3> QED
      BY <3>2, <3>3
  <2>2. ASSUME NEW n \in Models, NEW b \in 1..MaxLen, Live(n), b \in queue'[n]
        PROVE  consumed[n][b] = <<>>
    <3>1. CASE b \in queue[n]
      BY <2>2, <3>1 DEF IInv, Windows
    <3>2. CASE b \notin queue[n]
      <4>1. n = m /\ b \in first..last
        BY <2>2, <3>2, <1>f
      <4>2. ~(b <= enqueued[m])
        BY <4>1, <1>e, <1>l
      <4> QED
        BY <4>1, <4>2 DEF IInv, InSequence
    <3> QED
      BY <3>1, <3>2
  <2> QED
    BY <2>1, <2>2, <1>v, <1>c, <1>i DEF Windows
<1>14. ClientWaits => StepConsumesItsWindow'
  <2>1. \A n \in Models : \A b : Accumulated(n, b)' = Accumulated(n, b)
    BY <1>c DEF Accumulated
  <2> QED
    BY <1>i, <1>c, <2>1 DEF IInv, GradsInv, StepConsumesItsWindow
<1>15. SleepsOnNothing'
  BY <1>0 DEF SleepsOnNothing
<1> QED
  BY <1>2, <1>3, <1>4, <1>5, <1>6, <1>7, <1>8, <1>9, <1>10, <1>11, <1>12, <1>13, <1>14, <1>15
    DEF IInv, GradsInv

(***************************************************************************)
(* A call returns and its requests settle.                                 *)
(***************************************************************************)

\* What leaves a queue has settled, and nothing else changes.
Settles ==
    /\ queue' \in [Models -> SUBSET (1..MaxLen)] /\ future' \in [Models -> [1..MaxLen -> FutureStates]]
    /\ \A m \in Models : queue'[m] \subseteq queue[m]
    /\ \A m \in Models : \A s \in 1..MaxLen :
          IF s \in queue[m] \ queue'[m] THEN m \in Open /\ future'[m][s] \in {"done", "failed"}
                                        ELSE future'[m][s] = future[m][s]

LEMMA FinishIs ==
    ASSUME IInv, NEW succeeded, NEW failed, NEW category, Finish(succeeded, failed, category),
           succeeded \cap failed = {},
           \A c \in succeeded \cup failed : c \in Commands /\ c[1] \in Open /\ c[2] \in queue[c[1]]
    PROVE  /\ Settles /\ closing' \subseteq Open
           /\ \A c \in failed : ClosesOnFailure(c, category) => c[1] \in closing'
           /\ \A m \in Models : \A s \in 1..MaxLen :
                 s \in queue[m] \ queue'[m] <=>
                    \/ <<m, s>> \in succeeded
                    \/ <<m, s>> \in failed /\ ~ClosesOnFailure(<<m, s>>, category)
<1> DEFINE closed == {c \in failed : ClosesOnFailure(c, category)}
           settled == (succeeded \cup failed) \ closed
<1>0. /\ closing' = {c[1] : c \in closed}
      /\ future' = [m \in Models |-> [s \in 1..MaxLen |->
              IF <<m, s>> \in succeeded THEN "done"
              ELSE IF <<m, s>> \in failed \ closed THEN "failed" ELSE future[m][s]]]
      /\ queue' = [m \in Models |-> {s \in queue[m] : <<m, s>> \notin settled}]
  BY DEF Finish
<1>t. queue \in [Models -> SUBSET (1..MaxLen)] /\ future \in [Models -> [1..MaxLen -> FutureStates]]
  BY DEF IInv, TypeOK
<1>1. closing' \subseteq Open /\ \A c \in failed : ClosesOnFailure(c, category) => c[1] \in closing'
  BY <1>0
<1>2. \A m \in Models : \A s \in 1..MaxLen :
         <<m, s>> \in settled <=> <<m, s>> \in succeeded \/ (<<m, s>> \in failed /\ ~ClosesOnFailure(<<m, s>>, category))
  OBVIOUS
<1>3. \A m \in Models : \A s \in 1..MaxLen : <<m, s>> \in settled => m \in Open /\ s \in queue[m]
  <2>1. \A m \in Models : \A s \in 1..MaxLen : <<m, s>> \in succeeded \cup failed => m \in Open /\ s \in queue[m]
    OBVIOUS
  <2> QED
    BY <1>2, <2>1
<1>4. \A m \in Models : \A s \in 1..MaxLen :
         future'[m][s] = IF <<m, s>> \in succeeded THEN "done"
                         ELSE IF <<m, s>> \in failed \ closed THEN "failed" ELSE future[m][s]
  BY <1>0
<1>5. \A m \in Models : queue'[m] = {s \in queue[m] : <<m, s>> \notin settled}
  BY <1>0
<1>6. queue' \in [Models -> SUBSET (1..MaxLen)] /\ \A m \in Models : queue'[m] \subseteq queue[m]
  <2>1. \A m \in Models : {s \in queue[m] : <<m, s>> \notin settled} \in SUBSET (1..MaxLen)
    BY <1>t
  <2> HIDE DEF settled
  <2> QED
    BY <1>0, <1>5, <2>1
<1>7. future' \in [Models -> [1..MaxLen -> FutureStates]]
  <2>1. \A m \in Models : \A s \in 1..MaxLen : future[m][s] \in FutureStates
    BY <1>t
  <2> HIDE DEF closed
  <2> QED
    BY <1>0, <2>1 DEF FutureStates
<1>8. \A m \in Models : \A s \in 1..MaxLen : s \in queue[m] \ queue'[m] <=> <<m, s>> \in settled
  BY <1>3, <1>5
<1>9. \A m \in Models : \A s \in 1..MaxLen :
          IF <<m, s>> \in settled THEN m \in Open /\ future'[m][s] \in {"done", "failed"}
                                  ELSE future'[m][s] = future[m][s]
  BY <1>3, <1>4
<1> HIDE DEF settled, closed
<1> QED
  BY <1>1, <1>2, <1>6, <1>7, <1>8, <1>9 DEF Settles

\* Of what was not enqueued yet nothing was issued, and no step has run.
LEMMA NotEnqueued ==
    ASSUME IInv
    PROVE  \A m \in Models : \A s \in 1..MaxLen : s > enqueued[m] => issued[m][s] = 0 /\ consumed[m][s] = <<>>
<1>1. \A m \in Models : \A s \in 1..MaxLen : s > enqueued[m] => ~(s <= enqueued[m])
  BY DEF IInv, TypeOK
<1>2. \A m \in Models : \A s \in 1..MaxLen : ~(s <= enqueued[m]) => issued[m][s] = 0 /\ consumed[m][s] = <<>>
  BY DEF IInv, InSequence
<1> QED
  BY <1>1, <1>2

LEMMA SettlesKeeps ==
    ASSUME IInv, Settles, UNCHANGED <<program, model, ready, enqueued, arrival>>,
           \A m \in Models : \A s \in 1..MaxLen : s > enqueued[m] => issued'[m][s] = 0 /\ consumed'[m][s] = <<>>
    PROVE  Asked' /\ (ClientWaits => ClientsWait') /\ InSequence' /\ ClosedModelsAreSettled'
<1>t. /\ queue \in [Models -> SUBSET (1..MaxLen)] /\ future \in [Models -> [1..MaxLen -> FutureStates]]
      /\ enqueued \in [Models -> 0..MaxLen]
  BY DEF IInv, TypeOK
<1>0. \A m \in Models : \A s \in 1..MaxLen :
         IF s \in queue[m] \ queue'[m]
           THEN /\ m \in Open /\ future'[m][s] \in {"done", "failed"} /\ future[m][s] = "pending" /\ s <= enqueued[m]
           ELSE future'[m][s] = future[m][s]
  BY <1>t DEF IInv, InSequence, Settles
<1>1. Asked' /\ (ClientWaits => ClientsWait')
  <2>1. \A m \in Models : \A s \in 1..MaxLen : future'[m][s] = "none" <=> future[m][s] = "none"
    BY <1>0
  <2> QED
    BY <2>1 DEF IInv, GradsInv, Asked, ClientsWait
<1>2. ClosedModelsAreSettled'
  <2>1. \A m \in Models : \A s \in 1..MaxLen : future'[m][s] = "pending" => future[m][s] = "pending"
    BY <1>0
  <2> QED
    BY <2>1 DEF IInv, ClosedModelsAreSettled
<1>3. InSequence'
  <2>1. Open' = Open
    BY DEF Open
  <2>2. ASSUME NEW m \in Models PROVE enqueued[m] <= Len(program[m]) /\ queue'[m] \subseteq 1..enqueued[m]
    BY DEF IInv, InSequence, Settles
  <2>3. ASSUME NEW m \in Models, NEW s \in 1..MaxLen
        PROVE  /\ IF s <= enqueued[m] THEN arrival[m][s] # 0 ELSE issued'[m][s] = 0 /\ consumed'[m][s] = <<>>
               /\ m \in Open =>
                    IF s \in queue'[m] THEN future'[m][s] = "pending"
                    ELSE IF s <= enqueued[m] THEN future'[m][s] \in Settled
                    ELSE future'[m][s] \in {"none", "pending"}
    <3>1. IF s <= enqueued[m] THEN arrival[m][s] # 0 ELSE issued'[m][s] = 0 /\ consumed'[m][s] = <<>>
      <4>1. s <= enqueued[m] \/ s > enqueued[m]
        BY <1>t
      <4> QED
        BY <4>1 DEF IInv, InSequence
    <3>2. CASE s \in queue[m] \ queue'[m]
      BY <1>0, <3>1, <3>2 DEF Settled
    <3>3. CASE s \notin queue[m] \ queue'[m]
      <4>1. future'[m][s] = future[m][s] /\ (s \in queue[m] <=> s \in queue'[m])
        BY <1>0, <3>3 DEF Settles
      <4> QED
        BY <3>1, <4>1 DEF IInv, InSequence
    <3> QED
      BY <3>2, <3>3
  <2> QED
    BY <2>1, <2>2, <2>3 DEF InSequence
<1> QED
  BY <1>1, <1>2, <1>3

\* Only the head, or what was issued, leaves a queue.
LEMMA OvertakingKeeps ==
    ASSUME IInv, Settles, UNCHANGED <<program, model, enqueued, issued>>,
           \A m \in Models : \A k \in queue[m] \ queue'[m] : AtHead(m, k) \/ issued[m][k] > 0
    PROVE  NoOvertaking'
<1>1. ASSUME NEW m \in Open, NEW j \in queue'[m], NEW k \in (j + 1)..enqueued[m], k \notin queue'[m] \/ issued[m][k] > 0
      PROVE  IsBatch(m, j) /\ Valid(m, j)
  <2>1. m \in Models /\ j \in queue[m]
    BY DEF Open, Settles
  <2>2. j \in Nat /\ enqueued[m] \in Nat
    BY <2>1, Queued
  <2>3. k \notin queue[m] \/ issued[m][k] > 0
    <3> SUFFICES ASSUME k \in queue[m], ~(issued[m][k] > 0) PROVE FALSE
      OBVIOUS
    <3>1. k \in queue[m] \ queue'[m]
      BY <1>1
    <3>2. AtHead(m, k)
      BY <2>1, <3>1
    <3>3. k <= j
      BY <2>1, <3>2 DEF AtHead
    <3> QED
      BY <2>2, <3>3
  <2> QED
    BY <2>1, <2>3 DEF IInv, NoOvertaking
<1>2. Open' = Open /\ \A m, s : IsBatch(m, s)' = IsBatch(m, s) /\ Valid(m, s)' = Valid(m, s)
  BY DEF Open, IsBatch, Valid, Cmd
<1> QED
  BY <1>1, <1>2 DEF NoOvertaking

\* What has no datums leaves the head of the queue: barriers, and what did not validate.
LEMMA HeadsKeep ==
    ASSUME IInv, Settles, closing = {}, UNCHANGED <<program, model, ready, enqueued, arrival, issued, remaining>>,
           \A m \in Models : \A s \in 1..MaxLen : s > enqueued[m] => consumed'[m][s] = <<>>,
           \A m \in Models : \A k \in queue[m] \ queue'[m] :
              AtHead(m, k) /\ (~Valid(m, k) \/ ~IsBatch(m, k)) /\ Cmd(m, k).op # "forward_backward",
           unit.op \notin BatchOps, unit'.op \notin Ops
    PROVE  /\ Asked' /\ (ClientWaits => ClientsWait') /\ InSequence' /\ NoOvertaking' /\ ClosedModelsAreSettled'
           /\ UnitFits' /\ Counted' /\ NothingSkipped'
<1>1. \A m \in Models : \A s \in 1..MaxLen : s > enqueued[m] => issued'[m][s] = 0 /\ consumed'[m][s] = <<>>
  BY NotEnqueued
<1>2. Asked' /\ (ClientWaits => ClientsWait') /\ InSequence' /\ ClosedModelsAreSettled'
  BY <1>1, SettlesKeeps
<1>3. NoOvertaking'
  BY OvertakingKeeps
<1>4. UnitFits'
  BY IdleUnits DEF UnitFits
<1>5. \A m \in Models : Live(m)' => Live(m)
  BY DEF Live, Open
<1>6. \A m : Seqs(m)' = Seqs(m) /\ \A s : Cmd(m, s)' = Cmd(m, s) /\ IsBatch(m, s)' = IsBatch(m, s)
          /\ Valid(m, s)' = Valid(m, s)
  BY DEF Seqs, Cmd, IsBatch, Valid
<1>7. \A m, s : DatumsIn(unit', m, s) = DatumsIn(unit, m, s)
  <2>1. \A m, s : DatumsIn(unit, m, s) = {} /\ DatumsIn(unit', m, s) = {}
    BY IdleUnits DEF DatumsIn
  <2> QED
    BY <2>1
<1>8. Counted'
  <2>1. ASSUME NEW m \in Models, NEW s \in Seqs(m), Live(m), IsBatch(m, s), Valid(m, s), arrival[m][s] # 0
        PROVE  IF s \in queue'[m] \/ s > enqueued[m]
          THEN /\ issued[m][s] <= Cmd(m, s).datums /\ remaining[m][s] > 0
               /\ remaining[m][s] + issued[m][s] = Cmd(m, s).datums + Cardinality(DatumsIn(unit, m, s))
          ELSE Cmd(m, s).op = "forward_backward" => issued[m][s] = Cmd(m, s).datums
    <3>1. s \in queue'[m] <=> s \in queue[m]
      BY <2>1 DEF Settles
    <3> QED
      BY <2>1, <3>1 DEF IInv, Counted
  <2> QED
    BY <2>1, <1>5, <1>6, <1>7 DEF Counted
<1>9. NothingSkipped'
  BY <1>5, <1>6 DEF IInv, NothingSkipped
<1> QED
  BY <1>2, <1>3, <1>4, <1>8, <1>9

\* Queues shrink, and the trainer keeps its gradients.
LEMMA GradShrinks ==
    ASSUME IInv, UNCHANGED <<program, slotOf, issued, consumed, ready, grads>>,
           unit.op \notin BatchOps /\ unit'.op \notin BatchOps,
           \A m \in Models : Live(m)' => Live(m),
           \A m \in Models : queue'[m] \subseteq queue[m]
    PROVE  Windows' /\ (ClientWaits => GradsAreSent' /\ StepConsumesItsWindow')
<1>1. \A m \in Models : Seqs(m)' = Seqs(m) /\ \A s : Cmd(m, s)' = Cmd(m, s) /\ Resets(m, s)' = Resets(m, s)
  BY DEF Seqs, Cmd, Resets
<1>2. \A m \in Models : Sent(m)' = Sent(m)
  BY <1>1 DEF Sent
<1>3. ClientWaits => GradsAreSent'
  BY <1>2 DEF IInv, GradsInv, GradsAreSent
<1>4. Windows'
  <2>1. \A m \in Models : \A b \in 1..MaxLen : consumed[m][b] # <<>> => Resets(m, b) /\ \A k \in queue'[m] : k >= b
    BY DEF IInv, Windows
  <2>2. \A m \in Models : \A b \in 1..MaxLen : Live(m)' /\ b \in queue'[m] => consumed[m][b] = <<>>
    BY DEF IInv, Windows
  <2> QED
    BY <1>1, <2>1, <2>2 DEF Windows
<1>5. \A m \in Models : \A b : Accumulated(m, b)' = Accumulated(m, b)
  BY <1>1 DEF Accumulated
<1>6. ClientWaits => StepConsumesItsWindow'
  BY <1>1, <1>5 DEF IInv, GradsInv, StepConsumesItsWindow
<1> QED
  BY <1>3, <1>4, <1>6

\* The call is over; its holder keeps the lock.
LEMMA ReturnsKeeps ==
    ASSUME IInv, NEW ops, Returns(ops), ops \subseteq Ops, Settles, closing' \subseteq Open,
           remaining' \in [Models -> [1..MaxLen -> Nat]], grads' \in [Slots -> SUBSET Datums],
           consumed' \in [Models -> [1..MaxLen -> Seq(SUBSET Datums)]]
    PROVE  /\ TypeOK' /\ LockDiscipline' /\ OneTicket' /\ SlotsAreClean' /\ UnitFits' /\ SleepsOnNothing'
<1>0. /\ holder = Dispatcher /\ unit.op \in Ops /\ unit' = NoUnit /\ NoUnit.op = "none" /\ unit # NoUnit
      /\ holder' = holder /\ unloading' = unloading /\ lockQueue' = lockQueue /\ Dispatcher # "nobody"
      /\ UNCHANGED <<model, slotOf, ready, free, loaded>>
  <2>1. /\ holder = Dispatcher /\ unit.op \in Ops /\ unit' = NoUnit /\ holder' = holder /\ unloading' = unloading
        /\ lockQueue' = lockQueue /\ UNCHANGED <<model, slotOf, ready, free, loaded>>
    BY DEF Returns, record
  <2>2. NoUnit.op = "none" /\ "none" \notin Ops /\ Dispatcher # "nobody"
    BY DEF NoUnit, Ops, Dispatcher
  <2>3. unit # NoUnit
    BY <2>1, <2>2
  <2> QED
    BY <2>1, <2>2, <2>3
<1>1. closing = {} /\ unloading = NoSlot
  BY <1>0 DEF IInv, LockDiscipline
<1>2. Open' = Open /\ Open \subseteq Models
  BY <1>0 DEF Open
<1>3. TypeOK'
  BY <1>0, <1>2 DEF IInv, TypeOK, Returns, client, record, Settles
<1>4. LockDiscipline'
  BY <1>0, <1>1, <1>2 DEF LockDiscipline
<1>5. OneTicket'
  BY <1>0 DEF IInv, OneTicket
<1>6. SlotsAreClean'
  BY <1>0, <1>2 DEF IInv, SlotsAreClean
<1>7. UnitFits'
  BY <1>0 DEF UnitFits, BatchOps, BarrierOps, Ops
<1>8. SleepsOnNothing'
  BY <1>2, SleepFrame DEF Returns, Settles
<1> QED
  BY <1>3, <1>4, <1>5, <1>6, <1>7, <1>8

\* The commands of a unit of barriers are at the head of their queues.
LEMMA BarriersAre ==
    ASSUME IInv, unit.op \in BarrierOps
    PROVE  /\ unit.op \notin BatchOps /\ closing = {}
           /\ \A b \in unit.refs :
                 /\ b \in Commands /\ b[1] \in Open /\ b[1] \in Models /\ b[2] \in queue[b[1]] /\ b[2] \in Seqs(b[1])
                 /\ AtHead(b[1], b[2]) /\ Cmd(b[1], b[2]).op = unit.op /\ ~IsBatch(b[1], b[2])
                 /\ b = <<b[1], b[2]>>
<1>1. unit.op \notin BatchOps /\ unit.op \in Ops /\ unit # NoUnit
  BY DEF BarrierOps, BatchOps, Ops, NoUnit
<1>2. closing = {}
  BY <1>1 DEF IInv, LockDiscipline
<1>3. ASSUME NEW b \in unit.refs
      PROVE  /\ b \in Commands /\ b[1] \in Open /\ b[1] \in Models /\ b[2] \in queue[b[1]] /\ b[2] \in Seqs(b[1])
             /\ AtHead(b[1], b[2]) /\ Cmd(b[1], b[2]).op = unit.op /\ ~IsBatch(b[1], b[2])
             /\ b = <<b[1], b[2]>>
  <2>1. \A c \in unit.refs : \E m \in Open : \E s \in queue[m] :
             c = <<m, s>> /\ AtHead(m, s) /\ Cmd(m, s).op = unit.op /\ Valid(m, s)
    BY DEF IInv, UnitFits
  <2>2. PICK m \in Open : \E s \in queue[m] : b = <<m, s>> /\ AtHead(m, s) /\ Cmd(m, s).op = unit.op /\ Valid(m, s)
    BY <2>1
  <2>3. PICK s \in queue[m] : b = <<m, s>> /\ AtHead(m, s) /\ Cmd(m, s).op = unit.op
    BY <2>2
  <2>4. m \in Models
    BY DEF Open
  <2>5. s \in Seqs(m) /\ s \in 1..MaxLen
    BY <2>4, Queued
  <2> QED
    BY <1>1, <2>3, <2>4, <2>5 DEF IsBatch, Commands
<1> QED
  BY <1>1, <1>2, <1>3

\* What did not validate leaves the head of its queue, or its model is closed.
LEMMA RejectKeeps == ASSUME IInv, Dispatch, Rejections # {} PROVE IInv'
<1>0. /\ Acquire(Dispatcher) /\ holder' = Dispatcher /\ dispatcher' = "running" /\ Finish({}, Rejections, "user")
      /\ unit' = unit /\ issued' = issued
      /\ UNCHANGED <<client, record, enqueued, arrival, remaining, unloading, wake, trainer>>
  BY DEF Dispatch
<1>1. /\ OneTicket' /\ lockQueue' \in Seq(Models \cup {Dispatcher, EndSessions})
      /\ holder = "nobody" /\ unit = NoUnit /\ closing = {} /\ unloading = NoSlot
  BY <1>0, AcquireFrame DEF record
<1>u. unit.op \notin Ops /\ unit.op \notin BatchOps /\ unit' = NoUnit
  BY <1>0, <1>1 DEF NoUnit, Ops, BatchOps
<1>j. \A c \in Rejections : /\ c \in Commands /\ c[1] \in Open /\ c[2] \in queue[c[1]] /\ AtHead(c[1], c[2])
                            /\ ~Valid(c[1], c[2])
  BY DEF Rejections, AtHead
<1>f. /\ Settles /\ closing' \subseteq Open
      /\ \A m \in Models : \A s \in 1..MaxLen :
            s \in queue[m] \ queue'[m] <=>
               \/ <<m, s>> \in {}
               \/ <<m, s>> \in Rejections /\ ~ClosesOnFailure(<<m, s>>, "user")
  BY <1>0, <1>j, FinishIs
<1>g. \A m \in Models : \A k \in queue[m] \ queue'[m] :
         AtHead(m, k) /\ ~Valid(m, k) /\ Cmd(m, k).op # "forward_backward"
  <2>1. \A m \in Models : \A k \in queue[m] : k \in 1..MaxLen
    BY Queued
  <2> QED
    BY <1>f, <1>j, <2>1 DEF ClosesOnFailure
<1>2. TypeOK'
  BY <1>0, <1>1, <1>f DEF IInv, TypeOK, client, record, trainer, Settles, Open
<1>3. LockDiscipline'
  <2>1. Open' = Open /\ Dispatcher # "nobody"
    BY <1>0 DEF Open, record, Dispatcher
  <2> QED
    BY <1>0, <1>f, <1>u, <2>1 DEF LockDiscipline
<1>4. SlotsAreOwned' /\ SlotsAreClean' /\ (ClientWaits => GradsAreOwned')
  BY <1>0, SlotFrame DEF record, trainer
<1>5. /\ Asked' /\ (ClientWaits => ClientsWait') /\ InSequence' /\ NoOvertaking' /\ ClosedModelsAreSettled'
      /\ UnitFits' /\ Counted' /\ NothingSkipped'
  <2>1. \A m \in Models : \A s \in 1..MaxLen : s > enqueued[m] => consumed'[m][s] = <<>>
    BY <1>0, NotEnqueued DEF trainer
  <2> QED
    BY <1>0, <1>1, <1>f, <1>g, <1>u, <2>1, HeadsKeep DEF client, record
<1>6. Windows' /\ (ClientWaits => GradsAreSent' /\ StepConsumesItsWindow')
  <2>1. \A m \in Models : Live(m)' => Live(m)
    BY <1>0, <1>1 DEF Live, Open, record
  <2>2. \A m \in Models : queue'[m] \subseteq queue[m]
    BY <1>f DEF Settles
  <2> QED
    BY <1>0, <1>u, <2>1, <2>2, GradShrinks DEF client, record, trainer
<1>7. SleepsOnNothing'
  BY <1>0 DEF SleepsOnNothing
<1> QED
  BY <1>1, <1>2, <1>3, <1>4, <1>5, <1>6, <1>7 DEF IInv, GradsInv

\* _save_state() returns.
LEMMA SaveReturnsKeeps == ASSUME IInv, SaveReturns PROVE IInv'
<1> USE DEF SaveReturns
<1>0. /\ Returns({"save_state"}) /\ unit.op = "save_state" /\ unit' = NoUnit
      /\ UNCHANGED <<client, record, enqueued, arrival, issued, loaded, remaining, grads, consumed>>
  BY DEF Returns
<1>1. unit.op \in BarrierOps /\ unit'.op \notin Ops /\ unit'.op \notin BatchOps /\ {"save_state"} \subseteq Ops
  BY <1>0 DEF BarrierOps, Ops, BatchOps, NoUnit
<1>2. PICK ok \in {{}, unit.refs}, category \in {"user", "server"} : Finish(ok, unit.refs \ ok, category)
  OBVIOUS
<1>b. /\ unit.op \notin BatchOps /\ closing = {}
      /\ \A b \in unit.refs :
                 /\ b \in Commands /\ b[1] \in Open /\ b[1] \in Models /\ b[2] \in queue[b[1]] /\ b[2] \in Seqs(b[1])
                 /\ AtHead(b[1], b[2]) /\ Cmd(b[1], b[2]).op = unit.op /\ ~IsBatch(b[1], b[2])
  BY <1>1, BarriersAre
<1>f. /\ Settles /\ closing' \subseteq Open
      /\ \A m \in Models : \A s \in 1..MaxLen :
            s \in queue[m] \ queue'[m] <=>
               \/ <<m, s>> \in ok
               \/ <<m, s>> \in unit.refs \ ok /\ ~ClosesOnFailure(<<m, s>>, category)
  <2>1. ok \cap (unit.refs \ ok) = {} /\ ok \cup (unit.refs \ ok) = unit.refs
    OBVIOUS
  <2> QED
    BY <1>2, <1>b, <2>1, FinishIs
<1>g. \A m \in Models : \A k \in queue[m] \ queue'[m] :
         AtHead(m, k) /\ ~IsBatch(m, k) /\ Cmd(m, k).op # "forward_backward"
  <2>1. \A m \in Models : \A k \in queue[m] : k \in 1..MaxLen
    BY Queued
  <2>2. \A m \in Models : \A k \in queue[m] \ queue'[m] : <<m, k>> \in unit.refs
    BY <1>f, <2>1
  <2> QED
    BY <1>0, <1>b, <2>2
<1>3. TypeOK' /\ LockDiscipline' /\ OneTicket' /\ SlotsAreClean' /\ UnitFits' /\ SleepsOnNothing'
  <2>1. /\ remaining' \in [Models -> [1..MaxLen -> Nat]] /\ grads' \in [Slots -> SUBSET Datums]
        /\ consumed' \in [Models -> [1..MaxLen -> Seq(SUBSET Datums)]]
    BY <1>0 DEF IInv, TypeOK
  <2> QED
    BY <1>0, <1>1, <1>f, <2>1, ReturnsKeeps
<1>4. SlotsAreOwned' /\ (ClientWaits => GradsAreOwned')
  BY <1>0 DEF IInv, GradsInv, SlotsAreOwned, GradsAreOwned, record, Open
<1>5. /\ Asked' /\ (ClientWaits => ClientsWait') /\ InSequence' /\ NoOvertaking'
      /\ ClosedModelsAreSettled' /\ Counted' /\ NothingSkipped'
  <2>1. \A m \in Models : \A s \in 1..MaxLen : s > enqueued[m] => consumed'[m][s] = <<>>
    BY <1>0, NotEnqueued
  <2> QED
    BY <1>0, <1>1, <1>b, <1>f, <1>g, <2>1, HeadsKeep DEF client, record
<1>6. Windows' /\ (ClientWaits => GradsAreSent' /\ StepConsumesItsWindow')
  <2>1. \A m \in Models : Live(m)' => Live(m)
    BY <1>0, <1>b DEF Live, Open, record
  <2>2. \A m \in Models : queue'[m] \subseteq queue[m]
    BY <1>f DEF Settles
  <2> QED
    BY <1>0, <1>1, <1>b, <2>1, <2>2, GradShrinks DEF client, record
<1> QED
  BY <1>3, <1>4, <1>5, <1>6 DEF IInv, GradsInv

\* A step or load meets in its slot what its model sent since the one before it: all of
\* its forward_backward commands are issued, answered, and none is lost or repeated.
LEMMA WindowIs ==
    ASSUME IInv, unit.op \in {"optim_step", "load_state"}, NEW m \in Models, NEW s, <<m, s>> \in unit.refs
    PROVE  /\ m \in Open /\ Live(m) /\ s \in queue[m] /\ s \in Seqs(m) /\ s \in 1..MaxLen
           /\ AtHead(m, s) /\ Cmd(m, s).op = unit.op /\ ~IsBatch(m, s)
           /\ consumed[m][s] = <<>> /\ \A r \in Seqs(m) : Resets(m, r) => r < s
           /\ \A k \in Seqs(m) : k > s => issued[m][k] = 0
           /\ ClientWaits => grads[slotOf[m]] = Accumulated(m, s)
<1>1. unit.op \in BarrierOps /\ unit.op \notin BatchOps
  BY DEF BarrierOps, Ops, BatchOps
<1>2. /\ m \in Open /\ s \in queue[m] /\ s \in Seqs(m) /\ AtHead(m, s) /\ Cmd(m, s).op = unit.op /\ ~IsBatch(m, s)
      /\ closing = {}
  <2>1. <<m, s>>[1] = m /\ <<m, s>>[2] = s
    OBVIOUS
  <2> QED
    BY <1>1, <2>1, BarriersAre
<1>3. Live(m)
  BY <1>2 DEF Live
<1>4. s \in 1..MaxLen /\ s \in 1..enqueued[m] /\ s \in Nat /\ enqueued[m] \in Nat
  BY <1>2, Queued
<1>5. ClientWaits => ready[m]
  BY <1>4 DEF IInv, GradsInv, InSequence, ClientsWait
<1>6. consumed[m][s] = <<>>
  BY <1>2, <1>3, <1>4 DEF IInv, Windows
<1>7. \A k \in Seqs(m) : k \in 1..MaxLen /\ k \in Nat /\ issued[m][k] \in Nat
  <2>1. \A k \in Seqs(m) : k \in 1..MaxLen
    BY Program DEF IInv, TypeOK
  <2> QED
    BY <2>1, CommandTypes
<1>8. \A r \in Seqs(m) : Resets(m, r) => r < s
  <2> SUFFICES ASSUME NEW r \in Seqs(m), Resets(m, r) PROVE r < s
    OBVIOUS
  <2>1. r \in 1..MaxLen /\ r \in Nat /\ consumed[m][r] # <<>>
    BY <1>7 DEF Resets
  <2>2. s >= r
    BY <1>2, <2>1 DEF IInv, Windows
  <2>3. s # r
    BY <1>6, <2>1
  <2> QED
    BY <1>4, <2>1, <2>2, <2>3
<1>9. \A k \in Seqs(m) : k > s => issued[m][k] = 0
  <2> SUFFICES ASSUME NEW k \in Seqs(m), k > s PROVE issued[m][k] = 0
    OBVIOUS
  <2>1. CASE k <= enqueued[m]
    <3>1. k \in (s + 1)..enqueued[m]
      BY <1>4, <1>7, <2>1
    <3>2. ~(issued[m][k] > 0)
      BY <1>2, <3>1 DEF IInv, NoOvertaking
    <3> QED
      BY <1>7, <3>2
  <2>2. CASE ~(k <= enqueued[m])
    BY <1>7, <2>2 DEF IInv, InSequence
  <2> QED
    BY <2>1, <2>2
<1>10. ClientWaits => grads[slotOf[m]] = Sent(m)
  BY <1>1, <1>3, <1>5 DEF IInv, GradsInv, GradsAreSent
<1>11. ASSUME NEW k \in Seqs(m), k < s, Cmd(m, k).op = "forward_backward"
       PROVE  issued[m][k] = Cmd(m, k).datums
  <2>1. k \in 1..enqueued[m] /\ k \in 1..MaxLen /\ k \in Nat
    BY <1>4, <1>7, <1>11
  <2>2. k \notin queue[m]
    BY <1>2, <1>4, <1>11, <2>1 DEF AtHead
  <2>3. Valid(m, k)
    BY <1>3, <1>11, <2>1, <2>2 DEF IInv, NothingSkipped
  <2>4. arrival[m][k] # 0
    BY <2>1 DEF IInv, InSequence
  <2>5. IsBatch(m, k) /\ ~(k > enqueued[m])
    BY <1>4, <1>11, <2>1 DEF IsBatch, BatchOps
  <2> QED
    BY <1>3, <1>11, <2>2, <2>3, <2>4, <2>5 DEF IInv, Counted
<1>12. Sent(m) = Accumulated(m, s)
  <2> DEFINE A == {k \in Seqs(m) : Cmd(m, k).op = "forward_backward" /\ \A r \in Seqs(m) : r > k => ~Resets(m, r)}
             B == {k \in 1..(s - 1) : Cmd(m, k).op = "forward_backward" /\ \A r \in (k + 1)..(s - 1) : ~Resets(m, r)}
             D(k) == {<<m, k, i>> : i \in 1..issued[m][k]}
             E(k) == {<<m, k, i>> : i \in 1..Cmd(m, k).datums}
  <2>1. Sent(m) = UNION {D(k) : k \in A} /\ Accumulated(m, s) = UNION {E(k) : k \in B}
    BY DEF Sent, Accumulated
  <2>2. \A k \in 1..(s - 1) : k \in Seqs(m) /\ k < s
    BY <1>2, <1>7, Queued DEF Seqs
  <2>3. \A k \in B : k \in A /\ D(k) = E(k)
    <3> SUFFICES ASSUME NEW k \in B PROVE k \in A /\ D(k) = E(k)
      OBVIOUS
    <3>1. k \in Seqs(m) /\ k < s /\ k \in Nat /\ Cmd(m, k).op = "forward_backward"
      BY <2>2, <1>7
    <3>2. ASSUME NEW r \in Seqs(m), r > k PROVE ~Resets(m, r)
      <4>1. r \in Nat
        BY <1>7
      <4>2. r < s => r \in (k + 1)..(s - 1)
        BY <3>1, <3>2, <4>1, <1>4
      <4> QED
        BY <4>2, <1>8
    <3>3. issued[m][k] = Cmd(m, k).datums
      BY <3>1, <1>11
    <3> QED
      BY <3>1, <3>2, <3>3
  <2>4. \A k \in A : k \in B \/ D(k) = {}
    <3> SUFFICES ASSUME NEW k \in A, D(k) # {} PROVE k \in B
      OBVIOUS
    <3>1. k \in Seqs(m) /\ k \in Nat /\ k >= 1 /\ Cmd(m, k).op = "forward_backward"
      BY <1>7
    <3>2. issued[m][k] # 0
      OBVIOUS
    <3>3. ~(k > s)
      BY <3>1, <3>2, <1>9
    <3>4. k # s
      BY <3>1, <1>2 DEF IsBatch, BatchOps
    <3>5. k \in 1..(s - 1)
      BY <3>1, <3>3, <3>4, <1>4
    <3>6. \A r \in (k + 1)..(s - 1) : r \in Seqs(m) /\ r > k
      BY <3>1, <3>5, <1>2, <1>4, Queued DEF Seqs
    <3> QED
      BY <3>1, <3>5, <3>6
  <2> HIDE DEF A, B, D, E
  <2>5. UNION {E(k) : k \in B} \subseteq UNION {D(k) : k \in A}
    BY <2>3
  <2>6. UNION {D(k) : k \in A} \subseteq UNION {E(k) : k \in B}
    BY <2>3, <2>4
  <2> QED
    BY <2>1, <2>5, <2>6
<1> QED
  BY <1>2, <1>3, <1>4, <1>6, <1>8, <1>9, <1>10, <1>12

\* Gradients that were applied or discarded are accounted for.
LEMMA ConsumeKeeps ==
    ASSUME IInv, NEW op \in {"optim_step", "load_state"}, Returns({op}), Consume(unit.refs),
           Settles, closing' \subseteq Open, remaining' = remaining,
           \A b \in unit.refs : b[2] \notin queue'[b[1]] \/ b[1] \in closing',
           \A m \in Models : \A k \in queue[m] \ queue'[m] : <<m, k>> \in unit.refs
    PROVE  IInv'
<1>0. /\ unit.op \in {"optim_step", "load_state"} /\ unit' = NoUnit
      /\ UNCHANGED <<client, record, enqueued, arrival, issued, loaded, remaining>>
  BY DEF Returns
<1>1. /\ unit.op \in BarrierOps /\ unit'.op \notin Ops /\ unit'.op \notin BatchOps /\ {op} \subseteq Ops
  BY <1>0 DEF BarrierOps, Ops, BatchOps, NoUnit
<1>b. /\ unit.op \notin BatchOps /\ closing = {}
      /\ \A b \in unit.refs :
                 /\ b \in Commands /\ b[1] \in Open /\ b[1] \in Models /\ b[2] \in queue[b[1]] /\ b[2] \in Seqs(b[1])
                 /\ AtHead(b[1], b[2]) /\ Cmd(b[1], b[2]).op = unit.op /\ ~IsBatch(b[1], b[2])
                 /\ b = <<b[1], b[2]>>
  BY <1>1, BarriersAre
<1>t. /\ consumed \in [Models -> [1..MaxLen -> Seq(SUBSET Datums)]] /\ grads \in [Slots -> SUBSET Datums]
      /\ slotOf \in [Models -> Slots \cup {NoSlot}]
  BY DEF IInv, TypeOK
<1>s. \A m \in Open : m \in Models /\ slotOf[m] \in Slots
  BY <1>t DEF IInv, SlotsAreClean, Open
<1>o. Open' = Open /\ \A m \in Models : Live(m)' => Live(m) /\ m \notin closing'
  BY <1>0, <1>b DEF Live, Open, record
<1>c. /\ \A m \in Models : \A s \in 1..MaxLen : <<m, s>> \in unit.refs =>
            /\ consumed'[m][s] # <<>>
            /\ ClientWaits => consumed'[m][s] = <<Accumulated(m, s)>>
      /\ \A m \in Models : \A s \in 1..MaxLen : <<m, s>> \notin unit.refs => consumed'[m][s] = consumed[m][s]
      /\ consumed' \in [Models -> [1..MaxLen -> Seq(SUBSET Datums)]]
  <2>1. \A m \in Models : \A s \in 1..MaxLen :
           consumed'[m][s] = IF <<m, s>> \in unit.refs THEN Append(consumed[m][s], grads[slotOf[m]]) ELSE consumed[m][s]
    BY DEF Consume
  <2>2. ASSUME NEW m \in Models, NEW s \in 1..MaxLen, <<m, s>> \in unit.refs
        PROVE  /\ consumed'[m][s] # <<>> /\ consumed'[m][s] \in Seq(SUBSET Datums)
               /\ ClientWaits => consumed'[m][s] = <<Accumulated(m, s)>>
    <3>1. consumed[m][s] = <<>> /\ (ClientWaits => grads[slotOf[m]] = Accumulated(m, s)) /\ m \in Open
      BY <1>0, <2>2, WindowIs
    <3>2. grads[slotOf[m]] \in SUBSET Datums
      BY <3>1, <1>s, <1>t
    <3>3. consumed'[m][s] = Append(<<>>, grads[slotOf[m]])
      BY <2>1, <2>2, <3>1
    <3>4. /\ Append(<<>>, grads[slotOf[m]]) = <<grads[slotOf[m]]>> /\ <<grads[slotOf[m]]>> \in Seq(SUBSET Datums)
          /\ <<grads[slotOf[m]]>> # <<>>
      BY <3>2
    <3> QED
      BY <3>1, <3>3, <3>4
  <2>3. \A m \in Models : \A s \in 1..MaxLen : consumed[m][s] \in Seq(SUBSET Datums)
    BY <1>t
  <2>4. \A m \in Models : \A s \in 1..MaxLen : consumed'[m][s] \in Seq(SUBSET Datums)
    BY <2>1, <2>2, <2>3
  <2>5. consumed' = [m \in Models |-> [s \in 1..MaxLen |-> consumed'[m][s]]]
    BY DEF Consume
  <2>6. consumed' \in [Models -> [1..MaxLen -> Seq(SUBSET Datums)]]
    <3> DEFINE f(m, s) == consumed'[m][s]
    <3>1. \A m \in Models : \A s \in 1..MaxLen : f(m, s) \in Seq(SUBSET Datums)
      BY <2>4
    <3>2. consumed' = [m \in Models |-> [s \in 1..MaxLen |-> f(m, s)]]
      BY <2>5
    <3> HIDE DEF f
    <3> QED
      BY <3>1, <3>2
  <2> QED
    BY <2>1, <2>2, <2>6
<1>g. /\ grads' \in [Slots -> SUBSET Datums]
      /\ \A l \in Slots : grads'[l] = {} \/ grads'[l] = grads[l]
      /\ \A b \in unit.refs : grads'[slotOf[b[1]]] = {}
      /\ \A m \in Open : (\A b \in unit.refs : b[1] # m) => grads'[slotOf[m]] = grads[slotOf[m]]
  <2>1. grads' = [l \in Slots |-> IF \E b \in unit.refs : slotOf[b[1]] = l THEN {} ELSE grads[l]]
    BY DEF Consume
  <2>2. \A m, n \in Open : m # n => slotOf[m] # slotOf[n]
    BY DEF IInv, SlotsAreOwned
  <2>3. \A l \in Slots : grads'[l] = IF \E b \in unit.refs : slotOf[b[1]] = l THEN {} ELSE grads[l]
    BY <2>1
  <2>4. grads' \in [Slots -> SUBSET Datums]
    BY <2>1, <1>t
  <2>5. \A l \in Slots : grads'[l] = {} \/ grads'[l] = grads[l]
    BY <2>3
  <2>6. \A b \in unit.refs : grads'[slotOf[b[1]]] = {}
    BY <2>3, <1>s, <1>b
  <2>7. ASSUME NEW m \in Open, \A b \in unit.refs : b[1] # m PROVE grads'[slotOf[m]] = grads[slotOf[m]]
    <3>1. \A b \in unit.refs : slotOf[b[1]] # slotOf[m]
      BY <2>2, <2>7, <1>b
    <3> QED
      BY <2>3, <3>1, <1>s
  <2> QED
    BY <2>4, <2>5, <2>6, <2>7
<1>n. \A m \in Models : \A s \in 1..MaxLen : s > enqueued[m] => consumed'[m][s] = <<>>
  <2>1. \A m \in Models : \A s \in 1..MaxLen : s > enqueued[m] => <<m, s>> \notin unit.refs
    <3>1. \A b \in unit.refs : ~(b[2] > enqueued[b[1]])
      BY <1>b, Queued
    <3> QED
      BY <3>1
  <2>2. \A m \in Models : \A s \in 1..MaxLen : s > enqueued[m] => consumed[m][s] = <<>>
    BY NotEnqueued
  <2>3. ASSUME NEW m \in Models, NEW s \in 1..MaxLen, s > enqueued[m] PROVE consumed'[m][s] = <<>>
    <3>1. <<m, s>> \notin unit.refs /\ consumed[m][s] = <<>>
      BY <2>1, <2>2, <2>3
    <3>2. consumed'[m][s] = consumed[m][s]
      BY <1>c, <3>1
    <3> QED
      BY <3>1, <3>2
  <2> QED
    BY <2>3
<1>2. TypeOK' /\ LockDiscipline' /\ OneTicket' /\ SlotsAreClean' /\ UnitFits' /\ SleepsOnNothing'
  <2>1. remaining' \in [Models -> [1..MaxLen -> Nat]]
    BY DEF IInv, TypeOK
  <2> QED
    BY <1>1, <1>c, <1>g, <2>1, ReturnsKeeps
<1>3. SlotsAreOwned' /\ (ClientWaits => GradsAreOwned')
  <2>1. UNCHANGED <<slotOf, free, ready, loaded>>
    BY <1>0 DEF record
  <2>2. \A l \in free : l \in Slots
    BY DEF IInv, TypeOK
  <2> QED
    BY <1>o, <1>g, <2>1, <2>2 DEF IInv, GradsInv, SlotsAreOwned, GradsAreOwned
<1>4. /\ Asked' /\ (ClientWaits => ClientsWait') /\ InSequence' /\ NoOvertaking'
      /\ ClosedModelsAreSettled' /\ Counted' /\ NothingSkipped'
  <2>1. \A m \in Models : \A k \in queue[m] \ queue'[m] :
           AtHead(m, k) /\ ~IsBatch(m, k) /\ Cmd(m, k).op # "forward_backward"
    BY <1>0, <1>b
  <2> QED
    BY <1>0, <1>1, <1>b, <1>n, <2>1, HeadsKeep DEF client, record
<1>d. program' = program /\ \A m \in Models : Seqs(m)' = Seqs(m) /\ \A s : Cmd(m, s)' = Cmd(m, s)
  BY <1>0 DEF Seqs, Cmd, client
<1>r. /\ \A m \in Models : \A s \in 1..MaxLen : <<m, s>> \in unit.refs => Resets(m, s)'
      /\ \A m \in Models : \A s \in 1..MaxLen : <<m, s>> \notin unit.refs => (Resets(m, s)' <=> Resets(m, s))
  <2>1. \A m \in Models : \A s \in 1..MaxLen : <<m, s>> \in unit.refs => Cmd(m, s).op \in {"optim_step", "load_state"}
    BY <1>0, <1>b
  <2> QED
    BY <1>c, <1>d, <2>1 DEF Resets
<1>m. \A m \in Models : \A s \in Seqs(m) : s \in 1..MaxLen
  BY Program DEF IInv, TypeOK
<1>5. ClientWaits => GradsAreSent'
  <2> SUFFICES ASSUME ClientWaits PROVE GradsAreSent'
    OBVIOUS
  <2>1. ASSUME NEW m \in Models, Live(m)', ready[m] PROVE grads'[slotOf[m]] = Sent(m)'
    <3>0. m \in Open /\ Live(m) /\ m \notin closing'
      BY <2>1, <1>o DEF Live
    <3>1. CASE \A b \in unit.refs : b[1] # m
      <4>1. \A s \in Seqs(m) : Resets(m, s)' <=> Resets(m, s)
        <5>1. \A s \in Seqs(m) : <<m, s>> \notin unit.refs /\ s \in 1..MaxLen
          BY <3>1, <1>m
        <5> QED
          BY <5>1, <1>r
      <4>2. Sent(m)' = Sent(m)
        BY <4>1, <1>d, <1>0 DEF Sent
      <4>3. grads[slotOf[m]] = Sent(m)
        BY <2>1, <3>0, <1>b DEF IInv, GradsInv, GradsAreSent
      <4> QED
        BY <3>0, <3>1, <4>2, <4>3, <1>g
    <3>2. CASE \E b \in unit.refs : b[1] = m
      <4>0. PICK b \in unit.refs : b[1] = m
        BY <3>2
      <4> DEFINE s == b[2]
      <4>1. <<m, s>> \in unit.refs
        BY <4>0, <1>b
      <4>2. /\ s \in Seqs(m) /\ s \in 1..MaxLen /\ s \in Nat /\ Cmd(m, s).op # "forward_backward"
            /\ \A k \in Seqs(m) : k > s => issued[m][k] = 0
        BY <4>1, <1>0, WindowIs, Queued
      <4>3. Resets(m, s)'
        BY <4>1, <4>2, <1>r
      <4>4. \A k \in Seqs(m) : k \in Nat
        BY <1>m
      <4> HIDE DEF s
      <4>5. ASSUME NEW k \in Seqs(m), Cmd(m, k).op = "forward_backward", \A r \in Seqs(m) : r > k => ~Resets(m, r)'
            PROVE  {<<m, k, i>> : i \in 1..issued[m][k]} = {}
        <5>1. ~(s > k) /\ s # k
          BY <4>2, <4>3, <4>5
        <5>2. k > s
          <6>1. k \in Nat /\ s \in Nat
            BY <4>2, <4>4
          <6> QED
            BY <5>1, <6>1
        <5>3. issued[m][k] = 0
          BY <4>2, <4>5, <5>2
        <5> QED
          BY <5>3
      <4>6. Sent(m)' = {}
        BY <4>5, <1>d, <1>0 DEF Sent
      <4>7. grads'[slotOf[m]] = {}
        BY <4>0, <1>g
      <4> QED
        BY <4>6, <4>7
    <3> QED
      BY <3>1, <3>2
  <2> QED
    BY <2>1, <1>0, <1>1 DEF GradsAreSent, record
<1>6. Windows'
  <2>1. ASSUME NEW m \in Models, NEW b \in 1..MaxLen, consumed'[m][b] # <<>>
        PROVE  Resets(m, b)' /\ \A k \in queue'[m] : k >= b
    <3>1. \A k \in queue'[m] : k \in queue[m] /\ k \in Nat
      BY Queued DEF Settles
    <3>2. CASE <<m, b>> \in unit.refs
      <4>1. AtHead(m, b)
        BY <3>2, <1>0, WindowIs
      <4> QED
        BY <3>1, <3>2, <4>1, <1>r DEF AtHead
    <3>3. CASE <<m, b>> \notin unit.refs
      <4>1. consumed[m][b] # <<>>
        BY <2>1, <3>3, <1>c
      <4> QED
        BY <3>1, <3>3, <4>1, <1>r DEF IInv, Windows
    <3> QED
      BY <3>2, <3>3
  <2>2. ASSUME NEW m \in Models, NEW b \in 1..MaxLen, Live(m)', b \in queue'[m]
        PROVE  consumed'[m][b] = <<>>
    <3>1. b \in queue[m] /\ Live(m) /\ m \notin closing'
      BY <2>2, <1>o DEF Settles
    <3>2. <<m, b>> \notin unit.refs
      BY <2>2, <3>1
    <3>3. consumed[m][b] = <<>>
      BY <3>1 DEF IInv, Windows
    <3> QED
      BY <3>2, <3>3, <1>c
  <2> QED
    BY <2>1, <2>2 DEF Windows
<1>7. ClientWaits => StepConsumesItsWindow'
  <2> SUFFICES ASSUME ClientWaits PROVE StepConsumesItsWindow'
    OBVIOUS
  <2>1. ASSUME NEW m \in Models, NEW b \in Seqs(m), Resets(m, b)' PROVE consumed'[m][b] = <<Accumulated(m, b)'>>
    <3>0. b \in 1..MaxLen
      BY <1>m
    <3>1. \A r \in Seqs(m) : r < b => (Resets(m, r)' <=> Resets(m, r))
      <4> SUFFICES ASSUME NEW r \in Seqs(m), r < b, <<m, r>> \in unit.refs PROVE FALSE
        BY <1>m, <1>r
      <4>1. AtHead(m, r) /\ r \in Nat /\ \A q \in Seqs(m) : Resets(m, q) => q < r
        <5>1. r \in Nat
          BY <1>m
        <5> QED
          BY <1>0, <5>1, WindowIs
      <4>2. CASE <<m, b>> \in unit.refs
        <5>1. b \in queue[m] /\ r \in queue[m] /\ AtHead(m, b)
          BY <1>0, <4>2, WindowIs
        <5> QED
          BY <3>0, <4>1, <5>1 DEF AtHead
      <4>3. CASE <<m, b>> \notin unit.refs
        <5>1. Resets(m, b)
          BY <2>1, <3>0, <4>3, <1>r
        <5> QED
          BY <3>0, <4>1, <5>1
      <4> QED
        BY <4>2, <4>3
    <3>2. Accumulated(m, b)' = Accumulated(m, b)
      <4>1. \A k \in 1..(b - 1) : k \in Seqs(m) /\ k < b
        BY <3>0, Program DEF IInv, TypeOK, Seqs
      <4>2. \A k \in 1..(b - 1) : \A r \in (k + 1)..(b - 1) : r \in 1..(b - 1)
        BY <3>0
      <4> QED
        BY <3>1, <4>1, <4>2, <1>d DEF Accumulated
    <3>3. CASE <<m, b>> \in unit.refs
      BY <3>0, <3>2, <3>3, <1>c
    <3>4. CASE <<m, b>> \notin unit.refs
      <4>1. Resets(m, b) /\ consumed'[m][b] = consumed[m][b]
        BY <2>1, <3>0, <3>4, <1>r, <1>c
      <4> QED
        BY <3>2, <4>1 DEF IInv, GradsInv, StepConsumesItsWindow
    <3> QED
      BY <3>3, <3>4
  <2> QED
    BY <2>1, <1>d DEF StepConsumesItsWindow
<1> QED
  BY <1>2, <1>3, <1>4, <1>5, <1>6, <1>7 DEF IInv, GradsInv

\* _step_optimizers() returns: a model whose step failed is closed.
LEMMA OptimReturnsKeeps == ASSUME IInv, OptimReturns PROVE IInv'
<1> USE DEF OptimReturns
<1>0. unit.op = "optim_step" /\ unit.op \in BarrierOps
  BY DEF Returns, BarrierOps, Ops, BatchOps
<1>1. PICK ok \in SUBSET unit.refs : Finish(ok, unit.refs \ ok, "server")
  OBVIOUS
<1>b. \A b \in unit.refs :
         /\ b \in Commands /\ b[1] \in Open /\ b[1] \in Models /\ b[2] \in queue[b[1]] /\ b[2] \in Seqs(b[1])
         /\ AtHead(b[1], b[2]) /\ Cmd(b[1], b[2]).op = unit.op /\ ~IsBatch(b[1], b[2])
         /\ b = <<b[1], b[2]>>
  BY <1>0, BarriersAre
<1>f. /\ Settles /\ closing' \subseteq Open
      /\ \A c \in unit.refs \ ok : ClosesOnFailure(c, "server") => c[1] \in closing'
      /\ \A m \in Models : \A s \in 1..MaxLen :
            s \in queue[m] \ queue'[m] <=>
               \/ <<m, s>> \in ok
               \/ <<m, s>> \in unit.refs \ ok /\ ~ClosesOnFailure(<<m, s>>, "server")
  <2>1. ok \cap (unit.refs \ ok) = {} /\ ok \cup (unit.refs \ ok) = unit.refs
    OBVIOUS
  <2> QED
    BY <1>1, <1>b, <2>1, FinishIs
<1>2. \A b \in unit.refs : b[2] \notin queue'[b[1]] \/ b[1] \in closing'
  <2>1. ASSUME NEW b \in unit.refs, b \in ok PROVE b[2] \notin queue'[b[1]]
    <3>1. b[1] \in Models /\ b[2] \in 1..MaxLen /\ <<b[1], b[2]>> \in ok
      BY <2>1, <1>b, Program DEF IInv, TypeOK
    <3> QED
      BY <3>1, <1>f
  <2>2. ASSUME NEW b \in unit.refs, b \notin ok PROVE b[1] \in closing'
    <3>1. ClosesOnFailure(b, "server")
      BY <1>0, <1>b DEF ClosesOnFailure
    <3> QED
      BY <2>2, <3>1, <1>f
  <2> QED
    BY <2>1, <2>2
<1>3. \A m \in Models : \A k \in queue[m] \ queue'[m] : <<m, k>> \in unit.refs
  <2>1. \A m \in Models : \A k \in queue[m] : k \in 1..MaxLen
    BY Queued
  <2> QED
    BY <1>f, <2>1
<1>4. Returns({"optim_step"}) /\ Consume(unit.refs) /\ remaining' = remaining
  OBVIOUS
<1> QED
  BY <1>2, <1>3, <1>4, <1>f, ConsumeKeeps

\* _load_state() returns: the slot was not touched, or its gradients are gone.
LEMMA LoadReturnsKeeps == ASSUME IInv, LoadReturns PROVE IInv'
<1>0. /\ unit.op = "load_state" /\ unit.op \in BarrierOps /\ Returns({"load_state"}) /\ remaining' = remaining
      /\ unit' = NoUnit /\ UNCHANGED <<client, record, enqueued, arrival, issued, loaded>>
  BY DEF LoadReturns, Returns, BarrierOps, Ops, BatchOps
<1>1. unit'.op \notin Ops /\ unit'.op \notin BatchOps /\ {"load_state"} \subseteq Ops
  BY <1>0 DEF Ops, BatchOps, NoUnit
<1>b. /\ unit.op \notin BatchOps /\ closing = {}
      /\ \A b \in unit.refs :
            /\ b \in Commands /\ b[1] \in Open /\ b[1] \in Models /\ b[2] \in queue[b[1]] /\ b[2] \in Seqs(b[1])
            /\ AtHead(b[1], b[2]) /\ Cmd(b[1], b[2]).op = unit.op /\ ~IsBatch(b[1], b[2])
            /\ b = <<b[1], b[2]>>
  BY <1>0, BarriersAre
<1>q. /\ \A m \in Models : \A k \in queue[m] : k \in 1..MaxLen
      /\ \A b \in unit.refs : b[1] \in Models /\ b[2] \in 1..MaxLen /\ <<b[1], b[2]>> \in unit.refs
  BY <1>b, Queued
<1>2. CASE Finish({}, unit.refs, "user") /\ UNCHANGED <<grads, consumed>>
  <2>f. /\ Settles /\ closing' \subseteq Open
        /\ \A m \in Models : \A s \in 1..MaxLen :
              s \in queue[m] \ queue'[m] <=>
                 \/ <<m, s>> \in {}
                 \/ <<m, s>> \in unit.refs /\ ~ClosesOnFailure(<<m, s>>, "user")
    BY <1>2, <1>b, FinishIs
  <2>1. TypeOK' /\ LockDiscipline' /\ OneTicket' /\ SlotsAreClean' /\ UnitFits' /\ SleepsOnNothing'
    <3>1. /\ remaining' \in [Models -> [1..MaxLen -> Nat]] /\ grads' \in [Slots -> SUBSET Datums]
          /\ consumed' \in [Models -> [1..MaxLen -> Seq(SUBSET Datums)]]
      BY <1>0, <1>2 DEF IInv, TypeOK
    <3> QED
      BY <1>0, <1>1, <2>f, <3>1, ReturnsKeeps
  <2>2. SlotsAreOwned' /\ (ClientWaits => GradsAreOwned')
    BY <1>0, <1>2 DEF IInv, GradsInv, SlotsAreOwned, GradsAreOwned, record, Open
  <2>3. /\ Asked' /\ (ClientWaits => ClientsWait') /\ InSequence' /\ NoOvertaking'
        /\ ClosedModelsAreSettled' /\ Counted' /\ NothingSkipped'
    <3>1. \A m \in Models : \A s \in 1..MaxLen : s > enqueued[m] => consumed'[m][s] = <<>>
      BY <1>2, NotEnqueued
    <3>2. \A m \in Models : \A k \in queue[m] \ queue'[m] :
             AtHead(m, k) /\ ~IsBatch(m, k) /\ Cmd(m, k).op # "forward_backward"
      <4>1. \A m \in Models : \A k \in queue[m] \ queue'[m] : <<m, k>> \in unit.refs
        BY <1>q, <2>f
      <4> QED
        BY <1>0, <1>b, <4>1
    <3> QED
      BY <1>0, <1>1, <1>b, <2>f, <3>1, <3>2, HeadsKeep DEF client, record
  <2>4. Windows' /\ (ClientWaits => GradsAreSent' /\ StepConsumesItsWindow')
    <3>1. \A m \in Models : Live(m)' => Live(m)
      BY <1>0, <1>b DEF Live, Open, record
    <3>2. \A m \in Models : queue'[m] \subseteq queue[m]
      BY <2>f DEF Settles
    <3> QED
      BY <1>0, <1>1, <1>2, <1>b, <3>1, <3>2, GradShrinks DEF client, record
  <2> QED
    BY <2>1, <2>2, <2>3, <2>4 DEF IInv, GradsInv
<1>3. CASE Finish({}, unit.refs, "server") /\ Consume(unit.refs)
  <2>f. /\ Settles /\ closing' \subseteq Open
        /\ \A c \in unit.refs : ClosesOnFailure(c, "server") => c[1] \in closing'
        /\ \A m \in Models : \A s \in 1..MaxLen :
              s \in queue[m] \ queue'[m] <=>
                 \/ <<m, s>> \in {}
                 \/ <<m, s>> \in unit.refs /\ ~ClosesOnFailure(<<m, s>>, "server")
    BY <1>3, <1>b, FinishIs
  <2>1. \A b \in unit.refs : b[1] \in closing'
    <3>1. \A b \in unit.refs : ClosesOnFailure(b, "server")
      BY <1>0, <1>b DEF ClosesOnFailure
    <3> QED
      BY <2>f, <3>1
  <2>2. \A m \in Models : \A k \in queue[m] \ queue'[m] : <<m, k>> \in unit.refs
    BY <1>q, <2>f
  <2> QED
    BY <1>0, <1>3, <2>1, <2>2, <2>f, ConsumeKeeps
<1>4. CASE Finish(unit.refs, {}, "none") /\ Consume(unit.refs)
  <2>f. /\ Settles /\ closing' \subseteq Open
        /\ \A m \in Models : \A s \in 1..MaxLen :
              s \in queue[m] \ queue'[m] <=>
                 \/ <<m, s>> \in unit.refs
                 \/ <<m, s>> \in {} /\ ~ClosesOnFailure(<<m, s>>, "none")
    BY <1>4, <1>b, FinishIs
  <2>1. \A b \in unit.refs : b[2] \notin queue'[b[1]]
    BY <1>q, <2>f
  <2>2. \A m \in Models : \A k \in queue[m] \ queue'[m] : <<m, k>> \in unit.refs
    BY <1>q, <2>f
  <2> QED
    BY <1>0, <1>4, <2>1, <2>2, <2>f, ConsumeKeeps
<1> QED
  BY <1>2, <1>3, <1>4 DEF LoadReturns

\* The datums of a unit are those that come next of commands at the front of their
\* queues; what a command sent before is not in it.
LEMMA IssueKeeps ==
    ASSUME IInv, Acquire(Dispatcher), holder' = Dispatcher, dispatcher' = "running", unit' \in NextUnits,
           issued' = [m \in Models |-> [s \in 1..MaxLen |->
                    issued[m][s] + Cardinality(DatumsIn(unit', m, s))]],
           UNCHANGED <<closing, future, queue>>,
           UNCHANGED <<client, record, enqueued, arrival, remaining, unloading, wake, trainer>>
    PROVE  IInv'
<1>1. /\ OneTicket' /\ lockQueue' \in Seq(Models \cup {Dispatcher, EndSessions})
      /\ holder = "nobody" /\ unit = NoUnit /\ closing = {} /\ unloading = NoSlot
  <2>1. unit'.op # "load_slot"
    BY UnitIs DEF BatchOps, BarrierOps, Ops
  <2> QED
    BY <2>1, AcquireFrame DEF record
<1>n. unit.op = "none" /\ "none" \notin BatchOps
  BY <1>1 DEF NoUnit, BatchOps
<1>o. Open' = Open /\ Open \subseteq Models /\ \A m \in Models : (Live(m) <=> m \in Open) /\ (Live(m)' <=> m \in Open)
  BY <1>1 DEF Open, Live, record
<1>u. \/ /\ unit'.op \in BatchOps /\ IsFiniteSet(unit'.refs)
         /\ \A r \in unit'.refs : \E m \in Open : \E s \in OpenRun(m) :
               \E i \in (issued[m][s] + 1)..Cmd(m, s).datums : r = <<m, s, i>> /\ Cmd(m, s).op = unit'.op
         /\ \A m \in Models : \A s \in 1..MaxLen :
               /\ Cardinality(DatumsIn(unit', m, s)) \in Nat
               /\ DatumsIn(unit', m, s) =
                     {<<m, s, i>> : i \in (issued[m][s] + 1)..(issued[m][s] + Cardinality(DatumsIn(unit', m, s)))}
      \/ /\ unit'.op \in BarrierOps
         /\ \A b \in unit'.refs : b \in ReadyBarriers /\ Cmd(b[1], b[2]).op = unit'.op
  BY UnitIs
<1>x. BatchOps \cap BarrierOps = {} /\ BatchOps \subseteq Ops /\ BarrierOps \subseteq Ops
  BY DEF BatchOps, BarrierOps, Ops
<1> DEFINE N(m, s) == Cardinality(DatumsIn(unit', m, s))
           D(m, s) == DatumsIn(unit', m, s)
<1>d. \A m \in Models : \A s \in 1..MaxLen :
         /\ N(m, s) \in Nat
         /\ D(m, s) = {<<m, s, i>> : i \in (issued[m][s] + 1)..(issued[m][s] + N(m, s))}
  <2>1. CASE unit'.op \in BatchOps
    BY <1>u, <1>x, <2>1
  <2>2. CASE unit'.op \notin BatchOps
    <3>1. \A m, s : D(m, s) = {} /\ N(m, s) = 0
      BY <2>2, FS_EmptySet DEF DatumsIn
    <3>2. \A m \in Models : \A s \in 1..MaxLen : issued[m][s] \in Nat
      BY CommandTypes
    <3>3. \A m \in Models : \A s \in 1..MaxLen : (issued[m][s] + 1)..(issued[m][s] + 0) = {}
      BY <3>2
    <3>4. \A m \in Models : \A s \in 1..MaxLen : {<<m, s, i>> : i \in (issued[m][s] + 1)..(issued[m][s] + 0)} = {}
      BY <3>3
    <3> QED
      BY <3>1, <3>4
  <2> QED
    BY <2>1, <2>2
<1>i. \A m \in Models : \A s \in 1..MaxLen :
         /\ issued[m][s] \in Nat /\ issued'[m][s] = issued[m][s] + N(m, s) /\ issued'[m][s] \in Nat
         /\ remaining[m][s] \in Nat
  <2>1. \A m \in Models : \A s \in 1..MaxLen : issued'[m][s] = issued[m][s] + N(m, s)
    OBVIOUS
  <2> HIDE DEF N, D
  <2>2. \A m \in Models : \A s \in 1..MaxLen : issued[m][s] \in Nat /\ remaining[m][s] \in Nat
    BY CommandTypes
  <2> QED
    BY <2>1, <2>2, <1>d
<1>r. \A m \in Models : \A s \in 1..MaxLen : D(m, s) # {} =>
         /\ m \in Open /\ s \in OpenRun(m) /\ s \in queue[m] /\ IsBatch(m, s) /\ Valid(m, s) /\ unit'.op \in BatchOps
         /\ \A i : <<m, s, i>> \in D(m, s) => i \in (issued[m][s] + 1)..Cmd(m, s).datums
  <2> SUFFICES ASSUME NEW m \in Models, NEW s \in 1..MaxLen, D(m, s) # {}
        PROVE  /\ m \in Open /\ s \in OpenRun(m) /\ s \in queue[m] /\ IsBatch(m, s) /\ Valid(m, s) /\ unit'.op \in BatchOps
               /\ \A i : <<m, s, i>> \in D(m, s) => i \in (issued[m][s] + 1)..Cmd(m, s).datums
    OBVIOUS
  <2>1. unit'.op \in BatchOps
    BY DEF DatumsIn
  <2>2. \A r \in unit'.refs : \E n \in Open : \E k \in OpenRun(n) :
               \E i \in (issued[n][k] + 1)..Cmd(n, k).datums : r = <<n, k, i>> /\ Cmd(n, k).op = unit'.op
    BY <1>u, <1>x, <2>1
  <2>3. \A i : <<m, s, i>> \in D(m, s) => m \in Open /\ s \in OpenRun(m) /\ i \in (issued[m][s] + 1)..Cmd(m, s).datums
    BY <2>2 DEF DatumsIn
  <2>4. \E i : <<m, s, i>> \in D(m, s)
    <3>1. \A r \in D(m, s) : \E i \in (issued[m][s] + 1)..(issued[m][s] + N(m, s)) : r = <<m, s, i>>
      BY <1>d
    <3> QED
      BY <3>1
  <2>5. m \in Open /\ s \in OpenRun(m)
    BY <2>3, <2>4
  <2>6. s \in queue[m] /\ IsBatch(m, s) /\ Valid(m, s)
    BY <2>5 DEF OpenRun
  <2> QED
    BY <2>1, <2>3, <2>5, <2>6
<1>z. \A m \in Models : \A s \in 1..MaxLen : D(m, s) = {} => N(m, s) = 0 /\ issued'[m][s] = issued[m][s]
  <2>1. \A m \in Models : \A s \in 1..MaxLen : D(m, s) = {} => N(m, s) = 0
    BY FS_EmptySet
  <2> HIDE DEF N, D
  <2> QED
    BY <2>1, <1>i
<1>w. \A m \in Models : \A s \in 1..MaxLen : D(m, s) # {} => issued'[m][s] <= Cmd(m, s).datums /\ issued'[m][s] > 0
  <2> SUFFICES ASSUME NEW m \in Models, NEW s \in 1..MaxLen, D(m, s) # {}
               PROVE  issued'[m][s] <= Cmd(m, s).datums /\ issued'[m][s] > 0
    OBVIOUS
  <2>1. issued[m][s] \in Nat /\ N(m, s) \in Nat /\ issued'[m][s] = issued[m][s] + N(m, s)
    BY <1>i, <1>d
  <2>2. D(m, s) = {<<m, s, i>> : i \in (issued[m][s] + 1)..(issued[m][s] + N(m, s))}
    BY <1>d
  <2>3. \A i : <<m, s, i>> \in D(m, s) => i \in (issued[m][s] + 1)..Cmd(m, s).datums
    BY <1>r
  <2> HIDE DEF N, D
  <2>4. N(m, s) > 0
    <3>1. SUFFICES ASSUME N(m, s) = 0 PROVE FALSE
      BY <2>1
    <3>2. (issued[m][s] + 1)..(issued[m][s] + N(m, s)) = {}
      BY <2>1, <3>1
    <3> QED
      BY <2>2, <3>2
  <2>5. issued'[m][s] \in (issued[m][s] + 1)..(issued[m][s] + N(m, s))
    BY <2>1, <2>4
  <2>6. <<m, s, issued'[m][s]>> \in D(m, s)
    BY <2>2, <2>5
  <2>7. issued'[m][s] \in (issued[m][s] + 1)..Cmd(m, s).datums
    BY <2>3, <2>6
  <2> QED
    BY <2>1, <2>4, <2>7
<1> HIDE DEF N
<1>2. TypeOK'
  <2>1. issued' \in [Models -> [1..MaxLen -> Nat]]
    <3>1. \A m \in Models : \A s \in 1..MaxLen : issued[m][s] + N(m, s) \in Nat
      BY <1>i, <1>d
    <3>2. issued' = [m \in Models |-> [s \in 1..MaxLen |-> issued[m][s] + N(m, s)]]
      BY DEF N
    <3> QED
      BY <3>1, <3>2
  <2> QED
    BY <1>1, <2>1 DEF IInv, TypeOK, client, record, trainer
<1>3. LockDiscipline'
  <2>1. unit'.op \in Ops /\ holder' = Dispatcher /\ Dispatcher # "nobody"
    BY <1>u, <1>x DEF Dispatcher
  <2> QED
    BY <1>1, <2>1 DEF LockDiscipline
<1>4. SlotsAreOwned' /\ SlotsAreClean' /\ (ClientWaits => GradsAreOwned')
  BY SlotFrame DEF record, trainer
<1>5. Asked' /\ (ClientWaits => ClientsWait') /\ ClosedModelsAreSettled'
  BY DEF IInv, GradsInv, Asked, ClientsWait, ClosedModelsAreSettled, record
<1>q. \A m \in Models : \A s \in 1..MaxLen : s > enqueued[m] => D(m, s) = {}
  <2> SUFFICES ASSUME NEW m \in Models, NEW s \in 1..MaxLen, s > enqueued[m], D(m, s) # {} PROVE FALSE
    OBVIOUS
  <2>1. s \in queue[m]
    BY <1>r
  <2> QED
    BY <2>1, Queued
<1>c. program' = program /\ \A m \in Models : Seqs(m)' = Seqs(m) /\ \A s : Cmd(m, s)' = Cmd(m, s)
          /\ IsBatch(m, s)' = IsBatch(m, s)
        /\ Valid(m, s)' = Valid(m, s) /\ Resets(m, s)' = Resets(m, s)
  BY DEF Seqs, Cmd, IsBatch, Valid, Resets, client, trainer
<1>e. queue' = queue /\ enqueued' = enqueued /\ arrival' = arrival /\ remaining' = remaining /\ closing' = closing
      /\ grads' = grads /\ slotOf' = slotOf /\ ready' = ready /\ consumed' = consumed /\ future' = future
  BY DEF record, trainer
<1>6. InSequence'
  <2>1. \A m \in Models : \A s \in 1..MaxLen : s > enqueued[m] => issued'[m][s] = 0
    <3>1. \A m \in Models : \A s \in 1..MaxLen : s > enqueued[m] => issued[m][s] = 0
      BY DEF IInv, InSequence, TypeOK
    <3> QED
      BY <3>1, <1>q, <1>z
  <2>2. \A m \in Models : \A s \in 1..MaxLen : s <= enqueued[m] \/ s > enqueued[m]
    BY DEF IInv, TypeOK
  <2> QED
    BY <2>1, <2>2, <1>c, <1>e, <1>o DEF IInv, InSequence
<1>7. NoOvertaking'
  <2>1. ASSUME NEW m \in Open, NEW j \in queue[m], NEW k \in (j + 1)..enqueued[m], k \notin queue[m] \/ issued'[m][k] > 0
        PROVE  IsBatch(m, j) /\ Valid(m, j)
    <3>0. m \in Models /\ j \in Nat /\ k \in 1..MaxLen /\ j <= k
      <4>1. m \in Models /\ j \in 1..enqueued[m] /\ enqueued[m] \in 0..MaxLen /\ k \in (j + 1)..enqueued[m]
        BY <1>o, Queued DEF IInv, TypeOK
      <4>2. MaxLen \in Nat
        BY ProgramsAssumption
      <4> QED
        BY <4>1, <4>2
    <3>1. CASE D(m, k) = {}
      <4>1. k \notin queue[m] \/ issued[m][k] > 0
        BY <2>1, <3>0, <3>1, <1>z
      <4> QED
        BY <2>1, <4>1 DEF IInv, NoOvertaking
    <3>2. CASE D(m, k) # {}
      <4>1. k \in OpenRun(m)
        BY <3>0, <3>2, <1>r
      <4> QED
        BY <3>0, <4>1 DEF OpenRun
    <3> QED
      BY <3>1, <3>2
  <2> QED
    BY <2>1, <1>c, <1>e, <1>o DEF NoOvertaking, Open
<1>8. UnitFits'
  <2>1. ASSUME unit'.op \in BatchOps, NEW r \in unit'.refs
        PROVE  \E m \in Open' : \E s \in queue'[m] : \E i \in 1..issued'[m][s] :
                  r = <<m, s, i>> /\ Cmd(m, s)'.op = unit'.op /\ Valid(m, s)'
    <3>1. PICK m \in Open : \E s \in OpenRun(m) : \E i \in (issued[m][s] + 1)..Cmd(m, s).datums :
             r = <<m, s, i>> /\ Cmd(m, s).op = unit'.op
      BY <2>1, <1>u, <1>x
    <3>2. PICK s \in OpenRun(m) : \E i \in (issued[m][s] + 1)..Cmd(m, s).datums :
             r = <<m, s, i>> /\ Cmd(m, s).op = unit'.op
      BY <3>1
    <3>3. PICK i \in (issued[m][s] + 1)..Cmd(m, s).datums : r = <<m, s, i>> /\ Cmd(m, s).op = unit'.op
      BY <3>2
    <3>4. s \in queue[m] /\ m \in Models
      BY <1>o DEF OpenRun
    <3>5. s \in 1..MaxLen
      BY <3>4, Queued
    <3>6. r \in D(m, s)
      BY <2>1, <3>3 DEF DatumsIn
    <3>7. Valid(m, s)
      BY <3>4, <3>5, <3>6, <1>r
    <3>8. i \in 1..issued'[m][s]
      <4>1. i \in (issued[m][s] + 1)..(issued[m][s] + N(m, s))
        <5>1. \E h \in (issued[m][s] + 1)..(issued[m][s] + N(m, s)) : <<m, s, i>> = <<m, s, h>>
          BY <3>3, <3>4, <3>5, <3>6, <1>d
        <5> QED
          BY <5>1
      <4>2. issued[m][s] \in Nat /\ issued'[m][s] = issued[m][s] + N(m, s) /\ N(m, s) \in Nat
        BY <3>4, <3>5, <1>i, <1>d
      <4> QED
        BY <4>1, <4>2
    <3> QED
      BY <3>3, <3>4, <3>7, <3>8, <1>o, <1>e, <1>c
  <2>2. ASSUME unit'.op \in BarrierOps, NEW b \in unit'.refs
        PROVE  \E m \in Open' : \E s \in queue'[m] :
                  b = <<m, s>> /\ AtHead(m, s)' /\ Cmd(m, s)'.op = unit'.op /\ Valid(m, s)'
    <3>1. b \in ReadyBarriers /\ Cmd(b[1], b[2]).op = unit'.op
      BY <2>2, <1>u, <1>x
    <3>2. b[1] \in Open /\ b[1] \in Models /\ AtHead(b[1], b[2]) /\ Valid(b[1], b[2]) /\ b = <<b[1], b[2]>>
      BY <3>1 DEF ReadyBarriers, Commands
    <3>3. b[2] \in queue'[b[1]] /\ AtHead(b[1], b[2])'
      BY <3>2, <1>e DEF AtHead
    <3> QED
      BY <3>1, <3>2, <3>3, <1>o, <1>c
  <2>3. unit'.op \in BatchOps => IsFiniteSet(unit'.refs)
    BY <1>u, <1>x
  <2> QED
    BY <2>1, <2>2, <2>3 DEF UnitFits
<1>9. Counted'
  <2>1. ASSUME NEW m \in Models, NEW s \in Seqs(m), Live(m), IsBatch(m, s), Valid(m, s), arrival[m][s] # 0
        PROVE  IF s \in queue[m] \/ s > enqueued[m]
                 THEN /\ issued'[m][s] <= Cmd(m, s).datums /\ remaining[m][s] > 0
                      /\ remaining[m][s] + issued'[m][s] = Cmd(m, s).datums + N(m, s)
                 ELSE Cmd(m, s).op = "forward_backward" => issued'[m][s] = Cmd(m, s).datums
    <3>0. s \in 1..MaxLen /\ Cmd(m, s).datums \in Nat
      BY Program DEF IInv, TypeOK
    <3>1. DatumsIn(unit, m, s) = {}
      BY <1>n DEF DatumsIn
    <3>2. Cardinality(DatumsIn(unit, m, s)) = 0
      BY <3>1, FS_EmptySet
    <3>3. IF s \in queue[m] \/ s > enqueued[m]
                 THEN /\ issued[m][s] <= Cmd(m, s).datums /\ remaining[m][s] > 0
                      /\ remaining[m][s] + issued[m][s] = Cmd(m, s).datums + 0
                 ELSE Cmd(m, s).op = "forward_backward" => issued[m][s] = Cmd(m, s).datums
      BY <2>1, <3>2 DEF IInv, Counted
    <3>4. CASE s \in queue[m] \/ s > enqueued[m]
      <4>1. /\ issued[m][s] <= Cmd(m, s).datums /\ remaining[m][s] > 0
            /\ remaining[m][s] + issued[m][s] = Cmd(m, s).datums + 0
        BY <3>3, <3>4
      <4>2. issued'[m][s] <= Cmd(m, s).datums
        BY <3>0, <4>1, <1>w, <1>z
      <4>3. issued'[m][s] = issued[m][s] + N(m, s) /\ N(m, s) \in Nat /\ issued[m][s] \in Nat /\ remaining[m][s] \in Nat
        BY <3>0, <1>i, <1>d
      <4>4. remaining[m][s] + issued'[m][s] = Cmd(m, s).datums + N(m, s)
        BY <3>0, <4>1, <4>3
      <4> QED
        BY <3>4, <4>1, <4>2, <4>4
    <3>5. CASE ~(s \in queue[m] \/ s > enqueued[m])
      <4>1. issued'[m][s] = issued[m][s]
        BY <3>0, <3>5, <1>r, <1>z
      <4> QED
        BY <3>3, <3>5, <4>1
    <3> QED
      BY <3>4, <3>5
  <2>2. \A m \in Models : Live(m)' <=> Live(m)
    BY <1>o
  <2>3. \A m \in Models : \A s \in Seqs(m) : N(m, s) = Cardinality(DatumsIn(unit, m, s))'
    BY DEF N, DatumsIn
  <2> HIDE DEF D
  <2>4. \A m \in Models : \A s \in Seqs(m) : Live(m) /\ IsBatch(m, s) /\ Valid(m, s) /\ arrival[m][s] # 0 =>
          IF s \in queue[m] \/ s > enqueued[m]
            THEN /\ issued'[m][s] <= Cmd(m, s).datums /\ remaining[m][s] > 0
                 /\ remaining[m][s] + issued'[m][s] = Cmd(m, s).datums + Cardinality(DatumsIn(unit, m, s))'
            ELSE Cmd(m, s).op = "forward_backward" => issued'[m][s] = Cmd(m, s).datums
    BY <2>1, <2>3
  <2>5. SUFFICES ASSUME NEW m \in Models, NEW s \in Seqs(m)', Live(m)', IsBatch(m, s)', Valid(m, s)', arrival'[m][s] # 0
                 PROVE  (IF s \in queue[m] \/ s > enqueued[m]
                           THEN /\ issued[m][s] <= Cmd(m, s).datums /\ remaining[m][s] > 0
                                /\ remaining[m][s] + issued[m][s]
                                     = Cmd(m, s).datums + Cardinality(DatumsIn(unit, m, s))
                           ELSE Cmd(m, s).op = "forward_backward" => issued[m][s] = Cmd(m, s).datums)'
    BY DEF Counted
  <2>6. s \in Seqs(m) /\ Live(m) /\ IsBatch(m, s) /\ Valid(m, s) /\ arrival[m][s] # 0
    <3>1. Seqs(m)' = Seqs(m) /\ IsBatch(m, s)' = IsBatch(m, s) /\ Valid(m, s)' = Valid(m, s)
      BY <1>c
    <3> QED
      BY <2>5, <3>1, <2>2, <1>e
  <2>7. Cmd(m, s)' = Cmd(m, s)
    BY <1>c
  <2>8. IF s \in queue[m] \/ s > enqueued[m]
          THEN /\ issued'[m][s] <= Cmd(m, s).datums /\ remaining[m][s] > 0
               /\ remaining[m][s] + issued'[m][s] = Cmd(m, s).datums + Cardinality(DatumsIn(unit, m, s))'
          ELSE Cmd(m, s).op = "forward_backward" => issued'[m][s] = Cmd(m, s).datums
    BY <2>4, <2>6
  <2> QED
    BY <2>7, <2>8, <1>e
<1>10. NothingSkipped'
  <2>1. \A m \in Models : Live(m)' <=> Live(m)
    BY <1>o
  <2> QED
    BY <2>1, <1>c, <1>e DEF IInv, NothingSkipped
<1>11. ClientWaits => GradsAreSent'
  <2> SUFFICES ASSUME ClientWaits PROVE GradsAreSent'
    OBVIOUS
  <2>1. ASSUME NEW m \in Models, Live(m), ready[m]
        PROVE  grads[slotOf[m]] = Sent(m)' \ (IF unit'.op \in BatchOps THEN unit'.refs ELSE {})
    <3> DEFINE A == {k \in Seqs(m) : Cmd(m, k).op = "forward_backward" /\ \A r \in Seqs(m) : r > k => ~Resets(m, r)}
               E(k) == {<<m, k, i>> : i \in 1..issued[m][k]}
               F(k) == {<<m, k, i>> : i \in 1..issued'[m][k]}
               X == IF unit'.op \in BatchOps THEN unit'.refs ELSE {}
    <3>0. grads[slotOf[m]] = Sent(m)
      BY <2>1, <1>n DEF IInv, GradsInv, GradsAreSent
    <3>1. Sent(m) = UNION {E(k) : k \in A} /\ Sent(m)' = UNION {F(k) : k \in A}
      BY <1>c DEF Sent
    <3>2. \A k \in A : k \in 1..MaxLen
      BY Program DEF IInv, TypeOK
    <3>3. ASSUME NEW k \in A PROVE F(k) \ X = E(k)
      <4>1. k \in 1..MaxLen /\ issued[m][k] \in Nat /\ N(m, k) \in Nat /\ issued'[m][k] = issued[m][k] + N(m, k)
        BY <3>2, <1>i, <1>d
      <4>2. D(m, k) = {<<m, k, i>> : i \in (issued[m][k] + 1)..(issued[m][k] + N(m, k))}
        BY <4>1, <1>d
      <4>3. \A i : <<m, k, i>> \in X <=> <<m, k, i>> \in D(m, k)
        BY DEF DatumsIn
      <4> HIDE DEF X, D, A
      <4>4. \A i : <<m, k, i>> \in D(m, k) <=> i \in (issued[m][k] + 1)..(issued[m][k] + N(m, k))
        BY <4>2
      <4>5. \A i \in 1..issued'[m][k] : i \in 1..issued[m][k] <=> i \notin (issued[m][k] + 1)..(issued[m][k] + N(m, k))
        BY <4>1
      <4>6. \A i \in 1..issued[m][k] : i \in 1..issued'[m][k]
        BY <4>1
      <4>7. F(k) \ X \subseteq E(k)
        BY <4>3, <4>4, <4>5
      <4>8. E(k) \subseteq F(k) \ X
        BY <4>3, <4>4, <4>5, <4>6
      <4> QED
        BY <4>7, <4>8
    <3> HIDE DEF A, E, F, X
    <3>4. (UNION {F(k) : k \in A}) \ X = UNION {E(k) : k \in A}
      BY <3>3
    <3> QED
      BY <3>0, <3>1, <3>4 DEF X
  <2>2. \A m \in Models : Live(m)' <=> Live(m)
    BY <1>o
  <2> QED
    BY <2>1, <2>2, <1>e DEF GradsAreSent
<1>12. Windows'
  <2>1. \A m \in Models : Live(m)' <=> Live(m)
    BY <1>o
  <2> QED
    BY <2>1, <1>c, <1>e DEF IInv, Windows
<1>13. ClientWaits => StepConsumesItsWindow'
  <2>1. \A m \in Models : \A b : Accumulated(m, b)' = Accumulated(m, b)
    BY <1>c DEF Accumulated
  <2> QED
    BY <2>1, <1>c, <1>e DEF IInv, GradsInv, StepConsumesItsWindow
<1>14. SleepsOnNothing'
  BY DEF SleepsOnNothing
<1> QED
  BY <1>1, <1>2, <1>3, <1>4, <1>5, <1>6, <1>7, <1>8, <1>9, <1>10, <1>11, <1>12, <1>13, <1>14
    DEF IInv, GradsInv

\* The dispatcher falls asleep only over empty queues: whatever is at the head of one is
\* to be rejected, a barrier that is ready, or a batch operation with a datum to issue.
LEMMA SleepKeeps == ASSUME IInv, Dispatch, Rejections = {}, NextUnits = {} PROVE IInv'
<1>0. /\ Acquire(Dispatcher) /\ holder' = "nobody" /\ dispatcher' = "sleeping"
      /\ UNCHANGED <<unit, issued, closing, future, queue>>
      /\ UNCHANGED <<client, record, enqueued, arrival, remaining, unloading, wake, trainer>>
  BY DEF Dispatch
<1>1. /\ OneTicket' /\ lockQueue' \in Seq(Models \cup {Dispatcher, EndSessions})
      /\ holder = "nobody" /\ unit = NoUnit /\ closing = {} /\ unloading = NoSlot
  BY <1>0, AcquireFrame DEF record
<1>2. TypeOK'
  BY <1>0, <1>1 DEF IInv, TypeOK, client, record, trainer
<1>3. LockDiscipline'
  BY <1>0, <1>1 DEF LockDiscipline
<1>4. SlotsAreOwned' /\ SlotsAreClean' /\ (ClientWaits => GradsAreOwned')
  BY <1>0, SlotFrame DEF record, trainer
<1>5. Asked' /\ (ClientWaits => ClientsWait') /\ InSequence' /\ NoOvertaking' /\ ClosedModelsAreSettled'
  BY <1>0, RequestFrame DEF client, record, trainer
<1>v. \A m \in Models : Live(m)' => Live(m)
  BY <1>0 DEF Live, Open, record
<1>6. UnitFits' /\ Counted' /\ NothingSkipped'
  BY <1>0, <1>v, UnitFrame DEF client, record
<1>7. Windows' /\ (ClientWaits => GradsAreSent' /\ StepConsumesItsWindow')
  BY <1>0, <1>v, GradFrame DEF client, record, trainer
<1>8. \A m \in Open : queue[m] = {}
  <2> SUFFICES ASSUME NEW m \in Open, queue[m] # {} PROVE FALSE
    OBVIOUS
  <2>1. m \in Models /\ Live(m)
    BY <1>1 DEF Open, Live
  <2>2. PICK s \in queue[m] : \A k \in queue[m] : s <= k
    <3>1. queue[m] \in SUBSET Nat
      BY <2>1, Queued
    <3> QED
      BY <3>1, Least
  <2>3. AtHead(m, s) /\ s \in Seqs(m) /\ s \in 1..MaxLen /\ s \in Nat /\ <<m, s>> \in Commands
    BY <2>1, <2>2, Queued DEF AtHead, Commands
  <2>4. Valid(m, s)
    BY <2>3 DEF Rejections
  <2>5. CASE ~IsBatch(m, s)
    BY <2>3, <2>4, <2>5, NothingReady DEF ReadyBarriers
  <2>6. CASE IsBatch(m, s)
    <3>1. s \in OpenRun(m)
      <4>1. \A k \in queue[m] : k <= s => k = s
        <5>1. \A k \in queue[m] : k \in Nat
          BY <2>1, Queued
        <5> QED
          BY <2>2, <2>3, <5>1
      <4> QED
        BY <2>2, <2>4, <2>6, <4>1 DEF OpenRun
    <3>2. arrival[m][s] # 0
      BY <2>1, <2>2, <2>3, Queued DEF IInv, InSequence
    <3>3. Cardinality(DatumsIn(unit, m, s)) = 0
      <4>1. DatumsIn(unit, m, s) = {}
        BY <1>1 DEF DatumsIn, NoUnit, BatchOps
      <4> QED
        BY <4>1, FS_EmptySet
    <3>4. remaining[m][s] > 0 /\ remaining[m][s] + issued[m][s] = Cmd(m, s).datums + 0
      BY <2>1, <2>2, <2>3, <2>4, <2>6, <3>2, <3>3 DEF IInv, Counted
    <3>5. issued[m][s] \in Nat /\ remaining[m][s] \in Nat /\ Cmd(m, s).datums \in Nat
      BY <2>1, <2>3, CommandTypes, Program DEF IInv, TypeOK
    <3>6. issued[m][s] + 1 \in (issued[m][s] + 1)..Cmd(m, s).datums
      BY <3>4, <3>5
    <3>7. <<m, s, issued[m][s] + 1>> \in ReadyDatums
      BY <3>1, <3>6, ReadyDatumsAre
    <3> QED
      BY <3>7, NothingReady
  <2> QED
    BY <2>5, <2>6
<1>9. SleepsOnNothing'
  BY <1>0, <1>8 DEF SleepsOnNothing, Open, record
<1> QED
  BY <1>1, <1>2, <1>3, <1>4, <1>5, <1>6, <1>7, <1>9 DEF IInv, GradsInv

LEMMA DispatchKeeps == ASSUME IInv, Dispatch PROVE IInv'
<1>1. CASE Rejections # {}
  BY <1>1, RejectKeeps
<1>2. CASE Rejections = {} /\ NextUnits # {}
  BY <1>2, IssueKeeps DEF Dispatch
<1>3. CASE Rejections = {} /\ NextUnits = {}
  BY <1>3, SleepKeeps
<1> QED
  BY <1>1, <1>2, <1>3

(***************************************************************************)
(* A batch returns.                                                        *)
(***************************************************************************)

\* The requests with a datum in the batch: queued, valid, of models whose slot is loaded.
LEMMA RequestsAre ==
    ASSUME IInv, unit.op \in BatchOps
    PROVE  /\ closing = {} /\ Open \subseteq Models
           /\ \A c \in RequestsOf(unit) :
                 /\ c \in Commands /\ c = <<c[1], c[2]>> /\ c[1] \in Open /\ c[1] \in Models
                 /\ c[2] \in queue[c[1]] /\ c[2] \in Seqs(c[1]) /\ c[2] \in 1..MaxLen
                 /\ Cmd(c[1], c[2]).op = unit.op /\ Valid(c[1], c[2]) /\ IsBatch(c[1], c[2])
                 /\ issued[c[1]][c[2]] > 0 /\ arrival[c[1]][c[2]] # 0 /\ (ClientWaits => ready[c[1]])
           /\ \A m, s : /\ IsFiniteSet(DatumsIn(unit, m, s)) /\ Cardinality(DatumsIn(unit, m, s)) \in Nat
                        /\ <<m, s>> \notin RequestsOf(unit) => Cardinality(DatumsIn(unit, m, s)) = 0
           /\ \A r \in unit.refs :
                 \E m \in Open : \E s \in queue[m] : \E i \in 1..issued[m][s] :
                    /\ r = <<m, s, i>> /\ Cmd(m, s).op = unit.op /\ <<m, s>> \in RequestsOf(unit)
                    /\ m \in Models /\ s \in 1..MaxLen /\ i \in Nat
           /\ \A r \in unit.refs : r[1] \in Open /\ Cmd(r[1], r[2]).op = unit.op
<1>1. /\ unit.op \in BatchOps /\ IsFiniteSet(unit.refs)
      /\ \A r \in unit.refs :
            \E m \in Open : \E s \in queue[m] : \E i \in 1..issued[m][s] :
               r = <<m, s, i>> /\ Cmd(m, s).op = unit.op /\ Valid(m, s)
  BY DEF IInv, UnitFits
<1>2. closing = {} /\ Open \subseteq Models
  <2>1. unit # NoUnit
    BY DEF NoUnit, BatchOps
  <2> QED
    BY <2>1 DEF IInv, LockDiscipline, Open
<1>3. ASSUME NEW r \in unit.refs
      PROVE  \E m \in Open : \E s \in queue[m] : \E i \in 1..issued[m][s] :
                /\ r = <<m, s, i>> /\ Cmd(m, s).op = unit.op /\ <<m, s>> \in RequestsOf(unit) /\ Valid(m, s)
                /\ m \in Models /\ s \in 1..MaxLen /\ i \in Nat /\ issued[m][s] > 0
  <2>1. PICK m \in Open : \E s \in queue[m] : \E i \in 1..issued[m][s] :
               r = <<m, s, i>> /\ Cmd(m, s).op = unit.op /\ Valid(m, s)
    BY <1>1
  <2>2. PICK s \in queue[m] : \E i \in 1..issued[m][s] : r = <<m, s, i>> /\ Cmd(m, s).op = unit.op /\ Valid(m, s)
    BY <2>1
  <2>3. PICK i \in 1..issued[m][s] : r = <<m, s, i>> /\ Cmd(m, s).op = unit.op /\ Valid(m, s)
    BY <2>2
  <2>4. m \in Models /\ s \in 1..MaxLen
    BY <1>2, Queued
  <2>5. issued[m][s] \in Nat
    BY <2>4, CommandTypes
  <2>6. i \in Nat /\ issued[m][s] > 0
    BY <2>5
  <2>7. r[1] = m /\ r[2] = s
    BY <2>3
  <2>8. <<m, s>> \in RequestsOf(unit)
    BY <2>7 DEF RequestsOf
  <2> QED
    BY <2>3, <2>4, <2>6, <2>8
<1>4. ASSUME NEW c \in RequestsOf(unit)
      PROVE  /\ c \in Commands /\ c = <<c[1], c[2]>> /\ c[1] \in Open /\ c[1] \in Models
             /\ c[2] \in queue[c[1]] /\ c[2] \in Seqs(c[1]) /\ c[2] \in 1..MaxLen
             /\ Cmd(c[1], c[2]).op = unit.op /\ Valid(c[1], c[2]) /\ IsBatch(c[1], c[2])
             /\ issued[c[1]][c[2]] > 0 /\ arrival[c[1]][c[2]] # 0 /\ (ClientWaits => ready[c[1]])
  <2>1. PICK r \in unit.refs : c = <<r[1], r[2]>>
    BY DEF RequestsOf
  <2>2. PICK m \in Open : \E s \in queue[m] : \E i \in 1..issued[m][s] :
                /\ r = <<m, s, i>> /\ Cmd(m, s).op = unit.op /\ <<m, s>> \in RequestsOf(unit) /\ Valid(m, s)
                /\ m \in Models /\ s \in 1..MaxLen /\ i \in Nat /\ issued[m][s] > 0
    BY <1>3
  <2>3. PICK s \in queue[m] : \E i \in 1..issued[m][s] :
                /\ r = <<m, s, i>> /\ Cmd(m, s).op = unit.op /\ <<m, s>> \in RequestsOf(unit) /\ Valid(m, s)
                /\ m \in Models /\ s \in 1..MaxLen /\ i \in Nat /\ issued[m][s] > 0
    BY <2>2
  <2>4. r[1] = m /\ r[2] = s
    BY <2>3
  <2>5. c = <<m, s>> /\ c[1] = m /\ c[2] = s
    BY <2>1, <2>4
  <2>6. s \in Seqs(m) /\ s \in 1..enqueued[m] /\ enqueued[m] \in Nat /\ m \in Models /\ s \in 1..MaxLen
    BY <1>2, Queued
  <2>7. arrival[m][s] # 0
    BY <2>6 DEF IInv, InSequence
  <2>8. ClientWaits => ready[m]
    BY <2>6, <2>7 DEF IInv, GradsInv, ClientsWait
  <2>9. IsBatch(m, s)
    BY <1>1, <2>3 DEF IsBatch
  <2> QED
    BY <2>3, <2>5, <2>6, <2>7, <2>8, <2>9 DEF Commands
<1>5. ASSUME NEW m, NEW s
      PROVE  /\ IsFiniteSet(DatumsIn(unit, m, s)) /\ Cardinality(DatumsIn(unit, m, s)) \in Nat
             /\ <<m, s>> \notin RequestsOf(unit) => Cardinality(DatumsIn(unit, m, s)) = 0
  <2>1. DatumsIn(unit, m, s) \subseteq unit.refs
    BY DEF DatumsIn
  <2>2. IsFiniteSet(DatumsIn(unit, m, s))
    BY <1>1, <2>1, FS_Subset
  <2>3. <<m, s>> \notin RequestsOf(unit) => DatumsIn(unit, m, s) = {}
    BY DEF DatumsIn, RequestsOf
  <2> QED
    BY <2>2, <2>3, FS_EmptySet, FS_CardinalityType
<1>6. \A r \in unit.refs :
         \E m \in Open : \E s \in queue[m] : \E i \in 1..issued[m][s] :
            /\ r = <<m, s, i>> /\ Cmd(m, s).op = unit.op /\ <<m, s>> \in RequestsOf(unit)
            /\ m \in Models /\ s \in 1..MaxLen /\ i \in Nat
  BY <1>3
<1>7. \A r \in unit.refs : r[1] \in Open /\ Cmd(r[1], r[2]).op = unit.op
  <2>1. \A r \in unit.refs : <<r[1], r[2]>> \in RequestsOf(unit) /\ <<r[1], r[2]>>[1] = r[1] /\ <<r[1], r[2]>>[2] = r[2]
    BY DEF RequestsOf
  <2> QED
    BY <2>1, <1>4
<1> HIDE DEF RequestsOf
<1> QED
  BY <1>2, <1>4, <1>5, <1>6, <1>7

\* With the datums of a batch that trains, the trainer has accumulated all that was sent.
LEMMA BatchGrads ==
    ASSUME IInv, ClientWaits, unit.op \in BatchOps, NEW m \in Open, ready[m],
           NEW F, F = {r \in unit.refs : r[1] = m /\ Cmd(r[1], r[2]).op = "forward_backward"}
    PROVE  /\ Sent(m) = grads[slotOf[m]] \cup F
           /\ F = {r \in unit.refs : Cmd(r[1], r[2]).op = "forward_backward" /\ slotOf[r[1]] = slotOf[m]}
<1>0. /\ closing = {} /\ Open \subseteq Models
      /\ \A r \in unit.refs :
            \E k \in Open : \E s \in queue[k] : \E i \in 1..issued[k][s] :
               /\ r = <<k, s, i>> /\ Cmd(k, s).op = unit.op /\ <<k, s>> \in RequestsOf(unit)
               /\ k \in Models /\ s \in 1..MaxLen /\ i \in Nat
      /\ \A r \in unit.refs : r[1] \in Open
  BY RequestsAre
<1>1. grads[slotOf[m]] = Sent(m) \ unit.refs
  BY <1>0 DEF IInv, GradsInv, GradsAreSent, Live
<1>2. ASSUME NEW r \in F PROVE r \in Sent(m)
  <2>0. r \in unit.refs
    OBVIOUS
  <2>1. PICK k \in Open : \E s \in queue[k] : \E i \in 1..issued[k][s] :
           /\ r = <<k, s, i>> /\ Cmd(k, s).op = unit.op /\ <<k, s>> \in RequestsOf(unit)
           /\ k \in Models /\ s \in 1..MaxLen /\ i \in Nat
    BY <1>0, <2>0
  <2>2. PICK s \in queue[k] : \E i \in 1..issued[k][s] : r = <<k, s, i>>
    BY <2>1
  <2>3. PICK i \in 1..issued[k][s] : r = <<k, s, i>>
    BY <2>2
  <2>4. k = m /\ r[1] = m /\ r[2] = s /\ Cmd(m, s).op = "forward_backward"
    BY <2>3
  <2>5. s \in Seqs(m) /\ s \in Nat /\ m \in Models /\ s \in queue[m]
    BY <2>4, <1>0, Queued
  <2>6. \A q \in Seqs(m) : q > s => ~Resets(m, q)
    <3> SUFFICES ASSUME NEW q \in Seqs(m), q > s, Resets(m, q) PROVE FALSE
      OBVIOUS
    <3>1. q \in 1..MaxLen /\ MaxLen \in Nat
      BY Program, <2>5 DEF IInv, TypeOK
    <3>2. s >= q
      BY <3>1, <2>5 DEF IInv, Windows, Resets
    <3> QED
      BY <3>1, <3>2, <2>5
  <2>7. i \in 1..issued[m][s] /\ r = <<m, s, i>>
    BY <2>3, <2>4
  <2> QED
    BY <2>4, <2>5, <2>6, <2>7 DEF Sent
<1>3. \A r \in Sent(m) : r[1] = m /\ Cmd(r[1], r[2]).op = "forward_backward"
  BY DEF Sent
<1>4. Sent(m) \cap unit.refs \subseteq F
  BY <1>3
<1>5. Sent(m) \subseteq grads[slotOf[m]] \cup F /\ grads[slotOf[m]] \cup F \subseteq Sent(m)
  BY <1>1, <1>2, <1>4
<1>6. \A r \in unit.refs : r[1] \in Open
  BY <1>0
<1>7. \A r \in unit.refs : slotOf[r[1]] = slotOf[m] <=> r[1] = m
  BY <1>6 DEF IInv, SlotsAreOwned
<1> QED
  BY <1>5, <1>7

\* Whatever happened to a batch, all but the counts of datums.
LEMMA BatchReturnsKeeps ==
    ASSUME IInv, Returns(BatchOps), Settles, closing' \subseteq Open, consumed' = consumed,
           remaining' \in [Models -> [1..MaxLen -> Nat]],
           NEW some \in {{}, unit.refs}, Accumulate(some),
           \A r \in unit.refs : some = unit.refs \/ r[1] \in closing' \/ unit.op # "forward_backward",
           \A m \in Models : \A k \in queue[m] \ queue'[m] : <<m, k>> \in RequestsOf(unit)
    PROVE  /\ TypeOK' /\ LockDiscipline' /\ OneTicket' /\ SlotsAreOwned' /\ SlotsAreClean'
           /\ (ClientWaits => GradsAreOwned')
           /\ Asked' /\ (ClientWaits => ClientsWait') /\ InSequence' /\ NoOvertaking' /\ ClosedModelsAreSettled'
           /\ UnitFits' /\ NothingSkipped' /\ Windows' /\ (ClientWaits => GradsAreSent' /\ StepConsumesItsWindow')
           /\ SleepsOnNothing'
<1>0. /\ unit.op \in BatchOps /\ unit' = NoUnit /\ unit'.op \notin BatchOps
      /\ UNCHANGED <<program, model, slotOf, ready, free, enqueued, arrival, issued, unloading, loaded>>
  BY DEF Returns, client, record, NoUnit, BatchOps
<1>r. /\ closing = {} /\ Open \subseteq Models
      /\ \A c \in RequestsOf(unit) :
            /\ c = <<c[1], c[2]>> /\ Valid(c[1], c[2]) /\ issued[c[1]][c[2]] > 0
            /\ c[1] \in Open /\ (ClientWaits => ready[c[1]]) /\ Cmd(c[1], c[2]).op = unit.op
      /\ \A r \in unit.refs :
            \E m \in Open : \E s \in queue[m] : \E i \in 1..issued[m][s] :
               /\ r = <<m, s, i>> /\ Cmd(m, s).op = unit.op /\ <<m, s>> \in RequestsOf(unit)
               /\ m \in Models /\ s \in 1..MaxLen /\ i \in Nat
      /\ \A r \in unit.refs : r[1] \in Open /\ Cmd(r[1], r[2]).op = unit.op
  BY <1>0, RequestsAre
<1>o. Open' = Open /\ \A m \in Models : Live(m)' => m \in Open /\ Live(m) /\ m \notin closing'
  BY <1>0, <1>r DEF Open, Live
<1>c. \A m \in Models : Seqs(m)' = Seqs(m) /\ \A s : Cmd(m, s)' = Cmd(m, s) /\ Valid(m, s)' = Valid(m, s)
          /\ Resets(m, s)' = Resets(m, s)
  BY <1>0 DEF Seqs, Cmd, Valid, Resets
<1>q. \A m \in Models : \A k \in queue[m] \ queue'[m] : Valid(m, k) /\ issued[m][k] > 0
  <2>1. \A m, k : <<m, k>> \in RequestsOf(unit) => Valid(m, k) /\ issued[m][k] > 0
    <3>1. \A m, k : <<m, k>>[1] = m /\ <<m, k>>[2] = k
      OBVIOUS
    <3> QED
      BY <3>1, <1>r
  <2> QED
    BY <2>1
<1>s. \A r \in some : r \in unit.refs /\ r \in Datums /\ r[1] \in Open /\ (ClientWaits => ready[r[1]])
  <2> SUFFICES ASSUME NEW r \in some PROVE r \in unit.refs /\ r \in Datums /\ r[1] \in Open /\ (ClientWaits => ready[r[1]])
    OBVIOUS
  <2>0. r \in unit.refs
    OBVIOUS
  <2>1. PICK m \in Open : \E s \in queue[m] : \E i \in 1..issued[m][s] :
               /\ r = <<m, s, i>> /\ Cmd(m, s).op = unit.op /\ <<m, s>> \in RequestsOf(unit)
               /\ m \in Models /\ s \in 1..MaxLen /\ i \in Nat
    BY <1>r, <2>0
  <2>2. PICK s \in queue[m] : \E i \in 1..issued[m][s] :
               /\ r = <<m, s, i>> /\ Cmd(m, s).op = unit.op /\ <<m, s>> \in RequestsOf(unit)
               /\ m \in Models /\ s \in 1..MaxLen /\ i \in Nat
    BY <2>1
  <2>3. <<m, s>>[1] = m
    OBVIOUS
  <2>4. ClientWaits => ready[m]
    BY <2>2, <2>3, <1>r
  <2>5. r[1] = m /\ r \in Datums
    BY <2>2 DEF Datums
  <2> QED
    BY <2>0, <2>4, <2>5
<1>g. grads' = [l \in Slots |-> grads[l] \cup {r \in some : Cmd(r[1], r[2]).op = "forward_backward" /\ slotOf[r[1]] = l}]
  BY DEF Accumulate
<1>t. grads \in [Slots -> SUBSET Datums] /\ consumed \in [Models -> [1..MaxLen -> Seq(SUBSET Datums)]]
  BY DEF IInv, TypeOK
<1>1. TypeOK' /\ LockDiscipline' /\ OneTicket' /\ SlotsAreClean' /\ UnitFits' /\ SleepsOnNothing'
  <2>1. grads' \in [Slots -> SUBSET Datums]
    <3>1. \A l \in Slots : grads[l] \cup {r \in some : Cmd(r[1], r[2]).op = "forward_backward" /\ slotOf[r[1]] = l}
             \in SUBSET Datums
      BY <1>s, <1>t
    <3> QED
      BY <1>g, <3>1
  <2>2. BatchOps \subseteq Ops
    BY DEF BatchOps, Ops
  <2>3. consumed' \in [Models -> [1..MaxLen -> Seq(SUBSET Datums)]]
    BY <1>t
  <2> QED
    BY <2>1, <2>2, <2>3, ReturnsKeeps
<1>8. ClientWaits => GradsAreOwned'
  <2> SUFFICES ASSUME ClientWaits PROVE GradsAreOwned'
    OBVIOUS
  <2>1. ASSUME NEW l \in Slots, NEW r \in grads'[l] PROVE loaded[l] = r[1]
    <3>1. r \in grads[l] \/ (r \in some /\ slotOf[r[1]] = l)
      BY <1>g
    <3> QED
      BY <3>1, <1>s DEF IInv, GradsInv, SlotsAreOwned, GradsAreOwned
  <2>2. ASSUME NEW l \in free PROVE grads'[l] = {}
    <3>1. l \in Slots /\ grads[l] = {}
      BY DEF IInv, TypeOK, GradsInv, GradsAreOwned
    <3>2. \A r \in some : slotOf[r[1]] # l
      BY <1>s DEF IInv, SlotsAreOwned
    <3> QED
      BY <1>g, <3>1, <3>2
  <2> QED
    BY <1>0, <2>1, <2>2 DEF GradsAreOwned
<1>2. SlotsAreOwned'
  BY <1>0, <1>o DEF IInv, SlotsAreOwned
<1>3. Asked' /\ (ClientWaits => ClientsWait') /\ InSequence' /\ ClosedModelsAreSettled'
  <2>1. \A m \in Models : \A s \in 1..MaxLen : s > enqueued[m] => issued'[m][s] = 0 /\ consumed'[m][s] = <<>>
    BY <1>0, NotEnqueued
  <2> QED
    BY <1>0, <2>1, SettlesKeeps
<1>4. NoOvertaking'
  BY <1>0, <1>q, OvertakingKeeps
<1>5. NothingSkipped'
  <2>1. ASSUME NEW m \in Models, NEW s \in 1..enqueued[m], Live(m)', s \notin queue'[m], Cmd(m, s).op = "forward_backward"
        PROVE  Valid(m, s)
    BY <2>1, <1>o, <1>q DEF IInv, NothingSkipped
  <2> QED
    BY <2>1, <1>0, <1>c DEF NothingSkipped
<1>6. Windows' /\ (ClientWaits => StepConsumesItsWindow')
  <2>1. \A m \in Models : \A b \in 1..MaxLen : consumed[m][b] # <<>> => Resets(m, b) /\ \A k \in queue'[m] : k >= b
    BY DEF IInv, Windows, Settles
  <2>2. \A m \in Models : \A b \in 1..MaxLen : Live(m)' /\ b \in queue'[m] => consumed[m][b] = <<>>
    BY <1>o DEF IInv, Windows, Settles
  <2>3. Windows'
    BY <1>c, <2>1, <2>2 DEF Windows
  <2>4. \A m \in Models : \A b : Accumulated(m, b)' = Accumulated(m, b)
    BY <1>c DEF Accumulated
  <2> QED
    BY <1>c, <2>3, <2>4 DEF IInv, GradsInv, StepConsumesItsWindow
<1>7. ClientWaits => GradsAreSent'
  <2> SUFFICES ASSUME ClientWaits PROVE GradsAreSent'
    OBVIOUS
  <2>1. ASSUME NEW m \in Models, Live(m)', ready[m] PROVE grads'[slotOf[m]] = Sent(m)
    <3> DEFINE F == {r \in unit.refs : r[1] = m /\ Cmd(r[1], r[2]).op = "forward_backward"}
    <3>0. m \in Open /\ m \notin closing'
      BY <2>1, <1>o
    <3>1. /\ Sent(m) = grads[slotOf[m]] \cup F
          /\ F = {r \in unit.refs : Cmd(r[1], r[2]).op = "forward_backward" /\ slotOf[r[1]] = slotOf[m]}
      BY <1>0, <2>1, <3>0, BatchGrads
    <3>2. slotOf[m] \in Slots
      <4>1. slotOf[m] \in Slots \cup {NoSlot} /\ slotOf[m] # NoSlot
        BY <3>0 DEF IInv, TypeOK, SlotsAreClean
      <4> QED
        BY <4>1
    <3>3. CASE some = unit.refs
      BY <1>g, <3>1, <3>2, <3>3
    <3>4. CASE some # unit.refs
      <4>1. some = {}
        BY <3>4
      <4>2. F = {}
        <5>1. \A r \in unit.refs : Cmd(r[1], r[2]).op = unit.op
          BY <1>r
        <5> QED
          BY <3>0, <3>4, <5>1
      <4>3. grads'[slotOf[m]] = grads[slotOf[m]]
        BY <1>g, <3>2, <4>1
      <4> QED
        BY <3>1, <4>2, <4>3
    <3> QED
      BY <3>3, <3>4
  <2>2. \A m \in Models : Sent(m)' = Sent(m)
    BY <1>0, <1>c DEF Sent
  <2> QED
    BY <1>0, <2>1, <2>2 DEF GradsAreSent
<1> QED
  BY <1>1, <1>2, <1>3, <1>4, <1>5, <1>6, <1>7, <1>8

\* _run_batch() returns: a request with all its answers settles.
LEMMA BatchSucceedsKeeps == ASSUME IInv, BatchSucceeds PROVE IInv'
<1> DEFINE N(m, s) == Cardinality(DatumsIn(unit, m, s))
           Q == {q \in RequestsOf(unit) : remaining'[q[1]][q[2]] = 0}
<1>0. /\ unit.op \in BatchOps /\ Returns(BatchOps) /\ Accumulate(unit.refs) /\ consumed' = consumed
      /\ Finish(Q, {}, "none")
      /\ remaining' = [m \in Models |-> [s \in 1..MaxLen |-> remaining[m][s] - N(m, s)]]
  BY DEF BatchSucceeds, Returns
<1>1. /\ unit' = NoUnit /\ unit'.op \notin Ops
      /\ UNCHANGED <<program, model, enqueued, arrival, issued>>
  BY DEF BatchSucceeds, Returns, client, record, NoUnit, Ops
<1>r. /\ closing = {} /\ Open \subseteq Models
      /\ \A c \in RequestsOf(unit) :
            /\ c \in Commands /\ c = <<c[1], c[2]>> /\ c[1] \in Open /\ c[1] \in Models
            /\ c[2] \in queue[c[1]] /\ c[2] \in Seqs(c[1]) /\ c[2] \in 1..MaxLen
            /\ Valid(c[1], c[2]) /\ IsBatch(c[1], c[2]) /\ arrival[c[1]][c[2]] # 0
      /\ \A m, s : N(m, s) \in Nat /\ (<<m, s>> \notin RequestsOf(unit) => N(m, s) = 0)
  BY <1>0, RequestsAre
<1> HIDE DEF N
<1>p. \A m \in Models : \A s \in 1..MaxLen : remaining[m][s] \in Nat /\ issued[m][s] \in Nat
          /\ remaining'[m][s] = remaining[m][s] - N(m, s)
  BY <1>0, CommandTypes
<1>2. ASSUME NEW m \in Open, NEW s \in Seqs(m), IsBatch(m, s), Valid(m, s), arrival[m][s] # 0
      PROVE  IF s \in queue[m] \/ s > enqueued[m]
               THEN /\ issued[m][s] <= Cmd(m, s).datums /\ remaining[m][s] > 0
                    /\ remaining'[m][s] \in Nat
                    /\ remaining'[m][s] + issued[m][s] = Cmd(m, s).datums
               ELSE Cmd(m, s).op = "forward_backward" => issued[m][s] = Cmd(m, s).datums
  <2>1. m \in Models /\ Live(m)
    BY <1>r DEF Live
  <2>2. IF s \in queue[m] \/ s > enqueued[m]
          THEN /\ issued[m][s] <= Cmd(m, s).datums /\ remaining[m][s] > 0
               /\ remaining[m][s] + issued[m][s] = Cmd(m, s).datums + N(m, s)
          ELSE Cmd(m, s).op = "forward_backward" => issued[m][s] = Cmd(m, s).datums
    BY <1>2, <2>1 DEF IInv, Counted, N
  <2>3. s \in 1..MaxLen /\ Cmd(m, s).datums \in Nat
    BY <2>1, Program DEF IInv, TypeOK
  <2>4. N(m, s) \in Nat /\ remaining[m][s] \in Nat /\ issued[m][s] \in Nat /\ remaining'[m][s] = remaining[m][s] - N(m, s)
    BY <1>p, <1>r, <2>1, <2>3
  <2> HIDE DEF Q
  <2> QED
    BY <2>2, <2>3, <2>4
<1>3. remaining' \in [Models -> [1..MaxLen -> Nat]]
  <2>1. ASSUME NEW m \in Models, NEW s \in 1..MaxLen PROVE remaining[m][s] - N(m, s) \in Nat
    <3>1. CASE <<m, s>> \in RequestsOf(unit)
      <4>1. <<m, s>>[1] = m /\ <<m, s>>[2] = s
        OBVIOUS
      <4>2. m \in Open /\ s \in queue[m] /\ s \in Seqs(m) /\ IsBatch(m, s) /\ Valid(m, s) /\ arrival[m][s] # 0
        BY <3>1, <4>1, <1>r
      <4>3. remaining'[m][s] \in Nat
        BY <1>2, <4>2
      <4> QED
        BY <4>3, <1>p
    <3>2. CASE <<m, s>> \notin RequestsOf(unit)
      BY <3>2, <1>r, <1>p
    <3> QED
      BY <3>1, <3>2
  <2> QED
    BY <1>0, <2>1
<1>f. /\ Settles /\ closing' \subseteq Open
      /\ \A m \in Models : \A s \in 1..MaxLen : s \in queue[m] \ queue'[m] <=> <<m, s>> \in Q
  <2>1. \A c \in Q \cup {} : c \in Commands /\ c[1] \in Open /\ c[2] \in queue[c[1]]
    BY <1>r
  <2>2. Q \cap {} = {}
    OBVIOUS
  <2> HIDE DEF Q
  <2>3. /\ Settles /\ closing' \subseteq Open
        /\ \A m \in Models : \A s \in 1..MaxLen :
              s \in queue[m] \ queue'[m] <=> \/ <<m, s>> \in Q
                                             \/ <<m, s>> \in {} /\ ~ClosesOnFailure(<<m, s>>, "none")
    BY <1>0, <2>1, <2>2, FinishIs
  <2> QED
    BY <2>3
<1>4. \A m \in Models : \A k \in queue[m] \ queue'[m] : <<m, k>> \in RequestsOf(unit) /\ remaining'[m][k] = 0
  <2>1. \A m \in Models : \A k \in queue[m] : k \in 1..MaxLen
    BY Queued
  <2>2. \A m \in Models : \A k \in queue[m] \ queue'[m] : <<m, k>> \in Q
    BY <1>f, <2>1
  <2>3. \A m, k : <<m, k>>[1] = m /\ <<m, k>>[2] = k
    OBVIOUS
  <2> QED
    BY <2>2, <2>3
<1>5. \A m \in Models : \A k \in queue'[m] : <<m, k>> \in RequestsOf(unit) => remaining'[m][k] # 0
  <2>1. \A m \in Models : \A k \in queue'[m] : k \in queue[m] /\ k \in 1..MaxLen
    BY <1>f, Queued DEF Settles
  <2>2. \A m, k : <<m, k>>[1] = m /\ <<m, k>>[2] = k
    OBVIOUS
  <2>3. \A m \in Models : \A k \in queue'[m] : <<m, k>> \notin Q
    BY <1>f, <2>1
  <2> QED
    BY <2>2, <2>3
<1> HIDE DEF Q
<1>6. /\ TypeOK' /\ LockDiscipline' /\ OneTicket' /\ SlotsAreOwned' /\ SlotsAreClean' /\ (ClientWaits => GradsAreOwned')
      /\ Asked' /\ (ClientWaits => ClientsWait') /\ InSequence' /\ NoOvertaking' /\ ClosedModelsAreSettled'
      /\ UnitFits' /\ NothingSkipped' /\ Windows' /\ (ClientWaits => GradsAreSent' /\ StepConsumesItsWindow')
      /\ SleepsOnNothing'
  <2>1. unit.refs \in {{}, unit.refs}
    OBVIOUS
  <2> QED
    BY <1>0, <1>3, <1>4, <1>f, <2>1, BatchReturnsKeeps
<1>7. Counted'
  <2>0. \A m \in Models : Live(m)' => m \in Open
    BY <1>1 DEF Live, Open
  <2>1. ASSUME NEW m \in Models, NEW s \in Seqs(m), m \in Open, IsBatch(m, s), Valid(m, s), arrival[m][s] # 0
        PROVE  IF s \in queue'[m] \/ s > enqueued[m]
                 THEN /\ issued[m][s] <= Cmd(m, s).datums /\ remaining'[m][s] > 0
                      /\ remaining'[m][s] + issued[m][s] = Cmd(m, s).datums + 0
                 ELSE Cmd(m, s).op = "forward_backward" => issued[m][s] = Cmd(m, s).datums
    <3>0. s \in 1..MaxLen /\ Cmd(m, s).datums \in Nat
      BY Program DEF IInv, TypeOK
    <3>p. N(m, s) \in Nat /\ remaining[m][s] \in Nat /\ issued[m][s] \in Nat /\ remaining'[m][s] = remaining[m][s] - N(m, s)
      BY <1>p, <1>r, <3>0
    <3>1. IF s \in queue[m] \/ s > enqueued[m]
            THEN /\ issued[m][s] <= Cmd(m, s).datums /\ remaining[m][s] > 0
                 /\ remaining'[m][s] \in Nat
                 /\ remaining'[m][s] + issued[m][s] = Cmd(m, s).datums
            ELSE Cmd(m, s).op = "forward_backward" => issued[m][s] = Cmd(m, s).datums
      BY <1>2, <2>1
    <3>2. CASE s \in queue'[m] \/ s > enqueued[m]
      <4>1. s \in queue[m] \/ s > enqueued[m]
        BY <1>f, <3>2 DEF Settles
      <4>2. /\ issued[m][s] <= Cmd(m, s).datums /\ remaining[m][s] > 0
            /\ remaining'[m][s] \in Nat
            /\ remaining'[m][s] + issued[m][s] = Cmd(m, s).datums
        BY <3>1, <4>1
      <4>3. remaining'[m][s] # 0
        <5>1. CASE <<m, s>> \in RequestsOf(unit)
          <6>1. <<m, s>>[1] = m /\ <<m, s>>[2] = s
            OBVIOUS
          <6>2. s \in queue[m]
            BY <5>1, <6>1, <1>r
          <6>3. enqueued[m] \in Nat /\ s <= enqueued[m] /\ s \in Nat
            BY <6>2, Queued
          <6>4. s \in queue'[m]
            BY <3>2, <6>3
          <6> QED
            BY <5>1, <6>4, <1>5
        <5>2. CASE <<m, s>> \notin RequestsOf(unit)
          <6>1. N(m, s) = 0
            BY <5>2, <1>r
          <6> QED
            BY <6>1, <3>p, <4>2
        <5> QED
          BY <5>1, <5>2
      <4> QED
        BY <3>0, <3>2, <4>2, <4>3
    <3>3. CASE ~(s \in queue'[m] \/ s > enqueued[m])
      <4>1. CASE s \in queue[m]
        <5>1. remaining'[m][s] = 0
          BY <3>3, <4>1, <1>4
        <5>2. remaining'[m][s] + issued[m][s] = Cmd(m, s).datums
          BY <3>1, <4>1
        <5> QED
          BY <3>0, <3>3, <3>p, <5>1, <5>2
      <4>2. CASE s \notin queue[m]
        BY <3>1, <3>3, <4>2
      <4> QED
        BY <4>1, <4>2
    <3> QED
      BY <3>2, <3>3
  <2>2. \A m, s : Cardinality(DatumsIn(unit', m, s)) = 0
    BY <1>1, IdleUnits, FS_EmptySet
  <2>3. \A m \in Models : Seqs(m)' = Seqs(m) /\ \A s : Cmd(m, s)' = Cmd(m, s) /\ IsBatch(m, s)' = IsBatch(m, s)
            /\ Valid(m, s)' = Valid(m, s)
                            /\ DatumsIn(unit, m, s)' = DatumsIn(unit', m, s)
    BY <1>1 DEF Seqs, Cmd, IsBatch, Valid, DatumsIn
  <2> QED
    BY <1>1, <2>0, <2>1, <2>2, <2>3 DEF Counted
<1> QED
  BY <1>6, <1>7 DEF IInv, GradsInv

\* _fail_batch(): the models whose requests train are closed, the others lose an answer.
LEMMA BatchFailsKeeps == ASSUME IInv, BatchFails PROVE IInv'
<1>0. /\ unit.op \in BatchOps /\ Returns(BatchOps) /\ consumed' = consumed /\ remaining' = remaining
      /\ Finish({}, RequestsOf(unit), "server")
      /\ unit' = NoUnit /\ unit'.op \notin Ops
      /\ UNCHANGED <<program, model, enqueued, arrival, issued>>
  BY DEF BatchFails, Returns, client, record, NoUnit, Ops
<1>1. PICK some \in {{}, unit.refs} : Accumulate(some)
  BY DEF BatchFails
<1>r. /\ closing = {} /\ Open \subseteq Models
      /\ \A c \in RequestsOf(unit) :
            /\ c \in Commands /\ c = <<c[1], c[2]>> /\ c[1] \in Open /\ c[1] \in Models
            /\ c[2] \in queue[c[1]] /\ c[2] \in Seqs(c[1]) /\ c[2] \in 1..MaxLen
            /\ Cmd(c[1], c[2]).op = unit.op
      /\ \A m, s : <<m, s>> \notin RequestsOf(unit) => Cardinality(DatumsIn(unit, m, s)) = 0
      /\ \A r \in unit.refs : <<r[1], r[2]>> \in RequestsOf(unit)
  <2>1. \A r \in unit.refs : <<r[1], r[2]>> \in RequestsOf(unit)
    BY DEF RequestsOf
  <2> QED
    BY <1>0, <2>1, RequestsAre
<1>f. /\ Settles /\ closing' \subseteq Open
      /\ \A c \in RequestsOf(unit) : ClosesOnFailure(c, "server") => c[1] \in closing'
      /\ \A m \in Models : \A s \in 1..MaxLen :
            s \in queue[m] \ queue'[m] <=> <<m, s>> \in RequestsOf(unit) /\ ~ClosesOnFailure(<<m, s>>, "server")
  <2>1. /\ \A c \in {} \cup RequestsOf(unit) : c \in Commands /\ c[1] \in Open /\ c[2] \in queue[c[1]]
        /\ {} \cap RequestsOf(unit) = {}
    BY <1>r
  <2>2. /\ Settles /\ closing' \subseteq Open
        /\ \A c \in RequestsOf(unit) : ClosesOnFailure(c, "server") => c[1] \in closing'
        /\ \A m \in Models : \A s \in 1..MaxLen :
              s \in queue[m] \ queue'[m] <=>
                 \/ <<m, s>> \in {}
                 \/ <<m, s>> \in RequestsOf(unit) /\ ~ClosesOnFailure(<<m, s>>, "server")
    BY <1>0, <2>1, FinishIs
  <2> QED
    BY <2>2
<1>2. \A c \in RequestsOf(unit) : ClosesOnFailure(c, "server") <=> unit.op = "forward_backward"
  BY <1>0, <1>r DEF ClosesOnFailure, BatchOps
<1>3. \A r \in unit.refs : r[1] \in closing' \/ unit.op # "forward_backward"
  <2>1. \A r \in unit.refs : <<r[1], r[2]>>[1] = r[1]
    OBVIOUS
  <2> QED
    BY <1>r, <1>f, <1>2, <2>1
<1>4. \A m \in Models : \A k \in queue[m] \ queue'[m] : <<m, k>> \in RequestsOf(unit) /\ unit.op # "forward_backward"
  <2>1. \A m \in Models : \A k \in queue[m] : k \in 1..MaxLen
    BY Queued
  <2> QED
    BY <1>f, <1>2, <2>1
<1>5. /\ TypeOK' /\ LockDiscipline' /\ OneTicket' /\ SlotsAreOwned' /\ SlotsAreClean' /\ (ClientWaits => GradsAreOwned')
      /\ Asked' /\ (ClientWaits => ClientsWait') /\ InSequence' /\ NoOvertaking' /\ ClosedModelsAreSettled'
      /\ UnitFits' /\ NothingSkipped' /\ Windows' /\ (ClientWaits => GradsAreSent' /\ StepConsumesItsWindow')
      /\ SleepsOnNothing'
  <2>1. remaining' \in [Models -> [1..MaxLen -> Nat]]
    BY <1>0 DEF IInv, TypeOK
  <2> QED
    BY <1>0, <1>1, <1>3, <1>4, <1>f, <2>1, BatchReturnsKeeps
<1>6. Counted'
  <2>0. \A m \in Models : Live(m)' => m \in Open /\ Live(m) /\ m \notin closing'
    BY <1>0, <1>r DEF Live, Open
  <2>1. ASSUME NEW m \in Models, NEW s \in Seqs(m), Live(m)', IsBatch(m, s), Valid(m, s), arrival[m][s] # 0
        PROVE  IF s \in queue'[m] \/ s > enqueued[m]
                 THEN /\ issued[m][s] <= Cmd(m, s).datums /\ remaining[m][s] > 0
                      /\ remaining[m][s] + issued[m][s] = Cmd(m, s).datums + 0
                 ELSE Cmd(m, s).op = "forward_backward" => issued[m][s] = Cmd(m, s).datums
    <3>0. s \in 1..MaxLen /\ <<m, s>>[1] = m /\ <<m, s>>[2] = s
      BY Program DEF IInv, TypeOK
    <3>1. IF s \in queue[m] \/ s > enqueued[m]
            THEN /\ issued[m][s] <= Cmd(m, s).datums /\ remaining[m][s] > 0
                 /\ remaining[m][s] + issued[m][s] = Cmd(m, s).datums + Cardinality(DatumsIn(unit, m, s))
            ELSE Cmd(m, s).op = "forward_backward" => issued[m][s] = Cmd(m, s).datums
      BY <2>0, <2>1 DEF IInv, Counted
    <3>2. CASE s \in queue'[m] \/ s > enqueued[m]
      <4>1. s \in queue[m] \/ s > enqueued[m]
        BY <1>f, <3>2 DEF Settles
      <4>2. <<m, s>> \notin RequestsOf(unit)
        <5> SUFFICES ASSUME <<m, s>> \in RequestsOf(unit) PROVE FALSE
          OBVIOUS
        <5>1. s \in queue[m]
          BY <3>0, <1>r
        <5>2. enqueued[m] \in Nat /\ s <= enqueued[m] /\ s \in Nat
          BY <5>1, Queued
        <5>3. s \in queue'[m]
          BY <3>2, <5>2
        <5>4. ClosesOnFailure(<<m, s>>, "server")
          BY <1>f, <3>0, <5>3
        <5>5. m \in closing'
          BY <1>f, <3>0, <5>4
        <5> QED
          BY <2>0, <2>1, <5>5
      <4> QED
        BY <1>r, <3>1, <3>2, <4>1, <4>2
    <3>3. CASE ~(s \in queue'[m] \/ s > enqueued[m])
      <4>1. CASE s \in queue[m]
        <5>1. <<m, s>> \in RequestsOf(unit) /\ unit.op # "forward_backward"
          BY <3>3, <4>1, <1>4
        <5>2. Cmd(m, s).op # "forward_backward"
          BY <1>r, <3>0, <5>1
        <5> QED
          BY <3>3, <5>2
      <4>2. CASE s \notin queue[m]
        BY <3>1, <3>3, <4>2
      <4> QED
        BY <4>1, <4>2
    <3> QED
      BY <3>2, <3>3
  <2>2. \A m, s : Cardinality(DatumsIn(unit', m, s)) = 0
    BY <1>0, IdleUnits, FS_EmptySet
  <2>3. \A m \in Models : Seqs(m)' = Seqs(m) /\ \A s : Cmd(m, s)' = Cmd(m, s) /\ IsBatch(m, s)' = IsBatch(m, s)
            /\ Valid(m, s)' = Valid(m, s)
                            /\ DatumsIn(unit, m, s)' = DatumsIn(unit', m, s)
    BY <1>0 DEF Seqs, Cmd, IsBatch, Valid, DatumsIn
  <2> QED
    BY <1>0, <2>1, <2>2, <2>3 DEF Counted
<1> QED
  BY <1>5, <1>6 DEF IInv, GradsInv

(***************************************************************************)
(* The inductive invariant, and what it says of the properties.            *)
(***************************************************************************)

LEMMA InitIInv == Init => IInv
<1> SUFFICES ASSUME Init PROVE IInv
  OBVIOUS
<1>1. /\ program \in Programs /\ sessions = Sessions /\ sweeps = 0
      /\ model = [m \in Models |-> "absent"] /\ slotOf = [m \in Models |-> NoSlot]
      /\ ready = [m \in Models |-> FALSE]
      /\ enqueued = [m \in Models |-> 0] /\ queue = [m \in Models |-> {}]
      /\ lockQueue = <<Dispatcher>> /\ holder = "nobody" /\ unit = NoUnit /\ closing = {}
      /\ unloading = NoSlot /\ dispatcher = "acquiring" /\ wake = FALSE
      /\ loaded = [l \in Slots |-> NoModel] /\ grads = [l \in Slots |-> {}]
  BY DEF Init
<1>2. \A m \in Models : \A s \in 1..MaxLen :
         arrival[m][s] = 0 /\ issued[m][s] = 0 /\ future[m][s] = "none" /\ consumed[m][s] = <<>>
  BY DEF Init, PerCommand
<1>3. free \in SUBSET Slots /\ 0 \notin free
  BY SlotsAssumption DEF Init
<1>4. Open = {}
  BY <1>1 DEF Open
<1>5. Dispatcher \notin Models
  BY ModelsAssumption DEF Dispatcher
<1>6. TypeOK
  <2>1. /\ arrival \in [Models -> [1..MaxLen -> Nat]] /\ issued \in [Models -> [1..MaxLen -> Nat]]
        /\ remaining \in [Models -> [1..MaxLen -> Nat]]
    BY DEF Init, PerCommand
  <2>2. future \in [Models -> [1..MaxLen -> FutureStates]]
    BY DEF Init, PerCommand, FutureStates
  <2>3. consumed \in [Models -> [1..MaxLen -> Seq(SUBSET Datums)]]
    <3>1. <<>> \in Seq(SUBSET Datums)
      OBVIOUS
    <3> QED
      BY <3>1 DEF Init, PerCommand
  <2>4. lockQueue \in Seq(Models \cup {Dispatcher, EndSessions})
    BY <1>1
  <2>5. sweeps \in 0..MaxSweeps /\ enqueued \in [Models -> 0..MaxLen]
    BY <1>1, BoundsAssumption, ProgramsAssumption
  <2>6. queue \in [Models -> SUBSET (1..MaxLen)] /\ grads \in [Slots -> SUBSET Datums]
    BY <1>1
  <2> QED
    BY <1>1, <1>3, <2>1, <2>2, <2>3, <2>4, <2>5, <2>6 DEF TypeOK
<1>7. LockDiscipline /\ SleepsOnNothing
  BY <1>1 DEF LockDiscipline, SleepsOnNothing
<1>8. OneTicket
  <2>1. \A i \in DOMAIN lockQueue : lockQueue[i] = Dispatcher
    BY <1>1
  <2> QED
    BY <1>5, <2>1 DEF OneTicket
<1>9. SlotsAreOwned /\ GradsAreOwned /\ SlotsAreClean
  BY <1>1, <1>3, <1>4 DEF SlotsAreOwned, GradsAreOwned, SlotsAreClean, NoSlot
<1>10. Asked /\ ClientsWait /\ ClosedModelsAreSettled
  BY <1>1, <1>2 DEF Asked, ClientsWait, ClosedModelsAreSettled
<1>11. InSequence
  <2>1. \A m \in Models : 0 <= Len(program[m])
    BY <1>1, Program
  <2>2. \A s \in 1..MaxLen : ~(s <= 0)
    BY ProgramsAssumption
  <2> QED
    BY <1>1, <1>2, <1>4, <2>1, <2>2 DEF InSequence
<1>12. NoOvertaking
  BY <1>4 DEF NoOvertaking
<1>13. UnitFits
  BY <1>1 DEF UnitFits, NoUnit, BatchOps, BarrierOps, Ops
<1>14. Counted /\ NothingSkipped /\ GradsAreSent
  BY <1>1, <1>4 DEF Counted, NothingSkipped, GradsAreSent, Live
<1>15. Windows
  BY <1>1, <1>2 DEF Windows
<1>16. StepConsumesItsWindow
  <2>1. \A m \in Models : \A b \in Seqs(m) : b \in 1..MaxLen
    BY <1>1, Program
  <2> QED
    BY <1>2, <2>1 DEF StepConsumesItsWindow, Resets
<1> QED
  BY <1>6, <1>7, <1>8, <1>9, <1>10, <1>11, <1>12, <1>13, <1>14, <1>15, <1>16 DEF IInv, GradsInv

LEMMA StutterKeeps == ASSUME IInv, UNCHANGED vars PROVE IInv'
<1>0. UNCHANGED <<program, sessions, sweeps, model, slotOf, ready, free, enqueued, arrival, queue, issued, remaining,
                  future, lockQueue, holder, unit, closing, unloading, dispatcher, wake, loaded, grads, consumed>>
  BY DEF vars, client, record, requests, lock, trainer
<1>1. Open' = Open /\ \A m \in Models : Live(m)' => Live(m)
  BY <1>0 DEF Live, Open
<1>2. TypeOK'
  BY <1>0 DEF IInv, TypeOK
<1>3. LockDiscipline' /\ OneTicket' /\ SlotsAreOwned' /\ SlotsAreClean' /\ (ClientWaits => GradsAreOwned')
  BY <1>0, LockFrame, SlotFrame
<1>4. Asked' /\ (ClientWaits => ClientsWait') /\ InSequence' /\ NoOvertaking' /\ ClosedModelsAreSettled'
  BY <1>0, RequestFrame
<1>5. UnitFits' /\ Counted' /\ NothingSkipped'
  BY <1>0, <1>1, UnitFrame
<1>6. Windows' /\ (ClientWaits => GradsAreSent' /\ StepConsumesItsWindow')
  BY <1>0, <1>1, GradFrame
<1>7. SleepsOnNothing'
  BY <1>0, <1>1, SleepFrame
<1> QED
  BY <1>2, <1>3, <1>4, <1>5, <1>6, <1>7 DEF IInv, GradsInv

LEMMA Step == IInv /\ [Next]_vars => IInv'
<1> SUFFICES ASSUME IInv, [Next]_vars PROVE IInv'
  OBVIOUS
<1>1. ASSUME NEW m \in Models, CreateModel(m) \/ StartLoad(m) \/ \E ok \in BOOLEAN : SlotLoaded(m, ok)
      PROVE  IInv'
  BY <1>1, CreateModelKeeps, StartLoadKeeps, SlotLoadedKeeps
<1>2. ASSUME NEW m \in Models, NEW s \in Seqs(m), Submit(m, s) \/ Resubmit(m, s) \/ ExpireFuture(m, s)
      PROVE  IInv'
  BY <1>2, SubmitKeeps, ResubmitKeeps, ExpireFutureKeeps
<1>3. CASE AskToEndSessions
  BY <1>3, AskToEndSessionsKeeps
<1>4. ASSUME NEW S \in SUBSET sessions, StartEndSessions(S) PROVE IInv'
  BY <1>4, StartEndSessionsKeeps
<1>5. CASE Dispatch
  BY <1>5, DispatchKeeps
<1>6. CASE WakeUp
  BY <1>6, WakeUpKeeps
<1>7. CASE BatchSucceeds \/ BatchFails
  BY <1>7, BatchSucceedsKeeps, BatchFailsKeeps
<1>8. CASE OptimReturns \/ SaveReturns \/ LoadReturns
  BY <1>8, OptimReturnsKeeps, SaveReturnsKeeps, LoadReturnsKeeps
<1>9. ASSUME NEW m \in Models, CloseModel(m) PROVE IInv'
  BY <1>9, CloseModelKeeps
<1>10. CASE Done
  BY <1>10, DoneKeeps
<1>11. ASSUME NEW ok \in BOOLEAN, Unloaded(ok) PROVE IInv'
  BY <1>11, UnloadedKeeps
<1>12. CASE UNCHANGED vars
  BY <1>12, StutterKeeps
<1> QED
  BY <1>1, <1>2, <1>3, <1>4, <1>5, <1>6, <1>7, <1>8, <1>9, <1>10, <1>11, <1>12 DEF Next

\* A barrier in flight was at the head of its queue, and nothing overtakes a barrier.
LEMMA Separates == ASSUME IInv PROVE BarrierSeparates
<1> SUFFICES ASSUME unit.op \in BarrierOps, NEW b \in unit.refs, NEW k \in Seqs(b[1])
             PROVE  /\ k < b[2] => future[b[1]][k] \in {"done", "failed", "expired"}
                    /\ k > b[2] => issued[b[1]][k] = 0 /\ future[b[1]][k] \in {"none", "pending"}
  BY DEF BarrierSeparates, BarrierOps, Ops, BatchOps
<1> DEFINE m == b[1]
           s == b[2]
<1>1. m \in Open /\ m \in Models /\ s \in queue[m] /\ AtHead(m, s) /\ ~IsBatch(m, s)
  BY BarriersAre
<1> HIDE DEF m, s
<1>2. s \in Nat /\ s \in 1..enqueued[m] /\ enqueued[m] \in Nat
  BY <1>1, Queued
<1>3. k \in 1..MaxLen /\ k \in Nat /\ k >= 1 /\ issued[m][k] \in Nat
  <2>1. k \in 1..MaxLen /\ MaxLen \in Nat
    BY <1>1, Program DEF IInv, TypeOK, m
  <2>2. issued[m][k] \in Nat
    BY <1>1, <2>1, CommandTypes
  <2> QED
    BY <2>1, <2>2
<1>4. /\ k <= enqueued[m] \/ (issued[m][k] = 0 /\ ~(k <= enqueued[m]))
      /\ IF k \in queue[m] THEN future[m][k] = "pending"
         ELSE IF k <= enqueued[m] THEN future[m][k] \in Settled
         ELSE future[m][k] \in {"none", "pending"}
  BY <1>1, <1>3 DEF IInv, InSequence
<1>5. CASE k < s
  <2>1. k \notin queue[m] /\ k <= enqueued[m] /\ ~(k > s)
    <3>1. k \notin queue[m]
      <4>1. k \in queue[m] => s <= k
        BY <1>1 DEF AtHead
      <4> QED
        BY <1>2, <1>3, <1>5, <4>1
    <3> QED
      BY <1>2, <1>3, <1>5, <3>1
  <2> QED
    BY <1>4, <2>1 DEF Settled, m, s
<1>6. CASE k > s
  <2>1. CASE k <= enqueued[m]
    <3>1. k \in (s + 1)..enqueued[m]
      BY <1>2, <1>3, <1>6, <2>1
    <3>2. k \in queue[m] /\ ~(issued[m][k] > 0)
      BY <1>1, <3>1 DEF IInv, NoOvertaking
    <3>3. future[m][k] = "pending" /\ issued[m][k] = 0 /\ ~(k < s)
      BY <1>2, <1>3, <1>4, <1>6, <3>2
    <3> QED
      BY <3>3 DEF m, s
  <2>2. CASE ~(k <= enqueued[m])
    <3>1. k \notin queue[m]
      BY <1>1, <1>2, <1>3, <2>2, Queued
    <3>2. issued[m][k] = 0 /\ future[m][k] \in {"none", "pending"} /\ ~(k < s)
      BY <1>2, <1>3, <1>4, <1>6, <2>2, <3>1
    <3> QED
      BY <3>2 DEF m, s
  <2> QED
    BY <2>1, <2>2
<1>7. CASE k = s
  <2>1. ~(k < s) /\ ~(k > s)
    BY <1>2, <1>7
  <2> QED
    BY <2>1 DEF m, s
<1> QED
  BY <1>2, <1>3, <1>5, <1>6, <1>7

\* What left an open queue has settled, and the dispatcher sleeps over empty queues.
LEMMA NobodyWaits == ASSUME IInv PROVE NoRequestIsStranded
<1>1. NeverSleepsOnWork
  <2> SUFFICES ASSUME dispatcher = "sleeping", ~wake, NEW m \in Open, NEW s \in 1..enqueued[m]
               PROVE  future[m][s] # "pending"
    BY DEF NeverSleepsOnWork
  <2>1. m \in Models /\ queue[m] = {} /\ enqueued[m] \in 0..MaxLen /\ MaxLen \in Nat
    BY ProgramsAssumption DEF IInv, TypeOK, SleepsOnNothing, Open
  <2>2. s \in 1..MaxLen /\ s <= enqueued[m]
    BY <2>1
  <2>3. future[m][s] \in Settled
    BY <2>1, <2>2 DEF IInv, InSequence
  <2> QED
    BY <2>3 DEF Settled
<1> QED
  BY <1>1 DEF IInv, NoRequestIsStranded

\* The inductive invariant of the gateway; what it says of the gradients holds for clients
\* that wait until create_model() has answered before they use the model (service.py:
\* create_model(), submit()).
THEOREM TinkerGatewayInvariant == Spec => []IInv
<1>1. Init => IInv
  BY InitIInv
<1>2. IInv /\ [Next]_vars => IInv'
  BY Step
<1> QED
  BY <1>1, <1>2, PTL DEF Spec

\* Whatever the order of arrival, the splitting, packing and failing of requests and
\* the reuse of slots, an optimizer step (_step_optimizers()) or a load consumes every
\* datum sent since the one before it exactly once and nothing else.
THEOREM StepsConsumeTheirWindows == ASSUME ClientWaits PROVE Spec => []StepConsumesItsWindow
<1>1. IInv => StepConsumesItsWindow
  BY DEF IInv, GradsInv
<1> QED
  BY <1>1, TinkerGatewayInvariant, PTL

\* While ready_barrier() has put a barrier of a model in flight, everything before it
\* has settled and nothing after it has been sent.
THEOREM BarriersSeparate == Spec => []BarrierSeparates
<1>1. IInv => BarrierSeparates
  BY Separates
<1> QED
  BY <1>1, TinkerGatewayInvariant, PTL

\* A slot serves one open model, is free only when nothing is loaded in it, and holds
\* gradients of the model it is loaded for only (create_model(), _close_model()).
THEOREM SlotsStayExclusive == ASSUME ClientWaits PROVE Spec => []SlotsAreExclusive
<1>1. IInv => SlotsAreExclusive
  BY DEF IInv, GradsInv, SlotsAreExclusive
<1> QED
  BY <1>1, TinkerGatewayInvariant, PTL

\* Of the slots themselves this holds for clients that do not wait, too: no two open models
\* share a slot, and none is free that the trainer has loaded.
THEOREM SlotsStayOwned == Spec => []SlotsAreOwned
<1>1. IInv => SlotsAreOwned
  BY DEF IInv
<1> QED
  BY <1>1, TinkerGatewayInvariant, PTL

\* No request is pending that nobody is going to answer: of a model that was closed, or
\* in a queue that the dispatcher sleeps on (run(), _close_model()).
THEOREM NobodyIsStranded == Spec => []NoRequestIsStranded
<1>1. IInv => NoRequestIsStranded
  BY NobodyWaits
<1> QED
  BY <1>1, TinkerGatewayInvariant, PTL

=============================================================================
