-------------------------- MODULE EvalDispatchProofs --------------------------
(***************************************************************************)
(* Snapshots are collected neither early nor late, short of those whose    *)
(* call was given up, and no evaluation mixes two of them unless a pin was *)
(* given up: for every number of points, of engines and of faults.  The    *)
(* inductive invariant IInv of EvalDispatch says why: what is on disk is   *)
(* accounted for by the two queues of the dispatcher, the evaluation that  *)
(* pins or generates alone holds the lock, and only its pin has something  *)
(* left to be loaded.                                                      *)
(***************************************************************************)
EXTENDS EvalDispatch, SequenceTheorems, FiniteSetTheorems, TLAPS

(***************************************************************************)
(* Lemmas about the operators.                                             *)
(***************************************************************************)

\* Appending adds one member to what a queue holds.
LEMMA ToSetOfAppend ==
    ASSUME NEW S, NEW s \in Seq(S), NEW x \in S
    PROVE  ToSet(Append(s, x)) = ToSet(s) \cup {x}
<1> DEFINE t == Append(s, x)
<1>1. /\ t \in Seq(S)
      /\ Len(t) = Len(s) + 1 /\ (\A i \in 1..Len(s) : t[i] = s[i]) /\ t[Len(s) + 1] = x
  BY AppendProperties
<1>2. DOMAIN t = 1..(Len(s) + 1) /\ DOMAIN s = 1..Len(s) /\ Len(s) \in Nat
  BY <1>1, LenProperties
<1> HIDE DEF t
<1>3. ToSet(t) = {t[i] : i \in 1..(Len(s) + 1)} /\ ToSet(s) = {s[i] : i \in 1..Len(s)}
  BY <1>2 DEF ToSet
<1>4. 1..(Len(s) + 1) = 1..Len(s) \cup {Len(s) + 1}
  BY <1>2
<1>5. ToSet(t) = ToSet(s) \cup {x}
  BY <1>1, <1>3, <1>4
<1> QED
  BY <1>5 DEF t

\* A queue holds its head and what its tail holds.
LEMMA ToSetOfTail ==
    ASSUME NEW S, NEW s \in Seq(S), s # <<>>
    PROVE  Head(s) \in S /\ ToSet(s) = {Head(s)} \cup ToSet(Tail(s))
<1>1. /\ /\ DOMAIN Tail(s) = 1..(Len(s) - 1)
      /\ DOMAIN s = 1..Len(s) /\ Len(s) \in Nat /\ Len(s) >= 1
      /\ \A i \in 1..(Len(s) - 1) : Tail(s)[i] = s[i + 1]
      /\ Head(s) = s[1] /\ Head(s) \in S
  BY HeadTailProperties, LenProperties, EmptySeq
<1>2. \A i \in 2..Len(s) : i - 1 \in 1..(Len(s) - 1) /\ s[i] = Tail(s)[i - 1]
  BY <1>1
<1>3. ToSet(s) \subseteq {Head(s)} \cup ToSet(Tail(s))
  <2> DEFINE n == Len(s)
  <2> HIDE DEF n
  <2>1. ASSUME NEW i \in 1..n PROVE s[i] = Head(s) \/ s[i] \in ToSet(Tail(s))
    <3>1. CASE i = 1
      BY <3>1, <1>1
    <3>2. CASE i # 1
      <4>1. i \in 2..n
        BY <3>2, <1>1 DEF n
      <4> QED
        BY <4>1, <1>1, <1>2 DEF n, ToSet
    <3> QED
      BY <3>1, <3>2
  <2>2. ToSet(s) = {s[i] : i \in 1..n}
    BY <1>1 DEF n, ToSet
  <2> QED
    BY <2>1, <2>2
<1>4. ToSet(Tail(s)) \cup {Head(s)} \subseteq ToSet(s)
  BY <1>1 DEF ToSet
<1> QED
  BY <1>1, <1>3, <1>4

\* A queue without one of its entries, as a request that is lost leaves it, is one.
LEMMA RemoveAtIn ==
    ASSUME NEW S, NEW s \in Seq(S), NEW i \in 1..Len(s)
    PROVE  RemoveAt(s, i) \in Seq(S)
<1>1. Len(s) \in Nat /\ \A j \in 1..Len(s) : s[j] \in S
  BY LenProperties, ElementOfSeq
<1>2. SubSeq(s, 1, i - 1) \in Seq(S)
  <2>1. 1 \in Int /\ i - 1 \in Int /\ \A j \in 1..(i - 1) : s[j] \in S
    BY <1>1
  <2> QED
    BY <2>1, SubSeqProperties
<1>3. SubSeq(s, i + 1, Len(s)) \in Seq(S)
  <2>1. i + 1 \in Int /\ Len(s) \in Int /\ \A j \in (i + 1)..Len(s) : s[j] \in S
    BY <1>1
  <2> QED
    BY <2>1, SubSeqProperties
<1> QED
  BY <1>2, <1>3, ConcatProperties DEF RemoveAt

\* A queue holds no more members than it is long.
LEMMA ToSetIsSmall ==
    ASSUME NEW S, NEW s \in Seq(S)
    PROVE  IsFiniteSet(ToSet(s)) /\ Cardinality(ToSet(s)) <= Len(s)
<1>1. Len(s) \in Nat /\ DOMAIN s = 1..Len(s)
  BY LenProperties
<1>2. IsFiniteSet(1..Len(s)) /\ Cardinality(1..Len(s)) = Len(s)
  BY <1>1, FS_Interval
<1>3. s \in Surjection(1..Len(s), ToSet(s))
  BY <1>1, SeqDef DEF Surjection, ToSet
<1> QED
  BY <1>2, <1>3, FS_Surjection

\* What _retire() leaves of a queue when it takes the first k away: the rest, in order.
LEMMA WithoutFirst ==
    ASSUME NEW S, NEW s \in Seq(S), NEW k \in Nat, k <= Len(s)
    PROVE  /\ SubSeq(s, k + 1, Len(s)) \in Seq(S)
           /\ Len(SubSeq(s, k + 1, Len(s))) = Len(s) - k
           /\ ToSet(SubSeq(s, k + 1, Len(s))) \subseteq ToSet(s)
           /\ ToSet(s) \subseteq {s[i] : i \in 1..k} \cup ToSet(SubSeq(s, k + 1, Len(s)))
           /\ {s[i] : i \in 1..k} \subseteq ToSet(s)
<1> DEFINE n == Len(s)
           m == k + 1
           t == SubSeq(s, m, n)
<1>1. n \in Nat /\ n \in Int /\ k <= n /\ DOMAIN s = 1..n /\ \A i \in 1..n : s[i] \in S
  BY LenProperties, ElementOfSeq
<1> HIDE DEF n
<1>2. m \in Int /\ n - m + 1 = n - k /\ (m <= n \/ n - k = 0) /\ n - k \in Nat
  BY <1>1
<1>3. \A i \in 1..(n - k) : m + i - 1 = k + i /\ k + i \in 1..n
  BY <1>1
<1>4. \A i \in m..n : s[i] \in S
  BY <1>1
<1>5. \A i \in 1..n : i \in 1..k \/ (i - k \in 1..(n - k) /\ k + (i - k) = i)
  BY <1>1
<1>6. 1..k \subseteq 1..n
  BY <1>1
<1> HIDE DEF m
<1>7. /\ t \in Seq(S) /\ Len(t) = IF m <= n THEN n - m + 1 ELSE 0
      /\ \A i \in 1..(n - m + 1) : t[i] = s[m + i - 1]
  <2>1. m \in Int /\ n \in Int
    BY <1>1, <1>2
  <2>2. /\ SubSeq(s, m, n) \in Seq(S) /\ Len(SubSeq(s, m, n)) = IF m <= n THEN n - m + 1 ELSE 0
        /\ \A i \in 1..(n - m + 1) : SubSeq(s, m, n)[i] = s[m + i - 1]
    BY <2>1, <1>4, SubSeqProperties
  <2> QED
    BY <2>2
<1> HIDE DEF t
<1>8. t \in Seq(S) /\ Len(t) = n - k /\ \A i \in 1..(n - k) : t[i] = s[k + i]
  BY <1>2, <1>3, <1>7
<1>9. ToSet(t) = {t[i] : i \in 1..(n - k)} /\ ToSet(s) = {s[i] : i \in 1..n}
  BY <1>1, <1>8, LenProperties DEF ToSet
<1>10. ToSet(t) \subseteq ToSet(s)
  BY <1>3, <1>8, <1>9
<1>11. ToSet(s) \subseteq {s[i] : i \in 1..k} \cup ToSet(t)
  BY <1>5, <1>8, <1>9
<1>12. {s[i] : i \in 1..k} \subseteq ToSet(s)
  BY <1>6, <1>9
<1> QED
  BY <1>8, <1>10, <1>11, <1>12 DEF t, m, n

\* _retire() takes what is there at most, and leaves no more than is to be kept.
LEMMA SurplusIsRight ==
    ASSUME NEW dirs, Len(dirs) \in Nat
    PROVE  /\ Surplus(dirs) \in Nat /\ Surplus(dirs) <= Len(dirs)
           /\ Len(dirs) - Surplus(dirs) <= KeepSnapshots
BY BoundsAssumption DEF Surplus

\* Those that stay are kept, and what does not stay is removed from disk.
LEMMA RetireKeepsTheRest ==
    ASSUME NEW dirs \in Seq(Points)
    PROVE  /\ SubSeq(dirs, Surplus(dirs) + 1, Len(dirs)) \in Seq(Points)
           /\ Len(SubSeq(dirs, Surplus(dirs) + 1, Len(dirs))) <= KeepSnapshots
           /\ ToSet(SubSeq(dirs, Surplus(dirs) + 1, Len(dirs))) \subseteq ToSet(dirs)
           /\ ToSet(dirs) \subseteq Victims(dirs) \cup ToSet(SubSeq(dirs, Surplus(dirs) + 1, Len(dirs)))
           /\ Victims(dirs) \subseteq ToSet(dirs)
BY LenProperties, SurplusIsRight, WithoutFirst DEF Victims

(***************************************************************************)
(* The dispatcher.                                                         *)
(***************************************************************************)

\* What is reported of a point stays.
LEMMA ReportAdds ==
    ASSUME IInv, NEW p \in Points, NEW what \in {"busy", "export_failed", "skipped", "evaluated"},
           Report(p, what)
    PROVE  /\ outcome' \in [Points -> SUBSET {"busy", "export_failed", "skipped", "evaluated"}]
           /\ \A q \in Points : outcome[q] \subseteq outcome'[q]
BY DEF IInv, TypeOK, Report

\* What the steps of the training loop leave alone.
LEMMA LoopFrame ==
    ASSUME IInv, UNCHANGED <<executor, fleet, unwatched>>
    PROVE  OneHolder' /\ Pins'
BY DEF IInv, OneHolder, Pins, executor, fleet, unwatched

\* What _settle() of the oldest point has done, a statement of the proof.
SettledAs ==
    /\ pending' \in Seq(Points) /\ Len(pending') = Len(pending) - 1
    /\ exported' \in Seq(Points) /\ Len(exported') <= KeepSnapshots
    /\ disk' \subseteq Points
    /\ outcome' \in [Points -> SUBSET {"busy", "export_failed", "skipped", "evaluated"}]
    /\ Consumed' /\ Accounted' /\ SnapshotsInUseStay'

\* _settle() moves the oldest point from those in flight to the consumed ones: its
\* evaluation has ended or was given up, and its snapshot goes, at once or later.
LEMMA SettleKeeps ==
    ASSUME IInv, pending # <<>>, Settle, UNCHANGED <<point, eval, givenUp>>
    PROVE  SettledAs
<1> DEFINE p == Head(pending)
           dirs == Append(exported, p)
<1>1. pending \in Seq(Points) /\ exported \in Seq(Points) /\ Len(exported) <= KeepSnapshots
  BY DEF IInv, TypeOK
<1>2. p \in Points /\ ToSet(pending) = {p} \cup ToSet(Tail(pending))
  BY <1>1, ToSetOfTail
<1>3. /\ dirs \in Seq(Points)
      /\ Len(dirs) = Len(exported) + 1 /\ ToSet(dirs) = ToSet(exported) \cup {p}
  BY <1>1, <1>2, ToSetOfAppend, AppendProperties
<1>4. pending' = Tail(pending) /\ pending' \in Seq(Points) /\ Len(pending') = Len(pending) - 1
  BY <1>1, HeadTailProperties DEF Settle
<1>5. Done(p) /\ Retire(p)
  BY DEF Settle
<1>6. /\ outcome' \in [Points -> SUBSET {"busy", "export_failed", "skipped", "evaluated"}]
      /\ \A q \in Points : "export_failed" \in outcome[q] => "export_failed" \in outcome'[q]
  <2>1. \/ outcome' = outcome
        \/ outcome' = [outcome EXCEPT ![p] = @ \cup {"skipped"}]
    BY DEF Settle, Report
  <2>2. outcome \in [Points -> SUBSET {"busy", "export_failed", "skipped", "evaluated"}]
    BY DEF IInv, TypeOK
  <2> HIDE DEF p
  <2> QED
    BY <1>2, <2>1, <2>2
<1>7. /\ exported' \in Seq(Points) /\ Len(exported') <= KeepSnapshots
      /\ ToSet(exported') \subseteq ToSet(exported) \cup {p}
      /\ disk' \subseteq disk
      /\ disk \ disk' \subseteq ToSet(exported) \cup {p}
      /\ disk' \cap (ToSet(exported) \cup ({p} \ Given)) \subseteq ToSet(exported')
  <2>1. CASE p \in Given
    BY <2>1, <1>1, <1>5 DEF Retire
  <2>2. CASE p \notin Given
    <3>1. disk' = disk \ Victims(dirs) /\ exported' = SubSeq(dirs, Surplus(dirs) + 1, Len(dirs))
      BY <2>2, <1>5 DEF Retire
    <3> HIDE DEF p, dirs
    <3>3. /\ exported' \in Seq(Points) /\ Len(exported') <= KeepSnapshots
          /\ ToSet(exported') \subseteq ToSet(dirs)
          /\ Victims(dirs) \subseteq ToSet(dirs)
          /\ ToSet(dirs) \subseteq Victims(dirs) \cup ToSet(exported')
      BY <3>1, <1>3, RetireKeepsTheRest
    <3> QED
      BY <3>1, <3>3, <1>3
  <2> QED
    BY <2>1, <2>2
<1> HIDE DEF p, dirs
<1>8. Consumed'
  BY <1>5, <1>7 DEF IInv, Consumed, Done, Over
<1>9. Accounted'
  BY <1>2, <1>4, <1>6, <1>7 DEF IInv, Accounted, TypeOK
<1>10. SnapshotsInUseStay'
  <2>1. \A q \in ToSet(exported) \cup {p} : Over(q) \/ q \in givenUp
    BY <1>5 DEF IInv, Consumed, Done
  <2> QED
    BY <2>1, <1>7 DEF IInv, SnapshotsInUseStay, Over
<1> QED
  BY <1>4, <1>6, <1>7, <1>8, <1>9, <1>10 DEF SettledAs, IInv, TypeOK

\* An evaluation point is reached.
LEMMA DueKeeps == ASSUME IInv, Due PROVE IInv'
<1> USE DEF vars, dispatcher, executor, fleet, unwatched
<1>1. TypeOK'
  BY BoundsAssumption DEF IInv, TypeOK, Dispatching, Due
<1>2. Dispatching'
  BY BoundsAssumption DEF IInv, TypeOK, Dispatching, Due
<1>3. Consumed' /\ Accounted' /\ SnapshotsInUseStay'
  BY DEF IInv, TypeOK, Consumed, Accounted, SnapshotsInUseStay, Done, Over, Due
<1>4. OneHolder' /\ Pins'
  BY LoopFrame DEF Due
<1> QED
  BY <1>1, <1>2, <1>3, <1>4 DEF IInv

\* A point is skipped: nothing was exported for it.
LEMMA SkipPointKeeps == ASSUME IInv, SkipPoint PROVE IInv'
<1> USE DEF vars, dispatcher, executor, fleet, unwatched
<1>1. TypeOK'
  <2>1. point \in Points /\ point + 1 \in 1..(MaxPoints + 1)
    BY BoundsAssumption DEF IInv, TypeOK, Dispatching, SkipPoint, Points
  <2>2. outcome' \in [Points -> SUBSET {"busy", "export_failed", "skipped", "evaluated"}]
    BY <2>1, ReportAdds DEF SkipPoint
  <2> QED
    BY <2>1, <2>2 DEF IInv, TypeOK, SkipPoint
<1>2. Dispatching'
  BY BoundsAssumption DEF IInv, TypeOK, Dispatching, SkipPoint, Report
<1>3. Consumed' /\ Accounted' /\ SnapshotsInUseStay'
  <2>1. point \in Points
    BY BoundsAssumption DEF IInv, TypeOK, Dispatching, SkipPoint, Points
  <2>2. \A q \in Points : outcome[q] \subseteq outcome'[q]
    BY <2>1, ReportAdds DEF SkipPoint
  <2>3. Consumed' /\ SnapshotsInUseStay'
    BY BoundsAssumption DEF IInv, TypeOK, Consumed, SnapshotsInUseStay, Done, Over,
       SkipPoint, Points
  <2>4. Accounted'
    BY <2>2 DEF IInv, TypeOK, Accounted, SkipPoint
  <2> QED
    BY <2>3, <2>4
<1>4. OneHolder' /\ Pins'
  BY LoopFrame DEF SkipPoint
<1> QED
  BY <1>1, <1>2, <1>3, <1>4 DEF IInv

\* A point has room.
LEMMA StartExportKeeps == ASSUME IInv, StartExport PROVE IInv'
<1> USE DEF vars, dispatcher, executor, fleet, unwatched
<1>1. TypeOK'
  BY BoundsAssumption DEF IInv, TypeOK, Dispatching, StartExport, Room, Busy
<1>2. Dispatching'
  BY BoundsAssumption DEF IInv, TypeOK, Dispatching, StartExport, Room, Busy
<1>3. Consumed' /\ Accounted' /\ SnapshotsInUseStay'
  BY DEF IInv, TypeOK, Consumed, Accounted, SnapshotsInUseStay, Done, Over, StartExport, Room,
     Busy
<1>4. OneHolder' /\ Pins'
  BY LoopFrame DEF StartExport
<1> QED
  BY <1>1, <1>2, <1>3, <1>4 DEF IInv

\* A point waits for the oldest one.
LEMMA MakeRoomKeeps == ASSUME IInv, MakeRoom PROVE IInv'
<1> USE DEF vars, dispatcher, executor, fleet, unwatched
<1>1. TypeOK'
  BY BoundsAssumption DEF IInv, TypeOK, Dispatching, MakeRoom, Busy
<1>2. Dispatching'
  BY BoundsAssumption DEF IInv, TypeOK, Dispatching, MakeRoom, Busy
<1>3. Consumed' /\ Accounted' /\ SnapshotsInUseStay'
  BY DEF IInv, TypeOK, Consumed, Accounted, SnapshotsInUseStay, Done, Over, MakeRoom, Busy
<1>4. OneHolder' /\ Pins'
  BY LoopFrame DEF MakeRoom
<1> QED
  BY <1>1, <1>2, <1>3, <1>4 DEF IInv

\* _reap_finished() settles the oldest point.
LEMMA ReapKeeps == ASSUME IInv, Reap PROVE IInv'
<1> USE DEF vars, dispatcher, executor, fleet, unwatched
<1>1. pending # <<>> /\ Settle /\ UNCHANGED <<point, eval, givenUp>>
  BY EmptySeq, BoundsAssumption DEF IInv, Dispatching, TypeOK, Reap
<1>2. SettledAs
  BY <1>1, SettleKeeps
<1>3. TypeOK'
  BY <1>2, LenProperties, BoundsAssumption DEF IInv, TypeOK, SettledAs, Reap
<1>4. Dispatching'
  BY <1>2, LenProperties, BoundsAssumption DEF IInv, TypeOK, Dispatching, SettledAs, Reap
<1>5. OneHolder' /\ Pins'
  BY LoopFrame DEF Reap
<1> QED
  BY <1>2, <1>3, <1>4, <1>5 DEF IInv, SettledAs

\* The oldest point is settled to make room.
LEMMA SettleOldestKeeps == ASSUME IInv, SettleOldest PROVE IInv'
<1> USE DEF vars, dispatcher, executor, fleet, unwatched
<1>1. pending # <<>> /\ Settle /\ UNCHANGED <<point, eval, givenUp>>
  BY EmptySeq, BoundsAssumption DEF IInv, Dispatching, TypeOK, SettleOldest
<1>2. SettledAs
  BY <1>1, SettleKeeps
<1>3. TypeOK'
  BY <1>2, LenProperties, BoundsAssumption DEF IInv, TypeOK, SettledAs, SettleOldest
<1>4. Dispatching'
  BY <1>2, LenProperties, BoundsAssumption DEF IInv, TypeOK, Dispatching, SettledAs,
     SettleOldest
<1>5. OneHolder' /\ Pins'
  BY LoopFrame DEF SettleOldest
<1> QED
  BY <1>2, <1>3, <1>4, <1>5 DEF IInv, SettledAs

\* drain() settles the oldest point.
LEMMA DrainKeeps == ASSUME IInv, Drain PROVE IInv'
<1> USE DEF vars, dispatcher, executor, fleet, unwatched
<1>1. pending # <<>> /\ Settle /\ UNCHANGED <<point, eval, givenUp>>
  BY EmptySeq, BoundsAssumption DEF IInv, Dispatching, TypeOK, Drain
<1>2. SettledAs
  BY <1>1, SettleKeeps
<1>3. TypeOK'
  BY <1>2, LenProperties, BoundsAssumption DEF IInv, TypeOK, SettledAs, Drain
<1>4. Dispatching'
  BY <1>2, LenProperties, BoundsAssumption DEF IInv, TypeOK, Dispatching, SettledAs, Drain
<1>5. OneHolder' /\ Pins'
  BY LoopFrame DEF Drain
<1> QED
  BY <1>2, <1>3, <1>4, <1>5 DEF IInv, SettledAs

\* The snapshot of a point gets into the staging directory, and the point in flight.
LEMMA ExportKeeps == ASSUME IInv, Export PROVE IInv'
<1> USE DEF vars, dispatcher, executor, fleet, unwatched
<1>1. point \in Points /\ pending \in Seq(Points) /\ Len(pending) \in Nat
  BY LenProperties, BoundsAssumption DEF IInv, TypeOK, Dispatching, Export, Points
<1>2. /\ pending' \in Seq(Points) /\ Len(pending') = Len(pending) + 1
      /\ ToSet(pending') = ToSet(pending) \cup {point}
  BY <1>1, ToSetOfAppend, AppendProperties DEF Export
<1>3. TypeOK'
  BY <1>1, <1>2, BoundsAssumption DEF IInv, TypeOK, Dispatching, Export, Points
<1>4. Dispatching'
  BY DEF Dispatching, Export
<1>5. Consumed'
  BY <1>1, BoundsAssumption DEF IInv, TypeOK, Consumed, Done, Over, Export, Points
<1>6. Accounted'
  BY <1>1, <1>2 DEF IInv, Accounted, Export
<1>7. SnapshotsInUseStay'
  BY <1>1 DEF IInv, TypeOK, SnapshotsInUseStay, Export
<1>8. OneHolder' /\ Pins'
  <2>1. eval[point] = "none" /\ pin' = pin /\ lock' = lock /\ abandoned' = abandoned
    BY <1>1, BoundsAssumption DEF IInv, TypeOK, Consumed, Export, Points
  <2>2. eval' = [eval EXCEPT ![point] = "waiting"] /\ loads' = loads /\ version' = version
    BY DEF Export
  <2>3. OneHolder'
    BY <1>1, <2>1, <2>2 DEF IInv, TypeOK, OneHolder
  <2>4. Pins'
    BY <1>1, <2>1, <2>2 DEF IInv, TypeOK, Pins
  <2> QED
    BY <2>3, <2>4
<1> QED
  BY <1>1, <1>2, <1>3, <1>4, <1>5, <1>6, <1>7, <1>8 DEF IInv

\* A failed export leaves a part of a snapshot, which is reported, and no evaluation.
LEMMA ExportFailsKeeps == ASSUME IInv, ExportFails PROVE IInv'
<1> USE DEF vars, dispatcher, executor, fleet, unwatched
<1>1. point \in Points
  BY BoundsAssumption DEF IInv, TypeOK, Dispatching, ExportFails, Points
<1>2. faults' \in 0..MaxFaults
  BY BoundsAssumption DEF IInv, TypeOK, ExportFails, Fault
<1>3. TypeOK'
  BY <1>1, <1>2, BoundsAssumption DEF IInv, TypeOK, ExportFails, Report, Points
<1>4. Dispatching' /\ Consumed'
  BY <1>1, BoundsAssumption DEF IInv, TypeOK, Dispatching, Consumed, Done, Over, ExportFails,
     Points
<1>5. Accounted'
  BY <1>1 DEF IInv, TypeOK, Accounted, ExportFails, Report
<1>6. SnapshotsInUseStay'
  BY DEF IInv, SnapshotsInUseStay, ExportFails
<1>7. OneHolder' /\ Pins'
  BY LoopFrame DEF ExportFails
<1> QED
  BY <1>1, <1>2, <1>3, <1>4, <1>5, <1>6, <1>7 DEF IInv

(***************************************************************************)
(* The executor and the fleet.                                             *)
(***************************************************************************)

\* The evaluations go on, and none of them begins or ends otherwise than as said.
LEMMA EvalFrame ==
    ASSUME IInv, UNCHANGED <<dispatcher, disk>>, givenUp \subseteq givenUp',
           \A p \in Points : outcome[p] \subseteq outcome'[p],
           \A p \in Points : eval[p] = "none" \/ Over(p) => eval'[p] = eval[p],
           \A p \in Points : eval'[p] \in {"waiting", "pinning", "generating"} =>
                eval[p] \in {"waiting", "pinning", "generating"}
    PROVE  Dispatching' /\ Consumed' /\ Accounted' /\ SnapshotsInUseStay'
<1> USE DEF dispatcher
<1>1. Dispatching' /\ Accounted'
  BY DEF IInv, TypeOK, Dispatching, Accounted
<1>2. Consumed'
  <2>1. ToSet(exported) \subseteq Points
    BY ElementOfSeq, LenProperties DEF IInv, TypeOK, ToSet
  <2> QED
    BY <2>1 DEF IInv, Consumed, Done, Over
<1>3. SnapshotsInUseStay'
  BY DEF IInv, SnapshotsInUseStay
<1> QED
  BY <1>1, <1>2, <1>3

\* The script gives a call up and awaits its evaluation no more: the snapshot is not
\* owed to it any longer, and the evaluation goes on as before, or never began.
LEMMA CallGivenUpKeeps == ASSUME IInv, NEW p \in Points, CallGivenUp(p) PROVE IInv'
<1> USE DEF vars, dispatcher, executor, fleet, unwatched
<1>1. TypeOK'
  <2>1. eval' \in [Points -> {"none", "waiting", "pinning", "generating", "done", "crashed"}]
    BY DEF IInv, TypeOK, CallGivenUp
  <2>2. faults' \in 0..MaxFaults
    BY BoundsAssumption DEF IInv, TypeOK, CallGivenUp, Fault
  <2> QED
    BY <2>1, <2>2 DEF IInv, TypeOK, CallGivenUp
<1>2. Dispatching' /\ Consumed' /\ Accounted' /\ SnapshotsInUseStay'
  <2>1. /\ \A q \in Points : eval[q] = "none" \/ Over(q) => eval'[q] = eval[q]
        /\ \A q \in Points : eval'[q] \in {"waiting", "pinning", "generating"} =>
                eval[q] \in {"waiting", "pinning", "generating"}
    BY DEF IInv, TypeOK, Over, CallGivenUp
  <2> QED
    BY <2>1, EvalFrame DEF CallGivenUp
<1>3. OneHolder'
  BY DEF IInv, TypeOK, OneHolder, CallGivenUp
<1>4. Pins'
  BY DEF IInv, TypeOK, Pins, CallGivenUp
<1> QED
  BY <1>1, <1>2, <1>3, <1>4 DEF IInv

\* An evaluation takes the free lock and pins the fleet, or finds no checkpoint.
LEMMA EvalStartsKeeps == ASSUME IInv, NEW p \in Points, EvalStarts(p) PROVE IInv'
<1> USE DEF vars, dispatcher, executor, fleet, unwatched
<1>1. TypeOK'
  <2>1. /\ outcome' \in [Points -> SUBSET {"busy", "export_failed", "skipped", "evaluated"}]
        /\ \A q \in Points : outcome[q] \subseteq outcome'[q]
    BY ReportAdds DEF IInv, TypeOK, EvalStarts
  <2>2. /\ eval' \in [Points -> {"none", "waiting", "pinning", "generating", "done", "crashed"}]
        /\ lock' \subseteq Points
    <3>1. \/ eval' = [eval EXCEPT ![p] = "pinning"]
          \/ eval' = [eval EXCEPT ![p] = "done"]
      BY DEF EvalStarts
    <3>2. lock' = lock \cup {p} \/ lock' = lock
      BY DEF EvalStarts
    <3> QED
      BY <3>1, <3>2 DEF IInv, TypeOK
  <2>3. /\ pin' \in [Points -> {"none", "starting", "loading", "reading", "pinned", "failed"}]
        /\ faults' \in 0..MaxFaults
    BY BoundsAssumption DEF IInv, TypeOK, Fault, EvalStarts
  <2> QED
    BY <2>1, <2>2, <2>3 DEF IInv, TypeOK, EvalStarts
<1>2. Dispatching' /\ Consumed' /\ Accounted' /\ SnapshotsInUseStay'
  <2>1. \A q \in Points : outcome[q] \subseteq outcome'[q]
    BY ReportAdds DEF IInv, TypeOK, EvalStarts
  <2>2. /\ \A q \in Points : eval[q] = "none" \/ Over(q) => eval'[q] = eval[q]
        /\ \A q \in Points : eval'[q] \in {"waiting", "pinning", "generating"} =>
                eval[q] \in {"waiting", "pinning", "generating"}
    BY DEF IInv, TypeOK, Over, EvalStarts
  <2> QED
    BY <2>1, <2>2, EvalFrame DEF EvalStarts
<1>3. OneHolder'
  BY DEF IInv, TypeOK, OneHolder, EvalStarts, LockFree
<1>4. Pins'
  BY DEF IInv, TypeOK, OneHolder, Pins, EvalStarts, LockFree
<1> QED
  BY <1>1, <1>2, <1>3, <1>4 DEF IInv

\* The pin is answered: the fleet holds the snapshot when the evaluation goes on.
LEMMA PinReturnsKeeps == ASSUME IInv, NEW p \in Points, PinReturns(p) PROVE IInv'
<1> USE DEF vars, dispatcher, executor, fleet, unwatched
<1>1. TypeOK'
  <2>1. /\ outcome' \in [Points -> SUBSET {"busy", "export_failed", "skipped", "evaluated"}]
        /\ \A q \in Points : outcome[q] \subseteq outcome'[q]
    BY ReportAdds DEF IInv, TypeOK, PinReturns
  <2>2. /\ eval' \in [Points -> {"none", "waiting", "pinning", "generating", "done", "crashed"}]
        /\ lock' \subseteq Points
    BY DEF IInv, TypeOK, PinReturns, Leave
  <2>3. /\ pin' \in [Points -> {"none", "starting", "loading", "reading", "pinned", "failed"}]
        /\ faults' \in 0..MaxFaults
    BY BoundsAssumption DEF IInv, TypeOK, Fault, PinReturns
  <2> QED
    BY <2>1, <2>2, <2>3 DEF IInv, TypeOK, PinReturns
<1>2. Dispatching' /\ Consumed' /\ Accounted' /\ SnapshotsInUseStay'
  <2>1. \A q \in Points : outcome[q] \subseteq outcome'[q]
    BY ReportAdds DEF IInv, TypeOK, PinReturns
  <2>2. /\ \A q \in Points : eval[q] = "none" \/ Over(q) => eval'[q] = eval[q]
        /\ \A q \in Points : eval'[q] \in {"waiting", "pinning", "generating"} =>
                eval[q] \in {"waiting", "pinning", "generating"}
    BY DEF IInv, TypeOK, Over, PinReturns, Leave
  <2> QED
    BY <2>1, <2>2, EvalFrame DEF PinReturns
<1>3. OneHolder'
  BY DEF IInv, TypeOK, OneHolder, PinReturns, Leave
<1>4. Pins'
  BY DEF IInv, TypeOK, OneHolder, Pins, PinReturns, Leave
<1> QED
  BY <1>1, <1>2, <1>3, <1>4 DEF IInv

\* The pin is given up, with which the promise of Pins ends if it still runs.
LEMMA PinGivenUpKeeps == ASSUME IInv, NEW p \in Points, PinGivenUp(p) PROVE IInv'
<1> USE DEF vars, dispatcher, executor, fleet, unwatched
<1>1. TypeOK'
  <2>1. eval' = [eval EXCEPT ![p] = "done"] /\ lock' = lock \ {p} /\ faults' \in 0..MaxFaults
    BY BoundsAssumption DEF IInv, TypeOK, PinGivenUp, Leave, Fault
  <2>2. /\ abandoned' = abandoned \/ abandoned' = abandoned \cup {p}
        /\ pin' = pin \/ pin' = [pin EXCEPT ![p] = "none"]
    BY DEF PinGivenUp
  <2>3. outcome' \in [Points -> SUBSET {"busy", "export_failed", "skipped", "evaluated"}]
    BY ReportAdds DEF PinGivenUp
  <2> QED
    BY <2>1, <2>2, <2>3 DEF IInv, TypeOK, PinGivenUp
<1>2. Dispatching' /\ Consumed' /\ Accounted' /\ SnapshotsInUseStay'
  BY EvalFrame DEF IInv, TypeOK, Over, PinGivenUp, Leave, Report
<1>3. OneHolder'
  BY DEF IInv, TypeOK, OneHolder, PinGivenUp, Leave
<1>4. Pins'
  BY DEF IInv, TypeOK, OneHolder, Pins, PinGivenUp, Leave, PinRuns
<1> QED
  BY <1>1, <1>2, <1>3, <1>4 DEF IInv

\* The evaluation ends.
LEMMA GeneratedKeeps == ASSUME IInv, NEW p \in Points, Generated(p) PROVE IInv'
<1> USE DEF vars, dispatcher, executor, fleet, unwatched
<1>1. TypeOK'
  BY BoundsAssumption DEF IInv, TypeOK, Generated, Leave, Report
<1>2. Dispatching' /\ Consumed' /\ Accounted' /\ SnapshotsInUseStay'
  BY EvalFrame DEF IInv, TypeOK, Over, Generated, Leave, Report
<1>3. OneHolder'
  BY DEF IInv, TypeOK, OneHolder, Generated, Leave
<1>4. Pins'
  BY DEF IInv, TypeOK, OneHolder, Pins, Generated, Leave
<1> QED
  BY <1>1, <1>2, <1>3, <1>4 DEF IInv

\* The evaluation raises.
LEMMA EvalCrashesKeeps == ASSUME IInv, NEW p \in Points, EvalCrashes(p) PROVE IInv'
<1> USE DEF vars, dispatcher, executor, fleet, unwatched
<1>1. TypeOK'
  <2>1. /\ outcome' \in [Points -> SUBSET {"busy", "export_failed", "skipped", "evaluated"}]
        /\ \A q \in Points : outcome[q] \subseteq outcome'[q]
    BY ReportAdds DEF IInv, TypeOK, EvalCrashes
  <2>2. /\ eval' \in [Points -> {"none", "waiting", "pinning", "generating", "done", "crashed"}]
        /\ lock' \subseteq Points
    BY DEF IInv, TypeOK, EvalCrashes, Leave
  <2>3. /\ pin' \in [Points -> {"none", "starting", "loading", "reading", "pinned", "failed"}]
        /\ faults' \in 0..MaxFaults
    BY BoundsAssumption DEF IInv, TypeOK, Fault, EvalCrashes
  <2> QED
    BY <2>1, <2>2, <2>3 DEF IInv, TypeOK, EvalCrashes
<1>2. Dispatching' /\ Consumed' /\ Accounted' /\ SnapshotsInUseStay'
  <2>1. \A q \in Points : outcome[q] \subseteq outcome'[q]
    BY ReportAdds DEF IInv, TypeOK, EvalCrashes
  <2>2. /\ \A q \in Points : eval[q] = "none" \/ Over(q) => eval'[q] = eval[q]
        /\ \A q \in Points : eval'[q] \in {"waiting", "pinning", "generating"} =>
                eval[q] \in {"waiting", "pinning", "generating"}
    BY DEF IInv, TypeOK, Over, EvalCrashes, Leave
  <2> QED
    BY <2>1, <2>2, EvalFrame DEF EvalCrashes
<1>3. OneHolder'
  BY DEF IInv, TypeOK, OneHolder, EvalCrashes, Leave
<1>4. Pins'
  BY DEF IInv, TypeOK, OneHolder, Pins, EvalCrashes, Leave
<1> QED
  BY <1>1, <1>2, <1>3, <1>4 DEF IInv

\* The pins and the engines do not touch the evaluations.
LEMMA FleetFrame ==
    ASSUME IInv, UNCHANGED <<dispatcher, disk, executor, givenUp, outcome>>
    PROVE  Dispatching' /\ Consumed' /\ Accounted' /\ SnapshotsInUseStay' /\ OneHolder'
BY DEF IInv, dispatcher, executor, Dispatching, Consumed, Accounted, SnapshotsInUseStay,
   OneHolder, Done, Over

\* A pin ends, or its second attempt begins.
LEMMA EndedTypes ==
    ASSUME IInv, NEW p \in Points, NEW what \in {"pinned", "failed"}, Ended(p, what)
    PROVE  pin' \in [Points -> {"none", "starting", "loading", "reading", "pinned", "failed"}]
BY DEF IInv, TypeOK, Ended

\* A second attempt begins, or the pin has failed.
LEMMA AttemptTypes ==
    ASSUME IInv, NEW p \in Points, NextAttempt(p)
    PROVE  /\ pin' \in [Points -> {"none", "starting", "loading", "reading", "pinned", "failed"}]
           /\ tries' \in [Points -> 0..1]
<1>1. CASE tries[p] = 0
  <2>1. pin' = [pin EXCEPT ![p] = "starting"] /\ tries' = [tries EXCEPT ![p] = 1]
    BY <1>1 DEF NextAttempt
  <2>2. pin' \in [Points -> {"none", "starting", "loading", "reading", "pinned", "failed"}]
    BY <2>1 DEF IInv, TypeOK
  <2>3. tries \in [Points -> 0..1] /\ 1 \in 0..1
    BY DEF IInv, TypeOK
  <2>4. tries' \in [Points -> 0..1]
    BY <2>1, <2>3
  <2> QED
    BY <2>2, <2>4
<1>2. CASE tries[p] # 0
  BY <1>2, EndedTypes DEF IInv, TypeOK, NextAttempt
<1> QED
  BY <1>1, <1>2

\* The pin asks every engine: what it asked comes last.
LEMMA PostKeeps == ASSUME IInv, NEW p \in Points, Post(p) PROVE IInv'
<1> USE DEF vars, dispatcher, executor, fleet, unwatched
<1>1. TypeOK'
  BY BoundsAssumption DEF IInv, TypeOK, Post
<1>2. Dispatching' /\ Consumed' /\ Accounted' /\ SnapshotsInUseStay' /\ OneHolder'
  BY FleetFrame DEF Post
<1>3. Pins'
  BY DEF IInv, TypeOK, OneHolder, Pins, Post
<1> QED
  BY <1>1, <1>2, <1>3 DEF IInv

\* A load fails: the requests to the others stay with them.
LEMMA LoadFailsKeeps == ASSUME IInv, NEW p \in Points, LoadFails(p) PROVE IInv'
<1> USE DEF vars, dispatcher, executor, fleet, unwatched
<1>1. TypeOK'
  <2>1. /\ pin' \in [Points -> {"none", "starting", "loading", "reading", "pinned", "failed"}]
        /\ tries' \in [Points -> 0..1]
    BY AttemptTypes DEF LoadFails
  <2>2. loads' \in [Engines -> Seq(Points)]
    <3>1. ASSUME NEW e \in Engines, NEW i \in DOMAIN loads[e], loads' = [loads EXCEPT ![e] = RemoveAt(@, i)]
          PROVE  loads' \in [Engines -> Seq(Points)]
      <4>1. loads[e] \in Seq(Points) /\ i \in 1..Len(loads[e])
        BY LenProperties DEF IInv, TypeOK
      <4>2. RemoveAt(loads[e], i) \in Seq(Points)
        BY <4>1, RemoveAtIn
      <4> QED
        BY <3>1, <4>2 DEF IInv, TypeOK
    <3> QED
      BY <3>1 DEF IInv, TypeOK, LoadFails
  <2>3. faults' \in 0..MaxFaults
    BY BoundsAssumption DEF IInv, TypeOK, LoadFails, Fault
  <2> QED
    BY <2>1, <2>2, <2>3 DEF IInv, TypeOK, LoadFails
<1>2. Dispatching' /\ Consumed' /\ Accounted' /\ SnapshotsInUseStay' /\ OneHolder'
  BY FleetFrame DEF LoadFails
<1>3. Pins'
  BY DEF IInv, TypeOK, OneHolder, Pins, LoadFails, NextAttempt, Ended
<1> QED
  BY <1>1, <1>2, <1>3 DEF IInv

\* Every engine has answered: what was asked last was this snapshot, so nothing is left.
LEMMA LoadedKeeps == ASSUME IInv, NEW p \in Points, Loaded(p) PROVE IInv'
<1> USE DEF vars, dispatcher, executor, fleet, unwatched
<1>1. TypeOK'
  BY BoundsAssumption DEF IInv, TypeOK, Loaded
<1>2. Dispatching' /\ Consumed' /\ Accounted' /\ SnapshotsInUseStay' /\ OneHolder'
  BY FleetFrame DEF Loaded
<1>3. Pins'
  <2>1. ASSUME abandoned = {} PROVE \A e \in Engines : loads[e] = <<>>
    <3>1. SUFFICES ASSUME NEW e \in Engines, loads[e] # <<>> PROVE FALSE
      OBVIOUS
    <3>2. loads[e] \in Seq(Points) /\ Len(loads[e]) \in DOMAIN loads[e]
      BY <3>1, LenProperties, EmptySeq DEF IInv, TypeOK
    <3>3. loads[e][Len(loads[e])] = p
      BY <2>1, <3>1 DEF IInv, Pins, Loaded
    <3> QED
      BY <3>2, <3>3 DEF Loaded, ToSet
  <2> QED
    BY <2>1 DEF IInv, TypeOK, OneHolder, Pins, Loaded
<1> QED
  BY <1>1, <1>2, <1>3 DEF IInv

\* The versions are read: the pin succeeds only with all of them.
LEMMA ReadVersionsKeeps == ASSUME IInv, NEW p \in Points, ReadVersions(p) PROVE IInv'
<1> USE DEF vars, dispatcher, executor, fleet, unwatched
<1>1. TypeOK'
  <2>1. /\ pin' \in [Points -> {"none", "starting", "loading", "reading", "pinned", "failed"}]
        /\ tries' \in [Points -> 0..1]
    <3>1. CASE AllPinned(p)
      <4>1. Ended(p, "pinned") /\ tries' = [tries EXCEPT ![p] = 0]
        BY <3>1 DEF ReadVersions
      <4>2. tries \in [Points -> 0..1] /\ 0 \in 0..1
        BY DEF IInv, TypeOK
      <4> QED
        BY <4>1, <4>2, EndedTypes
    <3>2. CASE ~AllPinned(p)
      BY <3>2, AttemptTypes DEF ReadVersions
    <3> QED
      BY <3>1, <3>2
  <2> QED
    BY <2>1 DEF IInv, TypeOK, ReadVersions
<1>2. Dispatching' /\ Consumed' /\ Accounted' /\ SnapshotsInUseStay' /\ OneHolder'
  BY FleetFrame DEF ReadVersions
<1>3. Pins'
  BY DEF IInv, TypeOK, OneHolder, Pins, ReadVersions, NextAttempt, Ended, AllPinned
<1> QED
  BY <1>1, <1>2, <1>3 DEF IInv

\* The router does not come up.
LEMMA RouterNotReadyKeeps == ASSUME IInv, NEW p \in Points, RouterNotReady(p) PROVE IInv'
<1> USE DEF vars, dispatcher, executor, fleet, unwatched
<1>1. TypeOK'
  BY BoundsAssumption DEF IInv, TypeOK, RouterNotReady, Ended, AllPinned, Fault
<1>2. Dispatching' /\ Consumed' /\ Accounted' /\ SnapshotsInUseStay' /\ OneHolder'
  BY FleetFrame DEF RouterNotReady
<1>3. Pins'
  BY DEF IInv, TypeOK, OneHolder, Pins, RouterNotReady, Ended, AllPinned
<1> QED
  BY <1>1, <1>2, <1>3 DEF IInv

\* An engine loads what it was asked to next.
LEMMA EngineLoadsKeeps == ASSUME IInv, NEW e \in Engines, EngineLoads(e) PROVE IInv'
<1> USE DEF vars, dispatcher, executor, fleet, unwatched
<1>1. TypeOK'
  BY BoundsAssumption DEF IInv, TypeOK, EngineLoads
<1>2. Dispatching' /\ Consumed' /\ Accounted' /\ SnapshotsInUseStay' /\ OneHolder'
  BY FleetFrame DEF EngineLoads
<1>3. Pins'
  BY DEF IInv, TypeOK, OneHolder, Pins, EngineLoads
<1> QED
  BY <1>1, <1>2, <1>3 DEF IInv

\* An engine is replaced.
LEMMA RestartKeeps == ASSUME IInv, NEW e \in Engines, Restart(e) PROVE IInv'
<1> USE DEF vars, dispatcher, executor, fleet, unwatched
<1>1. TypeOK'
  BY BoundsAssumption DEF IInv, TypeOK, Restart, Fault
<1>2. Dispatching' /\ Consumed' /\ Accounted' /\ SnapshotsInUseStay' /\ OneHolder'
  BY FleetFrame DEF Restart
<1>3. Pins'
  BY DEF IInv, TypeOK, OneHolder, Pins, Restart
<1> QED
  BY <1>1, <1>2, <1>3 DEF IInv

\* Every step keeps the inductive invariant.
LEMMA Step == ASSUME IInv, [Next]_vars PROVE IInv'
<1>1. CASE UNCHANGED vars
  BY <1>1 DEF IInv, vars, dispatcher, executor, fleet, TypeOK, Dispatching, Consumed,
     Accounted, SnapshotsInUseStay,
     OneHolder, Pins, Done, Over, unwatched
<1>2. CASE Next
  BY <1>2, DueKeeps, ReapKeeps, SkipPointKeeps, StartExportKeeps, MakeRoomKeeps,
     SettleOldestKeeps,
     ExportKeeps, ExportFailsKeeps, DrainKeeps, CallGivenUpKeeps, EvalStartsKeeps, PinReturnsKeeps,
     PinGivenUpKeeps, GeneratedKeeps, EvalCrashesKeeps, PostKeeps, LoadFailsKeeps,
     LoadedKeeps, ReadVersionsKeeps, RouterNotReadyKeeps, EngineLoadsKeeps, RestartKeeps DEF Next
<1> QED
  BY <1>1, <1>2

\* The inductive invariant holds at first.
LEMMA InitIInv == Init => IInv
<1> SUFFICES ASSUME Init PROVE IInv
  OBVIOUS
<1>1. TypeOK
  BY BoundsAssumption, EmptySeq DEF Init, TypeOK
<1>2. Dispatching /\ Consumed /\ Accounted /\ SnapshotsInUseStay /\ OneHolder /\ Pins
  BY DEF Init, Dispatching, Consumed, Accounted, SnapshotsInUseStay, OneHolder, Pins, ToSet
<1> QED
  BY <1>1, <1>2 DEF IInv

\* What is on disk, the parts of failed exports aside, is in one of the two queues, and
\* so there is no more of it than both may hold.
LEMMA DiskFollows == ASSUME IInv PROVE DiskIsBounded
<1> DEFINE held == {p \in disk : "export_failed" \notin outcome[p]}
<1>1. /\ exported \in Seq(Points)
      /\ pending \in Seq(Points) /\ Len(exported) <= KeepSnapshots /\ Len(pending) <= MaxInFlight
  BY DEF IInv, TypeOK
<1>2. held \subseteq ToSet(exported) \cup ToSet(pending)
  BY DEF IInv, Accounted
<1> DEFINE E == ToSet(exported)
           P == ToSet(pending)
<1>3. /\ IsFiniteSet(E)
      /\ Cardinality(E) <= Len(exported) /\ IsFiniteSet(P) /\ Cardinality(P) <= Len(pending)
  BY <1>1, ToSetIsSmall
<1>4. Len(exported) \in Nat /\ Len(pending) \in Nat
  BY <1>1, LenProperties
<1> HIDE DEF E, P, held
<1>5. /\ IsFiniteSet(E \cup P) /\ IsFiniteSet(E \cap P)
      /\ Cardinality(E \cup P) = Cardinality(E) + Cardinality(P) - Cardinality(E \cap P)
  BY <1>3, FS_Union, FS_Intersection
<1>6. Cardinality(E) \in Nat /\ Cardinality(P) \in Nat /\ Cardinality(E \cap P) \in Nat
  BY <1>3, <1>5, FS_CardinalityType
<1>7. IsFiniteSet(held) /\ Cardinality(held) <= Cardinality(E \cup P)
  BY <1>2, <1>5, FS_Subset DEF E, P
<1>8. Cardinality(held) \in Nat
  BY <1>7, FS_CardinalityType
<1>9. Cardinality(held) <= MaxInFlight + KeepSnapshots
  BY <1>1, <1>3, <1>4, <1>5, <1>6, <1>7, <1>8, BoundsAssumption
<1> QED
  BY <1>9 DEF DiskIsBounded, held

\* The inductive invariant holds always.
THEOREM EvalDispatchInvariant == Spec => []IInv
<1>1. Init => IInv
  BY InitIInv
<1>2. IInv /\ [Next]_vars => IInv'
  BY Step
<1> QED
  BY <1>1, <1>2, PTL DEF Spec

\* A snapshot stays on disk until its evaluation has ended or the script has given its
\* call up, and the staging directory holds no more than may be in flight and are to
\* be kept, whatever calls are given up (EvalDispatcher._settle and _retire).
THEOREM SnapshotsAreCollectedRight == Spec => []CollectionIsRight
<1>1. IInv => CollectionIsRight
  BY DiskFollows DEF IInv, CollectionIsRight
<1> QED
  BY <1>1, EvalDispatchInvariant, PTL

\* While a point is evaluated, every engine has its weights or those of its start, and
\* nothing else is still to be loaded, as long as no pin goes on that was given up
\* (RolloutExecutor._eval_checkpoint, InferenceControllerEvalFleet.pin).
THEOREM EvaluationsDoNotMix == Spec => []NoMixedEvaluation
<1>1. IInv => NoMixedEvaluation
  BY DEF IInv, Pins, NoMixedEvaluation, OneSnapshotAtATime, ToSet
<1> QED
  BY <1>1, EvalDispatchInvariant, PTL
=============================================================================
