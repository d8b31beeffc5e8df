-------------------------- MODULE TrainerGroupProofs --------------------------
(***************************************************************************)
(* Proofs about the trainer cells, for every set of cells and every number *)
(* of rollouts, attempts, faults, deployments, pauses and timeouts.        *)
(*                                                                         *)
(* TrainerGroup: IInv is an invariant, groups never split, the replicas    *)
(* miss no step and repeat only those over which the cells were split, and *)
(* every all-reduce joins one group on such replicas.                      *)
(*                                                                         *)
(* CellHealth: HealthIInv is an invariant, a live cell is never reported   *)
(* as failed, and only what is broken is stopped.                          *)
(***************************************************************************)
EXTENDS TrainerGroup, CellHealth, TLAPS, SequenceTheorems, WellFoundedInduction

\* The naturals are well ordered, by a relation that provers can handle.
LEMMA NatIsWellOrdered ==
    \E R : IsWellFoundedOn(R, Nat) /\ \A p, q \in Nat : p < q => <<p, q>> \in R
<1>1. \A p, q \in Nat : p < q => <<p, q>> \in OpToRel(<, Nat)
  BY DEF OpToRel
<1> QED
  BY <1>1, NatLessThanWellFounded, Zenon

\* Min() of a set of cells is one of them.
LEMMA MinIn == ASSUME NEW S \in SUBSET Nat, S # {} PROVE Min(S) \in S
<1>1. PICK R : IsWellFoundedOn(R, Nat) /\ \A p, q \in Nat : p < q => <<p, q>> \in R
  BY NatIsWellOrdered
<1>2. IsWellFoundedOn(R, Nat) /\ S \subseteq Nat
  BY <1>1
<1>3. PICK x \in S : \A y \in S : ~(<<y, x>> \in R)
  BY <1>2, WFMin, Zenon
<1>4. \A y \in S : x \in Nat /\ y \in Nat /\ ~(y < x)
  BY <1>1, <1>2, <1>3, Zenon
<1>5. \A y \in S : x <= y
  BY <1>4
<1> QED
  BY <1>5 DEF Min

\* The first of the cells that are alive: the source of a heal, the one that
\* saves.
LEMMA SomeAlive ==
    ASSUME In("alive") # {}
    PROVE  Min(In("alive")) \in Cells /\ cell[Min(In("alive"))] = "alive"
BY MinIn, CellsAssumption DEF In

\* What a replica holds, it also holds when more rollouts may be repeated.
LEMMA HoldsMore ==
    ASSUME NEW replica, NEW n, NEW again, NEW more, again \subseteq more, Holds(replica, n, again)
    PROVE  Holds(replica, n, more)
BY DEF Holds, InOrder

\* A replica that applied the rollouts before n, or n as well if it may be repeated,
\* has applied those up to n when it applies n.
LEMMA HoldsNext ==
    ASSUME NEW replica \in Seq(Nat), NEW n \in Nat \ {0}, NEW again,
           Holds(replica, n - 1, again) \/ (n \in again /\ Holds(replica, n, again))
    PROVE  Holds(Append(replica, n), n, again)
<1> DEFINE next == Append(replica, n)
           last == Len(replica) + 1
<1>1. /\ last \in Nat /\ DOMAIN replica = 1..(last - 1) /\ DOMAIN next = 1..last
      /\ \A i \in 1..(last - 1) : next[i] = replica[i]
      /\ next[last] = n
  BY AppendProperties, LenProperties
<1> HIDE DEF next, last
<1>2. \A i \in 1..last : i \in 1..(last - 1) \/ i = last
  BY <1>1
<1>3. \A i \in 1..(last - 1) : i \in 1..last /\ i < last
  BY <1>1
<1>4. last \in 1..last /\ last \notin 1..(last - 1)
  <2>1. last \in Nat \ {0}
    BY LenProperties DEF last
  <2> QED
    BY <2>1
<1>5. Steps(replica) = 1..(n - 1) \/ (n \in again /\ Steps(replica) = 1..n)
  BY DEF Holds
<1>6. Steps(next) = Steps(replica) \cup {n}
  BY <1>1, <1>2, <1>3, <1>4 DEF Steps
<1>7. Steps(next) = 1..n
  BY <1>5, <1>6
<1>8. \A i \in 1..(last - 1) : replica[i] \in 1..n /\ (replica[i] = n => n \in again)
  <2>1. \A i \in 1..(last - 1) : replica[i] \in Steps(replica)
    BY <1>1 DEF Steps
  <2>2. \A x \in 1..(n - 1) : x \in 1..n /\ x # n
    OBVIOUS
  <2> QED
    BY <2>1, <2>2, <1>5
<1>9. InOrder(replica, again)
  BY DEF Holds
<1>10. \A i, j \in 1..last : i <= j => next[i] <= next[j]
  <2>1. SUFFICES ASSUME NEW i \in 1..last, NEW j \in 1..last, i <= j PROVE next[i] <= next[j]
    OBVIOUS
  <2>2. CASE j = last
    <3>1. next[i] \in 1..n
      BY <1>1, <1>2, <1>8
    <3> QED
      BY <2>2, <3>1, <1>1
  <2>3. CASE j # last
    <3>1. i \in 1..(last - 1) /\ j \in 1..(last - 1)
      BY <2>1, <2>3, <1>1
    <3> QED
      BY <2>1, <3>1, <1>1, <1>9 DEF InOrder
  <2> QED
    BY <2>2, <2>3
<1>11. \A i, j \in 1..last : next[i] = next[j] => i = j \/ next[i] \in again
  BY <1>1, <1>2, <1>8, <1>9 DEF InOrder
<1> QED
  BY <1>1, <1>7, <1>10, <1>11 DEF Holds, InOrder, next

\* _reconcile() takes a cell away: the calls on it are cancelled.
LEMMA RemoveCellKeeps == ASSUME IInv, NEW c \in Cells, RemoveCell(c) PROVE IInv'
<1> USE DEF vars, cells, refresh, control
<1>1. TypeOK'
  BY BoundsAssumption DEF IInv, RemoveCell, TypeOK, Cancelled, Busy, Tasks
<1>2. InRange'
  BY DEF IInv, RemoveCell, InRange, TypeOK, Cancelled, Busy, Tasks
<1>3. OneGroup'
  BY DEF IInv, RemoveCell, OneGroup, In, Preparing, Group, TypeOK, Cancelled, Busy, Tasks
<1>4. Preparing'
  BY DEF IInv, RemoveCell, Preparing, Group, TypeOK, In, Cancelled, Busy, Tasks
<1>5. Training'
  BY DEF IInv, RemoveCell, Training, OneGroup, Preparing, Group, Busy, Tasks, In,
     TypeOK, Cancelled
<1>6. Replicas'
  BY DEF IInv, RemoveCell, Replicas, Between, Stepped, Training, Preparing, Busy, Tasks, In,
     TypeOK, Cancelled
<1> QED BY <1>1, <1>2, <1>3, <1>4, <1>5, <1>6 DEF IInv

\* _reconcile() adds a cell, or replaces one: it is not alive until healed.
LEMMA AddCellKeeps == ASSUME IInv, NEW c \in Cells, AddCell(c) PROVE IInv'
<1> USE DEF vars, cells, refresh, control
<1>1. TypeOK'
  BY BoundsAssumption DEF IInv, AddCell, TypeOK, Cancelled, Busy, Tasks
<1>2. InRange'
  BY DEF IInv, AddCell, InRange, TypeOK, Cancelled, Busy, Tasks
<1>3. OneGroup'
  BY DEF IInv, AddCell, OneGroup, In, Preparing, Group, TypeOK, Cancelled, Busy, Tasks
<1>4. Preparing'
  BY DEF IInv, AddCell, Preparing, Group, TypeOK, In, Cancelled, Busy, Tasks
<1>5. Training'
  BY DEF IInv, AddCell, Training, OneGroup, Preparing, Group, Busy, Tasks, In, TypeOK,
     Cancelled
<1>6. Replicas'
  BY DEF IInv, AddCell, Replicas, Between, Stepped, Training, Preparing, Busy, Tasks, In,
     TypeOK, Cancelled
<1> QED BY <1>1, <1>2, <1>3, <1>4, <1>5, <1>6 DEF IInv

\* A call raises, and mark_errored_and_kill() takes the cell out.
LEMMA CallFailsKeeps == ASSUME IInv, NEW c \in Cells, CallFails(c) PROVE IInv'
<1> USE DEF vars, cells, refresh, control
<1>1. TypeOK'
  <2>1. faults' \in 0..MaxFaults
    BY BoundsAssumption DEF IInv, CallFails, Fault, PeerFailed, TypeOK
  <2>2. cell' \in [Cells -> {"gone", "uninitialized", "alive", "errored"}]
    BY DEF IInv, CallFails, MarkErrored, TypeOK
  <2>3. task' \in [Cells -> {"none", "running", "sending", "ok", "error", "reduced", "discarded", "normal"}]
    BY DEF IInv, CallFails, TypeOK
  <2> QED
    BY <2>1, <2>2, <2>3 DEF IInv, CallFails, TypeOK
<1>2. InRange'
  BY DEF IInv, CallFails, InRange, TypeOK, MarkErrored, Busy, Tasks, Fault
<1>3. OneGroup'
  BY DEF IInv, CallFails, OneGroup, In, Preparing, Group, TypeOK, MarkErrored, Busy,
     Tasks, Fault
<1>4. Preparing'
  BY DEF IInv, CallFails, Preparing, Group, TypeOK, In, MarkErrored, Busy, Tasks, Fault
<1>5. Training'
  BY DEF IInv, CallFails, Training, OneGroup, Preparing, Group, Busy, Tasks, In, TypeOK,
     MarkErrored, Fault
<1>6. Replicas'
  BY DEF IInv, CallFails, Replicas, Between, Stepped, Training, Preparing, Busy, Tasks, In,
     TypeOK, MarkErrored, Fault
<1> QED BY <1>1, <1>2, <1>3, <1>4, <1>5, <1>6 DEF IInv

\* _refresh_cells() keeps the group, or prepares the next one.
LEMMA RefreshKeeps == ASSUME IInv, Refresh PROVE IInv'
<1> USE DEF vars, cells, refresh, control
<1>1. TypeOK'
  <2>1. src' \in Cells /\ received' \in SUBSET healing' /\ healing' \in SUBSET Cells
    BY SomeAlive DEF IInv, Refresh, TypeOK, StartTraining, In, refresh
  <2>2. info' \in [Cells -> [quorum : 0..quorum', members : SUBSET Cells]]
    BY DEF IInv, Refresh, TypeOK, StartTraining, refresh
  <2>3. task' \in [Cells -> {"none", "running", "sending", "ok", "error", "reduced", "discarded", "normal"}]
    BY DEF IInv, Refresh, TypeOK, StartTraining, refresh
  <2>4. /\ called' \in [Cells -> BOOLEAN]
        /\ pc' \in {"idle", "preparing", "training", "trained", "failed"}
    BY DEF IInv, Refresh, TypeOK, StartTraining
  <2> QED
    BY <2>1, <2>2, <2>3, <2>4 DEF IInv, Refresh, TypeOK
<1>2. InRange'
  BY DEF IInv, Refresh, InRange, TypeOK, NeedsReconfigure, WillAlive, StartTraining
<1>3. OneGroup'
  BY DEF IInv, Refresh, OneGroup, In, Preparing, Group, TypeOK, NeedsReconfigure,
     WillAlive, StartTraining
<1>4. Preparing'
  BY DEF IInv, Refresh, Preparing, Group, TypeOK, In, NeedsReconfigure, WillAlive,
     StartTraining
<1>5. Training'
  BY DEF IInv, Refresh, Training, OneGroup, Preparing, Group, Busy, Tasks, In, TypeOK,
     NeedsReconfigure, WillAlive, StartTraining
<1>6. Replicas'
  BY DEF IInv, Refresh, Replicas, Between, Stepped, In, TypeOK, NeedsReconfigure, WillAlive, StartTraining
<1> QED BY <1>1, <1>2, <1>3, <1>4, <1>5, <1>6 DEF IInv

\* A cell that is alive joins the group that is prepared.
LEMMA ReconfigureAliveKeeps == ASSUME IInv, NEW c \in Cells, ReconfigureAlive(c) PROVE IInv'
<1> USE DEF vars, cells, refresh, control
<1>1. TypeOK'
  <2>1. Group \in [quorum : 0..quorum, members : SUBSET Cells]
    BY DEF Group, IInv, TypeOK
  <2>2. info' \in [Cells -> [quorum : 0..quorum, members : SUBSET Cells]]
    BY <2>1 DEF IInv, ReconfigureAlive, TypeOK
  <2> QED
    BY <2>2 DEF IInv, ReconfigureAlive, TypeOK
<1>2. InRange'
  BY DEF IInv, ReconfigureAlive, InRange, TypeOK, Group
<1>3. OneGroup'
  BY DEF IInv, ReconfigureAlive, OneGroup, In, Preparing, Group, TypeOK
<1>4. Preparing'
  <2>1. Group' = Group
    BY DEF Group, IInv, ReconfigureAlive, TypeOK
  <2> QED
    BY <2>1 DEF IInv, ReconfigureAlive, Preparing, TypeOK
<1>5. Training'
  BY DEF IInv, ReconfigureAlive, Training, OneGroup, Preparing, Group, Busy, Tasks, In,
     TypeOK
<1>6. Replicas'
  BY DEF IInv, ReconfigureAlive, Replicas, Between, Stepped, Training, Preparing, Busy,
     Tasks, In, TypeOK, Group
<1> QED BY <1>1, <1>2, <1>3, <1>4, <1>5, <1>6 DEF IInv

\* The state goes from the source, which is alive, to a cell that is healed.
LEMMA SendStateKeeps == ASSUME IInv, NEW c \in Cells, SendState(c) PROVE IInv'
<1> USE DEF vars, cells, refresh, control
<1>1. TypeOK'
  <2>1. c \in healing
    <3>1. Unsent \in SUBSET Nat /\ Unsent # {} /\ c = Min(Unsent)
      BY CellsAssumption DEF IInv, SendState, TypeOK, Unsent
    <3> QED
      BY <3>1, MinIn DEF Unsent
  <2>2. model' \in [Cells -> Seq(1..MaxRollouts)]
    BY DEF IInv, SendState, TypeOK
  <2> QED
    BY <2>1, <2>2 DEF IInv, SendState, TypeOK
<1>2. InRange'
  BY DEF IInv, SendState, InRange, TypeOK, Unsent
<1>3. OneGroup'
  BY DEF IInv, SendState, OneGroup, In, Preparing, Group, TypeOK, Unsent
<1>4. Preparing'
  BY DEF IInv, SendState, Preparing, Group, TypeOK, In, Unsent
<1>5. Training'
  BY DEF IInv, SendState, Training, OneGroup, Preparing, Group, Busy, Tasks, In, TypeOK,
     Unsent
<1>6. Replicas'
  BY DEF IInv, SendState, Replicas, Between, Stepped, Training, Preparing, Busy, Tasks, In,
     TypeOK, Unsent
<1> QED BY <1>1, <1>2, <1>3, <1>4, <1>5, <1>6 DEF IInv

\* The source has sent to all.
LEMMA SendDoneKeeps == ASSUME IInv, SendDone PROVE IInv'
<1> USE DEF vars, cells, refresh, control
<1>1. TypeOK'
  BY DEF IInv, SendDone, TypeOK, Unsent
<1>2. InRange'
  BY DEF IInv, SendDone, InRange, TypeOK, Unsent
<1>3. OneGroup'
  BY DEF IInv, SendDone, OneGroup, In, Preparing, Group, TypeOK, Unsent
<1>4. Preparing'
  BY DEF IInv, SendDone, Preparing, Group, TypeOK, In, Unsent
<1>5. Training'
  BY DEF IInv, SendDone, Training, OneGroup, Preparing, Group, Busy, Tasks, In, TypeOK,
     Unsent
<1>6. Replicas'
  BY DEF IInv, SendDone, Replicas, Between, Stepped, Training, Preparing, Busy, Tasks, In,
     TypeOK, Unsent
<1> QED BY <1>1, <1>2, <1>3, <1>4, <1>5, <1>6 DEF IInv

\* A cell that has received its state is alive and in the group.
LEMMA HealedKeeps == ASSUME IInv, NEW c \in Cells, Healed(c) PROVE IInv'
<1> USE DEF vars, cells, refresh, control
<1>1. TypeOK'
  <2>1. Group \in [quorum : 0..quorum, members : SUBSET Cells]
    BY DEF Group, IInv, TypeOK
  <2>2. info' \in [Cells -> [quorum : 0..quorum, members : SUBSET Cells]]
    BY <2>1 DEF IInv, Healed, TypeOK
  <2> QED
    BY <2>2 DEF IInv, Healed, TypeOK
<1>2. InRange'
  BY DEF IInv, Healed, InRange, TypeOK, Group
<1>3. OneGroup'
  BY DEF IInv, Healed, OneGroup, In, Preparing, Group, TypeOK
<1>4. Preparing'
  <2>1. /\ pc = "preparing" /\ pc' = pc /\ cell' = [cell EXCEPT ![c] = "alive"]
        /\ task' = [task EXCEPT ![c] = "ok"] /\ info' = [info EXCEPT ![c] = Group]
        /\ src' = src /\ healing' = healing
    BY DEF Healed
  <2>2. DOMAIN cell = Cells /\ DOMAIN task = Cells /\ DOMAIN info = Cells
    BY DEF IInv, TypeOK
  <2>3. Group' = Group
    BY DEF IInv, Healed, Group, In, TypeOK
  <2> QED
    BY <2>1, <2>2, <2>3 DEF IInv, Preparing
<1>5. Training'
  BY DEF IInv, Healed, Training, OneGroup, Preparing, Group, Busy, Tasks, In, TypeOK
<1>6. Replicas'
  BY DEF IInv, Healed, Replicas, Between, Stepped, Training, Preparing, Busy, Tasks, In,
     TypeOK, Group
<1> QED BY <1>1, <1>2, <1>3, <1>4, <1>5, <1>6 DEF IInv

\* All calls of a preparation have returned: whoever is alive has the group.
LEMMA PreparedKeeps == ASSUME IInv, Prepared PROVE IInv'
<1> USE DEF vars, cells, refresh, control
<1>1. TypeOK'
  <2>1. called' \in [Cells -> BOOLEAN]
    BY DEF IInv, Prepared, Retry, TypeOK, StartTraining
  <2>2. task' \in [Cells -> {"none", "running", "sending", "ok", "error", "reduced", "discarded", "normal"}]
    BY DEF IInv, Prepared, Retry, TypeOK, StartTraining
  <2>3. /\ attempt' \in 1..MaxAttempts
        /\ pc' \in {"idle", "preparing", "training", "trained", "failed"}
    BY BoundsAssumption DEF IInv, Prepared, Retry, TypeOK, StartTraining
  <2> QED
    BY <2>1, <2>2, <2>3 DEF IInv, Prepared, TypeOK
<1>2. InRange'
  BY DEF IInv, Prepared, InRange, TypeOK, Retry, StartTraining, Busy, Tasks
<1>3. OneGroup'
  <2>1. ASSUME NEW c \in Cells, cell[c] = "alive" PROVE info[c] = Group /\ c \in Group.members
    BY <2>1 DEF IInv, Prepared, Preparing, Busy, Tasks, Group
  <2> QED
    BY <2>1 DEF Prepared, OneGroup, In
<1>4. Preparing'
  BY DEF IInv, Prepared, Preparing, Group, TypeOK, In, Retry, StartTraining, Busy, Tasks
<1>5. Training'
  BY DEF IInv, Prepared, Training, OneGroup, Preparing, Group, Busy, Tasks, In, TypeOK,
     Retry, StartTraining
<1>6. Replicas'
  BY DEF IInv, Prepared, Replicas, Between, Stepped, Training, Preparing, Busy, Tasks, In,
     TypeOK, Retry, StartTraining
<1> QED BY <1>1, <1>2, <1>3, <1>4, <1>5, <1>6 DEF IInv

\* The all-reduce needs every member, and succeeds on some of them.
LEMMA AllreduceKeeps ==
    ASSUME IInv, NEW c \in Cells, NEW ok \in SUBSET Cells, Allreduce(c, ok)
    PROVE  IInv'
<1> USE DEF vars, cells, refresh, control
<1>1. TypeOK'
  <2>1. task' \in [Cells -> {"none", "running", "sending", "ok", "error", "reduced", "discarded", "normal"}]
    BY DEF IInv, Allreduce, TypeOK
  <2>2. faults' \in 0..MaxFaults
    BY BoundsAssumption DEF IInv, Allreduce, TypeOK, Fault
  <2> QED
    BY <2>1, <2>2 DEF IInv, Allreduce, TypeOK
<1>2. InRange'
  BY DEF IInv, Allreduce, InRange, TypeOK, Complete, Fault
<1>3. OneGroup'
  BY DEF IInv, Allreduce, OneGroup, In, Preparing, Group, TypeOK, Complete, Fault
<1>4. Preparing'
  BY DEF IInv, Allreduce, Preparing, Group, TypeOK, In, Complete, Fault
<1>5. Training'
  BY DEF IInv, Allreduce, Training, OneGroup, Preparing, Group, Busy, Tasks, In, TypeOK,
     Complete, Fault
<1>6. Replicas'
  BY DEF IInv, Allreduce, Replicas, Between, Stepped, Training, Preparing, Busy, Tasks, In,
     TypeOK, Complete, Fault
<1> QED BY <1>1, <1>2, <1>3, <1>4, <1>5, <1>6 DEF IInv

\* A member is missing: nobody of the group can have reduced.
LEMMA AllreduceFailsKeeps == ASSUME IInv, NEW c \in Cells, AllreduceFails(c) PROVE IInv'
<1> USE DEF vars, cells, refresh, control
<1>1. TypeOK'
  BY DEF IInv, AllreduceFails, TypeOK
<1>2. InRange'
  BY DEF IInv, AllreduceFails, InRange, TypeOK
<1>3. OneGroup'
  BY DEF IInv, AllreduceFails, OneGroup, In, Preparing, Group, TypeOK
<1>4. Preparing'
  BY DEF IInv, AllreduceFails, Preparing, Group, TypeOK, In
<1>5. Training'
  BY DEF IInv, AllreduceFails, Training, OneGroup, Preparing, Group, Busy, Tasks, In, TypeOK
<1>6. Replicas'
  BY DEF IInv, AllreduceFails, Replicas, Between, Stepped, Training, Preparing, Busy, Tasks,
     In, TypeOK
<1> QED BY <1>1, <1>2, <1>3, <1>4, <1>5, <1>6 DEF IInv

\* The optimizer steps on a replica that had applied the rollouts before.
LEMMA StepOptimizerKeeps == ASSUME IInv, NEW c \in Cells, StepOptimizer(c) PROVE IInv'
<1> USE DEF vars, cells, refresh, control
<1>1. TypeOK'
  <2>1. model' \in [Cells -> Seq(1..MaxRollouts)]
    <3>1. rollout \in 1..MaxRollouts /\ model[c] \in Seq(1..MaxRollouts)
      BY BoundsAssumption DEF IInv, StepOptimizer, TypeOK, InRange
    <3>2. Append(model[c], rollout) \in Seq(1..MaxRollouts)
      BY <3>1, AppendProperties
    <3> QED
      BY <3>2 DEF IInv, StepOptimizer, TypeOK
  <2> QED
    BY <2>1 DEF IInv, StepOptimizer, TypeOK
<1>2. InRange'
  BY DEF IInv, StepOptimizer, InRange, TypeOK
<1>3. OneGroup'
  BY DEF IInv, StepOptimizer, OneGroup, In, Preparing, Group, TypeOK
<1>4. Preparing'
  BY DEF IInv, StepOptimizer, Preparing, Group, TypeOK, In
<1>5. Training'
  BY DEF IInv, StepOptimizer, Training, OneGroup, Preparing, Group, Busy, Tasks, In, TypeOK
<1>6. Replicas'
  <2>1. Holds(Append(model[c], rollout), rollout, split)
    <3>1. rollout \in Nat \ {0} /\ model[c] \in Seq(Nat)
      BY BoundsAssumption DEF IInv, TypeOK
    <3>2. cell[c] = "alive" /\ pc = "training" /\ task[c] = "reduced"
      BY DEF IInv, StepOptimizer, Training, Busy, Tasks
    <3>3. Between(model[c])
      BY <3>2 DEF IInv, Replicas, Stepped
    <3> QED
      BY <3>1, <3>3, HoldsNext DEF Between
  <2>2. model'[c] = Append(model[c], rollout) /\ task'[c] = "normal" /\ pc' = "training"
    BY DEF IInv, StepOptimizer, TypeOK
  <2>3. \A d \in Cells \ {c} : model'[d] = model[d] /\ task'[d] = task[d]
    BY DEF IInv, StepOptimizer, TypeOK
  <2> QED
    BY <2>1, <2>2, <2>3 DEF IInv, StepOptimizer, Replicas, Between, Stepped
<1> QED BY <1>1, <1>2, <1>3, <1>4, <1>5, <1>6 DEF IInv

\* _check_train_one_attempt(): the next rollout when all have stepped, another
\* attempt when some have discarded, and then the rollout may be repeated.
LEMMA CheckAttemptKeeps == ASSUME IInv, CheckAttempt PROVE IInv'
<1> USE DEF vars, cells, refresh, control
<1>1. TypeOK'
  <2>1. rollout' \in 1..(MaxRollouts + 1)
    BY BoundsAssumption DEF IInv, CheckAttempt, Retry, TypeOK, InRange
  <2>2. /\ attempt' \in 1..MaxAttempts
        /\ pc' \in {"idle", "preparing", "training", "trained", "failed"}
    BY BoundsAssumption DEF IInv, CheckAttempt, Retry, TypeOK
  <2>3. split' \subseteq 1..MaxRollouts
    BY BoundsAssumption DEF IInv, CheckAttempt, NoteSplit, TypeOK, InRange
  <2> QED
    BY <2>1, <2>2, <2>3 DEF IInv, CheckAttempt, TypeOK
<1>2. InRange'
  <2>1. split' \subseteq split \cup {rollout}
    BY DEF CheckAttempt, NoteSplit
  <2>2. rollout \in Nat /\ (\A r \in split : r \in Nat)
    BY DEF IInv, TypeOK
  <2>3. \/ pc' = "trained" /\ rollout' = rollout + 1
        \/ pc' \in {"idle", "failed"} /\ rollout' = rollout
    BY DEF CheckAttempt, Retry
  <2>4. \A r \in split : r <= rollout
    BY DEF IInv, InRange, CheckAttempt
  <2> QED
    BY <2>1, <2>2, <2>3, <2>4 DEF InRange
<1>3. OneGroup'
  BY DEF IInv, CheckAttempt, OneGroup, In, Preparing, Group, TypeOK, Retry, Busy, Tasks
<1>4. Preparing'
  BY DEF IInv, CheckAttempt, Preparing, Group, TypeOK, In, Retry, Busy, Tasks
<1>5. Training'
  BY DEF IInv, CheckAttempt, Training, OneGroup, Preparing, Group, Busy, Tasks, In,
     TypeOK, Retry
<1>6. Replicas'
  <2>1. SUFFICES ASSUME pc' # "failed", NEW c \in Cells, cell'[c] = "alive"
                 PROVE  Between(model[c])'
    BY DEF CheckAttempt, Retry, Replicas, Stepped
  <2>2. /\ pc = "training" /\ Busy = {} /\ cell[c] = "alive" /\ model' = model
        /\ \/ rollout' = rollout /\ (Tasks("normal") = {} \/ Tasks("discarded") # {})
           \/ rollout' = rollout + 1 /\ Tasks("discarded") = {}
    BY <2>1 DEF CheckAttempt, Retry
  <2>3. task[c] \in {"normal", "discarded"}
    BY <2>2 DEF IInv, Training, Busy, Tasks
  <2>4. split \subseteq split' /\ (Tasks("normal") # {} /\ Tasks("discarded") # {} => rollout \in split')
    BY DEF CheckAttempt, NoteSplit
  <2>5. CASE task[c] = "discarded"
    <3>1. rollout' = rollout
      BY <2>2, <2>5 DEF Tasks
    <3>2. Between(model[c])
      BY <2>2, <2>5 DEF IInv, Replicas, Stepped
    <3> QED
      BY <2>2, <2>4, <3>1, <3>2, HoldsMore DEF Between
  <2>6. CASE task[c] = "normal"
    <3>1. Holds(model[c], rollout, split) /\ rollout \in Nat /\ c \in Tasks("normal")
      BY <2>2, <2>6 DEF IInv, Replicas, Stepped, TypeOK, Tasks
    <3>2. Holds(model[c], rollout, split')
      BY <2>4, <3>1, HoldsMore
    <3>3. CASE rollout' = rollout
      <4>1. rollout \in split'
        BY <2>2, <2>4, <3>1, <3>3
      <4> QED
        BY <2>2, <3>2, <3>3, <4>1 DEF Between
    <3>4. CASE rollout' = rollout + 1
      <4>1. rollout' - 1 = rollout
        BY <3>1, <3>4
      <4> QED
        BY <2>2, <3>2, <4>1 DEF Between
    <3> QED
      BY <2>2, <3>3, <3>4
  <2> QED
    BY <2>3, <2>5, <2>6
<1> QED BY <1>1, <1>2, <1>3, <1>4, <1>5, <1>6 DEF IInv

\* The save ends, or there is none.
LEMMA SkipSaveKeeps == ASSUME IInv, SkipSave PROVE IInv'
<1> USE DEF vars, cells, refresh, control
<1>1. TypeOK'
  BY BoundsAssumption DEF IInv, SkipSave, TypeOK
<1>2. InRange'
  BY DEF IInv, SkipSave, InRange, TypeOK
<1>3. OneGroup'
  BY DEF IInv, SkipSave, OneGroup, In, Preparing, Group, TypeOK
<1>4. Preparing'
  BY DEF IInv, SkipSave, Preparing, Group, TypeOK, In
<1>5. Training'
  BY DEF IInv, SkipSave, Training, OneGroup, Preparing, Group, Busy, Tasks, In, TypeOK
<1>6. Replicas'
  BY DEF IInv, SkipSave, Replicas, Between, Stepped, Training, Preparing, Busy, Tasks, In,
     TypeOK
<1> QED BY <1>1, <1>2, <1>3, <1>4, <1>5, <1>6 DEF IInv

\* A save fails and takes its cell out.
LEMMA SaveFailsKeeps == ASSUME IInv, SaveFails PROVE IInv'
<1> USE DEF vars, cells, refresh, control
<1>1. TypeOK'
  <2>1. cell' \in [Cells -> {"gone", "uninitialized", "alive", "errored"}]
    BY DEF IInv, SaveFails, MarkErrored, TypeOK
  <2>2. /\ attempt' \in 1..MaxAttempts
        /\ pc' \in {"idle", "preparing", "training", "trained", "failed"} /\ faults' \in 0..MaxFaults
    BY BoundsAssumption DEF IInv, SaveFails, Fault, TypeOK
  <2> QED
    BY <2>1, <2>2 DEF IInv, SaveFails, TypeOK
<1>2. InRange'
  BY DEF IInv, SaveFails, InRange, TypeOK, MarkErrored, Fault
<1>3. OneGroup'
  <2>1. In("alive")' \subseteq In("alive") /\ info' = info /\ pc = "trained"
    BY DEF IInv, SaveFails, MarkErrored, In, TypeOK, cells
  <2> QED
    BY <2>1 DEF IInv, OneGroup
<1>4. Preparing'
  BY DEF IInv, SaveFails, Preparing, Group, TypeOK, In, MarkErrored, Fault
<1>5. Training'
  BY DEF IInv, SaveFails, Training, OneGroup, Preparing, Group, Busy, Tasks, In, TypeOK,
     MarkErrored, Fault
<1>6. Replicas'
  <2>1. /\ In("alive")' \subseteq In("alive") /\ pc = "trained" /\ pc' \in {"trained", "failed"}
        /\ UNCHANGED <<model, rollout, split>>
    BY DEF IInv, SaveFails, MarkErrored, In, TypeOK, cells
  <2> QED
    BY <2>1 DEF IInv, Replicas, Between, Stepped, In, SaveFails
<1> QED BY <1>1, <1>2, <1>3, <1>4, <1>5, <1>6 DEF IInv

\* Every step keeps the invariant.
LEMMA Step == ASSUME IInv, [Next]_vars PROVE IInv'
<1>1. CASE UNCHANGED vars
  BY <1>1 DEF IInv, vars, cells, refresh, control, TypeOK, InRange, OneGroup, Preparing,
     Training, Replicas, Between, Stepped, Group, In, Busy, Tasks
<1>2. CASE Next
  BY <1>2, RemoveCellKeeps, AddCellKeeps, CallFailsKeeps, RefreshKeeps,
     ReconfigureAliveKeeps, SendStateKeeps, SendDoneKeeps,
     HealedKeeps, PreparedKeeps, AllreduceKeeps, AllreduceFailsKeeps, StepOptimizerKeeps, CheckAttemptKeeps, SkipSaveKeeps,
     SaveFailsKeeps DEF Next
<1> QED
  BY <1>1, <1>2

\* The first group is the set of all cells, with empty replicas.
LEMMA InitIInv == Init => IInv
<1> SUFFICES ASSUME Init PROVE IInv
  OBVIOUS
<1>1. Holds(<<>>, 0, {}) /\ <<>> \in Seq(1..MaxRollouts)
  BY EmptySeq DEF Holds, InOrder, Steps
<1>2. Min(Cells) \in Cells
  BY MinIn, CellsAssumption
<1>3. TypeOK
  BY <1>1, <1>2, BoundsAssumption DEF Init, TypeOK
<1>4. InRange /\ OneGroup /\ Preparing /\ Training
  BY DEF Init, InRange, OneGroup, Preparing, Training, In
<1>5. Replicas
  BY <1>1 DEF Init, Replicas, Between, Stepped
<1> QED
  BY <1>3, <1>4, <1>5 DEF IInv

\* What the invariant says of the properties that the runs check.
LEMMA IInvImplies ==
    ASSUME IInv
    PROVE  NoSplitGroup /\ ReplicasAgree /\ AllreduceIsSound
<1>1. NoSplitGroup
  BY DEF IInv, NoSplitGroup, OneGroup, Training, Busy, Tasks, In
<1>2. ReplicasAgree
  <2>1. SUFFICES ASSUME pc = "trained", NEW c \in In("alive") PROVE Holds(model[c], rollout - 1, split)
    BY DEF ReplicasAgree
  <2>2. Between(model[c]) /\ rollout \notin split
    BY <2>1 DEF IInv, Replicas, Stepped, In, InRange, TypeOK
  <2> QED
    BY <2>2 DEF Between
<1>3. CommonBase
  <2>1. SUFFICES ASSUME pc = "training", NEW c \in Tasks("running"), NEW d \in Tasks("running")
                 PROVE  /\ InOrder(model[c], split) /\ InOrder(model[d], split)
                        /\ Steps(model[c]) \ split = Steps(model[d]) \ split
    BY DEF CommonBase
  <2>2. ASSUME NEW e \in Tasks("running")
        PROVE  InOrder(model[e], split) /\ Steps(model[e]) \ split = (1..(rollout - 1)) \ split
    <3>1. e \in Cells /\ cell[e] = "alive" /\ ~Stepped(e)
      BY <2>1 DEF IInv, Training, Busy, Tasks, Stepped
    <3>2. Between(model[e])
      BY <2>1, <3>1 DEF IInv, Replicas
    <3>3. CASE Holds(model[e], rollout - 1, split)
      BY <3>3 DEF Holds
    <3>4. CASE rollout \in split /\ Holds(model[e], rollout, split)
      <4>1. (1..rollout) \ {rollout} = 1..(rollout - 1)
        BY DEF IInv, TypeOK
      <4>2. Steps(model[e]) = 1..rollout /\ InOrder(model[e], split)
        BY <3>4 DEF Holds
      <4> QED
        BY <3>4, <4>1, <4>2
    <3> QED
      BY <3>2, <3>3, <3>4 DEF Between
  <2> QED
    BY <2>2
<1> QED
  BY <1>1, <1>2, <1>3 DEF AllreduceIsSound

\* The inductive invariant: one group between preparations, and the replica of every
\* cell that is alive, before and after an attempt over which the cells were split
\* (_refresh_cells, _check_train_one_attempt, cell.py prepare_indep_dp_mode_*).
THEOREM TrainerGroupInvariant == Spec => []IInv
<1>1. Init => IInv
  BY InitIInv
<1>2. IInv /\ [Next]_vars => IInv'
  BY Step
<1> QED
  BY <1>1, <1>2, PTL DEF Spec

\* No two cells train under different quorums while each believes that the other
\* is a member, whatever fails during _refresh_cells().
THEOREM GroupsNeverSplit == Spec => []NoSplitGroup
<1>1. IInv => NoSplitGroup
  BY IInvImplies
<1> QED
  BY <1>1, TrainerGroupInvariant, PTL

\* When train() has returned, every cell that is alive has applied every rollout in
\* order, and once unless some cells stepped in an attempt that others discarded:
\* whatever the verdicts of the cells, no replica misses a step (cell.py
\* prepare_indep_dp_mode_*, _check_train_one_attempt).
THEOREM ReplicasMissNoStep == Spec => []ReplicasAgree
<1>1. IInv => ReplicasAgree
  BY IInvImplies
<1> QED
  BY <1>1, TrainerGroupInvariant, PTL

\* An all-reduce joins the cells of one group, whose replicas differ at most in how
\* often they applied a rollout over which the cells were split.
THEOREM AllreduceStaysSound == Spec => []AllreduceIsSound
<1>1. IInv => AllreduceIsSound
  BY IInvImplies
<1> QED
  BY <1>1, TrainerGroupInvariant, PTL


(***************************************************************************)
(* The health of the cells.                                                *)
(***************************************************************************)

Ops == [op : {"stop", "start", "scan"}, cell : Cells, gen : Nat, awaited : BOOLEAN]

\* The operations behind the first, and with one more at the end.
LEMMA OpsQueue ==
    ASSUME NEW s \in Seq(Ops)
    PROVE  /\ s # <<>> =>
                 /\ 1 \in DOMAIN s /\ Head(s) = s[1] /\ Head(s) \in Ops /\ Tail(s) \in Seq(Ops)
                 /\ \A i \in DOMAIN Tail(s) : i + 1 \in DOMAIN s /\ Tail(s)[i] = s[i + 1] /\ i + 1 # 1
           /\ \A op \in Ops :
                 /\ Append(s, op) \in Seq(Ops) /\ Append(s, op) # <<>>
                 /\ \A i \in DOMAIN Append(s, op) :
                       \/ i \in DOMAIN s /\ Append(s, op)[i] = s[i]
                       \/ i = Len(s) + 1 /\ i \notin DOMAIN s /\ Append(s, op)[i] = op
                 /\ (s # <<>> => Head(Append(s, op)) = Head(s))
<1>1. ASSUME s # <<>>
      PROVE  /\ 1 \in DOMAIN s /\ Head(s) = s[1] /\ Head(s) \in Ops /\ Tail(s) \in Seq(Ops)
             /\ \A i \in DOMAIN Tail(s) : i + 1 \in DOMAIN s /\ Tail(s)[i] = s[i + 1] /\ i + 1 # 1
  BY <1>1
<1>2. ASSUME NEW op \in Ops
      PROVE  /\ Append(s, op) \in Seq(Ops) /\ Append(s, op) # <<>>
             /\ \A i \in DOMAIN Append(s, op) :
                   \/ i \in DOMAIN s /\ Append(s, op)[i] = s[i]
                   \/ i = Len(s) + 1 /\ i \notin DOMAIN s /\ Append(s, op)[i] = op
             /\ (s # <<>> => Head(Append(s, op)) = Head(s))
  <2>1. /\ Append(s, op) \in Seq(Ops) /\ Len(Append(s, op)) = Len(s) + 1
        /\ Append(s, op)[Len(s) + 1] = op
        /\ \A i \in 1..Len(s) : Append(s, op)[i] = s[i]
    BY AppendProperties
  <2>2. DOMAIN s = 1..Len(s) /\ DOMAIN Append(s, op) = 1..(Len(s) + 1) /\ Len(s) \in Nat
    BY <2>1
  <2>3. Append(s, op) # <<>>
    BY <2>1
  <2>4. s # <<>> => 1 \in 1..Len(s) /\ Head(s) = s[1] /\ Head(Append(s, op)) = Append(s, op)[1]
    BY <2>1
  <2>5. \A i \in DOMAIN Append(s, op) :
           \/ i \in DOMAIN s /\ Append(s, op)[i] = s[i]
           \/ i = Len(s) + 1 /\ i \notin DOMAIN s /\ Append(s, op)[i] = op
    BY <2>1, <2>2
  <2> QED
    BY <2>1, <2>3, <2>4, <2>5
<1> QED
  BY <1>1, <1>2

\* Some cell of a round.
LEMMA FirstOfRound ==
    ASSUME HealthTypeOK, ft.todo # {}
    PROVE  Min(ft.todo) \in ft.todo /\ Min(ft.todo) \in Cells
BY MinIn, CellsAssumption DEF HealthTypeOK

\* Where the incarnations do not change, what is said of them stays.
LEMMA IncarnationsStay ==
    ASSUME HealthIInv, UNCHANGED <<worker, gen, trainerCell, watch>> PROVE Incarnations'
BY DEF HealthIInv, Incarnations

\* The same of the probes,
LEMMA FailuresStay ==
    ASSUME HealthIInv, UNCHANGED <<worker, gen, trainerCell, health>> PROVE FailuresAreBlips'
BY DEF HealthIInv, FailuresAreBlips, health, Current, Up

\* of the scans and the launches,
LEMMA ScansStay ==
    ASSUME HealthIInv, UNCHANGED <<worker, gen, ops>> PROVE ScansAreOfTheDead'
BY DEF HealthIInv, ScansAreOfTheDead, DeadScan

\* of the operation that is waited for,
LEMMA RequestStays ==
    ASSUME HealthIInv, UNCHANGED <<ops, ft, timeouts>> PROVE OneRequest'
BY DEF HealthIInv, OneRequest, Asked

\* and of what the controller found unhealthy.
LEMMA BrokenStay ==
    ASSUME HealthIInv, UNCHANGED <<worker, gen, trainerCell, ft, timeouts>> PROVE UnhealthyAreBroken'
BY DEF HealthIInv, UnhealthyAreBroken, Broken, InRound

\* Workers that go down, with the state of their cell or without: nothing comes up.
LEMMA WorkerDown ==
    ASSUME HealthIInv, NEW c \in Cells, NEW w \in {"stopped", "dead", "hung"},
           worker[c] = "up" \/ w = "stopped",
           worker' = [worker EXCEPT ![c] = w],
           \/ UNCHANGED trainerCell
           \/ trainerCell' = [trainerCell EXCEPT ![c].state = "errored"],
           UNCHANGED <<gen, watch, health>>
    PROVE  Incarnations' /\ FailuresAreBlips'
<1>1. \A d \in Cells : worker'[d] = worker[d] \/ (d = c /\ worker'[d] = w)
  BY DEF HealthIInv, HealthTypeOK
<1>2. \A d \in Cells : /\ trainerCell'[d].hash = trainerCell[d].hash
                       /\ trainerCell'[d].handles = trainerCell[d].handles
                       /\ trainerCell'[d].state \in {trainerCell[d].state, "errored"}
  <2>1. trainerCell \in [Cells -> [hash : Nat, handles : Nat,
                           state : {"none", "uninitialized", "alive", "errored"}]]
    BY DEF HealthIInv, HealthTypeOK
  <2>2. CASE trainerCell' = [trainerCell EXCEPT ![c].state = "errored"]
    BY <2>1, <2>2
  <2> QED
    BY <2>2
<1>3. Incarnations'
  BY <1>1, <1>2 DEF HealthIInv, Incarnations
<1>4. FailuresAreBlips'
  BY <1>1, <1>2 DEF HealthIInv, FailuresAreBlips, Up, Current, health
<1> QED
  BY <1>3, <1>4

\* A dead worker stays down until its cell has another incarnation.
LEMMA DeadStayDead ==
    ASSUME HealthTypeOK, \A d \in Cells :
              \/ gen'[d] = gen[d] /\ (worker[d] \in {"dead", "stopped"} => worker'[d] \in {"dead", "stopped"})
              \/ gen'[d] = gen[d] + 1,
           NEW op \in Ops, DeadScan(op)
    PROVE  DeadScan(op)'
<1>1. op.cell \in Cells /\ op.gen \in Nat /\ gen[op.cell] \in Nat
  BY DEF Ops, HealthTypeOK
<1> QED
  BY <1>1 DEF DeadScan

\* The operations are records of their type.
LEMMA OpsTypes ==
    ASSUME HealthTypeOK
    PROVE  /\ ops \in Seq(Ops) /\ DOMAIN ops = 1..Len(ops) /\ Len(ops) \in Nat
           /\ \A i \in DOMAIN ops : ops[i] \in Ops
<1>1. ops \in Seq(Ops)
  BY DEF HealthTypeOK, Ops
<1> QED
  BY <1>1

\* What a step changes of one worker.
LEMMA WorkerTypes ==
    ASSUME HealthTypeOK, NEW c \in Cells, NEW w \in {"stopped", "launching", "up", "hung", "dead"},
           worker' = [worker EXCEPT ![c] = w]
    PROVE  /\ worker' \in [Cells -> {"stopped", "launching", "up", "hung", "dead"}]
           /\ \A d \in Cells : worker'[d] = IF d = c THEN w ELSE worker[d]
BY DEF HealthTypeOK

\* A worker crashes or hangs.
LEMMA BreakKeeps ==
    ASSUME HealthIInv, NEW c \in Cells, NEW how \in {"dead", "hung"}, Break(c, how) PROVE HealthIInv'
<1> USE DEF manager, trainer, health, controller, bounds, Break, Fault
<1>1. /\ worker' \in [Cells -> {"stopped", "launching", "up", "hung", "dead"}]
      /\ \A d \in Cells : worker'[d] = IF d = c THEN how ELSE worker[d]
      /\ worker[c] = "up" /\ how # "up" /\ how # "launching"
  BY WorkerTypes DEF HealthIInv
<1>2. HealthTypeOK'
  <2>1. faults' \in 0..MaxFaults
    BY ProbesAssumption DEF HealthIInv, HealthTypeOK
  <2> QED
    BY <1>1, <2>1 DEF HealthIInv, HealthTypeOK
<1>3. Incarnations' /\ FailuresAreBlips'
  BY WorkerDown
<1>4. ScansAreOfTheDead'
  <2>1. \A d \in Cells : gen'[d] = gen[d] /\ (worker[d] \in {"dead", "stopped"} => worker'[d] \in {"dead", "stopped"})
    BY <1>1
  <2>2. \A i \in DOMAIN ops : ops[i] \in Ops
    BY OpsTypes DEF HealthIInv
  <2>3. \A i \in DOMAIN ops' : DeadScan(ops[i])'
    BY <2>1, <2>2, DeadStayDead DEF HealthIInv, ScansAreOfTheDead
  <2> QED
    BY <1>1, <2>3 DEF HealthIInv, ScansAreOfTheDead
<1>5. OneRequest'
  BY RequestStays
<1>6. UnhealthyAreBroken'
  BY <1>1 DEF HealthIInv, HealthTypeOK, UnhealthyAreBroken, Broken, InRound
<1> QED
  BY <1>2, <1>3, <1>4, <1>5, <1>6 DEF HealthIInv

\* The scan of dead actors waits for the lock.
LEMMA ScanKeeps == ASSUME HealthIInv, NEW c \in Cells, Scan(c) PROVE HealthIInv'
<1> USE DEF manager, trainer, health, controller, bounds, Scan
<1>1. Op("scan", c) \in Ops /\ ops \in Seq(Ops)
  BY DEF Op, Ops, HealthIInv, HealthTypeOK
<1>2. HealthTypeOK'
  BY <1>1, OpsQueue DEF HealthIInv, HealthTypeOK, Ops
<1>3. Incarnations' /\ FailuresAreBlips' /\ UnhealthyAreBroken'
  BY IncarnationsStay, FailuresStay, BrokenStay
<1>4. ScansAreOfTheDead'
  <2>1. \A i \in DOMAIN ops' : (i \in DOMAIN ops /\ ops'[i] = ops[i]) \/ ops'[i] = Op("scan", c)
    BY <1>1, OpsQueue
  <2>2. gen[c] \in Nat /\ worker[c] = "dead"
    BY DEF HealthIInv, HealthTypeOK
  <2>3. ops' # <<>> /\ (ops # <<>> => Head(ops') = Head(ops))
    BY <1>1, OpsQueue
  <2>4. \A op : DeadScan(op)' <=> DeadScan(op)
    BY DEF DeadScan
  <2>5. DeadScan(Op("scan", c))
    <3>1. /\ Op("scan", c).op = "scan" /\ Op("scan", c).cell = c
          /\ Op("scan", c).gen = gen[c] /\ Op("scan", c).awaited = FALSE
      BY DEF Op
    <3> QED
      BY <2>2, <3>1 DEF DeadScan
  <2>6. \A i \in DOMAIN ops' : DeadScan(ops'[i])
    BY <2>1, <2>5 DEF HealthIInv, ScansAreOfTheDead
  <2>7. (\A i \in DOMAIN ops : DeadScan(ops[i]))'
    BY <2>4, <2>6
  <2> QED
    BY <2>3, <2>7 DEF HealthIInv, ScansAreOfTheDead
<1>5. OneRequest'
  <2>1. ~Op("scan", c).awaited /\ Op("scan", c).op = "scan"
    BY DEF Op
  <2>2. \A op : Asked(op)' <=> Asked(op)
    BY DEF Asked
  <2>3. \A i \in DOMAIN ops' : (i \in DOMAIN ops /\ ops'[i] = ops[i]) \/ ops'[i] = Op("scan", c)
    BY <1>1, OpsQueue
  <2>4. \A i \in DOMAIN ops' : Asked(ops'[i])
    BY <2>1, <2>3 DEF HealthIInv, OneRequest, Asked
  <2>5. (\A i \in DOMAIN ops : Asked(ops[i]))'
    BY <2>2, <2>4
  <2> QED
    BY <2>1, <2>3, <2>5 DEF HealthIInv, OneRequest
<1> QED
  BY <1>2, <1>3, <1>4, <1>5 DEF HealthIInv

\* The first operation ends and the request for it is answered.
LEMMA ReturnTypes ==
    ASSUME HealthTypeOK, ops # <<>>, NEW answer \in {"suspended", "resumed", "failed"}, Return(answer)
    PROVE  /\ ops' \in Seq(Ops) /\ Head(ops) \in Ops /\ Head(ops) = ops[1] /\ 1 \in DOMAIN ops
           /\ \A i \in DOMAIN ops' : i + 1 \in DOMAIN ops /\ ops'[i] = ops[i + 1] /\ i + 1 # 1
           /\ ft' \in [pc : {"idle", "listed", "round", "suspending", "suspended", "resuming", "resumed", "failed"},
                        infos : [Cells -> Nat], unhealthy : SUBSET Cells, todo : SUBSET Cells]
           /\ ft'.todo = ft.todo /\ ft'.infos = ft.infos
           /\ ft'.pc = IF Head(ops).awaited THEN answer ELSE ft.pc
<1>1. ops \in Seq(Ops)
  BY OpsTypes
<1>2. /\ Tail(ops) \in Seq(Ops) /\ Head(ops) \in Ops /\ Head(ops) = ops[1] /\ 1 \in DOMAIN ops
      /\ \A i \in DOMAIN Tail(ops) : i + 1 \in DOMAIN ops /\ Tail(ops)[i] = ops[i + 1] /\ i + 1 # 1
  BY <1>1, OpsQueue
<1>3. ft \in [pc : {"idle", "listed", "round", "suspending", "suspended", "resuming", "resumed", "failed"},
              infos : [Cells -> Nat], unhealthy : SUBSET Cells, todo : SUBSET Cells]
  BY DEF HealthTypeOK
<1> QED
  BY <1>2, <1>3 DEF Return

\* The queue without its first operation.
LEMMA ReturnKeeps ==
    ASSUME HealthIInv, ops # <<>>, NEW answer \in {"suspended", "resumed", "failed"}, Return(answer),
           UNCHANGED timeouts,
           NEW c \in Cells, c = Head(ops).cell, worker'[c] # "launching",
           \A d \in Cells : gen'[d] = gen[d] /\ (worker[d] \in {"dead", "stopped"} => worker'[d] \in {"dead", "stopped"}),
           \A d \in Cells : d # c => worker'[d] = worker[d]
    PROVE  ScansAreOfTheDead' /\ OneRequest'
<1>1. /\ \A i \in DOMAIN ops' : i + 1 \in DOMAIN ops /\ ops'[i] = ops[i + 1] /\ i + 1 # 1
      /\ ft'.todo = ft.todo /\ ft'.pc = IF Head(ops).awaited THEN answer ELSE ft.pc
      /\ Head(ops) = ops[1] /\ 1 \in DOMAIN ops
  BY ReturnTypes DEF HealthIInv
<1>2. \A i \in DOMAIN ops : ops[i] \in Ops /\ DeadScan(ops[i])
  BY OpsTypes DEF HealthIInv, ScansAreOfTheDead
<1>3. \A op \in Ops : DeadScan(op) => DeadScan(op)'
  BY DeadStayDead DEF HealthIInv
<1>4. (\A i \in DOMAIN ops : DeadScan(ops[i]))'
  BY <1>1, <1>2, <1>3
<1>5. \A d \in Cells : worker'[d] # "launching"
  <2>1. SUFFICES ASSUME NEW d \in Cells, worker'[d] = "launching" PROVE FALSE
    OBVIOUS
  <2>2. d # c /\ worker[d] = "launching"
    BY <2>1
  <2> QED
    BY <2>2 DEF HealthIInv, ScansAreOfTheDead
<1>6. ScansAreOfTheDead'
  BY <1>4, <1>5 DEF ScansAreOfTheDead
<1>7. ft'.pc \in {"suspending", "suspended", "resuming", "resumed", "failed"} => ft'.todo # {}
  <2>1. CASE Head(ops).awaited
    <3>1. Asked(ops[1])
      BY <1>1 DEF HealthIInv, OneRequest
    <3>2. ft.pc \in {"suspending", "resuming"}
      BY <1>1, <2>1, <3>1 DEF Asked
    <3> QED
      BY <1>1, <3>2 DEF HealthIInv, OneRequest
  <2> QED
    BY <1>1, <2>1 DEF HealthIInv, OneRequest
<1>8. \A i \in DOMAIN ops' : ops'[i].awaited => ~Head(ops).awaited
  BY <1>1 DEF HealthIInv, OneRequest
<1>9. (\A i \in DOMAIN ops : Asked(ops[i]))'
  <2>1. SUFFICES ASSUME NEW i \in DOMAIN ops', ops'[i].awaited PROVE Asked(ops[i])'
    BY DEF Asked
  <2>2. ft'.pc = ft.pc /\ ft'.todo = ft.todo /\ ops'[i] = ops[i + 1] /\ i + 1 \in DOMAIN ops
    BY <1>1, <1>8, <2>1
  <2>3. Asked(ops[i + 1])
    BY <2>2 DEF HealthIInv, OneRequest
  <2> QED
    BY <2>2, <2>3 DEF Asked
<1>10. \A i, j \in DOMAIN ops' : ops'[i].awaited /\ ops'[j].awaited => i = j
  <2>1. SUFFICES ASSUME NEW i \in DOMAIN ops', NEW j \in DOMAIN ops', ops'[i].awaited, ops'[j].awaited
                 PROVE  i = j
    OBVIOUS
  <2>2. i + 1 = j + 1
    BY <1>1, <2>1 DEF HealthIInv, OneRequest
  <2>3. i \in Nat /\ j \in Nat
    <3>1. ops' \in Seq(Ops)
      BY ReturnTypes DEF HealthIInv
    <3> QED
      BY <3>1
  <2> QED
    BY <2>2, <2>3
<1>11. timeouts' = 0 => \A i \in DOMAIN ops' : ops'[i].op # "scan" => ops'[i].awaited
  BY <1>1 DEF HealthIInv, OneRequest
<1>12. OneRequest'
  BY <1>7, <1>9, <1>10, <1>11 DEF OneRequest
<1> QED
  BY <1>6, <1>12

\* Without a timeout the first operation is one that the controller waits for, or a scan.
LEMMA FirstIsAsked ==
    ASSUME HealthIInv, ops # <<>>
    PROVE  /\ Head(ops) \in Ops /\ Head(ops).cell \in Cells /\ DeadScan(Head(ops))
           /\ Head(ops).awaited =>
                 Head(ops).cell = Min(ft.todo)
                    /\ <<ft.pc, Head(ops).op>> \in {<<"suspending", "stop">>, <<"resuming", "start">>}
           /\ timeouts = 0 /\ Head(ops).op # "scan" => Head(ops).awaited
<1>1. ops \in Seq(Ops)
  BY OpsTypes DEF HealthIInv
<1>2. 1 \in DOMAIN ops /\ Head(ops) = ops[1] /\ Head(ops) \in Ops
  BY <1>1, OpsQueue
<1>3. Asked(ops[1]) /\ DeadScan(ops[1])
  BY <1>2 DEF HealthIInv, OneRequest, ScansAreOfTheDead
<1> QED
  BY <1>2, <1>3 DEF Asked, Ops, HealthIInv, OneRequest

\* stop_cells(), or the scan, stops the actors unless they are others.
LEMMA StopKeeps == ASSUME HealthIInv, Stop PROVE HealthIInv'
<1> USE DEF manager, trainer, health, controller, bounds
<1> DEFINE c == Head(ops).cell
<1>1. /\ ops # <<>> /\ Head(ops).op \in {"stop", "scan"} /\ Return("suspended")
      /\ worker' = IF Stops(Head(ops)) THEN [worker EXCEPT ![c] = "stopped"] ELSE worker
      /\ UNCHANGED <<gen, trainer, health, backoff, bounds>>
  BY DEF Stop
<1>2. c \in Cells
  BY <1>1, FirstIsAsked
<1> HIDE DEF c
<1>3. /\ worker' \in [Cells -> {"stopped", "launching", "up", "hung", "dead"}]
      /\ \A d \in Cells : worker'[d] = worker[d] \/ (d = c /\ worker'[d] = "stopped")
  BY <1>1, <1>2 DEF HealthIInv, HealthTypeOK
<1>4. HealthTypeOK'
  BY <1>1, <1>3, ReturnTypes DEF HealthIInv, HealthTypeOK, Ops
<1>5. Incarnations' /\ FailuresAreBlips'
  <2>1. CASE worker' = [worker EXCEPT ![c] = "stopped"]
    BY <1>1, <1>2, <2>1, WorkerDown
  <2>2. CASE worker' = worker
    BY <1>1, <2>2, IncarnationsStay, FailuresStay
  <2> QED
    BY <1>1, <2>1, <2>2 DEF c
<1>6. worker'[c] # "launching"
  <2>1. worker[c] # "launching"
    BY <1>1, <1>2 DEF HealthIInv, ScansAreOfTheDead
  <2> QED
    BY <1>2, <1>3, <2>1
<1>7. ScansAreOfTheDead' /\ OneRequest'
  <2>1. \A d \in Cells : d # c => worker'[d] = worker[d]
    BY <1>3
  <2>2. \A d \in Cells : gen'[d] = gen[d] /\ (worker[d] \in {"dead", "stopped"} => worker'[d] \in {"dead", "stopped"})
    BY <1>1, <1>3
  <2> QED
    BY <1>1, <1>2, <1>6, <2>1, <2>2, ReturnKeeps DEF c
<1>8. UnhealthyAreBroken'
  <2>1. ft'.todo = ft.todo /\ ft'.infos = ft.infos /\ ft'.pc = IF Head(ops).awaited THEN "suspended" ELSE ft.pc
    BY <1>1, ReturnTypes DEF HealthIInv
  <2>2. Head(ops).awaited => ft.pc = "suspending"
    BY <1>1, FirstIsAsked
  <2>3. InRound' = InRound
    BY <2>1, <2>2 DEF InRound
  <2>4. \A d \in Cells : Broken(d) => Broken(d)'
    BY <1>1, <1>3 DEF Broken
  <2>5. InRound \subseteq Cells
    BY DEF InRound, HealthIInv, HealthTypeOK
  <2>6. ft'.pc = "listed" => ft.pc = "listed"
    BY <2>1
  <2> QED
    BY <1>1, <1>3, <2>1, <2>3, <2>4, <2>5, <2>6 DEF HealthIInv, UnhealthyAreBroken
<1> QED
  BY <1>4, <1>5, <1>7, <1>8 DEF HealthIInv

\* launch_actors(): another incarnation.
LEMMA LaunchKeeps == ASSUME HealthIInv, Launch PROVE HealthIInv'
<1> USE DEF manager, trainer, health, controller, bounds
<1> DEFINE c == Head(ops).cell
<1>1. /\ ops # <<>> /\ Head(ops).op = "start" /\ worker[c] = "stopped"
      /\ worker' = [worker EXCEPT ![c] = "launching"] /\ gen' = [gen EXCEPT ![c] = gen[c] + 1]
      /\ UNCHANGED <<ops, trainer, health, controller, bounds>>
  BY DEF Launch
<1>2. c \in Cells /\ (timeouts = 0 => c = Min(ft.todo) /\ ft.pc = "resuming")
  BY <1>1, FirstIsAsked
<1>3. /\ worker' \in [Cells -> {"stopped", "launching", "up", "hung", "dead"}]
      /\ \A d \in Cells : worker'[d] = IF d = c THEN "launching" ELSE worker[d]
  BY <1>1, <1>2, WorkerTypes DEF HealthIInv
<1>4. /\ gen' \in [Cells -> Nat \ {0}]
      /\ \A d \in Cells : gen[d] \in Nat /\ gen'[d] = IF d = c THEN gen[d] + 1 ELSE gen[d]
  <2>1. gen \in [Cells -> Nat \ {0}]
    BY DEF HealthIInv, HealthTypeOK
  <2> HIDE DEF c
  <2>2. gen[c] \in Nat
    BY <1>2, <2>1
  <2>3. gen[c] + 1 \in Nat \ {0}
    BY <2>2
  <2> QED
    BY <1>1, <1>2, <2>1, <2>2, <2>3
<1>5. HealthTypeOK'
  BY <1>1, <1>3, <1>4 DEF HealthIInv, HealthTypeOK
<1>6. Incarnations'
  <2>1. \A d \in Cells : /\ trainerCell[d].hash \in Nat /\ trainerCell[d].handles \in Nat
                         /\ watch.listed[d] \in Nat
    BY DEF HealthIInv, HealthTypeOK
  <2> QED
    BY <1>1, <1>3, <1>4, <2>1 DEF HealthIInv, Incarnations
<1>7. FailuresAreBlips'
  BY <1>1, <1>3, <1>4 DEF HealthIInv, FailuresAreBlips, Up, Current
<1>8. ScansAreOfTheDead'
  <2>1. \A d \in Cells :
           \/ gen'[d] = gen[d] /\ (worker[d] \in {"dead", "stopped"} => worker'[d] \in {"dead", "stopped"})
           \/ gen'[d] = gen[d] + 1
    BY <1>3, <1>4
  <2>2. \A i \in DOMAIN ops : ops[i] \in Ops
    BY OpsTypes DEF HealthIInv
  <2>3. (\A i \in DOMAIN ops : DeadScan(ops[i]))'
    BY <1>1, <2>1, <2>2, DeadStayDead DEF HealthIInv, ScansAreOfTheDead
  <2> QED
    BY <1>1, <1>3, <2>3 DEF HealthIInv, ScansAreOfTheDead
<1>9. OneRequest'
  BY <1>1, RequestStays
<1>10. UnhealthyAreBroken'
  BY <1>1, <1>2, <1>3, <1>4 DEF HealthIInv, UnhealthyAreBroken, Broken, InRound
<1> QED
  BY <1>5, <1>6, <1>7, <1>8, <1>9, <1>10 DEF HealthIInv

\* The workers that were launched are up; no handle calls them yet.
LEMMA StartedKeeps == ASSUME HealthIInv, Started PROVE HealthIInv'
<1> USE DEF manager, trainer, health, controller, bounds
<1> DEFINE c == Head(ops).cell
           w == IF worker[c] = "launching" THEN "up" ELSE worker[c]
<1>1. /\ ops # <<>> /\ Head(ops).op = "start" /\ worker[c] # "stopped"
      /\ worker' = [worker EXCEPT ![c] = w] /\ Return("resumed")
      /\ UNCHANGED <<gen, trainer, health, backoff, bounds>>
  BY DEF Started
<1>2. /\ c \in Cells /\ (timeouts = 0 => Head(ops).awaited)
      /\ Head(ops).awaited => c = Min(ft.todo) /\ ft.pc = "resuming"
  BY <1>1, FirstIsAsked
<1>3. /\ worker' \in [Cells -> {"stopped", "launching", "up", "hung", "dead"}]
      /\ \A d \in Cells : worker'[d] = IF d = c THEN w ELSE worker[d]
  <2>1. worker[c] \in {"stopped", "launching", "up", "hung", "dead"}
    BY <1>2 DEF HealthIInv, HealthTypeOK
  <2>2. w \in {"stopped", "launching", "up", "hung", "dead"} /\ worker' = [worker EXCEPT ![c] = w]
    BY <1>1, <2>1
  <2> HIDE DEF c, w
  <2> QED
    BY <1>2, <2>2, WorkerTypes DEF HealthIInv
<1>4. HealthTypeOK'
  BY <1>1, <1>3, ReturnTypes DEF HealthIInv, HealthTypeOK, Ops
<1>5. Incarnations'
  BY <1>1, <1>3 DEF HealthIInv, Incarnations
<1>6. FailuresAreBlips'
  <2>1. \A d \in Cells : Up(d)' => Up(d)
    <3>1. \A d \in Cells : worker[d] = "launching" =>
             trainerCell[d].handles < gen[d] /\ gen[d] \in Nat /\ trainerCell[d].handles \in Nat
      BY DEF HealthIInv, Incarnations, HealthTypeOK
    <3> QED
      BY <1>1, <1>3, <3>1 DEF Up
  <2> QED
    BY <1>1, <2>1 DEF HealthIInv, FailuresAreBlips, Current
<1>7. ScansAreOfTheDead' /\ OneRequest'
  <2>1. \A d \in Cells : d # c => worker'[d] = worker[d]
    BY <1>3
  <2>2. \A d \in Cells : gen'[d] = gen[d] /\ (worker[d] \in {"dead", "stopped"} => worker'[d] \in {"dead", "stopped"})
    BY <1>1, <1>3
  <2>3. worker'[c] # "launching" /\ UNCHANGED timeouts
    BY <1>1, <1>2, <1>3
  <2> HIDE DEF w
  <2> QED
    BY <1>1, <1>2, <2>1, <2>2, <2>3, ReturnKeeps
<1>8. UnhealthyAreBroken'
  <2>1. ft'.todo = ft.todo /\ ft'.infos = ft.infos /\ ft'.pc = IF Head(ops).awaited THEN "resumed" ELSE ft.pc
    BY <1>1, ReturnTypes DEF HealthIInv
  <2>2. timeouts = 0 => InRound' = InRound /\ c \notin InRound /\ ft'.pc # "listed"
    BY <1>2, <2>1 DEF InRound
  <2>3. \A d \in Cells : d # c /\ Broken(d) => Broken(d)'
    BY <1>1, <1>3 DEF Broken
  <2>4. InRound \subseteq Cells
    BY DEF InRound, HealthIInv, HealthTypeOK
  <2> QED
    BY <1>1, <2>2, <2>3, <2>4 DEF HealthIInv, UnhealthyAreBroken
<1> QED
  BY <1>4, <1>5, <1>6, <1>7, <1>8 DEF HealthIInv

\* The start is rolled back.
LEMMA StartFailsKeeps == ASSUME HealthIInv, StartFails PROVE HealthIInv'
<1> USE DEF manager, trainer, health, controller, bounds
<1> DEFINE c == Head(ops).cell
<1>1. /\ ops # <<>> /\ Head(ops).op = "start" /\ worker[c] = "launching" /\ Fault
      /\ worker' = [worker EXCEPT ![c] = "stopped"] /\ Return("failed")
      /\ UNCHANGED <<gen, trainer, health, backoff, timeouts>>
  BY DEF StartFails
<1>2. /\ c \in Cells /\ (timeouts = 0 => Head(ops).awaited)
      /\ Head(ops).awaited => c = Min(ft.todo) /\ ft.pc = "resuming"
  BY <1>1, FirstIsAsked
<1>3. /\ worker' \in [Cells -> {"stopped", "launching", "up", "hung", "dead"}]
      /\ \A d \in Cells : worker'[d] = IF d = c THEN "stopped" ELSE worker[d]
  BY <1>1, <1>2, WorkerTypes DEF HealthIInv
<1>4. HealthTypeOK'
  <2>1. faults' \in 0..MaxFaults
    <3>1. faults < MaxFaults /\ faults' = faults + 1 /\ faults \in 0..MaxFaults
      BY <1>1 DEF HealthIInv, HealthTypeOK, Fault
    <3> QED
      BY <3>1, ProbesAssumption
  <2> QED
    BY <1>1, <1>3, <2>1, ReturnTypes DEF HealthIInv, HealthTypeOK, Ops
<1>5. Incarnations' /\ FailuresAreBlips'
  BY <1>1, <1>2, WorkerDown
<1>6. ScansAreOfTheDead' /\ OneRequest'
  <2>1. \A d \in Cells : d # c => worker'[d] = worker[d]
    BY <1>3
  <2>2. \A d \in Cells : gen'[d] = gen[d] /\ (worker[d] \in {"dead", "stopped"} => worker'[d] \in {"dead", "stopped"})
    BY <1>1, <1>3
  <2>3. worker'[c] # "launching" /\ UNCHANGED timeouts
    BY <1>1, <1>2, <1>3
  <2> QED
    BY <1>1, <1>2, <2>1, <2>2, <2>3, ReturnKeeps
<1>7. UnhealthyAreBroken'
  <2>1. ft'.todo = ft.todo /\ ft'.infos = ft.infos /\ ft'.pc = IF Head(ops).awaited THEN "failed" ELSE ft.pc
    BY <1>1, ReturnTypes DEF HealthIInv
  <2>2. timeouts = 0 => InRound' = InRound /\ ft'.pc # "listed"
    BY <1>2, <2>1 DEF InRound
  <2>3. \A d \in Cells : Broken(d) => Broken(d)'
    BY <1>1, <1>3 DEF Broken
  <2>4. InRound \subseteq Cells
    BY DEF InRound, HealthIInv, HealthTypeOK
  <2> QED
    BY <1>1, <2>2, <2>3, <2>4 DEF HealthIInv, UnhealthyAreBroken
<1> QED
  BY <1>4, <1>5, <1>6, <1>7 DEF HealthIInv

\* The watcher lists the cells that are alive.
LEMMA ListKeeps == ASSUME HealthIInv, List PROVE HealthIInv'
<1> USE DEF manager, trainer, health, controller, bounds
<1>1. /\ watch'.seen = watch.seen /\ watch'.todo \in SUBSET Cells /\ watch'.listed \in [Cells -> Nat]
      /\ watch' \in [seen : [Cells -> Nat], listed : [Cells -> Nat], todo : SUBSET Cells]
      /\ \A c \in Cells : watch'.listed[c] = Listed(c)
      /\ UNCHANGED <<manager, trainerCell, health, controller, bounds>>
  BY DEF HealthIInv, HealthTypeOK, List, Listed
<1>2. HealthTypeOK'
  BY <1>1 DEF HealthIInv, HealthTypeOK
<1>3. Incarnations'
  BY <1>1 DEF HealthIInv, HealthTypeOK, Incarnations, Listed
<1>4. FailuresAreBlips' /\ ScansAreOfTheDead' /\ OneRequest' /\ UnhealthyAreBroken'
  BY <1>1, FailuresStay, ScansStay, RequestStays, BrokenStay
<1> QED
  BY <1>2, <1>3, <1>4 DEF HealthIInv

CellRecord == [hash : Nat, handles : Nat, state : {"none", "uninitialized", "alive", "errored"}]
CheckerRecord ==
    [at : {"off", "asleep", "probing"}, active : BOOLEAN, epoch : 0..MaxEpochs, firstWait : BOOLEAN,
     failures : 0..Threshold, status : {"unknown", "true", "false"}]

\* _reconcile(): the cell is left alone, gone, or made anew of what was listed.
LEMMA ReconcileIs ==
    ASSUME HealthIInv, NEW c \in Cells, Reconcile(c)
    PROVE  /\ c \in watch.todo /\ UNCHANGED <<manager, activity, blips, controller, bounds>>
           /\ watch' \in [seen : [Cells -> Nat], listed : [Cells -> Nat], todo : SUBSET Cells]
           /\ watch'.listed = watch.listed /\ watch'.todo = watch.todo \ {c}
           /\ trainerCell' \in [Cells -> CellRecord] /\ checker' \in [Cells -> CheckerRecord]
           /\ \A d \in Cells : d # c => trainerCell'[d] = trainerCell[d] /\ checker'[d] = checker[d]
           /\ \/ /\ trainerCell'[c] = trainerCell[c] /\ checker'[c] = checker[c]
                 /\ watch.listed[c] # 0 /\ watch.listed[c] = trainerCell[c].hash
              \/ /\ watch.listed[c] = 0 \/ watch.listed[c] # trainerCell[c].hash
                 /\ checker'[c] = CheckerOff
                 /\ \/ trainerCell'[c] = NoCell
                    \/ /\ worker[c] \notin {"stopped", "launching"}
                       /\ trainerCell'[c] = [hash |-> watch.listed[c], handles |-> gen[c], state |-> "uninitialized"]
<1> DEFINE listed == watch.listed[c]
           added == listed # 0 /\ listed # trainerCell[c].hash
           made == added /\ Listed(c) # 0
           new == IF made THEN [hash |-> listed, handles |-> gen[c], state |-> "uninitialized"]
                  ELSE IF added \/ listed = 0 THEN NoCell ELSE trainerCell[c]
           off == IF added \/ listed = 0 THEN CheckerOff ELSE checker[c]
           seen == IF added /\ ~made THEN watch.seen[c] ELSE listed
<1>1. /\ watch.todo # {} /\ c = Min(watch.todo)
      /\ trainerCell' = [trainerCell EXCEPT ![c] = new]
      /\ checker' = [checker EXCEPT ![c] = off]
      /\ watch' = [watch EXCEPT !.todo = watch.todo \ {c}, !.seen[c] = seen]
      /\ UNCHANGED <<manager, activity, blips, controller, bounds>>
  BY DEF Reconcile
<1>2. /\ listed \in Nat /\ gen[c] \in Nat \ {0} /\ watch.seen[c] \in Nat
      /\ watch \in [seen : [Cells -> Nat], listed : [Cells -> Nat], todo : SUBSET Cells]
      /\ trainerCell \in [Cells -> CellRecord] /\ checker \in [Cells -> CheckerRecord]
  BY DEF HealthIInv, HealthTypeOK, CellRecord, CheckerRecord
<1>3. CheckerOff \in CheckerRecord /\ NoCell \in CellRecord
  <2>1. 0 \in 0..MaxEpochs /\ 0 \in 0..Threshold
    BY ProbesAssumption
  <2>2. NewChecker \in CheckerRecord
    BY <2>1 DEF NewChecker, CheckerRecord
  <2> QED
    BY <2>2 DEF CheckerOff, CheckerRecord, NoCell, CellRecord
<1>4. new \in CellRecord /\ off \in CheckerRecord /\ seen \in Nat
  BY <1>2, <1>3 DEF CellRecord
<1>5. Listed(c) # 0 => worker[c] \notin {"stopped", "launching"}
  BY DEF Listed
<1>6. /\ \/ new = trainerCell[c] /\ off = checker[c] /\ listed # 0 /\ listed = trainerCell[c].hash
         \/ /\ listed = 0 \/ listed # trainerCell[c].hash
            /\ off = CheckerOff
            /\ \/ new = NoCell
               \/ /\ worker[c] \notin {"stopped", "launching"}
                  /\ new = [hash |-> listed, handles |-> gen[c], state |-> "uninitialized"]
  BY <1>5
<1>7. c \in watch.todo
  BY <1>1, <1>2, MinIn, CellsAssumption
<1> HIDE DEF new, off, seen, listed
<1>8. /\ trainerCell' \in [Cells -> CellRecord] /\ checker' \in [Cells -> CheckerRecord]
      /\ trainerCell'[c] = new /\ checker'[c] = off
      /\ \A d \in Cells : d # c => trainerCell'[d] = trainerCell[d] /\ checker'[d] = checker[d]
  BY <1>1, <1>2, <1>4
<1>9. /\ watch' \in [seen : [Cells -> Nat], listed : [Cells -> Nat], todo : SUBSET Cells]
      /\ watch'.listed = watch.listed /\ watch'.todo = watch.todo \ {c}
  BY <1>1, <1>2, <1>4
<1> QED
  BY <1>1, <1>6, <1>7, <1>8, <1>9 DEF listed

\* A cell is replaced only after another incarnation, or none, was listed.
LEMMA ReconcileKeeps == ASSUME HealthIInv, NEW c \in Cells, Reconcile(c) PROVE HealthIInv'
<1> USE DEF manager, trainer, health, controller, bounds
<1>1. /\ c \in watch.todo /\ UNCHANGED <<manager, activity, blips, controller, bounds>>
      /\ watch' \in [seen : [Cells -> Nat], listed : [Cells -> Nat], todo : SUBSET Cells]
      /\ watch'.listed = watch.listed /\ watch'.todo = watch.todo \ {c}
      /\ trainerCell' \in [Cells -> CellRecord] /\ checker' \in [Cells -> CheckerRecord]
      /\ \A d \in Cells : d # c => trainerCell'[d] = trainerCell[d] /\ checker'[d] = checker[d]
      /\ \/ /\ trainerCell'[c] = trainerCell[c] /\ checker'[c] = checker[c]
            /\ watch.listed[c] # 0 /\ watch.listed[c] = trainerCell[c].hash
         \/ /\ watch.listed[c] = 0 \/ watch.listed[c] # trainerCell[c].hash
            /\ checker'[c] = CheckerOff
            /\ \/ trainerCell'[c] = NoCell
               \/ /\ worker[c] \notin {"stopped", "launching"}
                  /\ trainerCell'[c] = [hash |-> watch.listed[c], handles |-> gen[c], state |-> "uninitialized"]
  BY ReconcileIs
<1>2. /\ \A d \in Cells : gen[d] \in Nat \ {0} /\ watch.listed[d] \in Nat
      /\ \A d \in Cells : trainerCell[d].hash \in Nat /\ trainerCell[d].handles \in Nat
  BY DEF HealthIInv, HealthTypeOK
<1>3. HealthTypeOK'
  BY <1>1 DEF HealthIInv, HealthTypeOK, CellRecord, CheckerRecord
<1>4. Incarnations'
  <2>1. ASSUME NEW d \in Cells
        PROVE  /\ trainerCell'[d].hash <= trainerCell'[d].handles /\ trainerCell'[d].handles <= gen[d]
               /\ watch.listed[d] <= gen[d]
               /\ worker[d] = "launching" => trainerCell'[d].handles < gen[d]
    <3>1. /\ trainerCell[d].hash <= trainerCell[d].handles /\ trainerCell[d].handles <= gen[d]
          /\ watch.listed[d] <= gen[d]
          /\ worker[d] = "launching" => trainerCell[d].handles < gen[d]
      BY DEF HealthIInv, Incarnations
    <3>2. CASE trainerCell'[d] = trainerCell[d]
      BY <3>1, <3>2
    <3>3. CASE d = c /\ trainerCell'[c] = NoCell
      BY <1>2, <3>1, <3>3 DEF NoCell
    <3>4. CASE /\ d = c /\ worker[c] \notin {"stopped", "launching"}
               /\ trainerCell'[c] = [hash |-> watch.listed[c], handles |-> gen[c], state |-> "uninitialized"]
      BY <1>2, <3>1, <3>4
    <3> QED
      BY <1>1, <3>2, <3>3, <3>4
  <2>2. \A d \in watch'.todo : d # c /\ d \in watch.todo /\ d \in Cells
    BY <1>1 DEF HealthIInv, HealthTypeOK
  <2> QED
    BY <1>1, <2>1, <2>2 DEF HealthIInv, Incarnations
<1>5. FailuresAreBlips'
  <2>1. ASSUME NEW d \in Cells
        PROVE  /\ checker'[d].epoch <= activity.epoch
               /\ checker'[d].status = "false" => checker'[d].failures = Threshold
               /\ (Current(checker[d]) /\ trainerCell[d].state = "alive" /\ Up(d))' => checker'[d].failures <= blips[d]
    <3>1. CASE trainerCell'[d] = trainerCell[d] /\ checker'[d] = checker[d]
      BY <1>1, <3>1 DEF HealthIInv, FailuresAreBlips, Current, Up
    <3>2. CASE d = c /\ trainerCell'[d].state # "alive" /\ checker'[d] = CheckerOff
      BY <3>2 DEF CheckerOff, NewChecker, HealthIInv, HealthTypeOK
    <3> QED
      BY <1>1, <3>1, <3>2 DEF NoCell
  <2> QED
    BY <1>1, <2>1 DEF FailuresAreBlips
<1>6. ScansAreOfTheDead' /\ OneRequest'
  BY <1>1, ScansStay, RequestStays
<1>7. UnhealthyAreBroken'
  <2>1. ASSUME NEW d \in Cells, Broken(d) PROVE Broken(d)'
    <3>1. CASE trainerCell'[d] = trainerCell[d]
      BY <1>1, <2>1, <3>1 DEF Broken
    <3>2. CASE worker[d] # "up"
      BY <1>1, <2>1, <3>2 DEF Broken
    <3>3. CASE d = c /\ worker[d] = "up"
      BY <1>1, <1>2, <2>1, <3>3 DEF Broken, HealthIInv, Incarnations
    <3> QED
      BY <1>1, <3>1, <3>2, <3>3
  <2>2. InRound' = InRound /\ InRound \subseteq Cells
    BY <1>1 DEF InRound, HealthIInv, HealthTypeOK
  <2> QED
    BY <1>1, <2>1, <2>2 DEF HealthIInv, UnhealthyAreBroken
<1> QED
  BY <1>3, <1>4, <1>5, <1>6, <1>7 DEF HealthIInv

\* init() of a healing cell: its checker begins anew.
LEMMA InitCellKeeps == ASSUME HealthIInv, NEW c \in Cells, InitCell(c) PROVE HealthIInv'
<1> USE DEF manager, trainer, health, controller, bounds
<1>1. /\ trainerCell[c].state = "uninitialized" /\ Up(c)
      /\ trainerCell' = [trainerCell EXCEPT ![c].state = "alive"]
      /\ checker' = [checker EXCEPT ![c] = NewChecker] /\ blips' = [blips EXCEPT ![c] = 0]
      /\ UNCHANGED <<manager, watch, activity, controller, bounds>>
  BY DEF InitCell
<1>2. /\ trainerCell \in [Cells -> CellRecord] /\ checker \in [Cells -> CheckerRecord]
      /\ blips \in [Cells -> 0..(Threshold - 1)] /\ 0 \in 0..(Threshold - 1)
  BY ProbesAssumption DEF HealthIInv, HealthTypeOK, CellRecord, CheckerRecord
<1>3. NewChecker \in CheckerRecord
  <2>1. 0 \in 0..MaxEpochs /\ 0 \in 0..Threshold
    BY ProbesAssumption
  <2> QED
    BY <2>1 DEF NewChecker, CheckerRecord
<1>4. /\ trainerCell' \in [Cells -> CellRecord]
      /\ \A d \in Cells : /\ trainerCell'[d].hash = trainerCell[d].hash
                           /\ trainerCell'[d].handles = trainerCell[d].handles
                           /\ d # c => trainerCell'[d] = trainerCell[d]
  BY <1>1, <1>2 DEF CellRecord
<1>5. /\ checker' \in [Cells -> CheckerRecord] /\ blips' \in [Cells -> 0..(Threshold - 1)]
      /\ \A d \in Cells : d # c => checker'[d] = checker[d] /\ blips'[d] = blips[d]
      /\ checker'[c] = NewChecker /\ blips'[c] = 0
  BY <1>1, <1>2, <1>3
<1>6. HealthTypeOK'
  BY <1>1, <1>4, <1>5 DEF HealthIInv, HealthTypeOK, CellRecord, CheckerRecord
<1>7. Incarnations'
  BY <1>1, <1>4 DEF HealthIInv, Incarnations
<1>8. FailuresAreBlips'
  <2>1. ASSUME NEW d \in Cells
        PROVE  /\ checker'[d].epoch <= activity.epoch
               /\ checker'[d].status = "false" => checker'[d].failures = Threshold
               /\ (Current(checker[d]) /\ trainerCell[d].state = "alive" /\ Up(d))' => checker'[d].failures <= blips'[d]
    <3>1. CASE d # c
      BY <1>1, <1>4, <1>5, <3>1 DEF HealthIInv, FailuresAreBlips, Current, Up
    <3>2. CASE d = c
      BY <1>5, <3>2 DEF NewChecker, HealthIInv, HealthTypeOK
    <3> QED
      BY <3>1, <3>2
  <2> QED
    BY <1>1, <2>1 DEF FailuresAreBlips
<1>9. ScansAreOfTheDead' /\ OneRequest'
  BY <1>1, ScansStay, RequestStays
<1>10. UnhealthyAreBroken'
  <2>1. ASSUME NEW d \in Cells, Broken(d) PROVE Broken(d)'
    BY <1>1, <1>4, <2>1 DEF Broken, Up
  <2>2. InRound' = InRound /\ InRound \subseteq Cells
    BY <1>1 DEF InRound, HealthIInv, HealthTypeOK
  <2> QED
    BY <1>1, <2>1, <2>2 DEF HealthIInv, UnhealthyAreBroken
<1> QED
  BY <1>6, <1>7, <1>8, <1>9, <1>10 DEF HealthIInv

\* A call raises: the cell is errored, and its workers are killed.
LEMMA CallRaisesKeeps == ASSUME HealthIInv, NEW c \in Cells, CallRaises(c) PROVE HealthIInv'
<1> USE DEF manager, trainer, health, controller, bounds
<1>1. /\ trainerCell' = [trainerCell EXCEPT ![c].state = "errored"]
      /\ \/ worker[c] = "up" /\ worker' = [worker EXCEPT ![c] = "dead"]
         \/ worker' = worker
      /\ faults' = faults \/ (faults < MaxFaults /\ faults' = faults + 1)
      /\ UNCHANGED <<gen, ops, watch, health, controller, timeouts>>
  BY DEF CallRaises, Up, Fault
<1>2. /\ worker' \in [Cells -> {"stopped", "launching", "up", "hung", "dead"}]
      /\ \A d \in Cells : worker'[d] = worker[d] \/ (d = c /\ worker[d] = "up" /\ worker'[d] = "dead")
  <2>1. CASE worker' = worker
    BY <2>1 DEF HealthIInv, HealthTypeOK
  <2>2. CASE worker[c] = "up" /\ worker' = [worker EXCEPT ![c] = "dead"]
    BY <2>2, WorkerTypes DEF HealthIInv
  <2> QED
    BY <1>1, <2>1, <2>2
<1>3. /\ trainerCell' \in [Cells -> CellRecord]
      /\ \A d \in Cells : /\ trainerCell'[d].hash = trainerCell[d].hash
                           /\ trainerCell'[d].handles = trainerCell[d].handles
                           /\ trainerCell'[d].state \in {trainerCell[d].state, "errored"}
  <2>1. trainerCell \in [Cells -> CellRecord]
    BY DEF HealthIInv, HealthTypeOK, CellRecord
  <2> QED
    BY <1>1, <2>1 DEF CellRecord
<1>4. HealthTypeOK'
  <2>1. faults' \in 0..MaxFaults
    <3>1. faults \in 0..MaxFaults
      BY DEF HealthIInv, HealthTypeOK
    <3> QED
      BY <1>1, <3>1, ProbesAssumption
  <2> QED
    BY <1>1, <1>2, <1>3, <2>1 DEF HealthIInv, HealthTypeOK, CellRecord
<1>5. Incarnations'
  BY <1>1, <1>2, <1>3 DEF HealthIInv, Incarnations
<1>6. FailuresAreBlips'
  BY <1>1, <1>2, <1>3 DEF HealthIInv, FailuresAreBlips, Up, Current
<1>7. ScansAreOfTheDead'
  <2>1. \A d \in Cells : gen'[d] = gen[d] /\ (worker[d] \in {"dead", "stopped"} => worker'[d] \in {"dead", "stopped"})
    BY <1>1, <1>2
  <2>2. \A i \in DOMAIN ops : ops[i] \in Ops
    BY OpsTypes DEF HealthIInv
  <2>3. (\A i \in DOMAIN ops : DeadScan(ops[i]))'
    BY <1>1, <2>1, <2>2, DeadStayDead DEF HealthIInv, ScansAreOfTheDead
  <2> QED
    BY <1>1, <1>2, <2>3 DEF HealthIInv, ScansAreOfTheDead
<1>8. OneRequest'
  BY <1>1, RequestStays
<1>9. UnhealthyAreBroken'
  <2>1. ASSUME NEW d \in Cells, Broken(d) PROVE Broken(d)'
    BY <1>1, <1>2, <1>3, <2>1 DEF Broken
  <2>2. InRound' = InRound /\ InRound \subseteq Cells
    BY <1>1 DEF InRound, HealthIInv, HealthTypeOK
  <2> QED
    BY <1>1, <1>2, <2>1, <2>2 DEF HealthIInv, UnhealthyAreBroken
<1> QED
  BY <1>4, <1>5, <1>6, <1>7, <1>8, <1>9 DEF HealthIInv

\* offload(), or the preparation of a regroup: the probes pause.
LEMMA PauseKeeps == ASSUME HealthIInv, Pause PROVE HealthIInv'
<1> USE DEF manager, trainer, health, controller, bounds
<1>1. /\ activity.active /\ activity.epoch + 2 <= MaxEpochs
      /\ activity' = [active |-> FALSE, epoch |-> activity.epoch + 1]
      /\ UNCHANGED <<manager, trainer, checker, blips, controller, bounds>>
      /\ activity.epoch \in 0..MaxEpochs /\ MaxEpochs \in Nat
  BY ProbesAssumption DEF Pause, HealthIInv, HealthTypeOK
<1>2. activity'.epoch \in 0..MaxEpochs /\ activity'.epoch < MaxEpochs /\ activity'.epoch = activity.epoch + 1
  BY <1>1
<1>3. activity' \in [active : BOOLEAN, epoch : 0..MaxEpochs]
  BY <1>1, <1>2
<1>4. HealthTypeOK'
  BY <1>1, <1>2, <1>3 DEF HealthIInv, HealthTypeOK
<1>5. FailuresAreBlips'
  <2>1. \A c \in Cells : checker[c].epoch \in 0..MaxEpochs
    BY DEF HealthIInv, HealthTypeOK
  <2> QED
    BY <1>1, <1>2, <2>1 DEF HealthIInv, FailuresAreBlips, Current
<1>6. Incarnations' /\ ScansAreOfTheDead' /\ OneRequest' /\ UnhealthyAreBroken'
  BY <1>1, IncarnationsStay, ScansStay, RequestStays, BrokenStay
<1> QED
  BY <1>4, <1>5, <1>6 DEF HealthIInv

\* onload(): another period of activity, in which no checker has counted yet.
LEMMA ResumeKeeps == ASSUME HealthIInv, Resume PROVE HealthIInv'
<1> USE DEF manager, trainer, health, controller, bounds
<1>1. /\ activity' = [active |-> TRUE, epoch |-> activity.epoch + 1]
      /\ blips' = [c \in Cells |-> 0]
      /\ UNCHANGED <<manager, trainer, checker, controller, bounds>>
      /\ activity.epoch \in 0..MaxEpochs /\ activity.epoch < MaxEpochs /\ MaxEpochs \in Nat
  BY ProbesAssumption DEF Resume, HealthIInv, HealthTypeOK
<1>2. activity'.epoch \in 0..MaxEpochs /\ activity'.epoch = activity.epoch + 1 /\ activity'.active
  BY <1>1
<1>3. /\ activity' \in [active : BOOLEAN, epoch : 0..MaxEpochs]
      /\ blips' \in [Cells -> 0..(Threshold - 1)]
  BY <1>1, <1>2, ProbesAssumption
<1>4. HealthTypeOK'
  BY <1>1, <1>2, <1>3 DEF HealthIInv, HealthTypeOK
<1>5. FailuresAreBlips'
  <2>1. \A c \in Cells : checker[c].epoch \in 0..MaxEpochs
    BY DEF HealthIInv, HealthTypeOK
  <2> QED
    BY <1>1, <1>2, <2>1 DEF HealthIInv, FailuresAreBlips, Current
<1>6. Incarnations' /\ ScansAreOfTheDead' /\ OneRequest' /\ UnhealthyAreBroken'
  BY <1>1, IncarnationsStay, ScansStay, RequestStays, BrokenStay
<1> QED
  BY <1>4, <1>5, <1>6 DEF HealthIInv

\* What a change of one checker keeps, if it keeps what is said of its failures.
LEMMA CheckerKeeps ==
    ASSUME HealthIInv, NEW c \in Cells, NEW k \in CheckerRecord,
           checker' = [checker EXCEPT ![c] = k],
           blips' \in [Cells -> 0..(Threshold - 1)], \A d \in Cells : d # c => blips'[d] = blips[d],
           k.epoch <= activity.epoch, k.status = "false" => k.failures = Threshold,
           (Current(k) /\ trainerCell[c].state = "alive" /\ Up(c)) => k.failures <= blips'[c],
           UNCHANGED <<manager, trainer, activity, controller, bounds>>
    PROVE  HealthIInv'
<1> USE DEF manager, trainer, health, controller, bounds
<1>1. /\ checker' \in [Cells -> CheckerRecord] /\ checker'[c] = k
      /\ \A d \in Cells : d # c => checker'[d] = checker[d]
  BY DEF HealthIInv, HealthTypeOK, CheckerRecord
<1>2. HealthTypeOK'
  BY <1>1 DEF HealthIInv, HealthTypeOK, CheckerRecord
<1>3. FailuresAreBlips'
  BY <1>1 DEF HealthIInv, FailuresAreBlips, Current, Up
<1>4. Incarnations' /\ ScansAreOfTheDead' /\ OneRequest' /\ UnhealthyAreBroken'
  BY IncarnationsStay, ScansStay, RequestStays, BrokenStay
<1> QED
  BY <1>2, <1>3, <1>4 DEF HealthIInv

\* What is known of a checker.
LEMMA CheckerTypes ==
    ASSUME HealthIInv, NEW c \in Cells
    PROVE  /\ checker[c] \in CheckerRecord /\ checker[c].epoch \in 0..MaxEpochs
           /\ checker[c].failures \in 0..Threshold /\ checker[c].epoch <= activity.epoch
           /\ checker[c].status = "false" => checker[c].failures = Threshold
           /\ (Current(checker[c]) /\ trainerCell[c].state = "alive" /\ Up(c)) => checker[c].failures <= blips[c]
           /\ activity.active \in BOOLEAN /\ activity.epoch \in 0..MaxEpochs
           /\ blips[c] \in 0..(Threshold - 1) /\ Threshold \in Nat /\ Threshold # 0 /\ MaxEpochs \in Nat
<1>1. checker \in [Cells -> CheckerRecord]
  BY DEF HealthIInv, HealthTypeOK, CheckerRecord
<1>2. checker[c] \in CheckerRecord
  BY <1>1
<1> QED
  BY <1>2, ProbesAssumption DEF HealthIInv, HealthTypeOK, FailuresAreBlips, CheckerRecord

\* A turn of _loop(): a resumption clears the failures.
LEMMA TurnKeeps == ASSUME HealthIInv, NEW c \in Cells, Turn(c) PROVE HealthIInv'
<1> DEFINE k == checker[c]
           noted == [k EXCEPT !.active = activity.active, !.epoch = activity.epoch]
           read == IF noted = k THEN k ELSE IF activity.active THEN OnResumed(noted) ELSE OnPaused(noted)
           new == IF ~read.active THEN read
                  ELSE IF read.firstWait THEN [read EXCEPT !.firstWait = FALSE]
                  ELSE [read EXCEPT !.at = "probing"]
<1>1. /\ checker' = [checker EXCEPT ![c] = new]
      /\ UNCHANGED <<manager, trainer, activity, blips, controller, bounds>>
  BY DEF Turn
<1>2. /\ k \in CheckerRecord /\ k.failures \in 0..Threshold
      /\ k.status = "false" => k.failures = Threshold
      /\ (Current(k) /\ trainerCell[c].state = "alive" /\ Up(c)) => k.failures <= blips[c]
      /\ activity.active \in BOOLEAN /\ activity.epoch \in 0..MaxEpochs
      /\ blips[c] \in 0..(Threshold - 1) /\ Threshold \in Nat /\ Threshold # 0 /\ MaxEpochs \in Nat
  BY CheckerTypes
<1>3. noted \in CheckerRecord /\ noted.epoch = activity.epoch /\ noted.failures = k.failures
  BY <1>2 DEF CheckerRecord
<1>4. /\ read \in CheckerRecord /\ read.epoch = activity.epoch
      /\ read.status = "false" => read.failures = Threshold
      /\ (Current(read) /\ trainerCell[c].state = "alive" /\ Up(c)) => read.failures <= blips[c]
  <2>1. CASE noted = k
    BY <1>2, <1>3, <2>1
  <2>2. CASE noted # k /\ activity.active
    <3>1. read = OnResumed(noted)
      BY <2>2
    <3> HIDE DEF noted, read, k
    <3>2. read = [noted EXCEPT !.firstWait = TRUE, !.status = "unknown", !.failures = 0] /\ 0 \in 0..Threshold
      BY <1>2, <3>1 DEF OnResumed
    <3>3. read \in CheckerRecord /\ read.epoch = noted.epoch /\ read.failures = 0 /\ read.status = "unknown"
      BY <1>3, <3>2 DEF CheckerRecord
    <3> QED
      BY <1>2, <1>3, <3>3
  <2>3. CASE noted # k /\ ~activity.active
    <3>1. read = OnPaused(noted)
      BY <2>3
    <3> HIDE DEF noted, read, k
    <3>2. read \in CheckerRecord /\ read.epoch = activity.epoch /\ read.status = "unknown"
      BY <1>2, <1>3, <3>1 DEF OnPaused, CheckerRecord
    <3> QED
      BY <2>3, <3>2 DEF Current
  <2> QED
    BY <2>1, <2>2, <2>3
<1> HIDE DEF read, noted
<1>5. /\ new \in CheckerRecord /\ new.epoch = read.epoch /\ new.failures = read.failures
      /\ new.status = read.status
  BY <1>4 DEF CheckerRecord
<1> HIDE DEF new, k
<1>6. /\ new.epoch <= activity.epoch /\ (new.status = "false" => new.failures = Threshold)
      /\ (Current(new) /\ trainerCell[c].state = "alive" /\ Up(c)) => new.failures <= blips'[c]
  BY <1>1, <1>2, <1>4, <1>5 DEF Current
<1>7. blips' \in [Cells -> 0..(Threshold - 1)] /\ \A d \in Cells : d # c => blips'[d] = blips[d]
  BY <1>1 DEF HealthIInv, HealthTypeOK
<1> QED
  BY <1>1, <1>5, <1>6, <1>7, CheckerKeeps

\* The smaller of two numbers.
LEMMA MinOfBoth ==
    ASSUME NEW a \in Nat, NEW b \in Nat
    PROVE  Min({a, b}) = IF a <= b THEN a ELSE b
<1> DEFINE m == IF a <= b THEN a ELSE b
<1>1. m \in {a, b} /\ \A y \in {a, b} : m <= y
  OBVIOUS
<1>2. \A x \in {a, b} : (\A y \in {a, b} : x <= y) => x = m
  OBVIOUS
<1>3. Min({a, b}) = CHOOSE x \in {a, b} : \A y \in {a, b} : x <= y
  BY DEF Min
<1> HIDE DEF m
<1>4. Min({a, b}) = m
  BY <1>1, <1>2, <1>3
<1> QED
  BY <1>4 DEF m

\* The result of a probe counts in the period of activity it belongs to; that of a
\* live worker is then one of its blips.
LEMMA ProbeEndsKeeps ==
    ASSUME HealthIInv, NEW c \in Cells, NEW success \in BOOLEAN, ProbeEnds(c, success) PROVE HealthIInv'
<1> DEFINE k == checker[c]
           pub == IF Current(k) THEN Published(k, success) ELSE k
           new == [pub EXCEPT !.at = "asleep"]
<1>1. /\ checker' = [checker EXCEPT ![c] = new]
      /\ \/ success /\ blips' = [blips EXCEPT ![c] = 0]
         \/ /\ ~success /\ Current(k) /\ blips[c] + 1 < Threshold
            /\ blips' = [blips EXCEPT ![c] = blips[c] + 1]
         \/ /\ ~success /\ blips' = blips
            /\ ~Current(k) \/ ~(trainerCell[c].state = "alive" /\ Up(c))
      /\ UNCHANGED <<manager, trainer, activity, controller, bounds>>
  BY DEF ProbeEnds, Current
<1>2. /\ k \in CheckerRecord /\ k.failures \in 0..Threshold /\ k.epoch <= activity.epoch
      /\ k.status = "false" => k.failures = Threshold
      /\ (Current(k) /\ trainerCell[c].state = "alive" /\ Up(c)) => k.failures <= blips[c]
      /\ blips[c] \in 0..(Threshold - 1) /\ Threshold \in Nat /\ Threshold # 0
  BY CheckerTypes
<1> DEFINE f == IF success THEN 0 ELSE Min({k.failures + 1, Threshold})
           st == IF success THEN "true" ELSE IF f >= Threshold THEN "false" ELSE k.status
<1>3. Published(k, success) = [k EXCEPT !.failures = f, !.status = st]
  BY DEF Published
<1>4. /\ f \in 0..Threshold /\ f <= k.failures + 1 /\ (success => f = 0)
      /\ f >= Threshold => f = Threshold
  <2>1. k.failures + 1 \in Nat
    BY <1>2
  <2>2. Min({k.failures + 1, Threshold}) = IF k.failures + 1 <= Threshold THEN k.failures + 1 ELSE Threshold
    BY <1>2, <2>1, MinOfBoth
  <2> HIDE DEF k
  <2> QED
    BY <1>2, <2>1, <2>2
<1>5. /\ st \in {"unknown", "true", "false"} /\ (st = "false" => f = Threshold)
  <2>1. k.status \in {"unknown", "true", "false"}
    BY <1>2 DEF CheckerRecord
  <2>2. ASSUME ~success, k.status = "false" PROVE f = Threshold
    <3>1. k.failures = Threshold /\ k.failures + 1 \in Nat
      BY <1>2, <2>2
    <3>2. Min({k.failures + 1, Threshold}) = IF k.failures + 1 <= Threshold THEN k.failures + 1 ELSE Threshold
      BY <1>2, <3>1, MinOfBoth
    <3> QED
      BY <1>2, <2>2, <3>1, <3>2
  <2> HIDE DEF f, k
  <2> QED
    BY <1>4, <2>1, <2>2
<1> HIDE DEF f, st
<1>6. /\ new \in CheckerRecord /\ new.epoch = k.epoch
      /\ IF Current(k) THEN new.failures = f /\ new.status = st
                       ELSE new.failures = k.failures /\ new.status = k.status
  BY <1>2, <1>3, <1>4, <1>5 DEF CheckerRecord
<1> HIDE DEF new, pub
<1>7. blips' \in [Cells -> 0..(Threshold - 1)] /\ \A d \in Cells : d # c => blips'[d] = blips[d]
  <2>1. blips \in [Cells -> 0..(Threshold - 1)]
    BY DEF HealthIInv, HealthTypeOK
  <2> QED
    BY <1>1, <1>2, <2>1
<1>8. (Current(new) /\ trainerCell[c].state = "alive" /\ Up(c)) => new.failures <= blips'[c]
  <2>1. SUFFICES ASSUME Current(new), trainerCell[c].state = "alive", Up(c) PROVE new.failures <= blips'[c]
    OBVIOUS
  <2>2. Current(k) /\ new.failures = f /\ k.failures <= blips[c]
    BY <1>2, <1>6, <2>1 DEF Current
  <2>3. blips \in [Cells -> 0..(Threshold - 1)]
    BY DEF HealthIInv, HealthTypeOK
  <2>4. \/ success /\ blips'[c] = 0
        \/ blips'[c] = blips[c] + 1
    BY <1>1, <2>1, <2>2, <2>3
  <2> HIDE DEF k
  <2> QED
    BY <1>2, <1>4, <2>2, <2>4
<1>9. new.epoch <= activity.epoch /\ (new.status = "false" => new.failures = Threshold)
  BY <1>2, <1>5, <1>6
<1> QED
  BY <1>1, <1>6, <1>7, <1>8, <1>9, CheckerKeeps

FtRecord ==
    [pc : {"idle", "listed", "round", "suspending", "suspended", "resuming", "resumed", "failed"},
     infos : [Cells -> Nat], unhealthy : SUBSET Cells, todo : SUBSET Cells]

\* A live cell is never reported as failed.
LEMMA HealthLive == ASSUME HealthIInv PROVE LiveIsNotFailed
<1>1. SUFFICES ASSUME NEW c \in Cells, trainerCell[c].state = "alive", Up(c), Status(c) = "false" PROVE FALSE
  BY DEF LiveIsNotFailed
<1>2. Current(checker[c]) /\ checker[c].status = "false"
  BY <1>1 DEF Status, Current
<1> DEFINE f == checker[c].failures
           b == blips[c]
<1>3. f = Threshold /\ f <= b /\ b \in 0..(Threshold - 1) /\ Threshold \in Nat
  BY <1>1, <1>2, CheckerTypes
<1> HIDE DEF f, b
<1> QED
  BY <1>3

\* While the controller waits for no operation, and none has timed out, none is queued
\* but scans, and so no workers are being launched.
LEMMA NothingAsked ==
    ASSUME HealthIInv, ft.pc \notin {"suspending", "resuming"}
    PROVE  /\ \A i \in DOMAIN ops : ~ops[i].awaited
           /\ timeouts = 0 => \A c \in Cells : worker[c] # "launching"
<1>1. \A i \in DOMAIN ops : ~ops[i].awaited
  BY DEF HealthIInv, OneRequest, Asked
<1>2. ASSUME timeouts = 0, NEW c \in Cells, worker[c] = "launching" PROVE FALSE
  <2>1. ops # <<>> /\ Head(ops).op = "start"
    BY <1>2 DEF HealthIInv, ScansAreOfTheDead
  <2>2. Head(ops).awaited
    BY <1>2, <2>1, FirstIsAsked
  <2>3. ops \in Seq(Ops)
    BY OpsTypes DEF HealthIInv
  <2> QED
    BY <1>1, <2>1, <2>2, <2>3, OpsQueue
<1> QED
  BY <1>1, <1>2

\* list_cells() asks the manager what is there.
LEMMA GetCellsKeeps == ASSUME HealthIInv, GetCells PROVE HealthIInv'
<1> USE DEF manager, trainer, health, controller, bounds
<1>1. /\ ft.pc = "idle" /\ ft'.pc = "listed" /\ ft'.todo = ft.todo /\ ft' \in FtRecord
      /\ \A c \in Cells : ft'.infos[c] = Listed(c)
      /\ UNCHANGED <<manager, trainer, health, backoff, bounds>>
  BY DEF GetCells, HealthIInv, HealthTypeOK, Listed, FtRecord
<1>2. HealthTypeOK'
  BY <1>1 DEF HealthIInv, HealthTypeOK, FtRecord
<1>3. Incarnations' /\ FailuresAreBlips' /\ ScansAreOfTheDead'
  BY <1>1, IncarnationsStay, FailuresStay, ScansStay
<1>4. OneRequest'
  BY <1>1, NothingAsked DEF HealthIInv, OneRequest, Asked
<1>5. UnhealthyAreBroken'
  <2>1. timeouts = 0 => \A c \in Cells : worker[c] # "launching"
    BY <1>1, NothingAsked
  <2>2. InRound' = {}
    BY <1>1 DEF InRound
  <2> QED
    BY <1>1, <2>1, <2>2 DEF UnhealthyAreBroken, Listed
<1> QED
  BY <1>2, <1>3, <1>4, <1>5 DEF HealthIInv

\* The statuses come in: whatever is unhealthy by them, and by what was listed, is
\* broken.
LEMMA GetStatusesKeeps == ASSUME HealthIInv, GetStatuses PROVE HealthIInv'
<1> USE DEF manager, trainer, health, controller, bounds
<1> DEFINE broken == {c \in Cells : Unhealthy(c)}
<1>1. /\ ft.pc = "listed" /\ ft' = [ft EXCEPT !.pc = "round", !.unhealthy = broken, !.todo = broken]
      /\ backoff' = [c \in Cells |-> IF c \in broken /\ backoff[c] = "none" THEN "ready" ELSE backoff[c]]
      /\ UNCHANGED <<manager, trainer, health, bounds>>
  BY DEF GetStatuses
<1>2. ft \in FtRecord /\ backoff \in [Cells -> {"none", "ready", "waiting"}]
  BY DEF HealthIInv, HealthTypeOK, FtRecord
<1>3. /\ ft' \in FtRecord /\ ft'.pc = "round" /\ ft'.todo = broken
      /\ backoff' \in [Cells -> {"none", "ready", "waiting"}]
  BY <1>1, <1>2 DEF FtRecord
<1>4. HealthTypeOK'
  BY <1>1, <1>3 DEF HealthIInv, HealthTypeOK, FtRecord
<1>5. Incarnations' /\ FailuresAreBlips' /\ ScansAreOfTheDead'
  BY <1>1, IncarnationsStay, FailuresStay, ScansStay
<1>6. OneRequest'
  <2>1. \A i \in DOMAIN ops : ~ops[i].awaited
    BY <1>1, NothingAsked
  <2> QED
    BY <1>1, <1>3, <2>1 DEF HealthIInv, OneRequest, Asked
<1>7. ASSUME timeouts = 0, NEW c \in Cells, Unhealthy(c) PROVE Broken(c)
  <2>1. worker[c] # "launching"
    BY <1>1, <1>7, NothingAsked
  <2>2. CASE ft.infos[c] = 0 /\ worker[c] = "stopped"
    BY <2>2 DEF Broken
  <2>3. CASE ft.infos[c] = gen[c]
    <3>1. gen[c] # 0
      BY DEF HealthIInv, HealthTypeOK
    <3>2. Verdict(c, gen[c]) = "false"
      BY <1>7, <2>3, <3>1 DEF Unhealthy
    <3>3. /\ trainerCell[c].hash = gen[c]
          /\ \/ trainerCell[c].state = "errored"
             \/ trainerCell[c].state = "alive" /\ Status(c) = "false"
      BY <3>2 DEF Verdict
    <3>4. trainerCell[c].handles = gen[c]
      <4>1. /\ trainerCell[c].hash <= trainerCell[c].handles /\ trainerCell[c].handles <= gen[c]
            /\ trainerCell[c].handles \in Nat /\ gen[c] \in Nat
        BY DEF HealthIInv, Incarnations, HealthTypeOK
      <4> QED
        BY <3>3, <4>1
    <3>5. trainerCell[c].state = "errored" \/ worker[c] # "up"
      BY <3>3, <3>4, HealthLive DEF LiveIsNotFailed, Up
    <3> QED
      BY <2>1, <3>3, <3>5 DEF Broken
  <2> QED
    BY <1>1, <1>7, <2>2, <2>3 DEF HealthIInv, UnhealthyAreBroken
<1>8. UnhealthyAreBroken'
  <2>1. timeouts = 0 => \A c \in broken : Broken(c)
    BY <1>7
  <2>2. InRound' = broken
    BY <1>3 DEF InRound
  <2>3. \A c \in broken : Broken(c)' <=> Broken(c)
    BY <1>1 DEF Broken
  <2> QED
    BY <1>1, <1>3, <2>1, <2>2, <2>3 DEF UnhealthyAreBroken
<1> QED
  BY <1>4, <1>5, <1>6, <1>8 DEF HealthIInv

\* The controller asks for an operation on the cell whose turn it is, and waits.
LEMMA RequestKeeps ==
    ASSUME HealthIInv, ft.pc \notin {"suspending", "resuming"}, ft.todo # {},
           NEW name \in {"stop", "start"}, NEW wait \in {"suspending", "resuming"},
           <<wait, name>> \in {<<"suspending", "stop">>, <<"resuming", "start">>},
           ops' = Append(ops, Op(name, Min(ft.todo))),
           ft' = [ft EXCEPT !.pc = wait],
           UNCHANGED <<worker, gen, trainer, health, backoff, bounds>>
    PROVE  HealthTypeOK' /\ ScansAreOfTheDead' /\ OneRequest'
<1> USE DEF manager, trainer, health, controller, bounds
<1> DEFINE c == Min(ft.todo)
           op == Op(name, c)
<1>1. c \in Cells
  BY FirstOfRound DEF HealthIInv
<1> HIDE DEF c
<1>2. op \in Ops /\ op.op = name /\ op.cell = c /\ op.awaited = TRUE
  BY <1>1 DEF Op, Ops, HealthIInv, HealthTypeOK
<1> HIDE DEF op
<1>3. /\ ops' \in Seq(Ops) /\ ops' # <<>> /\ (ops # <<>> => Head(ops') = Head(ops))
      /\ \A i \in DOMAIN ops' : \/ i \in DOMAIN ops /\ ops'[i] = ops[i]
                                \/ i = Len(ops) + 1 /\ ops'[i] = op
  <2>1. ops \in Seq(Ops) /\ ops' = Append(ops, op)
    BY OpsTypes DEF HealthIInv, op, c
  <2> QED
    BY <1>2, <2>1, OpsQueue
<1>4. ft' \in FtRecord /\ ft'.pc = wait /\ ft'.todo = ft.todo
  <2>1. ft \in FtRecord
    BY DEF HealthIInv, HealthTypeOK, FtRecord
  <2> QED
    BY <2>1 DEF FtRecord
<1>5. HealthTypeOK'
  BY <1>3, <1>4 DEF HealthIInv, HealthTypeOK, FtRecord, Ops
<1>6. ScansAreOfTheDead'
  <2>1. \A o : DeadScan(o)' <=> DeadScan(o)
    BY DEF DeadScan
  <2>2. DeadScan(op)
    BY <1>2 DEF DeadScan
  <2>3. \A i \in DOMAIN ops' : DeadScan(ops'[i])
    BY <1>3, <2>2 DEF HealthIInv, ScansAreOfTheDead
  <2>4. (\A i \in DOMAIN ops : DeadScan(ops[i]))'
    BY <2>1, <2>3
  <2> QED
    BY <1>3, <2>4 DEF HealthIInv, ScansAreOfTheDead
<1>7. \A i \in DOMAIN ops : ~ops[i].awaited
  BY NothingAsked
<1>8. OneRequest'
  <2>1. ASSUME NEW i \in DOMAIN ops' PROVE Asked(ops[i])'
    <3>1. CASE i \in DOMAIN ops /\ ops'[i] = ops[i]
      BY <1>7, <3>1 DEF Asked
    <3>2. CASE ops'[i] = op
      BY <1>2, <1>4, <3>2 DEF Asked, c
    <3> QED
      BY <1>3, <2>1, <3>1, <3>2
  <2>2. \A i, j \in DOMAIN ops' : ops'[i].awaited /\ ops'[j].awaited => i = j
    BY <1>3, <1>7
  <2>3. timeouts' = 0 => \A i \in DOMAIN ops' : ops'[i].op # "scan" => ops'[i].awaited
    BY <1>2, <1>3 DEF HealthIInv, OneRequest
  <2> QED
    BY <1>4, <2>1, <2>2, <2>3 DEF OneRequest
<1> QED
  BY <1>5, <1>6, <1>8

\* _heal() asks for the stop of a cell; a cell whose backoff is on is skipped.
LEMMA SuspendKeeps == ASSUME HealthIInv, Suspend PROVE HealthIInv'
<1> USE DEF manager, trainer, health, controller, bounds
<1>1. /\ ft.pc = "round" /\ ft.todo # {}
      /\ \/ ops' = Append(ops, Op("stop", Min(ft.todo))) /\ ft' = [ft EXCEPT !.pc = "suspending"]
         \/ ft' = [ft EXCEPT !.todo = ft.todo \ {Min(ft.todo)}] /\ UNCHANGED ops
      /\ UNCHANGED <<worker, gen, trainer, health, backoff, bounds>>
  BY DEF Suspend
<1>2. ft \in FtRecord
  BY DEF HealthIInv, HealthTypeOK, FtRecord
<1>3. Incarnations' /\ FailuresAreBlips'
  BY <1>1, IncarnationsStay, FailuresStay
<1>4. HealthTypeOK' /\ ScansAreOfTheDead' /\ OneRequest' /\ InRound' \subseteq InRound /\ ft'.pc # "listed"
  <2>1. CASE ops' = Append(ops, Op("stop", Min(ft.todo))) /\ ft' = [ft EXCEPT !.pc = "suspending"]
    <3>1. HealthTypeOK' /\ ScansAreOfTheDead' /\ OneRequest'
      BY <1>1, <2>1, RequestKeeps
    <3>2. ft'.pc = "suspending" /\ ft'.todo = ft.todo
      BY <1>2, <2>1 DEF FtRecord
    <3> QED
      BY <1>1, <3>1, <3>2 DEF InRound
  <2>2. CASE ft' = [ft EXCEPT !.todo = ft.todo \ {Min(ft.todo)}] /\ UNCHANGED ops
    <3>1. ft' \in FtRecord /\ ft'.pc = "round" /\ ft'.todo = ft.todo \ {Min(ft.todo)}
      BY <1>1, <1>2, <2>2 DEF FtRecord
    <3>2. HealthTypeOK'
      BY <1>1, <2>2, <3>1 DEF HealthIInv, HealthTypeOK, FtRecord
    <3>3. ScansAreOfTheDead'
      BY <1>1, <2>2, ScansStay
    <3>4. OneRequest'
      <4>1. \A i \in DOMAIN ops : ~ops[i].awaited
        BY <1>1, NothingAsked
      <4> QED
        BY <1>1, <2>2, <3>1, <4>1 DEF HealthIInv, OneRequest, Asked
    <3> QED
      BY <1>1, <3>1, <3>2, <3>3, <3>4 DEF InRound
  <2> QED
    BY <1>1, <2>1, <2>2
<1>5. UnhealthyAreBroken'
  <2>1. \A c : Broken(c)' <=> Broken(c)
    BY <1>1 DEF Broken
  <2> QED
    BY <1>1, <1>4, <2>1 DEF HealthIInv, UnhealthyAreBroken
<1> QED
  BY <1>3, <1>4, <1>5 DEF HealthIInv

\* After resume_delay the start of the cell is asked for, which alone ceases to be
\* broken by it.
LEMMA ResumeCellKeeps == ASSUME HealthIInv, ResumeCell PROVE HealthIInv'
<1> USE DEF manager, trainer, health, controller, bounds
<1>1. /\ ft.pc = "suspended" /\ ft.todo # {}
      /\ ops' = Append(ops, Op("start", Min(ft.todo))) /\ ft' = [ft EXCEPT !.pc = "resuming"]
      /\ UNCHANGED <<worker, gen, trainer, health, backoff, bounds>>
  BY DEF ResumeCell, HealthIInv, OneRequest
<1>2. Incarnations' /\ FailuresAreBlips'
  BY <1>1, IncarnationsStay, FailuresStay
<1>3. HealthTypeOK' /\ ScansAreOfTheDead' /\ OneRequest'
  BY <1>1, RequestKeeps
<1>4. UnhealthyAreBroken'
  <2>1. ft \in FtRecord
    BY DEF HealthIInv, HealthTypeOK, FtRecord
  <2>2. ft'.pc = "resuming" /\ ft'.todo = ft.todo
    BY <1>1, <2>1 DEF FtRecord
  <2>3. InRound' \subseteq InRound
    BY <1>1, <2>2 DEF InRound
  <2>4. \A c : Broken(c)' <=> Broken(c)
    BY <1>1 DEF Broken
  <2> QED
    BY <1>1, <2>2, <2>3, <2>4 DEF HealthIInv, UnhealthyAreBroken
<1> QED
  BY <1>2, <1>3, <1>4 DEF HealthIInv

\* The turn of a cell ends, with it healed or not, or the round ends.
LEMMA HealEndsKeeps == ASSUME HealthIInv, HealEnds \/ RoundEnds PROVE HealthIInv'
<1> USE DEF manager, trainer, health, controller, bounds
<1>1. /\ backoff \in [Cells -> {"none", "ready", "waiting"}] /\ ft \in FtRecord
  BY DEF HealthIInv, HealthTypeOK, FtRecord
<1>2. /\ backoff' \in [Cells -> {"none", "ready", "waiting"}]
      /\ UNCHANGED <<manager, trainer, health, bounds>>
      /\ ft.pc \notin {"suspending", "resuming"}
      /\ \/ ft.pc \in {"resumed", "failed"} /\ ft' = [ft EXCEPT !.pc = "round", !.todo = ft.todo \ {Min(ft.todo)}]
         \/ ft' = [ft EXCEPT !.pc = "idle"]
  <2>1. CASE HealEnds
    BY <1>1, <2>1 DEF HealEnds
  <2>2. CASE RoundEnds
    BY <1>1, <2>2 DEF RoundEnds
  <2> QED
    BY <2>1, <2>2
<1>3. ft' \in FtRecord /\ ft'.pc \in {"round", "idle"} /\ InRound' \subseteq InRound
  <2>1. CASE ft.pc \in {"resumed", "failed"} /\ ft' = [ft EXCEPT !.pc = "round", !.todo = ft.todo \ {Min(ft.todo)}]
    <3>1. ft' \in FtRecord /\ ft'.pc = "round" /\ ft'.todo = ft.todo \ {Min(ft.todo)}
      BY <1>1, <2>1 DEF FtRecord
    <3> QED
      BY <2>1, <3>1 DEF InRound
  <2>2. CASE ft' = [ft EXCEPT !.pc = "idle"]
    <3>1. ft' \in FtRecord /\ ft'.pc = "idle"
      BY <1>1, <2>2 DEF FtRecord
    <3> QED
      BY <3>1 DEF InRound
  <2> QED
    BY <1>2, <2>1, <2>2
<1>4. HealthTypeOK'
  BY <1>2, <1>3 DEF HealthIInv, HealthTypeOK, FtRecord
<1>5. Incarnations' /\ FailuresAreBlips' /\ ScansAreOfTheDead'
  BY <1>2, IncarnationsStay, FailuresStay, ScansStay
<1>6. OneRequest'
  <2>1. \A i \in DOMAIN ops : ~ops[i].awaited
    BY <1>2, NothingAsked
  <2> QED
    BY <1>2, <1>3, <2>1 DEF HealthIInv, OneRequest, Asked
<1>7. UnhealthyAreBroken'
  <2>1. \A c : Broken(c)' <=> Broken(c)
    BY <1>2 DEF Broken
  <2> QED
    BY <1>2, <1>3, <2>1 DEF HealthIInv, UnhealthyAreBroken
<1> QED
  BY <1>4, <1>5, <1>6, <1>7 DEF HealthIInv

\* The request is given up, and the operation goes on without anybody who waits for it.
LEMMA RequestTimesOutKeeps == ASSUME HealthIInv, RequestTimesOut PROVE HealthIInv'
<1> USE DEF manager, trainer, health, controller, bounds
<1>1. /\ ft.pc \in {"suspending", "resuming"} /\ timeouts < MaxTimeouts /\ timeouts' = timeouts + 1
      /\ ops' = [i \in DOMAIN ops |-> [ops[i] EXCEPT !.awaited = FALSE]]
      /\ ft' = [ft EXCEPT !.pc = "failed"]
      /\ UNCHANGED <<worker, gen, trainer, health, backoff, faults>>
  BY DEF RequestTimesOut
<1>2. /\ DOMAIN ops = 1..Len(ops) /\ Len(ops) \in Nat /\ \A i \in DOMAIN ops : ops[i] \in Ops
      /\ ops \in Seq(Ops)
  BY OpsTypes DEF HealthIInv
<1>3. ops' \in Seq(Ops) /\ DOMAIN ops' = DOMAIN ops
  <2>1. \A i \in 1..Len(ops) : [ops[i] EXCEPT !.awaited = FALSE] \in Ops
    BY <1>2 DEF Ops
  <2> QED
    BY <1>1, <1>2, <2>1
<1>4. \A i \in DOMAIN ops : /\ ops'[i].op = ops[i].op /\ ops'[i].cell = ops[i].cell
                            /\ ops'[i].gen = ops[i].gen /\ ops'[i].awaited = FALSE
  BY <1>1, <1>2 DEF Ops
<1>5. ft' \in FtRecord /\ ft'.pc = "failed" /\ ft'.todo = ft.todo
  <2>1. ft \in FtRecord
    BY DEF HealthIInv, HealthTypeOK, FtRecord
  <2> QED
    BY <1>1, <2>1 DEF FtRecord
<1>6. timeouts' \in 0..MaxTimeouts /\ timeouts' # 0
  <2>1. timeouts \in 0..MaxTimeouts
    BY DEF HealthIInv, HealthTypeOK
  <2> QED
    BY <1>1, <2>1, ProbesAssumption
<1>7. HealthTypeOK'
  BY <1>1, <1>3, <1>5, <1>6 DEF HealthIInv, HealthTypeOK, FtRecord, Ops
<1>8. Incarnations' /\ FailuresAreBlips'
  BY <1>1, IncarnationsStay, FailuresStay
<1>9. ScansAreOfTheDead'
  <2>1. (\A i \in DOMAIN ops : DeadScan(ops[i]))'
    BY <1>1, <1>3, <1>4 DEF HealthIInv, ScansAreOfTheDead, DeadScan
  <2>2. ASSUME ops # <<>> PROVE ops' # <<>> /\ Head(ops').op = Head(ops).op /\ Head(ops').cell = Head(ops).cell
    <3>1. 1 \in DOMAIN ops /\ Head(ops) = ops[1]
      BY <1>2, <2>2, OpsQueue
    <3>2. ops' # <<>>
      BY <1>3, <3>1
    <3> QED
      BY <1>3, <1>4, <3>1, <3>2, OpsQueue
  <2> QED
    BY <1>1, <2>1, <2>2 DEF HealthIInv, ScansAreOfTheDead
<1>10. OneRequest'
  BY <1>1, <1>3, <1>4, <1>5, <1>6 DEF HealthIInv, OneRequest, Asked
<1>11. UnhealthyAreBroken'
  BY <1>6 DEF UnhealthyAreBroken
<1> QED
  BY <1>7, <1>8, <1>9, <1>10, <1>11 DEF HealthIInv

\* The clock passes next_attempt_at.
LEMMA BackoffEndsKeeps == ASSUME HealthIInv, NEW c \in Cells, BackoffEnds(c) PROVE HealthIInv'
<1> USE DEF manager, trainer, health, controller, bounds
<1>1. /\ backoff' = [backoff EXCEPT ![c] = "ready"] /\ UNCHANGED <<manager, trainer, health, ft, bounds>>
  BY DEF BackoffEnds
<1>2. backoff' \in [Cells -> {"none", "ready", "waiting"}]
  BY <1>1 DEF HealthIInv, HealthTypeOK
<1>3. HealthTypeOK'
  BY <1>1, <1>2 DEF HealthIInv, HealthTypeOK
<1>4. Incarnations' /\ FailuresAreBlips' /\ ScansAreOfTheDead' /\ OneRequest' /\ UnhealthyAreBroken'
  BY <1>1, IncarnationsStay, FailuresStay, ScansStay, RequestStays, BrokenStay
<1> QED
  BY <1>3, <1>4 DEF HealthIInv

\* Every cell begins alive, with a checker that has counted nothing.
LEMMA HealthBegins == ASSUME HealthInit PROVE HealthIInv
<1> USE DEF HealthInit
<1>1. /\ 0 \in 0..MaxEpochs /\ 0 \in 0..Threshold /\ 0 \in 0..(Threshold - 1) /\ 0 \in 0..MaxFaults
      /\ 0 \in 0..MaxTimeouts
  BY ProbesAssumption
<1>2. NewChecker \in CheckerRecord
  BY <1>1 DEF NewChecker, CheckerRecord
<1>3. gen \in [Cells -> Nat \ {0}] /\ ops \in Seq(Ops) /\ ops = <<>> /\ DOMAIN ops = {}
  OBVIOUS
<1>4. HealthTypeOK
  <2>1. checker \in [Cells -> CheckerRecord]
    BY <1>2
  <2>2. /\ watch \in [seen : [Cells -> Nat], listed : [Cells -> Nat], todo : SUBSET Cells]
        /\ ft \in FtRecord
    BY <1>3 DEF FtRecord
  <2> QED
    BY <1>1, <1>3, <2>1, <2>2 DEF HealthTypeOK, CheckerRecord, FtRecord, Ops
<1>5. Incarnations
  BY DEF Incarnations
<1>6. FailuresAreBlips
  BY DEF FailuresAreBlips, NewChecker
<1>7. ScansAreOfTheDead /\ OneRequest
  BY <1>3 DEF ScansAreOfTheDead, OneRequest
<1>8. UnhealthyAreBroken
  BY DEF UnhealthyAreBroken, InRound
<1> QED
  BY <1>4, <1>5, <1>6, <1>7, <1>8 DEF HealthIInv

\* Every step keeps the invariant.
LEMMA HealthStep == ASSUME HealthIInv, [HealthNext]_healthVars PROVE HealthIInv'
<1>1. CASE \E c \in Cells, how \in {"dead", "hung"} : Break(c, how)
  BY <1>1, BreakKeeps
<1>2. CASE \E c \in Cells : Scan(c) \/ Reconcile(c) \/ InitCell(c) \/ CallRaises(c)
  BY <1>2, ScanKeeps, ReconcileKeeps, InitCellKeeps, CallRaisesKeeps
<1>3. CASE Stop \/ Launch \/ Started \/ StartFails
  BY <1>3, StopKeeps, LaunchKeeps, StartedKeeps, StartFailsKeeps
<1>4. CASE List \/ Pause \/ Resume
  BY <1>4, ListKeeps, PauseKeeps, ResumeKeeps
<1>5. CASE \E c \in Cells : Turn(c) \/ BackoffEnds(c) \/ \E success \in BOOLEAN : ProbeEnds(c, success)
  BY <1>5, TurnKeeps, BackoffEndsKeeps, ProbeEndsKeeps
<1>6. CASE GetCells \/ GetStatuses \/ Suspend \/ ResumeCell \/ HealEnds \/ RequestTimesOut \/ RoundEnds
  BY <1>6, GetCellsKeeps, GetStatusesKeeps, SuspendKeeps, ResumeCellKeeps, HealEndsKeeps, RequestTimesOutKeeps
<1>7. CASE UNCHANGED healthVars
  <2> USE <1>7 DEF healthVars, manager, trainer, health, controller, bounds
  <2>1. HealthTypeOK'
    BY DEF HealthIInv, HealthTypeOK
  <2> QED
    BY <2>1, IncarnationsStay, FailuresStay, ScansStay, RequestStays, BrokenStay DEF HealthIInv
<1> QED
  BY <1>1, <1>2, <1>3, <1>4, <1>5, <1>6, <1>7 DEF HealthNext

\* What the health of the cells rests on holds for any number of cells, thresholds,
\* pauses, faults and requests that time out.
THEOREM HealthInvariant == HealthSpec => []HealthIInv
<1>1. HealthInit => HealthIInv
  BY HealthBegins
<1>2. HealthIInv /\ [HealthNext]_healthVars => HealthIInv'
  BY HealthStep
<1> QED
  BY <1>1, <1>2, PTL DEF HealthSpec

\* SimpleHealthChecker never reports a live cell as failed, whatever pauses, resumptions,
\* restarts and late answers come between its probes.
THEOREM TheLiveAreNotReported == HealthSpec => []LiveIsNotFailed
<1>1. HealthIInv => LiveIsNotFailed
  BY HealthLive
<1> QED
  BY <1>1, HealthInvariant, PTL

\* Neither the controller nor the scan takes down workers that are up, unless their cell
\* is errored: what they know may be old, the incarnation it is about is not replaced.
THEOREM TheHealthyAreNotStopped == HealthSpec => []OnlyTheBrokenAreStopped
<1>1. ASSUME HealthIInv PROVE OnlyTheBrokenAreStopped
  <2>1. SUFFICES ASSUME timeouts = 0, NEW i \in DOMAIN ops, ops[i].op \in {"stop", "scan"},
                        worker[ops[i].cell] = "up"
                 PROVE  \/ trainerCell[ops[i].cell].state = "errored"
                        \/ ops[i].op = "scan" /\ ops[i].gen # gen[ops[i].cell]
    BY DEF OnlyTheBrokenAreStopped
  <2>2. CASE ops[i].op = "scan"
    BY <1>1, <2>1, <2>2 DEF HealthIInv, ScansAreOfTheDead, DeadScan
  <2>3. CASE ops[i].op = "stop"
    <3>1. ops[i].cell = Min(ft.todo) /\ ft.pc = "suspending"
      BY <1>1, <2>1, <2>3 DEF HealthIInv, OneRequest, Asked
    <3>2. Min(ft.todo) \in InRound
      BY <1>1, <3>1, FirstOfRound DEF HealthIInv, OneRequest, InRound
    <3> QED
      BY <1>1, <2>1, <3>1, <3>2 DEF HealthIInv, UnhealthyAreBroken, Broken
  <2> QED
    BY <2>1, <2>2, <2>3
<1>2. HealthIInv => OnlyTheBrokenAreStopped
  BY <1>1
<1> QED
  BY <1>2, HealthInvariant, PTL

=============================================================================
