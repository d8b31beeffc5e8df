---------------------------- MODULE TrainerGroup ----------------------------
(***************************************************************************)
(* The trainer controller and its cells (ray/train) with independent data  *)
(* parallelism: every cell holds a replica of the model and trains a part  *)
(* of the batch, the gradients are summed over the group of cells that are *)
(* alive, cells that fail are killed, and cells that are deployed again    *)
(* are healed with the state of a peer before the next attempt.            *)
(*                                                                         *)
(* Calls to cells are awaited together; a cell may be removed and replaced *)
(* by the watcher of the worker provider while they run.                   *)
(***************************************************************************)
EXTENDS TrainerCells, Sequences, FiniteSetsExt

CONSTANTS
    MaxRollouts,    \* bound: training steps
    MaxAttempts,    \* _RETRY_MAX_ATTEMPTS
    MaxDeploys      \* bound: cells that are removed or deployed

ASSUME BoundsAssumption ==
    /\ MaxRollouts \in Nat /\ MaxAttempts \in Nat \ {0} /\ MaxFaults \in Nat /\ MaxDeploys \in Nat

VARIABLES
    cell,      \* TrainerCell._state, or gone
    info,      \* indep_dp_info: the quorum and the cells of the group
    model,     \* the workers: the rollouts that were applied to their replica
    called,    \* the workers: whether train() was called (_last_rollout_id)
    quorum,    \* _indep_dp_quorum_id
    pc,        \* where the controller is
    rollout,   \* the rollout that is trained
    attempt,   \* the attempt of retry()
    healing,   \* the cells that the running refresh heals
    src,       \* the cell that sends its state to them
    task,      \* the call awaited on every cell and its outcome
    received,  \* the healing cells that have the state
    split,     \* history: the rollouts of which some cells stepped and others discarded an attempt
    deploys    \* the cells removed or deployed; faults are calls and collectives that fail

cells == <<cell, info, model, called>>
refresh == <<healing, src, received>>
control == <<pc, rollout, attempt>>
vars == <<cells, quorum, control, refresh, task, split, faults, deploys>>

Init ==
    /\ cell = [c \in Cells |-> "alive"]
    /\ info = [c \in Cells |-> [quorum |-> 0, members |-> Cells]]
    /\ model = [c \in Cells |-> <<>>] /\ called = [c \in Cells |-> FALSE]
    /\ quorum = 0
    /\ pc = "idle" /\ rollout = 1 /\ attempt = 1
    /\ healing = {} /\ src = Min(Cells) /\ received = {}
    /\ task = [c \in Cells |-> "none"]
    /\ split = {} /\ faults = 0 /\ deploys = 0

In(state) == {c \in Cells : cell[c] = state}
Tasks(state) == {c \in Cells : task[c] = state}
Busy == Tasks("running") \cup Tasks("sending") \cup Tasks("reduced")

(***************************************************************************)
(* The worker provider: _reconcile().                                      *)
(***************************************************************************)

\* dispose() cancels the calls that run on the cell.
Cancelled(c) == [task EXCEPT ![c] = IF c \in Busy THEN "error" ELSE @]

RemoveCell(c) ==
    /\ cell[c] # "gone" /\ deploys < MaxDeploys
    /\ deploys' = deploys + 1
    /\ cell' = [cell EXCEPT ![c] = "gone"]
    /\ task' = Cancelled(c)
    /\ UNCHANGED <<info, model, called, quorum, control, refresh, split, faults>>

\* A cell appears, or another incarnation replaces it.
AddCell(c) ==
    /\ deploys < MaxDeploys
    /\ deploys' = deploys + 1
    /\ cell' = [cell EXCEPT ![c] = "uninitialized"]
    /\ model' = [model EXCEPT ![c] = <<>>] /\ called' = [called EXCEPT ![c] = FALSE]
    /\ task' = Cancelled(c)
    /\ UNCHANGED <<info, quorum, control, refresh, split, faults>>

(***************************************************************************)
(* _refresh_cells(): regroup the cells and heal the new ones.              *)
(***************************************************************************)
WillAlive == In("alive") \cup In("uninitialized")

NeedsReconfigure ==
    In("uninitialized") # {} \/ \E c \in In("alive") : info[c].members # WillAlive

\* The calls of train() on every cell that is alive.
StartTraining ==
    /\ pc' = "training"
    /\ task' = [c \in Cells |-> IF cell[c] = "alive" THEN "running" ELSE "none"]
    /\ called' = [c \in Cells |-> called[c] \/ cell[c] = "alive"]

\* train(), and every further attempt of it.
Refresh ==
    /\ pc = "idle" /\ rollout <= MaxRollouts
    /\ IF In("alive") = {}
         THEN pc' = "failed" /\ UNCHANGED <<quorum, refresh, task, called>>
         ELSE IF ~NeedsReconfigure
         THEN StartTraining /\ UNCHANGED <<quorum, refresh>>
         ELSE /\ pc' = "preparing" /\ quorum' = quorum + 1
              /\ healing' = In("uninitialized") /\ src' = Min(In("alive")) /\ received' = {}
              /\ task' = [c \in Cells |-> IF c \in WillAlive THEN "running" ELSE "none"]
              /\ UNCHANGED called
    /\ UNCHANGED <<cell, info, model, rollout, attempt, split, faults, deploys>>

Group == [quorum |-> quorum, members |-> {c \in Cells : task[c] # "none"}]

\* prepare_indep_dp_mode_alive(): reconfigured, and then the source sends.
ReconfigureAlive(c) ==
    /\ pc = "preparing" /\ task[c] = "running" /\ c \notin healing
    /\ info' = [info EXCEPT ![c] = Group]
    /\ task' = [task EXCEPT ![c] = IF c = src /\ healing # {} THEN "sending" ELSE "ok"]
    /\ UNCHANGED <<cell, model, called, quorum, control, refresh, split, faults, deploys>>

Unsent == healing \ received

\* Fault: the cell is healed without the state of its peer.
SendNothing(d) ==
    /\ pc = "preparing" /\ task[src] = "sending" /\ called[src]
    /\ Unsent # {} /\ d = Min(Unsent) /\ task[d] = "running"
    /\ received' = received \cup {d}
    /\ UNCHANGED <<cell, info, called, model, quorum, control, healing, src, task, split, faults, deploys>>

\* send_ckpt() to the next healing cell, recv_ckpt() there.
SendState(d) ==
    /\ pc = "preparing" /\ task[src] = "sending" /\ called[src]
    /\ Unsent # {} /\ d = Min(Unsent) /\ task[d] = "running"
    /\ received' = received \cup {d}
    /\ model' = [model EXCEPT ![d] = model[src]]
    /\ UNCHANGED <<cell, info, called, quorum, control, healing, src, task, split, faults, deploys>>

SendDone ==
    /\ pc = "preparing" /\ task[src] = "sending" /\ Unsent = {}
    /\ task' = [task EXCEPT ![src] = "ok"]
    /\ UNCHANGED <<cells, quorum, control, refresh, split, faults, deploys>>

\* prepare_indep_dp_mode_healing(): init() returns and the cell is alive.
Healed(d) ==
    /\ pc = "preparing" /\ task[d] = "running" /\ d \in received
    /\ cell' = [cell EXCEPT ![d] = "alive"]
    /\ info' = [info EXCEPT ![d] = Group]
    /\ task' = [task EXCEPT ![d] = "ok"]
    /\ UNCHANGED <<model, called, quorum, control, refresh, split, faults, deploys>>

\* Fault: a cell waits for the state of a peer that failed.
ReceiverWaits(c) ==
    pc = "preparing" /\ Unsent # {} /\ task[c] = "sending" /\ (~called[c] \/ task[Min(Unsent)] = "error")

\* What a cell cannot do without its peer: send to one that failed or before the
\* first call of train(), receive from one that failed.
PeerFailed(c) ==
    /\ pc = "preparing" /\ Unsent # {}
    /\ \/ task[c] = "sending" /\ (~called[c] \/ task[Min(Unsent)] = "error")
       \/ task[c] = "running" /\ c \in Unsent /\ task[src] = "error"

\* mark_errored_and_kill(): the workers are killed before the error is raised.
MarkErrored(c) == [cell EXCEPT ![c] = "errored"]

\* A call raises on one of the workers of a cell.
CallFails(c) ==
    /\ c \in Busy
    /\ Fault \/ (PeerFailed(c) /\ UNCHANGED faults)
    /\ cell' = MarkErrored(c)
    /\ task' = [task EXCEPT ![c] = "error"]
    /\ UNCHANGED <<info, model, called, quorum, control, refresh, split, deploys>>

\* retry(): another attempt, or the run ends.
Retry ==
    IF attempt < MaxAttempts THEN pc' = "idle" /\ attempt' = attempt + 1
                             ELSE pc' = "failed" /\ UNCHANGED attempt

\* All calls have returned.  Failures are left to the attempt that follows; if
\* there was none, the assertion on the cells that are alive may fail it.
Prepared ==
    /\ pc = "preparing" /\ Busy = {}
    /\ IF Tasks("error") = {} /\ In("alive") # Tasks("ok")
         THEN Retry /\ task' = [c \in Cells |-> "none"] /\ UNCHANGED called
         ELSE IF In("alive") = {}
         THEN /\ pc' = "failed" /\ task' = [c \in Cells |-> "none"]
              /\ UNCHANGED <<called, attempt>>
         ELSE StartTraining /\ UNCHANGED attempt
    /\ UNCHANGED <<cell, info, model, quorum, rollout, refresh, split, faults, deploys>>

(***************************************************************************)
(* train_one_step() on the cells.                                          *)
(***************************************************************************)

\* Every cell of the group of c has reached the all-reduce.
Complete(c) == \A d \in info[c].members : task[d] = "running" /\ info[d] = info[c]

\* The all-reduce succeeds on the cells of ok: the ranks of a cell agree on the
\* outcome, the cells do not.
Allreduce(c, ok) ==
    /\ pc = "training" /\ task[c] = "running" /\ Complete(c)
    /\ ok \subseteq info[c].members
    /\ IF ok = info[c].members THEN UNCHANGED faults ELSE Fault
    /\ Cardinality(info[c].members) = 1 => ok = info[c].members
    /\ task' = [d \in Cells |-> IF d \in ok THEN "reduced"
                                ELSE IF d \in info[c].members THEN "discarded" ELSE task[d]]
    /\ UNCHANGED <<cells, quorum, control, refresh, split, deploys>>

\* A member is missing: the all-reduce fails and the step is discarded.
AllreduceFails(c) ==
    /\ pc = "training" /\ task[c] = "running"
    /\ \E d \in info[c].members : task[d] # "running" \/ info[d] # info[c]
    /\ task' = [task EXCEPT ![c] = "discarded"]
    /\ UNCHANGED <<cells, quorum, control, refresh, split, faults, deploys>>

\* The optimizer steps.
StepOptimizer(c) ==
    /\ pc = "training" /\ task[c] = "reduced"
    /\ model' = [model EXCEPT ![c] = Append(@, rollout)]
    /\ task' = [task EXCEPT ![c] = "normal"]
    /\ UNCHANGED <<cell, info, called, quorum, control, refresh, split, faults, deploys>>

\* The history: some cells have stepped and others have not.
NoteSplit ==
    split' = IF Tasks("normal") # {} /\ Tasks("discarded") # {} THEN split \cup {rollout} ELSE split

\* Fault: an attempt that some cells discarded is not repeated.
DiscardedIsFine ==
    /\ pc = "training" /\ Busy = {}
    /\ IF Tasks("normal") = {} /\ Tasks("discarded") = {}
         THEN IF In("alive") # {} THEN Retry /\ UNCHANGED rollout
                                  ELSE pc' = "failed" /\ UNCHANGED <<attempt, rollout>>
         ELSE pc' = "trained" /\ rollout' = rollout + 1 /\ attempt' = 1
    /\ task' = [c \in Cells |-> "none"]
    /\ NoteSplit
    /\ UNCHANGED <<cells, quorum, refresh, faults, deploys>>

\* _check_train_one_attempt(): all cells failed, or some discarded their step, or
\* the survivors have applied it.
CheckAttempt ==
    /\ pc = "training" /\ Busy = {}
    /\ IF Tasks("normal") = {} /\ Tasks("discarded") = {}
         THEN IF In("alive") # {} THEN Retry /\ UNCHANGED rollout
                                  ELSE pc' = "failed" /\ UNCHANGED <<attempt, rollout>>
         ELSE IF Tasks("discarded") # {}
         THEN Retry /\ UNCHANGED rollout
         ELSE pc' = "trained" /\ rollout' = rollout + 1 /\ attempt' = 1
    /\ task' = [c \in Cells |-> "none"]
    /\ NoteSplit
    /\ UNCHANGED <<cells, quorum, refresh, faults, deploys>>

(***************************************************************************)
(* save_model() and export_hf(): _execute_first_alive() under retry().     *)
(***************************************************************************)
SkipSave ==
    /\ pc = "trained"
    /\ pc' = "idle" /\ attempt' = 1
    /\ UNCHANGED <<cells, quorum, rollout, refresh, task, split, faults, deploys>>

SaveFails ==
    /\ pc = "trained"
    /\ IF In("alive") = {}
         THEN pc' = "failed" /\ UNCHANGED <<attempt, cell, faults>>
         ELSE /\ Fault
              /\ cell' = MarkErrored(Min(In("alive")))
              /\ IF In("alive") = {Min(In("alive"))} \/ attempt = MaxAttempts
                   THEN pc' = "failed" /\ UNCHANGED attempt
                   ELSE attempt' = attempt + 1 /\ UNCHANGED pc
    /\ UNCHANGED <<info, model, called, quorum, rollout, refresh, task, split, deploys>>

Next ==
    \/ \E c \in Cells : RemoveCell(c) \/ AddCell(c) \/ CallFails(c)
    \/ Refresh \/ Prepared \/ SendDone
    \/ \E c \in Cells : ReconfigureAlive(c) \/ SendState(c) \/ Healed(c)
    \/ \E c \in Cells : AllreduceFails(c) \/ StepOptimizer(c) \/ \E ok \in SUBSET Cells : Allreduce(c, ok)
    \/ CheckAttempt \/ SkipSave \/ SaveFails

Spec == Init /\ [][Next]_vars

\* Calls to workers return or raise: a cell that hangs is killed by the
\* fault-tolerance controller, and collectives have timeouts.
Fairness ==
    /\ WF_vars(Refresh \/ Prepared \/ CheckAttempt \/ SkipSave)
    /\ WF_vars(SendDone \/ \E c \in Cells : SendState(c))
    /\ \A c \in Cells :
          /\ WF_vars(ReconfigureAlive(c) \/ Healed(c) \/ (PeerFailed(c) /\ CallFails(c)))
          /\ WF_vars(AllreduceFails(c) \/ Allreduce(c, info[c].members) \/ StepOptimizer(c))

FairSpec == Spec /\ Fairness

(***************************************************************************)
(* Properties.                                                             *)
(***************************************************************************)
\* Every variable has its type.
TypeOK ==
    /\ cell \in [Cells -> {"gone", "uninitialized", "alive", "errored"}]
    /\ info \in [Cells -> [quorum : 0..quorum, members : SUBSET Cells]]
    /\ model \in [Cells -> Seq(1..MaxRollouts)] /\ called \in [Cells -> BOOLEAN]
    /\ quorum \in Nat /\ pc \in {"idle", "preparing", "training", "trained", "failed"}
    /\ rollout \in 1..(MaxRollouts + 1) /\ attempt \in 1..MaxAttempts
    /\ task \in [Cells -> {"none", "running", "sending", "ok", "error", "reduced", "discarded", "normal"}]
    /\ healing \in SUBSET Cells /\ received \in SUBSET healing /\ src \in Cells
    /\ split \subseteq 1..MaxRollouts /\ faults \in 0..MaxFaults /\ deploys \in 0..MaxDeploys

Steps(replica) == {replica[i] : i \in DOMAIN replica}

\* The steps of a replica are in order, and none is repeated but those of again.
InOrder(replica, again) ==
    \A i, j \in DOMAIN replica :
        /\ i <= j => replica[i] <= replica[j]
        /\ replica[i] = replica[j] => i = j \/ replica[i] \in again

\* The replica to which the rollouts up to n were applied.
Holds(replica, n, again) == InOrder(replica, again) /\ Steps(replica) = 1..n

\* When train() has returned, every cell that is alive has applied every rollout in
\* order, and once unless the cells were split over it: no replica missed a step,
\* repeated one in a retry of an attempt that all of them discarded, or was healed
\* with an older or a newer state.
ReplicasAgree == pc = "trained" => \A c \in In("alive") : Holds(model[c], rollout - 1, split)

\* The gradients summed by an all-reduce were computed on weights that differ at most
\* in how often a step was applied over which the cells were split.
CommonBase ==
    pc = "training" => \A c, d \in Tasks("running") : info[c] = info[d] =>
        /\ InOrder(model[c], split) /\ InOrder(model[d], split)
        /\ Steps(model[c]) \ split = Steps(model[d]) \ split

\* A group whose cells all train is one group: no two cells train under different
\* quorums while each believes that the other is a member.
NoSplitGroup ==
    pc = "training" => \A c \in Tasks("running") : info[c].members \subseteq Tasks("running")
                          => \A d \in info[c].members : info[d] = info[c]

\* An all-reduce joins the cells of one group, which have applied the same steps.
AllreduceIsSound == NoSplitGroup /\ CommonBase

\* What the checksum analyzer says of the replicas (cross_replica_weight_checksum.py:18):
\* that they are exactly the same.  A rollout over which the cells were split is trained
\* twice by those that had stepped.
ReplicasAreTheSame == pc = "trained" => \A c, d \in In("alive") : model[c] = model[d]

\* Every train() ends, with the rollout trained or with the error that ends the
\* run: the cells never wait for one another for ever.
TrainEnds == pc \in {"preparing", "training"} ~> pc \in {"trained", "failed"}

(***************************************************************************)
(* What the safety properties rest on.                                     *)
(***************************************************************************)

\* Between two preparations the cells that are alive form one group, and each
\* belongs to it: none was left behind with the group of an earlier quorum.
OneGroup ==
    pc # "preparing" => \A c \in In("alive") :
        c \in info[c].members /\ \A d \in In("alive") : info[c] = info[d]

\* A preparation: the cells that are alive take part, those that have answered
\* have the group that is prepared, and only a source that is alive sends.
Preparing ==
    pc = "preparing" => \A c \in Cells :
        /\ (cell[c] = "alive" => task[c] \in {"running", "sending", "ok"})
        /\ (cell[c] = "alive" /\ task[c] # "running" => info[c] = Group)
        /\ (task[c] = "running" /\ c \notin healing => cell[c] = "alive")
        /\ (task[c] = "sending" => cell[c] = "alive" /\ c = src)

\* An attempt: the cells that compute are alive, and all that were called are
\* members of the one group.
Training ==
    pc = "training" => \A c \in Cells :
        /\ (cell[c] = "alive" => task[c] \in {"running", "reduced", "discarded", "normal"})
        /\ (c \in Busy => cell[c] = "alive" /\ task[c] # "sending")
        /\ (task[c] # "none" => task[c] # "ok" /\ \A d \in In("alive") : c \in info[d].members)

\* The replica before the attempts of a rollout, or after one of them that was split.
Between(replica) ==
    \/ Holds(replica, rollout - 1, split)
    \/ rollout \in split /\ Holds(replica, rollout, split)

Stepped(c) == pc = "training" /\ task[c] = "normal"

\* The replica of every cell that is alive, or that has just received one.
Replicas ==
    pc # "failed" => \A c \in Cells :
        /\ (cell[c] = "alive" /\ ~Stepped(c) => Between(model[c]))
        /\ (cell[c] = "alive" /\ Stepped(c) => Holds(model[c], rollout, split))
        /\ (pc = "preparing" /\ c \in received /\ task[c] = "running" => Between(model[c]))

\* What is trained is one of the rollouts; no rollout to come was split.
InRange ==
    /\ pc \in {"preparing", "training"} => rollout <= MaxRollouts
    /\ \A r \in split : IF pc = "trained" THEN r < rollout ELSE r <= rollout

IInv ==
    /\ TypeOK /\ InRange /\ OneGroup /\ Preparing /\ Training /\ Replicas
=============================================================================
