----------------------------- MODULE EvalDispatch -----------------------------
(***************************************************************************)
(* Evaluation beside training: EvalDispatcher exports a snapshot per       *)
(* evaluation point and starts its evaluation on the rollout executor,     *)
(* which evaluates one snapshot at a time on the eval fleet.  The executor *)
(* asks the inference controller to pin the fleet: to have every engine    *)
(* load the snapshot and to check that it did.                             *)
(***************************************************************************)
EXTENDS Naturals, Sequences, FiniteSets, SequencesExt

CONSTANTS
    MaxPoints,      \* bound: evaluation points of the run
    MaxInFlight,    \* eval_max_in_flight
    KeepSnapshots,  \* eval_keep_snapshots
    Given,          \* the points dispatched with a checkpoint of the caller
    Skip,           \* eval_overflow_policy is "skip"
    Engines,        \* the engines of the eval fleet
    MaxFaults       \* bound: exports, loads, pins, evaluations and calls that fail, engines that restart

ASSUME BoundsAssumption ==
    /\ MaxPoints \in Nat \ {0} /\ MaxInFlight \in Nat \ {0} /\ KeepSnapshots \in Nat
    /\ Given \subseteq 1..MaxPoints /\ Skip \in BOOLEAN /\ MaxFaults \in Nat

Points == 1..MaxPoints

VARIABLES
    pc, point,  \* the training loop: in dispatch(), and the point it dispatches
    pending,    \* EvalDispatcher.pending
    exported,   \* EvalDispatcher._exported
    disk,       \* the snapshots under eval_hf_dir, and the parts of failed exports
    eval,       \* the evaluation of a point on the executor
    lock,       \* the points that hold _eval_lock
    pin,        \* the pin of a point on the controller
    tries,      \* its attempts so far
    loads,      \* external: what every engine has still to load, in order
    version,    \* external: the weights of every engine; 0 are those it starts with
    abandoned,  \* history: points whose pin still ran when the executor gave it up
    givenUp,    \* history: points whose eval() call raised on the script, which learns no more of them
    outcome,    \* what was reported of a point, the executor's skips as one
    faults

dispatcher == <<pc, point, pending, exported>>
executor == <<eval, lock>>
fleet == <<pin, tries, loads, version>>
unwatched == <<abandoned, givenUp>>
vars == <<dispatcher, disk, executor, fleet, unwatched, outcome, faults>>

Init ==
    /\ pc = "train" /\ point = 1
    /\ pending = <<>> /\ exported = <<>> /\ disk = {}
    /\ eval = [p \in Points |-> "none"] /\ lock = {}
    /\ pin = [p \in Points |-> "none"] /\ tries = [p \in Points |-> 0]
    /\ loads = [e \in Engines |-> <<>>] /\ version = [e \in Engines |-> 0]
    /\ abandoned = {} /\ givenUp = {}
    /\ outcome = [p \in Points |-> {}]
    /\ faults = 0

Fault == faults < MaxFaults /\ faults' = faults + 1

Report(p, what) == outcome' = [outcome EXCEPT ![p] = @ \cup {what}]

(***************************************************************************)
(* EvalDispatcher.                                                         *)
(***************************************************************************)
Due ==
    /\ pc = "train" /\ point <= MaxPoints
    /\ pc' = "reap"
    /\ UNCHANGED <<point, pending, exported, disk, executor, fleet, unwatched, outcome, faults>>

\* How many of them _retire() removes: the oldest beyond the ones that are kept.
Surplus(dirs) == IF Len(dirs) > KeepSnapshots THEN Len(dirs) - KeepSnapshots ELSE 0

\* Fault: the snapshots of the evaluations that run count as consumed.
VictimsOfAll(dirs) ==
    LET all == dirs \o Tail(pending)
    IN {all[i] : i \in 1..Surplus(all)}

\* The consumed snapshots that are removed.
Victims(dirs) == {dirs[i] : i \in 1..Surplus(dirs)}

Retire(p) ==
    IF p \in Given THEN UNCHANGED <<disk, exported>>
    ELSE LET dirs == Append(exported, p)
         IN  /\ disk' = disk \ Victims(dirs)
             /\ exported' = SubSeq(dirs, Surplus(dirs) + 1, Len(dirs))

Over(p) == eval[p] \in {"done", "crashed"}

\* The task of the point is done: its evaluation is over, or the call was given up.
Done(p) == Over(p) \/ p \in givenUp

\* RpcCall.run() raises: no answer came in time, or the executor could not be
\* reached.  The evaluation goes on, unless it was never submitted.
CallGivenUp(p) ==
    /\ p \in ToSet(pending) \ givenUp /\ Fault
    /\ givenUp' = givenUp \cup {p}
    /\ UNCHANGED eval \/ (eval[p] = "waiting" /\ eval' = [eval EXCEPT ![p] = "crashed"])
    /\ UNCHANGED <<dispatcher, disk, lock, fleet, abandoned, outcome>>

\* _settle() of the oldest point: its task is awaited.
Settle ==
    LET p == Head(pending)
    IN /\ Done(p)
       /\ pending' = Tail(pending)
       /\ Retire(p)
       /\ IF eval[p] = "crashed" \/ p \in givenUp THEN Report(p, "skipped") ELSE UNCHANGED outcome

\* _reap_finished().
Reap ==
    /\ pc = "reap" /\ pending # <<>>
    /\ Settle
    /\ UNCHANGED <<pc, point, executor, fleet, unwatched, faults>>

Reaped == pending # <<>> => ~Done(Head(pending))

\* force: the last point is never skipped.
Busy == Len(pending) >= MaxInFlight
Skipped == Busy /\ Skip /\ point # MaxPoints

\* The point has room, or makes some.
Room == ~Busy

SkipPoint ==
    /\ pc = "reap" /\ Reaped
    /\ Skipped
    /\ Report(point, "busy")
    /\ pc' = "train" /\ point' = point + 1
    /\ UNCHANGED <<pending, exported, disk, executor, fleet, unwatched, faults>>

StartExport ==
    /\ pc = "reap" /\ Reaped
    /\ Room
    /\ pc' = "export"
    /\ UNCHANGED <<point, pending, exported, disk, executor, fleet, unwatched, outcome, faults>>

\* The oldest point is awaited before this one goes on.
MakeRoom ==
    /\ pc = "reap" /\ Reaped
    /\ Busy /\ ~Skipped
    /\ pc' = "settle"
    /\ UNCHANGED <<point, pending, exported, disk, executor, fleet, unwatched, outcome, faults>>

SettleOldest ==
    /\ pc = "settle"
    /\ Settle
    /\ pc' = "export"
    /\ UNCHANGED <<point, executor, fleet, unwatched, faults>>

\* _export() succeeds, or is not needed, and the evaluation starts.
Export ==
    /\ pc = "export"
    /\ disk' = disk \cup ({point} \ Given)
    /\ eval' = [eval EXCEPT ![point] = "waiting"]
    /\ pending' = Append(pending, point)
    /\ pc' = "train" /\ point' = point + 1
    /\ UNCHANGED <<exported, lock, fleet, unwatched, outcome, faults>>

\* _export() fails and may leave a part of the snapshot.
ExportFails ==
    /\ pc = "export" /\ point \notin Given /\ Fault
    /\ disk' \in {disk, disk \cup {point}}
    /\ Report(point, "export_failed")
    /\ pc' = "train" /\ point' = point + 1
    /\ UNCHANGED <<pending, exported, executor, fleet, unwatched>>

\* drain() when the run ends.
Drain ==
    /\ pc = "train" /\ point > MaxPoints /\ pending # <<>>
    /\ Settle
    /\ UNCHANGED <<pc, point, executor, fleet, unwatched, faults>>

(***************************************************************************)
(* InferenceControllerEvalFleet.pin() on the controller, without a lock,   *)
(* and the engines.                                                        *)
(***************************************************************************)
PinRuns(p) == pin[p] \in {"starting", "loading", "reading"}

\* update_weights_from_disk() goes out to every engine.
Post(p) ==
    /\ pin[p] = "starting"
    /\ pin' = [pin EXCEPT ![p] = "loading"]
    /\ loads' = [e \in Engines |-> Append(loads[e], p)]
    /\ UNCHANGED <<dispatcher, disk, executor, tries, version, unwatched, outcome, faults>>

\* An engine loads what it was asked to, one request after the other.  A snapshot
\* that is gone changes nothing, which the reading of the versions tells.
EngineLoads(e) ==
    /\ loads[e] # <<>>
    /\ version' = [version EXCEPT ![e] = IF Head(loads[e]) \in disk \cup Given THEN Head(loads[e]) ELSE @]
    /\ loads' = [loads EXCEPT ![e] = Tail(@)]
    /\ UNCHANGED <<dispatcher, disk, executor, pin, tries, unwatched, outcome, faults>>

\* The pin ends; nobody waits for one that was given up.
Ended(p, what) == pin' = [pin EXCEPT ![p] = IF p \in abandoned THEN "none" ELSE what]

\* The for loop of _pin_fleet(): a second attempt, then False.
NextAttempt(p) ==
    IF tries[p] = 0 THEN pin' = [pin EXCEPT ![p] = "starting"] /\ tries' = [tries EXCEPT ![p] = 1]
                    ELSE Ended(p, "failed") /\ tries' = [tries EXCEPT ![p] = 0]

\* gather() raises with the first engine that fails, or times out; the requests to
\* the others stay with them.
LoadFails(p) ==
    /\ pin[p] = "loading" /\ Fault
    /\ \/ UNCHANGED loads
       \/ \E e \in Engines : \E i \in DOMAIN loads[e] :
             loads[e][i] = p /\ loads' = [loads EXCEPT ![e] = RemoveAt(@, i)]
    /\ NextAttempt(p)
    /\ UNCHANGED <<dispatcher, disk, executor, version, unwatched, outcome>>

Loaded(p) ==
    /\ pin[p] = "loading" /\ \A e \in Engines : p \notin ToSet(loads[e])
    /\ pin' = [pin EXCEPT ![p] = "reading"]
    /\ UNCHANGED <<dispatcher, disk, executor, tries, loads, version, unwatched, outcome, faults>>

AllPinned(p) == \A e \in Engines : version[e] = p

\* _weight_versions(): a stale engine makes the pin start again or fail.
ReadVersions(p) ==
    /\ pin[p] = "reading"
    /\ IF AllPinned(p) THEN Ended(p, "pinned") /\ tries' = [tries EXCEPT ![p] = 0] ELSE NextAttempt(p)
    /\ UNCHANGED <<dispatcher, disk, executor, loads, version, unwatched, outcome, faults>>

\* _wait_router_ready() raises.
RouterNotReady(p) ==
    /\ pin[p] = "reading" /\ AllPinned(p) /\ Fault
    /\ Ended(p, "failed") /\ tries' = [tries EXCEPT ![p] = 0]
    /\ UNCHANGED <<dispatcher, disk, executor, loads, version, unwatched, outcome>>

\* An engine of the fleet is replaced; the new one has the weights of the start.
Restart(e) ==
    /\ Fault /\ (version[e] # 0 \/ loads[e] # <<>>)
    /\ version' = [version EXCEPT ![e] = 0] /\ loads' = [loads EXCEPT ![e] = <<>>]
    /\ UNCHANGED <<dispatcher, disk, executor, pin, tries, unwatched, outcome>>

(***************************************************************************)
(* _eval_checkpoint() on the rollout executor.                             *)
(***************************************************************************)

\* Fault: evaluations do not exclude one another.
NobodyWaits == TRUE

\* async with _eval_lock.
LockFree == lock = {}

EvalStarts(p) ==
    /\ eval[p] = "waiting" /\ LockFree
    /\ IF p \in disk \cup Given
         THEN /\ eval' = [eval EXCEPT ![p] = "pinning"]
              /\ pin' = [pin EXCEPT ![p] = "starting"]
              /\ UNCHANGED outcome
              /\ lock' = lock \cup {p}
         ELSE eval' = [eval EXCEPT ![p] = "done"] /\ Report(p, "skipped") /\ UNCHANGED <<pin, lock>>
    /\ UNCHANGED <<dispatcher, disk, tries, loads, version, unwatched, faults>>

\* The evaluation is over and the script learns of it.
Leave(p, how) == eval' = [eval EXCEPT ![p] = how] /\ lock' = lock \ {p}

\* The answer of pin_eval_fleet().
PinReturns(p) ==
    /\ eval[p] = "pinning" /\ pin[p] \in {"pinned", "failed"}
    /\ IF pin[p] = "pinned" THEN eval' = [eval EXCEPT ![p] = "generating"] /\ UNCHANGED <<lock, outcome>>
       ELSE Leave(p, "done") /\ Report(p, "skipped")
    /\ pin' = [pin EXCEPT ![p] = "none"]
    /\ UNCHANGED <<dispatcher, disk, tries, loads, version, unwatched, faults>>

\* The controller cannot be reached, or its answer did not come in time; the pin
\* may go on.
PinGivenUp(p) ==
    /\ eval[p] = "pinning" /\ Fault
    /\ Leave(p, "done") /\ Report(p, "skipped")
    /\ IF PinRuns(p) THEN abandoned' = abandoned \cup {p} /\ UNCHANGED pin
       ELSE UNCHANGED abandoned /\ pin' = [pin EXCEPT ![p] = "none"]
    /\ UNCHANGED <<dispatcher, disk, tries, loads, version, givenUp>>

Generated(p) ==
    /\ eval[p] = "generating"
    /\ Leave(p, "done") /\ Report(p, "evaluated")
    /\ UNCHANGED <<dispatcher, disk, fleet, unwatched, faults>>

\* Fault: an evaluation that raises keeps the lock.
CrashKeepsLock(p) ==
    /\ eval[p] = "generating" /\ Fault
    /\ eval' = [eval EXCEPT ![p] = "crashed"]
    /\ UNCHANGED <<dispatcher, disk, lock, fleet, unwatched, outcome>>

\* The evaluation raises, or what follows on its metrics.
EvalCrashes(p) ==
    /\ eval[p] = "generating" /\ Fault
    /\ Leave(p, "crashed") /\ (UNCHANGED outcome \/ Report(p, "evaluated"))
    /\ UNCHANGED <<dispatcher, disk, fleet, unwatched>>

Next ==
    \/ Due \/ Reap \/ SkipPoint \/ StartExport \/ MakeRoom \/ SettleOldest \/ Export \/ ExportFails \/ Drain
    \/ \E p \in Points : \/ CallGivenUp(p) \/ EvalStarts(p) \/ PinReturns(p) \/ PinGivenUp(p) \/ Generated(p) \/ EvalCrashes(p)
                         \/ Post(p) \/ LoadFails(p) \/ Loaded(p) \/ ReadVersions(p) \/ RouterNotReady(p)
    \/ \E e \in Engines : EngineLoads(e) \/ Restart(e)

Spec == Init /\ [][Next]_vars

\* The training loop, the engines and the pins go on, evaluations end, and a free lock
\* is given to somebody who waits for it.  Nothing goes on for ever, so none of them
\* needs to be fair to its points.
Fairness ==
    /\ WF_vars(Due \/ Reap \/ SkipPoint \/ StartExport \/ MakeRoom \/ SettleOldest \/ Export \/ Drain)
    /\ WF_vars(\E e \in Engines : EngineLoads(e))
    /\ WF_vars(\E p \in Points : EvalStarts(p))
    /\ WF_vars(\E p \in Points : Post(p) \/ Loaded(p) \/ ReadVersions(p))
    /\ WF_vars(\E p \in Points : PinReturns(p) \/ Generated(p))

FairSpec == Spec /\ Fairness

(***************************************************************************)
(* Properties.                                                             *)
(***************************************************************************)
\* Every variable has its type.
TypeOK ==
    /\ pc \in {"train", "reap", "settle", "export"} /\ point \in 1..(MaxPoints + 1)
    /\ pending \in Seq(Points) /\ exported \in Seq(Points) /\ disk \subseteq Points
    /\ Len(pending) <= MaxInFlight /\ Len(exported) <= KeepSnapshots
    /\ eval \in [Points -> {"none", "waiting", "pinning", "generating", "done", "crashed"}]
    /\ pin \in [Points -> {"none", "starting", "loading", "reading", "pinned", "failed"}]
    /\ lock \subseteq Points /\ tries \in [Points -> 0..1] /\ abandoned \subseteq Points
    /\ givenUp \subseteq Points
    /\ loads \in [Engines -> Seq(Points)] /\ version \in [Engines -> Points \cup {0}]
    /\ outcome \in [Points -> SUBSET {"busy", "export_failed", "skipped", "evaluated"}]
    /\ faults \in 0..MaxFaults

\* The snapshot of a point stays on disk until its evaluation has ended: the
\* collection of consumed snapshots never takes one that is still to be loaded,
\* as long as the script's call was not given up.
SnapshotsInUseStay ==
    \A p \in Points \ (Given \cup givenUp) : eval[p] \in {"waiting", "pinning", "generating"} => p \in disk

\* The same of every evaluation: what is deleted as consumed (eval_dispatch.py:101) has
\* been consumed.  It does not hold when the call of one that goes on was given up.
OnlyConsumedAreDeleted ==
    \A p \in Points \ Given : eval[p] \in {"waiting", "pinning", "generating"} => p \in disk

\* Besides the parts of failed exports, the staging directory never holds more
\* snapshots than may be in flight and are to be kept.
DiskIsBounded ==
    Cardinality({p \in disk : "export_failed" \notin outcome[p]}) <= MaxInFlight + KeepSnapshots

\* While a point is evaluated, every engine has its weights, or was replaced since
\* and has those it started with, and keeps them: nothing that another pin left
\* behind is still to be loaded.
OneSnapshotAtATime ==
    \A p \in Points : eval[p] = "generating" =>
        \A e \in Engines : version[e] \in {p, 0} /\ ToSet(loads[e]) \subseteq {p}

\* No evaluation mixes checkpoints, as long as no pin goes on that the executor
\* has given up.
NoMixedEvaluation == abandoned = {} => OneSnapshotAtATime

\* The collection of snapshots is neither early nor late.
CollectionIsRight == SnapshotsInUseStay /\ DiskIsBounded

Drained == point > MaxPoints /\ pending = <<>>

\* Training ends with every evaluation settled: the dispatcher and the evaluations
\* never wait for one another for ever, something was reported of every point,
\* and the last one was not skipped for being late.
EveryPointIsReported ==
    <>(Drained /\ (\A p \in Points : outcome[p] # {}) /\ "busy" \notin outcome[MaxPoints])

(***************************************************************************)
(* What the safety properties rest on.                                     *)
(***************************************************************************)

\* While a point is dispatched there is one, and there is room for it when it is
\* exported.
Dispatching ==
    /\ pc # "train" => point <= MaxPoints
    /\ pc = "settle" => Len(pending) = MaxInFlight
    /\ pc = "export" => Len(pending) < MaxInFlight

\* The points to come have no evaluation yet, and what is consumed has ended or
\* was given up.
Consumed ==
    /\ \A p \in Points : p >= point => eval[p] = "none"
    /\ \A p \in ToSet(exported) : Done(p)

\* What is in the staging directory is consumed and kept, or in flight, or the part
\* of a failed export; a checkpoint of the caller is never there.
Accounted ==
    /\ disk \cap Given = {}
    /\ \A p \in disk : p \in ToSet(exported) \cup ToSet(pending) \/ "export_failed" \in outcome[p]

\* _eval_lock is held by the one evaluation that pins or generates.
OneHolder ==
    /\ \A p \in Points : p \in lock <=> eval[p] \in {"pinning", "generating"}
    /\ \A p, q \in lock : p = q

\* As long as no pin was given up, only the evaluation that pins has one; what it
\* asked of an engine comes last, and once its versions are read nothing is
\* left to be loaded.
Pins ==
    abandoned = {} => \A p \in Points :
        /\ (pin[p] # "none" => eval[p] = "pinning")
        /\ (pin[p] = "loading" => \A e \in Engines : loads[e] # <<>> => loads[e][Len(loads[e])] = p)
        /\ (pin[p] \in {"reading", "pinned"} \/ eval[p] = "generating" => \A e \in Engines : loads[e] = <<>>)
        /\ (pin[p] = "pinned" \/ eval[p] = "generating" => \A e \in Engines : version[e] \in {p, 0})

IInv ==
    /\ TypeOK /\ Dispatching /\ Consumed /\ Accounted
    /\ SnapshotsInUseStay /\ OneHolder /\ Pins
=============================================================================
