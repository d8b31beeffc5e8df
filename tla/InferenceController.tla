------------------------ MODULE InferenceController ------------------------
(***************************************************************************)
(* The inference controller (ray/rollout/inference_controller.py) with its *)
(* server cells (server_cell.py, rollout_server.py) and a weight update    *)
(* driven from the orchestration script (placement_group.update_weights).  *)
(*                                                                         *)
(* Every operation on the cells runs under the context lock, whose mutual  *)
(* exclusion is the subject of ContextLock: a body that holds it is one    *)
(* action here.  What remains between actions is the lock detached for the *)
(* length of an update, the lock released while an update waits for cells, *)
(* and the coroutines a failed asyncio.gather() leaves running.            *)
(*                                                                         *)
(* One updatable model.  An incarnation (workers_hash) is one deployment   *)
(* of a cell; it has its own engine and its own url at the router.         *)
(***************************************************************************)
EXTENDS Naturals, FiniteSets

CONSTANTS
    CellIds,
    MaxHash,      \* bound: deployments over all cells
    MaxVersion    \* bound: weight updates

ASSUME BoundsAssumption == MaxHash \in Nat /\ MaxVersion \in Nat

VARIABLES
    observed,   \* the provider's incarnation of every cell, NoHash when gone
    nextHash,
    cell,       \* all_server_cells: the incarnation and the state of each cell
    routed,     \* the incarnations registered with the router
    engine,     \* the weights every incarnation's engine holds
    orch,       \* the orchestration script
    snapshot,   \* snapshot_cell_id_to_hashes of the update in progress
    pushed,     \* per target, the outcome of the trainer's transfer
    candidate,  \* the version being transferred; every update has its own
    published,  \* set_weight_version() of the rollout executor
    settling    \* cell coroutines left behind by a failed gather

vars == <<observed, nextHash, cell, routed, engine, orch, snapshot, pushed, candidate,
          published, settling>>

NoHash == 0
LaunchWeights == 0
Torn == MaxVersion + 1        \* part of an interrupted transfer
Hashes == 1..MaxHash
States == {"absent", "initializing", "pending", "serving", "errored"}
Absent == [hash |-> NoHash, state |-> "absent"]

Init ==
    /\ observed = [c \in CellIds |-> NoHash] /\ nextHash = 1
    /\ cell = [c \in CellIds |-> Absent]
    /\ routed = {} /\ engine = [h \in Hashes |-> LaunchWeights]
    /\ orch = "ready"
    /\ snapshot = [c \in CellIds |-> NoHash] /\ pushed = [c \in CellIds |-> "none"]
    /\ candidate = 0 /\ published = 0 /\ settling = {}

\* The lock is free unless an update has detached it.
LockFree == orch # "updating"
update == <<snapshot, pushed, candidate, published>>

(***************************************************************************)
(* The deployment, as the provider reports it.                             *)
(***************************************************************************)
Deploy(c) ==
    /\ nextHash <= MaxHash
    /\ observed' = [observed EXCEPT ![c] = nextHash]
    /\ nextHash' = nextHash + 1
    /\ UNCHANGED <<cell, routed, engine, orch, update, settling>>

Vanish(c) ==
    /\ observed[c] # NoHash
    /\ observed' = [observed EXCEPT ![c] = NoHash]
    /\ UNCHANGED <<nextHash, cell, routed, engine, orch, update, settling>>

(***************************************************************************)
(* Reconciliation of one cell with what was observed.                      *)
(***************************************************************************)

\* apply_cell_observation(): there is something to add, remove or replace.
Differs(c) == observed[c] # cell[c].hash

\* dispose() of the old cell: a serving one is unregistered; a router that
\* does not answer is only logged.
DisposedRoutes(c) ==
    IF cell[c].state = "serving" THEN {routed \ {cell[c].hash}, routed} ELSE {routed}

\* add_cell(): the new cell initializes, or init() raises and it is removed.
Added(c) ==
    IF observed[c] = NoHash THEN {Absent}
    ELSE {[hash |-> observed[c], state |-> "initializing"], Absent}

\* Fault: reconciliation does not take the lock.
ReconcileUnlocked(c) ==
    /\ Differs(c)
    /\ \E new \in Added(c), r \in DisposedRoutes(c) :
          cell' = [cell EXCEPT ![c] = new] /\ routed' = r
    /\ UNCHANGED <<observed, nextHash, engine, orch, update, settling>>

Reconcile(c) ==
    /\ LockFree
    /\ Differs(c)
    /\ \E new \in Added(c), r \in DisposedRoutes(c) :
          cell' = [cell EXCEPT ![c] = new] /\ routed' = r
    /\ UNCHANGED <<observed, nextHash, engine, orch, update, settling>>

\* Fault: a healthy engine is put into service at once.
TickServes(c) ==
    /\ LockFree
    /\ cell[c].state = "initializing"
    /\ cell' = [cell EXCEPT ![c].state = "serving"]
    /\ routed' = routed \cup {cell[c].hash}
    /\ UNCHANGED <<observed, nextHash, engine, orch, update, settling>>

\* tick(): the engine of an initializing cell answers its health probe.
Tick(c) ==
    /\ LockFree
    /\ cell[c].state = "initializing"
    /\ cell' = [cell EXCEPT ![c].state = "pending"]
    /\ UNCHANGED <<observed, nextHash, routed, engine, orch, update, settling>>

(***************************************************************************)
(* A weight update.                                                        *)
(***************************************************************************)
Normal == {c \in CellIds : cell[c].state \notin {"absent", "errored"}}
Ready == \A c \in Normal : cell[c].state \in {"pending", "serving"}

\* start_update_weights() waits in _ensure_cells_ready(), the lock released
\* between two looks at the cells.
StartUpdate ==
    /\ orch \in {"ready", "restarted"}
    /\ orch' = "starting"
    /\ UNCHANGED <<observed, nextHash, cell, routed, engine, update, settling>>

\* All cells are ready: the engines are handed out, the lock stays detached.
CellsReady ==
    /\ orch = "starting" /\ Ready /\ candidate < MaxVersion
    /\ orch' = "updating"
    /\ candidate' = candidate + 1
    /\ snapshot' = [c \in CellIds |-> IF c \in Normal THEN cell[c].hash ELSE NoHash]
    /\ pushed' = [c \in CellIds |-> IF c \in Normal THEN "todo" ELSE "none"]
    /\ UNCHANGED <<observed, nextHash, cell, routed, engine, published, settling>>

CellsReadyTimeout ==
    /\ orch = "starting" /\ ~Ready
    /\ orch' = "failed"
    /\ UNCHANGED <<observed, nextHash, cell, routed, engine, update, settling>>

\* The trainer transfers the weights to one engine; a failed transfer may
\* leave it with part of them.
Push(c) ==
    /\ orch = "updating" /\ pushed[c] = "todo"
    /\ \/ /\ pushed' = [pushed EXCEPT ![c] = "ok"]
          /\ engine' = [engine EXCEPT ![snapshot[c]] = candidate]
       \/ /\ pushed' = [pushed EXCEPT ![c] = "failed"]
          /\ \E w \in {engine[snapshot[c]], Torn} : engine' = [engine EXCEPT ![snapshot[c]] = w]
    /\ UNCHANGED <<observed, nextHash, cell, routed, orch, snapshot, candidate, published,
                   settling>>

Targets == {c \in CellIds : snapshot[c] # NoHash}
FailedCells == {c \in Targets : pushed[c] = "failed" /\ cell[c].hash = snapshot[c]}
UpdatedCells == {c \in Targets : pushed[c] = "ok" /\ cell[c].hash = snapshot[c]
                                   /\ cell[c].state = "pending"}
AllPushed == \A c \in Targets : pushed[c] # "todo"
NoneReceived == Targets # {} /\ \A c \in Targets : pushed[c] = "failed"

\* An update without any target publishes no version.
Outcome == IF Targets = {} THEN published ELSE candidate

\* The trainer's update raises (always when no cell received the weights), and
\* abort_update_weights() frees the lock.
AbortUpdate ==
    /\ orch = "updating"
    /\ orch' = "failed"
    /\ UNCHANGED <<observed, nextHash, cell, routed, engine, update, settling>>

HashesOf(cs) == {cell[c].hash : c \in cs}
ServingOf(cs) == {c \in cs : cell[c].state = "serving"}

\* Fault: the cells that failed the transfer are left alone.
EndUpdateKeepsFailed ==
    /\ orch = "updating" /\ AllPushed /\ ~NoneReceived
    /\ cell' = [c \in CellIds |->
                  IF c \in UpdatedCells THEN [cell[c] EXCEPT !.state = "serving"] ELSE cell[c]]
    /\ routed' = routed \cup HashesOf(UpdatedCells)
    /\ orch' = "ready" /\ published' = Outcome
    /\ UNCHANGED <<observed, nextHash, engine, snapshot, pushed, candidate, settling>>

\* Fault: an updated cell is put into service without its registration.
EndUpdateUnregistered ==
    /\ orch = "updating" /\ AllPushed /\ ~NoneReceived
    /\ cell' = [c \in CellIds |->
                  IF c \in FailedCells THEN [cell[c] EXCEPT !.state = "errored"]
                  ELSE IF c \in UpdatedCells THEN [cell[c] EXCEPT !.state = "serving"]
                  ELSE cell[c]]
    /\ routed' = routed \ HashesOf(ServingOf(FailedCells))
    /\ orch' = "ready" /\ published' = Outcome
    /\ UNCHANGED <<observed, nextHash, engine, snapshot, pushed, candidate, settling>>

\* end_update_weights() and set_weight_version(): failed cells leave service,
\* updated ones that waited for weights enter it.
EndUpdate ==
    /\ orch = "updating" /\ AllPushed /\ ~NoneReceived
    /\ cell' = [c \in CellIds |->
                  IF c \in FailedCells THEN [cell[c] EXCEPT !.state = "errored"]
                  ELSE IF c \in UpdatedCells THEN [cell[c] EXCEPT !.state = "serving"]
                  ELSE cell[c]]
    /\ routed' = (routed \ HashesOf(ServingOf(FailedCells))) \cup HashesOf(UpdatedCells)
    /\ orch' = "ready" /\ published' = Outcome
    /\ UNCHANGED <<observed, nextHash, engine, snapshot, pushed, candidate, settling>>

\* The first gather() of end_update_weights() raises: the router refused to
\* unregister bad.  Of the others, some are done (a cell that does not serve
\* has nothing to wait for) and the rest go on alone.
EndUpdateUnregisterFails ==
    /\ orch = "updating" /\ AllPushed /\ ~NoneReceived
    /\ \E bad \in ServingOf(FailedCells) : \E finished \in SUBSET (FailedCells \ {bad}) :
          /\ FailedCells \ ServingOf(FailedCells) \subseteq finished
          /\ cell' = [c \in CellIds |->
                        IF c \in finished THEN [cell[c] EXCEPT !.state = "errored"] ELSE cell[c]]
          /\ routed' = routed \ HashesOf(ServingOf(finished))
          /\ settling' = settling \cup
                {[c |-> c, hash |-> cell[c].hash, to |-> "errored"] :
                    c \in FailedCells \ (finished \cup {bad})}
    /\ orch' = "failed"
    /\ UNCHANGED <<observed, nextHash, engine, update>>

\* The second one raises: the router refused to register bad.
EndUpdateRegisterFails ==
    /\ orch = "updating" /\ AllPushed /\ ~NoneReceived
    /\ \E bad \in UpdatedCells : \E finished \in SUBSET (UpdatedCells \ {bad}) :
          /\ cell' = [c \in CellIds |->
                        IF c \in FailedCells THEN [cell[c] EXCEPT !.state = "errored"]
                        ELSE IF c \in finished THEN [cell[c] EXCEPT !.state = "serving"]
                        ELSE cell[c]]
          /\ routed' = (routed \ HashesOf(ServingOf(FailedCells))) \cup HashesOf(finished)
          /\ settling' = settling \cup
                {[c |-> c, hash |-> cell[c].hash, to |-> "serving"] :
                    c \in UpdatedCells \ (finished \cup {bad})}
    /\ orch' = "failed"
    /\ UNCHANGED <<observed, nextHash, engine, update>>

\* A coroutine left behind finishes, without the lock.  The router hears of it
\* first; the state changes only if the cell is still the one, in a state the
\* change is allowed from, else an assertion ends the coroutine.
Settle(t) ==
    /\ settling' = settling \ {t}
    /\ IF t.to = "serving"
       THEN /\ routed' = routed \cup {t.hash}
            /\ cell' = IF cell[t.c] = [hash |-> t.hash, state |-> "pending"]
                       THEN [cell EXCEPT ![t.c].state = "serving"] ELSE cell
       ELSE /\ routed' = IF cell[t.c] = [hash |-> t.hash, state |-> "serving"]
                         THEN routed \ {t.hash} ELSE routed
            /\ cell' = IF cell[t.c].hash = t.hash /\ cell[t.c].state \in {"pending", "serving"}
                       THEN [cell EXCEPT ![t.c].state = "errored"] ELSE cell
    /\ UNCHANGED <<observed, nextHash, engine, orch, update>>

\* A new orchestration script takes over: it aborts a detached update and
\* publishes its weights before anything else.
Restart ==
    /\ orch \in {"ready", "failed", "updating"}
    /\ orch' = "restarted"
    /\ UNCHANGED <<observed, nextHash, cell, routed, engine, update, settling>>

Next ==
    \/ \E c \in CellIds : Deploy(c) \/ Vanish(c) \/ Reconcile(c) \/ Tick(c) \/ Push(c)
    \/ StartUpdate \/ CellsReady \/ CellsReadyTimeout \/ AbortUpdate \/ EndUpdate
    \/ EndUpdateUnregisterFails \/ EndUpdateRegisterFails \/ Restart
    \/ \E t \in settling : Settle(t)

Spec == Init /\ [][Next]_vars

(***************************************************************************)
(* Properties.                                                             *)
(***************************************************************************)
Serving == ServingOf(CellIds)

\* Every variable has its type, and a cell is listed exactly when it has an
\* incarnation and a state.
TypeOK ==
    /\ \A c \in CellIds : cell[c].hash = NoHash <=> cell[c].state = "absent"
    /\ observed \in [CellIds -> Hashes \cup {NoHash}] /\ nextHash \in 1..(MaxHash + 1)
    /\ cell \in [CellIds -> [hash : Hashes \cup {NoHash}, state : States]]
    /\ routed \subseteq Hashes /\ engine \in [Hashes -> 0..(MaxVersion + 1)]
    /\ orch \in {"ready", "starting", "updating", "failed", "restarted"}
    /\ snapshot \in [CellIds -> Hashes \cup {NoHash}]
    /\ pushed \in [CellIds -> {"none", "todo", "ok", "failed"}]
    /\ candidate \in 0..MaxVersion /\ published \in 0..MaxVersion
    /\ settling \subseteq [c : CellIds, hash : Hashes, to : {"serving", "errored"}]

\* A cell serves only after a weight update reached it: no request is ever
\* answered with the weights the engine was launched with.
NeverServesLaunchWeights ==
    \A c \in Serving : engine[cell[c].hash] # LaunchWeights

\* While the script trains, every serving cell holds exactly the version that
\* was published, whatever transfers, registrations and restarts failed before.
ServesPublishedVersion ==
    orch = "ready" => \A c \in Serving : engine[cell[c].hash] = published

\* During an update the cells handed to the trainer stay the same incarnations:
\* the detached lock keeps reconciliation out until the update ends.
SnapshotStable ==
    orch = "updating" => \A c \in Targets : cell[c].hash = snapshot[c]

\* A serving cell is registered with the router.
ServingIsRouted == \A c \in Serving : cell[c].hash \in routed

(***************************************************************************)
(* The inductive invariant behind them.                                    *)
(***************************************************************************)

\* Incarnations are issued in order, and no two cells share one.
Distinct ==
    /\ \A c \in CellIds : observed[c] < nextHash /\ cell[c].hash < nextHash
    /\ \A c, d \in CellIds : c # d =>
          /\ observed[c] # NoHash => observed[c] # observed[d] /\ observed[c] # cell[d].hash
          /\ cell[c].hash # NoHash => cell[c].hash # cell[d].hash

\* While the trainer transfers weights: every cell in use is a target and the
\* same incarnation still, and the targets reported done hold the candidate.
Targeted ==
    orch = "updating" =>
       /\ candidate > 0
       /\ \A c \in Normal : snapshot[c] # NoHash /\ cell[c].state # "initializing"
       /\ \A c \in CellIds : snapshot[c] = NoHash <=> pushed[c] = "none"
       /\ \A c \in CellIds : snapshot[c] # NoHash => cell[c].hash = snapshot[c]
       /\ \A c \in CellIds : pushed[c] = "ok" => engine[snapshot[c]] = candidate

\* A coroutine left behind belongs to an incarnation that had its weights; once
\* an update has ended well, none can put its cell into service any more.
Leftovers ==
    \A t \in settling :
       /\ t.hash < nextHash
       /\ observed[t.c] = t.hash => cell[t.c].hash = t.hash
       /\ cell[t.c].hash = t.hash => cell[t.c].state # "initializing"
       /\ t.to = "serving" => engine[t.hash] # LaunchWeights
       /\ (t.to = "serving" /\ orch = "ready" /\ cell[t.c].hash = t.hash)
             => cell[t.c].state # "pending"

IInv ==
    /\ TypeOK /\ Distinct /\ Targeted /\ Leftovers
    /\ NeverServesLaunchWeights /\ ServesPublishedVersion /\ SnapshotStable /\ ServingIsRouted
=============================================================================
