# Verification of the Miles control plane

Miles is an RL post-training framework: rollout engines generate samples, trainers
learn from them, and new weights flow back to the engines. The GPU work is
numerical. What can go wrong in ways a test hardly reaches is the control around
it: asyncio tasks, remote calls, weight updates that span several calls, lost and
repeated requests, crashes and restarts. This directory models that control in
TLA+, checks it with TLC and proves the parts that matter for every size with
TLAPS.

All line numbers and the correspondence of definitions to code are in
`PROJECT.json` (`map`); paths below are relative to `src/`.

## 1. Inventory

| Component (source) | State | Operations | Hard behaviour | What makes it correct |
|---|---|---|---|---|
| **Context lock** (`miles/utils/context_lock.py`) | asyncio lock, generation counter, live generation, detached flag, a grant in a context variable | `acquire`, `release`, `detach`, `reattach`, `release_if_detached`, `with_released`, decorators | a spawned task inherits the grant; the lock outlives a call; bodies fail or are cancelled while the lock is released for a poll | mutual exclusion, no leak, no straggler taken for the owner, every waiter served |
| **Fully asynchronous rollout** (`miles/rollout/fully_async_rollout.py`, `submission_scheduler.py`) | running group tasks, retry buffer, in-flight credits, wake-up events | worker loop, drain, dispose, eval pause | producer and consumer wake each other through two events and a condition | groups conserved, credits exact, no missed wake-up |
| **Data buffer** (`miles/rollout/fully_async_data_buffer.py`) | FIFO of finished groups | `put`, `get`, `admits`, drop stale, filters | `put` suspended on a full buffer; staleness decided at `get` | capacity, admission window, bounded waiting |
| **Training loop** (`train_async.py`) | rollout id, prefetched batch | prefetch, train, save, update weights | a get runs during training; updates deferred by an interval | nothing lost or repeated, bounded lag |
| **Rollout executor** (`miles/ray/rollout/rollout_executor.py`, `output_snapshotter.py`, `miles/utils/simple_checkpointer.py`) | snapshots of outputs, checkpoint directories | `get`, replay, `save`, `load`, `set_weight_version` | crash between any two steps; a directory replaced in two renames | nothing lost or trained twice over restarts |
| **Inference controller** (`miles/ray/rollout/inference_controller.py`, `server_cell.py`, `rollout_server.py`) | cells and their states, router registrations | reconcile, tick, start/end/abort of an update | redeployment during an update, partial transfers, `gather` failing with siblings still running, script restart | only the published weights serve |
| **Start-up and hot restart** (`miles/utils/hot_restart.py`, `miles/ray/placement_group.py`) | what survives a script | take over controller and trainers, load states | resuming half-finished work | the successor starts from a consistent state |
| **Trainer group and cells** (`miles/ray/train/group.py`, `cell.py`, `cell_state.py`; `miles/backends/megatron_utils/ft/`) | cell states, quorum, group of every cell, attempts | train with refresh, healing and retries; removal and addition of cells; save | a cell fails, leaves or returns at any point of a call that others wait in | every alive replica applied every step in order, once unless the cells disagreed on its attempt; collectives over one group on one base |
| **Health checker and fault-tolerance controller** (`miles/utils/ft_utils/`), **worker manager** (`miles/utils/workers/ray_worker_manager.py`) | activity epoch, failure counts, verdicts, actor generations, operations queued on a lock | probe, pause, resume; poll, suspend, resume, back off; start, stop, scan | a probe that spans a pause; a verdict about an incarnation that is gone; a request that timed out and still runs | no live cell reported failed or stopped; broken cells come back |
| **Reconcile loop** (`miles/utils/workers/reconcile/`) | reflector cursor, object store, key queue, wakeup, retries | list, watch, pump, get, reconcile, retry, resync, start, stop | events while a key is worked on; broken watches; compaction | no key forgotten, store equal to the world at the cursor, convergence |
| **Evaluation dispatcher** (`miles/ray/rollout/eval_dispatch.py`, `eval_fleet.py`) | evaluations in flight, snapshots on disk, engine versions | dispatch, reap, settle, export, retire, drain; pin and evaluate | overlapping evaluations, limit reached, engines that restart | snapshots neither early nor late, no mixed evaluation, every point reported |
| **Tinker gateway** (`miles/tinker/core/`) | models, slots, per-model queues, futures, trainer lock | create, submit, batch, barrier, close, sweep | out-of-order arrival, batches over several models, failures that close a model while its slot unloads | a step consumes exactly its window, slots exclusive, nobody stranded |
| **Worker RPC** (`miles/utils/workers/rpc/`) | call store, boot uuid pin | submit, poll, finish, purge, list in flight | server restart, lost or late answers, script replaced | at most once, on the right process, outcome kept, every call ends |
| **Sessions** (`miles/rollout/session/`) | trajectory with checkpoints, references of outputs, closing flag | chat turn, rollback, commit, collect, delete | turns overlapping with retries, collection and DELETE | tokens tell the messages, records align, every object of the store accounted for |
| **Registration of external engines** (`miles/utils/workers/registration/`), **router**, **data source**, **output store**, **synchronous loop** | | | | see section 5 |

How they interact: the training script calls the executor (`get`, `save`, `load`,
evaluation), the trainer group (train, save, transfer weights) and the inference
controller (`start_update_weights`, then `end_update_weights` or
`abort_update_weights`), all through the worker RPC. The executor runs the rollout
function in its own event loop; that function keeps the data buffer and generates
through the router, or through a session server, which send requests to the
engines the controller registered. A worker provider (Ray polling, or the
reconcile loop on Kubernetes) tells both controllers which incarnations of their
cells exist; the health checkers and the fault-tolerance controller decide which
incarnations are replaced. The tinker gateway is another front end of the same
trainers.

The hazards of the code, each with its line and the properties aimed at it, are
in `PROJECT.json` (`hazards`).

## 2. Modules

| Module | Models | Uses |
|---|---|---|
| `ContextLock` | the lock and the calls that use it | |
| `ContextLockProofs` | its inductive invariant and theorems | `ContextLock`, `TLAPS` |
| `FullyAsync` | worker, scheduler, generation, data buffer, drain | |
| `TrainAsync` | training loop, executor, checkpoints, crash and restart | `FullyAsync` |
| `FullyAsyncProofs` | the inductive invariants and theorems of both | `TrainAsync`, `TLAPS` |
| `InferenceController` | cells, router registrations, weight updates | |
| `InferenceControllerProofs` | its inductive invariant and theorems | `InferenceController`, `TLAPS` |
| `LevelTriggered` | abstract: what a reconcile loop promises | |
| `ReconcileLoop` | reflector, store, queue, worker, retries; implements `LevelTriggered` | `LevelTriggered` |
| `ReconcileLoopProofs` | its inductive invariant, theorems, and the refinement | `ReconcileLoop`, `TLAPS` |
| `TrainerCells` | what the next two share: the cells, and the bound on faults | |
| `TrainerGroup` | training calls over cells that fail, leave and heal | `TrainerCells` |
| `CellHealth` | probes, API server, fault-tolerance controller, worker manager, watcher | `TrainerCells` |
| `TrainerGroupProofs` | the inductive invariants and theorems of both | `TrainerGroup`, `CellHealth`, `TLAPS` |
| `EvalDispatch` | dispatcher, executor side of an evaluation, evaluation fleet | |
| `EvalDispatchProofs` | its inductive invariant and theorems | `EvalDispatch`, `TLAPS` |
| `TinkerGateway` | gateway, scheduler, futures, and the trainer's gradients per slot | |
| `TinkerGatewayProofs` | its inductive invariant and theorems | `TinkerGateway`, `TLAPS` |
| `WorkerRpc` | client, network, server and take-over by a new script | |
| `SessionServer` | session, trajectory, collection, output references | |
| `WorkerRpcProofs` | the inductive invariants and theorems of both | `WorkerRpc`, `SessionServer`, `TLAPS` |
| `MC...` | what TLC runs, with the programs and symmetry sets of the instance | each its component |

In every module a definition commented "Fault:" is a deliberately wrong variant
of a definition after it. No specification uses it; it documents a plausible
bug that the property named in `PROJECT.json` (`mutants`) detects.

### ContextLock

A context is an asyncio task: one that serves a remote call of the controller,
or one spawned by such a task. `locked`, `counter`, `active` and `detached` are
the fields of the Python object; `grant[c]` is the context variable as task `c`
sees it, `waiters` the FIFO of `asyncio.Lock`. `pc[c]` says which part of a
decorated call `c` is in. Between two awaits a task is alone, so each decorated
entry, exit and suspension is one action.

- `CallWithLock`/`ExitBody`: a `with_lock` call, left normally or by exception.
- `CallAcquiresLock`, `FinishStart`, `FailStart`: `start_update_weights`; the lock
  is detached when it returns and released if held when it raises.
- `Poll`/`ResumeAfterPoll`: `with_released` inside `_ensure_cells_ready`.
- `CallReleasesLock`/`FinishEnd`: `end_update_weights`. `ReleaseIfDetached`:
  `abort_update_weights`.
- `CancelWaiter`: a call cancelled while it queues. A call cancelled inside a
  body leaves like one that raised.
- `SpawnHelper`/`EndHelper`: the coroutines `asyncio.gather` wraps in tasks. They
  inherit the grant and may outlive the body.

An assertion of the code (`reattach` without `detached`, `release` without the
grant) is a guard: the call has no effect on the lock. `MutualExclusion` and
`NoLeakedLock` say that the assertions which protect legitimate callers never
fire.

### FullyAsync

An action is what one task does between two suspensions. A prompt group is the
number of its draw. A running task carries the version its oldest token may have
(`ver`), the unfinished samples (`left`) and its outcome (`out`).

- `WorkerSubmit` is one turn of `_worker_loop` up to its wait: the number of
  submissions is the smaller of what the window (`AdmissionSlots`, from
  `admits()`) and the scheduler (`CapacitySlots`, from `has_capacity()`) allow,
  and decides which of the two waits follows.
- `WorkerWake`, `Put`, `PutBlocks`, `PutUnblocks`, `WorkerDies`, `WorkerLoops`: the
  collection of finished groups. `aborted` goes to the unused handler, `rejected`
  is dropped, `ok` is stored, `failed` ends the worker.
- `SampleFinishes`, `GroupFinishes`: generation; the oldest token of a group dates
  from any version since its submission.
- `StartDrain`, `DrainWakes`: `get()`, each time up to its suspension, stale groups
  dropped first. `OnWorkerError`, `Dispose`, `PauseForEval`, `ResumeAfterEval`.
- `TrainStep`: the consumer. `TrainAsync` replaces it by the real loop.

`NoMissedWakeup` is the safety side of progress: whenever the worker waits, either
the event it waits for is set, or there is nothing it could submit and nothing it
could collect. `DrainEnds` (every drain ends, under `FairSpec`) is kept as its
liveness counterpart; it holds on an instance with a window of zero batches
(14,286 states).

### TrainAsync

The loop of `train_async.py` without colocation, critic and evaluation, over
`FullyAsync`. `driver` is the point the script has reached. `asked` and `begun`
separate the script's remote `get` from its execution, so that a `get` issued
early really runs at any later time. The disk is `model` (the latest published
model checkpoint), `pending` (an asynchronous save not yet published) and `ckpt`
(rollout checkpoint directories); everything else is memory and goes with a
crash. `trained` is the set of groups the model has learnt from, so a restart
sets it back with the model.

- `AwaitBatch`, `Train`, `SkipSave`/`SaveModel`, `SaveRollout`, `UpdateWeights`: the
  body of the loop in its order. A save happens or not in any iteration, and may
  be forced.
- `ReplaceOldCheckpoint`: a directory of the same rollout left by an earlier
  attempt is moved away before the new one takes its name.
- `ExecutorGet`, `ExecutorGetReturns`, `ExecutorReplay`: `get()` of the executor. The
  batch is captured in the snapshots in the step in which it leaves the buffer.
- `CrashAndRestart(m)`, `CrashAndFail(m)`: a crash of the whole run (`m` is the
  published model) or a hot restart, in which the trainers survive and
  `load_state()` first publishes what is pending. `attempt` and `mixed` are
  history and guard nothing.

### InferenceController

A body under the lock is one action, which `ContextLock` justifies. What stays
visible: the lock detached during an update, the lock released while an update
waits for its cells, and the coroutines left running by a failed `gather`
(`settling`), which act without the lock. `cell[c]` is the listed incarnation and
its state; `engine[h]` the weights the engine of incarnation `h` holds.

- `Deploy`, `Vanish` (external): the worker provider, with a fresh hash each time.
- `Reconcile`, `Tick`; `StartUpdate`, `CellsReady`, `CellsReadyTimeout`; `Push`
  (one transfer: successful, or failed with old or torn weights left behind).
- `EndUpdate`, `EndUpdateUnregisterFails`, `EndUpdateRegisterFails` (its two gathers
  raise), `Settle` (a coroutine left behind ends), `AbortUpdate`, `Restart`.

`candidate` numbers the attempts at an update, so two updates never carry equal
versions: the strongest reading of "holds the published weights".

### ReconcileLoop and LevelTriggered

The API server is a history of worlds: its index is the resource version, and a
prefix may be compacted away. `cursor`, `link` and `page` are the reflector
(between watches, holding a LIST answer, watching); `cache` is the object store;
`queue`, `wakeup` the work queue; `retry` the three states of an entry of the retry
scheduler. Each action runs between two awaits: `HandleFrame` moves the cursor,
updates the store and enqueues the affected parents at once, `GetKey` pops a key,
`ReadStore` is the reconcile's own look at the store, any time later, and
`Succeed`/`Fail` its end. `WatchEnds`, `CursorRejected`, `StreamDies` are the ways a
stream breaks; `CancelStart`, `Stop`, `CancelTasks` the ways the loop does.

`LevelTriggered` states what callers rely on: a view per key, the view last acted
on, and a set of dirty keys that contains every key whose view was not acted on.
The refinement maps a key's view to the store's pods of that parent and `dirty` to
the keys that are queued, being reconciled or waiting for a retry
(`ImplementsPromise`).

### TrainerGroup

`cell[c]` is the state of a `TrainerCell`, `info[c]` the quorum and group its workers
were last given, `model[c]` the sequence of rollouts its replica has applied. A call
over all cells is a set of `task`s that end one by one. `Refresh` computes the
quorum, the source and the cells to heal; `ReconfigureAlive`, `SendState`, `Healed`,
`PeerFailed` are the two sides of it on the workers; `Allreduce`, `AllreduceFails`,
`StepOptimizer` a training call; `CheckAttempt` the decision to accept, retry or
fail. `CallFails` may hit any running call, and `RemoveCell`/`AddCell` may come
between any two steps.

### CellHealth

One action per turn of the checker's loop, probe result, pause and resumption;
per request and answer of the fault-tolerance controller; per operation queued on
the worker manager's membership lock (`Stop`, `Launch`, `Started`, `StartFails`,
`Scan`); and per listing applied by the polling watcher. A probe is started and
ended by different actions, so pauses and restarts fall in between. `Break` lets a
worker crash or hang; `CallRaises` is a call of the trainer that fails;
`RequestTimesOut` gives up on an operation that still runs.

### EvalDispatch

`dispatch()` is `Due`, `Reap`/`Settle`, `SkipPoint` or `MakeRoom`/`SettleOldest`,
`StartExport`, `Export`/`ExportFails`; an evaluation on the executor is `EvalStarts`
(takes the lock), `PinReturns` or `PinGivenUp`, then `Generated` or `EvalCrashes`, each
of which releases it. The pin is a process of the controller with its own state, as
`pin_eval_fleet()` is `@lock_exempt` and goes on when its caller has given up: `Post`
sends the load to every engine, `Loaded`, `LoadFails`, `ReadVersions` and
`RouterNotReady` end an attempt, `NextAttempt` is the loop of `_pin_fleet()`. An engine
answers its loads in order (`EngineLoads`), also those nobody waits for any more.
`CallGivenUp` is the script's side of `eval()` raising, because no answer came within
the timeout of the call or the executor could not be reached (`rpc/client/call.py:96`,
`:125`): the task of the point is done and `Settle` retires its snapshot, while the
evaluation goes on, or was never submitted.
`Restart` puts an engine back to its launch weights at any time.

### TinkerGateway

Commands are members of small programs; a datum is a triple of model, command and
index, so that the trainer's gradients per slot (`grads`) and what every step
consumed (`consumed`) are known exactly. A model's queue is a set of sequence numbers,
in whose order its requests are enqueued and packed. `holder` and `lockQueue` are the trainer
lock shared by the dispatcher, model creation and session end. `NextUnits` is what
the scheduler may pack; a unit is dispatched in one step and returns in another,
between which clients submit, submit again, and sessions end.

### WorkerRpc

`net` holds the requests no handler has answered, `resp` the answers not yet read; a
request stays deliverable after its sender gave up. `Serve` is one handler of the
HTTP app, `Finish` the end of a method, `Crash`/`Boot` a new process with a new boot
uuid and an empty store, `ScriptDies` the replacement of the script, whose first
call is the `Gate` (`wait_trainers_idle`). `outage` and `late` are history: whether a
poll was held up past the time to live of a result, and calls begun by requests
still on the wire when their script died.

### SessionServer

Messages and tokens are short sequences over small alphabets; a turn is `Prepare`
(under the lock: rollback if needed, render the prompt), then `Generated` or
`Aborted` (commit under the lock, or skip). `Collect` takes its snapshot under the
lock and `Assembled` works on it later in another thread; `ClientTimesOut`,
`BeginDelete`, `EndDelete` run in between. `objects` is the external store that
holds one object per generation. A deletion may fail for any of its refs
(`Deleted`; `core.py:255` logs it, `undeleted` is that log), and the ref of an object may be lost
with the answer that names it (`Lost`: a transport error, or a 200 response that
cannot be parsed, `store_refs.py:57`).

## 3. What is checked

| Run | Checks | Instance |
|---|---|---|
| `lock` | `MutualExclusion`, `NoLeakedLock`, `StragglerLosesLock`, `WaiterServed` | 2 trainers, 2 other tasks, 4 grants |
| `fully_async` | `Conservation`, `AdmissionWindow`, `BoundedQueueing`, `WithinLimits`, `NoMissedWakeup` | groups of 2 samples, buffer of 2, window of 2, 4 draws, 3 versions |
| `train` | `NothingLostOrRepeated`, `BoundedLag` | 3 rollouts, update every 2, asynchronous saves, 1 crash |
| `sync_save` | `Resumable` (violated) | the same with synchronous saves and retried groups |
| `controller` | `NeverServesLaunchWeights`, `ServesPublishedVersion`, `SnapshotStable`, `ServingIsRouted` | 3 cells, 3 deployments, 2 updates |
| `reconcile` | `LoopInvariant`, `NothingForgotten`, `Converges`, `ImplementsPromise` | 2 pods, 2 parents, 2 changes, 2 faults |
| `tinker` | `StepConsumesItsWindow`, `BarrierSeparates`, `SlotsAreExclusive`, `NoRequestIsStranded` | 2 models, 1 or 2 slots, 4 pairs of programs of up to 2 commands, 1 sweep, 1 expiry |
| `trainer_group` | `ReplicasAgree`, `AllreduceIsSound`, `TrainEnds` | 3 cells, 2 rollouts, 3 attempts, 2 faults, 2 deployments |
| `cell_health` | `LiveIsNotFailed`, `OnlyTheBrokenAreStopped`, `Recovers` | 1 cell, threshold 2, 2 faults, 2 epochs, 1 timeout |
| `eval_dispatch` | `CollectionIsRight`, `NoMixedEvaluation`, `EveryPointIsReported` | 4 points, the first with a checkpoint of the caller, 2 in flight, none kept, 2 engines, 2 faults, skip on overflow |
| `rpc` | `AtMostOnce`, `RunsWherePinned`, `AnswerIsKept`, `TakeOverIsQuiet`, `CallsEnd` | a call of each script and the gate, 3 boots, 2 timeouts |
| `sessions` | `RecordsAlign`, `TokensTellTheHistory`, `StoreHoldsWhatWasGiven` | 4 overlapping turns, 2 prompts, 2 texts, trim 1 |

Type invariants: `WithinLimits` and `LoopInvariant` contain the one of their module;
those of all others are part of the inductive invariant that is proved (`IInv`,
`TrainIInv`, `HealthIInv`, `SessionIInv`). Each inductive invariant holds on the
instance of its run (add it to the `INVARIANTS` of the configuration); every one was
checked so before its proof was begun.

Why the instances are enough for the cases that matter:

- `lock`: an owner, a helper it left behind, the next owner and a waiter can exist
  at once; four grants give a start, a poll, an end and one more owner.
  `MaxGeneration` also guards `CallReleasesLock` and `ReleaseIfDetached`, so an
  update may be left unfinished at the bound; deadlock is therefore not checked
  there, and `WaiterServed` excuses a waiter at the bound.
- `fully_async`: more draws than the window holds, versions enough for a group to
  become stale while another waits, groups that are half finished, and a buffer
  that fills while the budget lets two groups run. Deadlock is checked.
- `train`: the producer without the window and with dropped groups, the opposite of
  `fully_async`; a drain that starts before an update is due and one that is
  deferred (interval 2, three rollouts), and a pending save at the crash. A run ends
  when the loop ends or cannot be resumed, so deadlock is not checked.
- `controller`: `gather` must fail on one cell, have finished another and leave a
  third behind; two updates let a left-behind coroutine of the first run into the
  second. The bounds stop the model, so deadlock is not checked.
- `reconcile`: a pod that moves between two parents needs both; two changes let the
  second arrive while the first is queued, read, failing or retried; two faults let
  a watch break after a failed reconcile or a compaction. A stopped loop is an end,
  so deadlock is not checked.
- `tinker`: a request of three datums under a budget of two is split and packed with
  datums of the other model; a step follows on both sides; a load or save stands
  against a batch of the other model; one command does not validate, and calls fail
  with and without closing their models. With one slot the second model waits for the first to
  be closed. All requests settled is an end, so deadlock is not checked.
- `trainer_group`: two cells go on while the third fails, leaves or heals, and the
  healing peer or its source can fail too; two faults leave the third attempt to
  succeed. An all-reduce may succeed on any of the cells of its group: the first
  attempt can be split over its cells and the second one too, before a third ends
  the call. The last rollout, or one that failed, is an end.
- `cell_health`: one failure below the threshold before a pause and one after it, a
  restart with a fresh incarnation, and a request that times out while its
  operation is queued. Cells share only the membership lock and the controller's
  loop; deadlock is checked.
- `eval_dispatch`: with two in flight and none kept, a snapshot is collected while
  the next one is loaded or waits for the lock; two faults make both attempts of a pin
  fail with loads still to be done, or let an engine restart after a pin that was
  given up, or two calls be given up. The third point can be skipped, the last one has
  to wait. Drained is an end.
- `rpc`: a request can be given up twice, or once on either side of a restart; three
  boots let a caller meet a process two incarnations after the one it is pinned to.
  All calls ended is an end.
- `sessions`: one turn generated while another is retried, a third commits and a
  fourth is prepared; a history of up to five messages can be rolled back by one
  turn and continued. A deleted session is an end.

**Fairness.** Only what the code's scheduling gives.
`ContextLock`: the event loop hands a free lock to its first waiter; bodies end
because their awaits have timeouts; `update_weights()` ends every started update
with an end or an abort, and a script that dies is replaced by one that aborts.
Polling may go on for ever; it does not starve a waiter, since every poll gives
the lock to the FIFO. `ReconcileLoop`: the reflector, the worker and the retry
poller are running tasks; compaction, broken watches and failing reconciles are
bounded faults, and no fairness makes them happen. `TrainerGroup`: calls to workers
return or raise, because a hanging cell is killed and collectives time out;
`CellHealth`: the loops go round, clocks advance, and a pause of the probes ends
(`onload()` follows `offload()`); `EvalDispatch`: the training loop, the engines and the pins go
on, evaluations end, and a free evaluation lock is given to one that waits (weak
fairness of each for all points together, as nothing goes on for ever); `WorkerRpc`: both event loops run, a supervisor restarts the process
and a method ends; no deadline, timeout or crash is assumed. `FullyAsync!FairSpec`
(for `DrainEnds`): tasks run when they can, generation and evaluation end, and not
every group is aborted, rejected or failed for ever.

**The violated run.** `sync_save`: `train_async.py` saves the model before the
rollout state. When that publishes the model (a synchronous or a forced save), a
crash before the rollout save leaves a run that cannot be resumed: `load()` asserts
that the rollout checkpoint exists. `train.py` uses the other order and says why.

### Other disagreements between the code and what is said of it

Each of these is a property of a module that TLC refutes when it is given as the
only invariant or property of a configuration with the constants named; the
committed runs use the setting in which the code keeps its promise.

1. `TrainAsync!CheckpointsAgree` (constants of `TrainAsync.cfg`, `NumRollout = 2`,
   `MaxCrashes = 2`). The window of `sync_save` when a directory of that rollout is
   left over from an earlier attempt: `load()` succeeds and the new model continues
   with the old attempt's data progress. `NothingLostOrRepeated` is stated for runs
   in which this has not happened.
2. `TrainAsync!TrainedWithinStaleness` (`TrainAsync.cfg` with `RetryUnused = TRUE`).
   `rollout_executor.py:221` hands a batch restored from a checkpoint to training
   past the staleness filter, although the restart has published newer weights;
   the help of `--max-weight-staleness` (`utils/args/configs/rollout.py:506`) promises
   that such groups are recycled. `BoundedLag` is what does hold.
3. `ReconcileLoop!MalformedFrameIsPassed` (`ReconcileLoop.cfg`, `MaxFaults = 1`).
   `docs/developer/reconcile-loop.md:45` says that one malformed frame must not stop the watch. `K8sPod.from_frame()` raises inside
   `stream_pods()` (`k8s_api.py:78`), outside the try that would skip the frame, so
   the watch reopens at the same cursor and meets it again until the history is
   compacted. `Converges` excuses a loop that is held up so.
4. `TrainerGroup!ReplicasAreTheSame` (`TrainerGroup.cfg` with `SPECIFICATION Spec`,
   `Cells = {0, 1}`, `MaxRollouts = 1`, `MaxAttempts = 2`, `MaxFaults = 1`,
   `MaxDeploys = 0`). `_check_train_one_attempt()` (`group.py:300`) repeats the attempt
   for all cells as soon as one cell discarded its step, also when others have stepped
   the optimizer, because the consensus on the all-reduce (`ft/indep_dp.py:183`) is
   within a cell. Those cells train the rollout twice and their replicas differ from
   the others', of which the checksum rule says that they "should be exactly the same"
   (`event_analyzer/rules/cross_replica_weight_checksum.py:18`). `split` records the
   rollouts to which this has happened; `ReplicasAgree` and `AllreduceIsSound` are
   stated for all behaviours and say what does hold: no replica misses a step or takes
   one out of order, and none is repeated over which the cells of an attempt were not
   split.
5. `SessionServer!OvertakenTurnsAreSkipped` (`SessionServer.cfg` with three chats,
   `Prompts = {"p"}`, `MaxTurns = 3`, `Trim = 0`). `session/core.py:6` says that the
   `num_assistant` check gates concurrent chats. It compares a count: after a retry
   of the first turn and another commit the count is the same again, and the
   overtaken turn fails with a `TokenizationError` instead of being skipped.
6. `SessionServer!TokensTellTheHistory` (four chats, the constants of 5,
   `Branches = TRUE`). For an agent that goes on from a reply that is no longer in
   the session, the same coincidence lets line 250 of `linear_trajectory.py` append
   to messages of one history a slice of another; the run checks it for agents that
   follow the session.
7. `EvalDispatch!OneSnapshotAtATime` (`EvalDispatch.cfg` with `MaxPoints = 2`,
   `MaxFaults = 1`). `_eval_checkpoint()` says that "the lock serializes pins against a
   single backend" (`rollout_executor.py:347`). That lock is the executor's: when the call
   to the controller is given up (`eval_fleet.py:70`) it is released, while the pin may
   still run on the controller, where it takes no lock. The next evaluation can then
   be pinned and start before an engine loads the older snapshot.
   `NoMixedEvaluation` is stated for runs in which no pin that still ran was given up.
8. `EvalDispatch!OnlyConsumedAreDeleted` (the constants of 7). When its call to the executor
   is given up the point is settled, and `_retire()` (`eval_dispatch.py:93-101`) may delete the snapshot
   as "consumed" while the evaluation still waits for the lock or loads it: it then finds
   no snapshot, or engines load a part of one. `docs/user-guide/fully-async.md:340` counts a directory
   for every point that is still evaluating. `SnapshotsInUseStay` is stated for the
   points whose call was not given up.

## 4. What is proved

The theorems hold for every value of the constants, under the assumptions that the
modules name: `UpdatersAssumption`, `GenerationAssumption` (`ContextLock`),
`SizesAssumption` and `FlagsAssumption` (`FullyAsync`: batches, groups and the budget are
not empty, and the buffer holds at least a batch, which `DefaultDataBuffer` asserts),
`DriverAssumption` (`TrainAsync`: there is a rollout, an interval and a retained snapshot; the
bound on versions is not met, as a rollout publishes at most one),
`BoundsAssumption` (all others), `CallsAssumption` (`WorkerRpc`), `SetsAssumption`
(`ReconcileLoop`: finitely many parents, as the queue holds each at most once),
`CellsAssumption` (`TrainerCells`: finitely many numbered cells), `ProbesAssumption`
(`CellHealth`: the failure threshold is at least 1), `SlotsAssumption`,
`SessionAssumption`, `ModelsAssumption` and `ProgramsAssumption` (`TinkerGateway`: slots
numbered from 1; finitely many models, each of a session; a batch request without
datums does not validate, `validate_batch_payload` rejects it), and the
`SessionAssumption` of `SessionServer` (what an agent appends, what the engine generates
and the stop token are told apart; a family trims one token or none). Tasks, cells of
the controller, calls, pods, engines, chats, prompts and texts need not be finite. The
bounds only restrict behaviours (a guard on a counter) and may be any natural number.

Every proof module is laid out the same way: facts about the operators of the model,
one lemma per action (`...Keeps`) that it preserves `IInv`, the lemmas `InitIInv` and
`Step`, and the theorems. Frame lemmas say which part of `IInv` survives when only
certain variables change.

**ContextLockProofs** (`LockInvariant`, `Exclusion`, `NeverLeaked`,
`StragglersRejected`). The invariant is `IInv`: the three properties with

- `LockFields`: a live generation or a detached lock implies a taken lock, and a
  detached lock has no live generation;
- `Roles`: a task outside a body that is not a helper carries no grant, and only
  trainers are in the parts of an update.

`MutualExclusion` is not inductive alone: that `Release` of one task leaves no
other body running needs the fact that a grant outside bodies and helpers is
empty, and that a fresh generation is not carried by any straggler needs
`grant[c] <= counter` (in `TypeOK`). `TypeStep` and `SafetyStep` treat the actions
one by one.

**InferenceControllerProofs** (`ControllerInvariant`, `LaunchWeightsNeverServe`,
`PublishedVersionServes`, `SnapshotIsStable`, `ServingCellsRouted`). `IInv` adds

- `Distinct`: incarnations are issued in order and shared by no two cells, so a
  transfer to one engine or a change of one registration concerns one cell;
- `Targeted`: during an update every cell in use is a target and still the same
  incarnation, and the targets reported done hold the candidate;
- `Leftovers`: a coroutine left behind belongs to an incarnation that had received
  weights, and after an update that ended well it can no longer put its cell into
  service. This is what makes `ServesPublishedVersion` survive `Settle`.

**WorkerRpcProofs** (`WorkerRpcInvariant`, `CallRunsAtMostOnce`,
`CallRunsWherePinned`, `AnswerWaitsForItsCaller`, `TakeOverSharesNothing`). That a call
runs at most once cannot be seen from `begun` alone, because a request outlives the
patience of its sender:

- `Requests`, `Sent`: of each user at most one submit is on the wire at all, and at
  most one request is still waited for. This is why a client that gave up a submit
  does not send another;
- `OneSubmit`: `begun` is set by the one submit that is served, and a record belongs
  to the incarnation that began the call. It makes a restart with an empty store
  harmless;
- `Pinned`: what is being polled was begun by the incarnation the handle is pinned to;
- `Fit`: an answer is one that its question can have, and `unknown` only follows an
  outage; `Kept`: the record a caller still asks for has not aged;
- `QuietAnswer`: an `idle` that the gate has not read yet still holds, since nothing
  of the dead script can begin any more but what is in `late`.

The same module holds the session server (`SessionInvariant`, `TheStoreIsAccounted`,
`RecordsStayAligned`, `TokensStayTrue`), with `SessionIInv`:

- `RefsAccounted`: in each state of the client, what was given, what was handed over and
  what arrived; and that the store holds these (`Owned`) and otherwise only what a deletion
  failed on or no answer named. A ref arrives when its chat ends, so what is deleted at
  once while the session closes is in nobody's hands. That a reply given up by its client (`failed`) leaves nothing
  `received` although the executor may still hand its refs over, and that DELETE waits
  for an answer, make `StoreHoldsWhatWasGiven` of it;
- `OneTurnPerChat`, `TokensGrow`: a record tells its turn's tokens, and the tokens of a
  turn continue those of every earlier one up to what the family trims. `RecordsAlign`
  follows. The check of the prefix (`Mismatch`) compares all but the last stored token,
  which leaves open that the new tokens end one before the stored ones; the lemma
  `MatchGrows` excludes it, since they would end with a text where the stop token is;
- `Linear`, for agents that follow the session: the messages are exchanges of a prompt
  and a reply, each checkpoint ends after its exchange with the canonical tokens, and a
  request in flight is the history it was made from with one prompt more, whatever
  became of the trajectory meanwhile. Its commit compares only a count and the tokens;
  that this suffices is the lemma `SameHistory`: canonical tokens determine the messages
  (`CanonicalTells`), also without the last of them, so the history of an overtaken
  request that passes is the one the session holds.

`TokensStayTrue` assumes `~Branches`: for an agent that goes on from a discarded reply TLC
refutes the property (item 6 above). The other two hold for such agents as well. What
`FlattenSeq` computes is proved by taking the shortest history that fails (`Smallest`),
which needs no induction schema. TLC checked `SessionIInv` with the constants of the run
(458,557 states), and with three chats, `MaxTurns = 4` and `Branches = TRUE` (119,932).

**ReconcileLoopProofs** (`ReconcileInvariant`, `LoopIsConsistent`, `KeysAreOwed`,
`LoopImplementsPromise`). `LoopInvariant` and `NothingForgotten` become inductive with
`OneChange` (a resource version changes exactly the object that its frame carries, so
that storing the frame makes the store the next world and the keys the frame affects
are all whose view changed) and `WatchHasCursor`. For the refinement, every action is
shown to be a step of `LevelTriggered` or a stutter: `Succeed` is `Act` (the view read
may be older than the store's; then its key is queued behind it and stays dirty), the
handlers of frames and lists are `Observe`, all others leave the promise's variables
alone or only mark keys dirty.

**TrainerGroupProofs** (`TrainerGroupInvariant`, `GroupsNeverSplit`,
`ReplicasMissNoStep`, `AllreduceStaysSound`).

- `OneGroup`, `Preparing`, `Training`: at each phase of a call, which cells are members
  of the group, and that all of them were given the same one. From these alone no
  group is ever split (`NoSplitGroup`), whatever the verdicts of the cells;
- `Replicas`: which rollouts each replica has applied. Before an attempt it has all
  earlier ones (`Between`), and the one in training as well if an attempt of it was
  split and the cell is one that had stepped; a cell that is healed gets the replica of
  a live one, which is either. Rollouts are repeated only if they are in `split`, and
  `InRange` keeps that set behind the rollout in training, so that no later one is
  excused. `ReplicasMissNoStep` and `AllreduceStaysSound` need no assumption on the
  verdicts of the cells: they say that a split attempt is the only way in which
  replicas differ, whatever fails, leaves, is healed or retried.

TLC checked `IInv` with the constants of the run (828,632 states).

The same module holds the health of the cells (`HealthInvariant`, `TheLiveAreNotReported`,
`TheHealthyAreNotStopped`), with `HealthIInv`:

- `Incarnations`: numbers of incarnations are never ahead. A cell's hash is at most that
  of its handles, which is at most the manager's generation, and a listing about to be
  applied is not older than the cell. So nothing makes a cell of a past incarnation;
- `FailuresAreBlips`: what a checker counts in a period of activity is at most what its
  live worker failed in it. It is false without the reset at a resumption, and without
  the epoch that a late answer is compared with; it gives `LiveIsNotFailed`, as a live
  worker does not fail `Threshold` probes in a row (an assumption of the model);
- `ScansAreOfTheDead`: a queued scan is of an earlier incarnation, or of one that is
  still down; only the operation that holds the lock launches workers;
- `OneRequest`: the controller waits for at most one operation, on the cell of its round
  whose turn it is, and without a timeout has asked for no other;
- `UnhealthyAreBroken`: what a round found unhealthy is still down, or errored in the
  same incarnation, until the round itself starts it again. The round reads the listing
  and the verdicts at different times; that a verdict names its incarnation (`Verdict`)
  is what makes this inductive.

TLC checked `HealthIInv` with the constants of the run (411,086 states), with two cells
(425,058) and with a threshold and three faults of 3 (3,846,829).

**EvalDispatchProofs** (`EvalDispatchInvariant`, `SnapshotsAreCollectedRight`,
`EvaluationsDoNotMix`).

- `Accounted`, `Consumed`: each snapshot on disk is in flight, consumed and kept, or
  left of a failed export, and the consumed have ended or their call was given up. With the length of `pending`
  (`Dispatching`) they bound the disk; the lemma `WithoutFirst` does the counting;
- `OneHolder`: the lock, the phase of an evaluation and its pin agree;
- `Pins`: per phase of a pin, what may still be loaded on an engine and what it holds.
  Its last-in-the-queue clause is what survives loads of earlier attempts.

**TinkerGatewayProofs** (`TinkerGatewayInvariant`, `StepsConsumeTheirWindows`,
`BarriersSeparate`, `SlotsStayExclusive`, `SlotsStayOwned`, `NobodyIsStranded`). That an optimizer step
consumes exactly the datums between it and the step before is a statement about the past;
it needs to be known at every moment where each of them is:

- `InSequence`, `NoOvertaking`: the requests of a model are in its queue or settled, and
  only batch operations are overtaken, by a later one that packs into the same unit.
  So at the moment a step is at the head of its queue all earlier requests have settled;
- `Counted`: of a batch request, the datums issued and the answers still to come add up
  to its datums and those in flight; hence a request that has left the queue was issued
  completely. `NothingSkipped`: one that does not validate takes its model with it;
- `GradsAreSent`: the trainer has accumulated for a slot what was sent for its model since
  the last step or load, less what is in flight. With `Counted` this is the window of
  the step (`Accumulated`), and `Windows` says that it is consumed once;
- `LockDiscipline`, `OneTicket`, `SlotsAreOwned`, `SlotsAreClean`: the trainer lock, its queue
  and the slots agree; gradients of one model cannot meet those of another;
- `SleepsOnNothing`: a dispatcher that sleeps without a wake-up has empty queues.

`ClientWaits` is the discipline of the SDK: nothing is asked of a model before the future
of `create_model()` has been resolved. The gateway does not check it. The invariant says
what depends on it in one conjunct, `ClientWaits => GradsInv`, and the rest for every
client. So `BarriersSeparate`, `NobodyIsStranded` and `SlotsStayOwned` have no hypothesis, and only
`StepsConsumeTheirWindows` and `SlotsStayExclusive` assume `ClientWaits`; they need it: with
`ClientWaits = FALSE` TLC refutes `StepConsumesItsWindow` and `SlotsAreExclusive` (a batch runs
in a slot that is loaded afterwards). TLC checked `IInv` with the constants of the run
(1,913,638 states) and with `ClientWaits = FALSE` (5,068,919).

**FullyAsyncProofs** (`RolloutInvariant`, `GroupsAreConserved`, `WindowIsKept`,
`NoneWaitsTooLong`, `LimitsAreKept`, `WorkerIsWoken`). The properties become inductive with
little more, but each leans on the others:

- that no group is in two places is never said of pairs of places: `Conservation` says
  that the places together hold the `drawn` groups and have room for no more. The lemma
  `PlacesSuffice` turns this count into distinctness, so a step only has to move groups
  without adding room. That a task is found by its group (`TaskOf`) follows from it;
- `SampleAccounting` counts the set of unfinished samples, a group and a number each;
  submissions add disjoint samples (`NewSamples`) because the groups are distinct, and a
  group that leaves has none left (`FinishedHaveNoneLeft`, `WorkerPutsFinished`);
- `BoundedQueueing` is about how long an entry has waited and says nothing of how long it
  still will. `InTime` does: the batches before an entry are no more than the versions it
  may still wait for. It is kept by a `put` since the window bounds what is before the new
  entry (`AdmissionWindow`), and by a take since `NextVersion`, the version the next batch
  is trained on, moves by one when a batch leaves, and the entries behind it move up;
- `NoMissedWakeup` needs that a drain which opens the window without setting the event
  (a turn that drops nothing) takes out a batch as it gives back the extra one.

`InTime` and with it `NoneWaitsTooLong` do not say that versions are published at the pace
of the batches: `TrainStep` is the setting in which the code promises the bound (one weight
update per batch). TLC checked `IInv` on the instance of the run (1,336,098 states) and on
one without `WithinStaleness` and `RetryUnused` (1,423,550 states) before it was proved.

**FullyAsyncProofs, the training loop** (`TrainInvariant`, `NothingIsLostOrRepeated`,
`LagIsBounded`). A step of the rollout is the same action under the loop as in
`FullyAsync`, but what it keeps is not: `AdmissionWindow` and `InTime` need one weight
update per batch, and after a resume with another attempt's checkpoint `trained` is not
what is missing from the other places. So each action has a lemma on `Sound(old)`, for
any set `old` of groups that have left: types, counts, wake-up events, and every other
group in one place. `IInv` is it with `old = trained`, and `TrainIInv` takes from it:

- `DriverInStep`: where the script is, against the `get` calls asked for, begun and
  received. The executor is at most one `get` ahead, and never across a weight update;
  `BoundedLag` is this and the fitness of a batch when it is handed out (`WithinLag`);
- `BatchOnItsWay`: the batch between the executor and the driver has a snapshot of its
  rollout with the same content, no other snapshot is as new, and a snapshot restored
  from disk is the only one and is replayed before anything else runs;
- `EveryGroupPlaced`: the count of `Conservation`, with what has left the run quantified
  away (`\E old`), so that it also holds of a mixed resume; unless `mixed`, `old` is what the
  model has learnt from, with the batch in training;
- `DiskOK`: every rollout checkpoint restores its groups to one place each
  (`SavedPlaced`), and a model agrees with the checkpoint of its rollout if one attempt
  has written both. That an attempt writes only rollouts it has come past
  (`RolloutWritten`, `ModelWritten`) keeps the agreement when a resumed run overwrites
  the directories of the one before.

After a failed resume (`driver = "failed"`, run `sync_save`) only `Core` and `BoundedLag` are
claimed. TLC checked every conjunct of `TrainIInv` on the instance of the run `train`
(2,203,441 states), and on one of 2 crashes and 2 rollouts with retried groups, with
asynchronous (76,289 states) and synchronous saves (10,161 states).

Where a proof failed the model was at fault five times, and was corrected to the code:
`WorkerRpc` and `CellHealth` chose an answer with a `CASE` whose guards overlapped, so
that the prover (rightly) could not tell which branch the code's `if` order takes;
`EvalDispatch` retired snapshots by a filter that does not say that the order is kept;
the type invariants left out the quorum and the outcomes; and `SessionServer` left open
what a slice past the end of the messages is, which Python shortens (`Upto`; the
invariant does not exclude it for agents that branch). Some definitions of `FullyAsync`
and `TrainAsync` were put differently to be reasoned about, with the same states: the
lists rebuilt by a comprehension, and the snapshots an executor retains or discards, are
selections of positions in their order (`Selected`), where `SelectSeq` is recursive in a
way the prover cannot unfold, and the samples in flight are counted as a set instead of
added up along the sequence.

**Only model-checked** are the liveness properties (`WaiterServed`, `Converges`,
`TrainEnds`, `Recovers`, `EveryPointIsReported`, `CallsEnd`): the prover supports neither
liveness under fairness nor `ENABLED`. Every invariant that a passing run
checks is stated by a theorem.

## 5. Abstractions and what is not modelled

- `FullyAsync`: the group-level scheduler, the optional sample filter,
  `DefaultMultiDataBuffer` and metrics. Sample contents are reduced to the verdict
  of the filters.
- `TrainAsync`: `Dispose` and the evaluation pause (in `FullyAsync` only),
  output-store references, a data reset on load, colocation, the critic.
- `InferenceController`: one updatable model; offload and onload, frozen and
  evaluation models, colocated initialisation, pausing of generation. `dispose()`
  swallows a router failure, so `routed` may keep removed incarnations; the
  properties are about serving cells.
- `ReconcileLoop`: the parsing of pods (a pod's parent and a revision stand for it),
  the sleeps between attempts, and more than the one worker the code has.
- `TrainerGroup`: weight updates (their outcome is `Push` of `InferenceController`),
  the critic, metrics; a healed cell gets its state in one step.
- `CellHealth`: trainer cells on Ray only; probes of rollout cells, the Kubernetes
  backend, placement; failures are counted up to the threshold.
- `EvalDispatch`: metrics, `current()` (a live weight version), CI mode in which a skip
  fails the run, evaluation on the shared engines. That an engine answers its loads
  one after the other is an assumption; a load that fails leaves the weights as they were.
- `TinkerGateway`: a datum is one token, so the token budget is a number of datums;
  the requests of a unit settle together, before the closes that follow; clients
  wait for the future of `create_model()` (`ClientWaits`, as the SDK does; the code
  itself does not check it). Sampling, checkpoints to download and their expiry,
  validation of inputs and the death of the trainer are left out.
- `WorkerRpc`: concurrency groups and serialization; a graceful close is a crash, and
  the question `is_initialized()` before the gate is left out. `AnswerIsKept` excludes a
  client cut off for longer than the time to live of its result (`outage`), and
  `TakeOverIsQuiet` requests that were on the wire when the successor found the
  trainers idle (`late`).
- `SessionServer`: the linear trajectory (v1) with assistant messages among the
  roles an agent may append; the trajectory tree (v2) is left out, and so are a server
  without a store client (a `StorePlanError`), its restart, and a DELETE that never
  arrives (`openai_endpoint_utils.py:118-127` logs it), after which the objects stay.
- Not modelled: the registration of external engines (numbered snapshots with a
  time to live; planned below); the router's load balancing (request I/O; only its
  set of engines appears); the data source (epochs and shuffling are data the
  properties do not tell apart; only its position appears); the output store's
  reference counting (its objects appear in `SessionServer`); the synchronous loop
  `train.py` (sequential); kernels, model definitions, dashboards and deployment
  templates (numerical code and presentation).

## 6. Plan

1. Abstract specifications: an abstract lock (free, held by one call, held between
   calls) implemented by `ContextLock`; an abstract weight service implemented by
   `InferenceController`.
2. The registration of external engines; composition of `TrainerGroup` with
   `InferenceController` by refining `Push`; the trajectory tree.
