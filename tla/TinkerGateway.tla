---------------------------- MODULE TinkerGateway ----------------------------
(***************************************************************************)
(* The Tinker gateway (tinker/core): sessions, models bound to adapter     *)
(* slots, per-model command queues, the scheduler that packs commands of   *)
(* several models into one trainer call, and futures.                      *)
(*                                                                         *)
(* One trainer lock, first come first served, is shared by the dispatcher, *)
(* the tasks that initialize new models and the end of sessions.  Code     *)
(* between two awaits is one action; while a trainer call is awaited the   *)
(* lock is held and requests keep coming in.                               *)
(***************************************************************************)
EXTENDS Naturals, Sequences, SequencesExt, FiniteSets, FiniteSetsExt

CONSTANTS
    Models,         \* the models that clients create, each once
    Sessions,
    SessionOf,      \* the session a model is created in
    Slots,          \* adapter slots, numbered from 1; the trainer has the first few of them
    Programs,       \* what the clients may want to run: a sequence of commands per model
    MaxLen,         \* bound: the commands of a model
    Budget,         \* batch_token_budget, in datums of one token each
    ClientWaits,    \* whether a client waits for the future of create_model()
    MaxSweeps,      \* bound: how often the lease sweeper or finish_session() runs
    MaxExpired      \* bound: settled futures that are forgotten

Ops == {"forward_backward", "forward_only", "optim_step", "save_state", "load_state"}
BatchOps == {"forward_backward", "forward_only"}

ASSUME ModelsAssumption ==
    IsFiniteSet(Models) /\ Models \cap {"none", "nobody", "dispatcher", "end_sessions"} = {}
ASSUME ProgramsAssumption ==
    /\ MaxLen \in Nat
    /\ \A p \in Programs : \A m \in Models :
          /\ p[m] \in Seq([op : Ops, datums : Nat, bad : BOOLEAN]) /\ Len(p[m]) <= MaxLen
          \* An empty request does not validate (validate_batch_payload).
          /\ \A s \in 1..Len(p[m]) : p[m][s].op \in BatchOps /\ ~p[m][s].bad => p[m][s].datums > 0
ASSUME SlotsAssumption == Slots \subseteq Nat \ {0} /\ \A n \in Slots : 1..n \subseteq Slots
ASSUME BoundsAssumption == Budget \in Nat /\ ClientWaits \in BOOLEAN /\ MaxSweeps \in Nat /\ MaxExpired \in Nat
ASSUME SessionAssumption == SessionOf \in [Models -> Sessions]

VARIABLES
    program,    \* the clients' commands in this behaviour
    sessions,   \* live sessions
    sweeps,     \* how often sessions were swept or finished
    model,      \* absent, open or closed
    slotOf,     \* ModelRecord.slot
    ready,      \* ModelRecord.slot_initialized
    free,       \* free_slots
    enqueued,   \* last_enqueued_seq_id
    arrival,    \* Command.arrival of every submitted command, 0 before
    queue,      \* ModelRequestQueue.queue: its sequence numbers, in whose order it is
    issued,     \* num_issued_datums of every command
    remaining,  \* remaining of every command
    future,     \* the state of every command's future
    lockQueue,  \* who waits for the trainer lock
    holder,     \* who holds it
    unit,       \* the trainer call being awaited
    closing,    \* models that the holder has still to close
    unloading,  \* the slot whose unload the holder awaits
    dispatcher, \* waiting for the lock, running, or waiting for a wakeup
    wake,       \* _wake
    loaded,     \* the trainer: the model every slot was loaded for
    grads,      \* the trainer: the datums accumulated in every slot
    consumed    \* per optimizer step and load of a model: the gradients it took, once per execution

client == <<program, sessions, sweeps>>
record == <<model, slotOf, ready, free>>
requests == <<enqueued, arrival, queue, issued, remaining>>
lock == <<lockQueue, holder, unit, closing, unloading, dispatcher>>
trainer == <<loaded, grads, consumed>>
vars == <<client, record, requests, future, lock, wake, trainer>>

NoSlot == 0
NoModel == "none"
NoUnit == [op |-> "none", refs |-> {}]
Seqs(m) == 1..Len(program[m])
Cmd(m, s) == program[m][s]
IsBatch(m, s) == Cmd(m, s).op \in BatchOps
Dispatcher == "dispatcher"
EndSessions == "end_sessions"
Commands == Models \X (1..MaxLen)
PerCommand(v) == [m \in Models |-> [s \in 1..MaxLen |-> v]]

Init ==
    /\ program \in Programs /\ sessions = Sessions /\ sweeps = 0
    /\ model = [m \in Models |-> "absent"] /\ slotOf = [m \in Models |-> NoSlot]
    /\ ready = [m \in Models |-> FALSE] /\ free \in {1..n : n \in Slots}
    /\ enqueued = [m \in Models |-> 0] /\ arrival = PerCommand(0)
    /\ queue = [m \in Models |-> {}] /\ issued = PerCommand(0) /\ remaining = PerCommand(0)
    /\ future = PerCommand("none")
    /\ lockQueue = <<Dispatcher>> /\ holder = "nobody" /\ unit = NoUnit /\ closing = {}
    /\ unloading = NoSlot /\ dispatcher = "acquiring" /\ wake = FALSE
    /\ loaded = [l \in Slots |-> NoModel] /\ grads = [l \in Slots |-> {}]
    /\ consumed = PerCommand(<<>>)

(***************************************************************************)
(* Requests of the clients: synchronous parts of the service.              *)
(***************************************************************************)

\* create_model(): allocate the lowest free slot, initialize it in a task.
CreateModel(m) ==
    /\ model[m] = "absent" /\ SessionOf[m] \in sessions /\ free # {}
    /\ model' = [model EXCEPT ![m] = "open"]
    /\ slotOf' = [slotOf EXCEPT ![m] = Min(free)] /\ free' = free \ {Min(free)}
    /\ lockQueue' = Append(lockQueue, m)
    /\ UNCHANGED <<client, ready, requests, future, holder, unit, closing, unloading, dispatcher, wake, trainer>>

\* _enqueue_contiguous_commands(): the last sequence number without a gap.
Contiguous(m, submitted) ==
    Max({n \in enqueued[m]..Len(program[m]) : \A k \in (enqueued[m] + 1)..n : k \in submitted})

NextArrival == 1 + Cardinality({c \in Commands : arrival[c[1]][c[2]] # 0})

\* submit(): commands arrive in any order; the queue receives them in sequence.
Submit(m, s) ==
    LET submitted == {k \in Seqs(m) : arrival[m][k] # 0} \cup {s}
        last == Contiguous(m, submitted)
    IN  /\ model[m] = "open" /\ (ClientWaits => ready[m]) /\ arrival[m][s] = 0
        /\ arrival' = [arrival EXCEPT ![m][s] = NextArrival]
        /\ enqueued' = [enqueued EXCEPT ![m] = last]
        /\ queue' = [queue EXCEPT ![m] = @ \cup (enqueued[m] + 1)..last]
        /\ remaining' = [remaining EXCEPT ![m][s] = IF IsBatch(m, s) /\ ~Cmd(m, s).bad THEN Cmd(m, s).datums ELSE 0]
        /\ future' = [future EXCEPT ![m][s] = "pending"]
        /\ wake' = TRUE
        /\ UNCHANGED <<client, record, issued, lock, trainer>>

\* submit() of a sequence number seen before: the same future, or, when its
\* result has expired, one that failed.
Resubmit(m, s) ==
    /\ model[m] = "open" /\ arrival[m][s] # 0
    /\ future' = [future EXCEPT ![m][s] = IF @ = "expired" THEN "failed" ELSE @]
    /\ UNCHANGED <<client, record, requests, lock, wake, trainer>>

\* RequestFutureStore._sweep(): a settled future is forgotten after its time.
ExpireFuture(m, s) ==
    /\ future[m][s] \in {"done", "failed"}
    /\ Cardinality({c \in Commands : future[c[1]][c[2]] = "expired"}) < MaxExpired
    /\ future' = [future EXCEPT ![m][s] = "expired"]
    /\ UNCHANGED <<client, record, requests, lock, wake, trainer>>

\* The lease sweeper or finish_session() asks for the trainer lock.
AskToEndSessions ==
    /\ sweeps < MaxSweeps /\ sweeps' = sweeps + 1
    /\ lockQueue' = Append(lockQueue, EndSessions)
    /\ UNCHANGED <<program, sessions, record, requests, future, holder, unit, closing, unloading, dispatcher, wake, trainer>>

(***************************************************************************)
(* The scheduler.                                                          *)
(***************************************************************************)
Open == {m \in Models : model[m] = "open"}

Valid(m, s) == ~Cmd(m, s).bad

\* open_batch_run(): the leading commands of the queue that are batch operations.
OpenRun(m) == {s \in queue[m] : \A k \in queue[m] : k <= s => IsBatch(m, k) /\ Valid(m, k)}

\* The command at the head of the queue.
AtHead(m, s) == s \in queue[m] /\ \A k \in queue[m] : s <= k

\* Fault: of a request that was split only the first batch is issued.
ReadyDatumsOnce ==
    {r \in UNION {{<<c[1], c[2], i>> : i \in 1..Cmd(c[1], c[2]).datums} :
                   c \in {d \in Commands : d[1] \in Open /\ d[2] \in OpenRun(d[1])}} : issued[r[1]][r[2]] = 0}

\* The datums of those commands that were not issued yet.
Unissued(m, s) == {<<m, s, i>> : i \in (issued[m][s] + 1)..Cmd(m, s).datums}
ReadyDatums ==
    UNION {Unissued(c[1], c[2]) : c \in {d \in Commands : d[1] \in Open /\ d[2] \in OpenRun(d[1])}}

\* Fault: a barrier does not wait for the batch operations ahead of it.
BarriersAnywhere ==
    {c \in Commands : c[1] \in Open /\ c[2] \in queue[c[1]] /\ ~IsBatch(c[1], c[2]) /\ Valid(c[1], c[2])}

\* ready_barrier() of every queue: a barrier at the head.
ReadyBarriers ==
    {c \in Commands : c[1] \in Open /\ AtHead(c[1], c[2]) /\ ~IsBatch(c[1], c[2]) /\ Valid(c[1], c[2])}

\* ready_rejections(): commands at the head that did not validate.
Rejections == {c \in Commands : c[1] \in Open /\ AtHead(c[1], c[2]) /\ ~Valid(c[1], c[2])}

\* Fault: of one request, the last datums are packed first.
EarlierLastFirst(r, q) ==
    \/ arrival[r[1]][r[2]] < arrival[q[1]][q[2]]
    \/ arrival[r[1]][r[2]] = arrival[q[1]][q[2]] /\ r[3] > q[3]

\* The order in which datums are packed.
Earlier(r, q) ==
    \/ arrival[r[1]][r[2]] < arrival[q[1]][q[2]]
    \/ arrival[r[1]][r[2]] = arrival[q[1]][q[2]] /\ r[3] < q[3]

\* _pack_batch(): from the seed, compatible datums in order of arrival, within
\* the budget; the first one always fits.
Packed(seed) ==
    LET compatible == {r \in ReadyDatums : Cmd(r[1], r[2]).op = Cmd(seed[1], seed[2]).op}
    IN  {r \in compatible : Cardinality({q \in compatible : Earlier(q, r)}) < Max({1, Budget})}

\* _merge_barriers(): optimizer steps of several models are one call.
Merged(seed) ==
    IF Cmd(seed[1], seed[2]).op = "optim_step"
      THEN {b \in ReadyBarriers : Cmd(b[1], b[2]).op = "optim_step"}
      ELSE {seed}

\* schedule_next(): the earliest ready command is the seed.
NextUnits ==
    LET datums == {r \in ReadyDatums : \A q \in ReadyDatums : arrival[r[1]][r[2]] <= arrival[q[1]][q[2]]}
        barriers == {b \in ReadyBarriers : \A c \in ReadyBarriers : arrival[b[1]][b[2]] <= arrival[c[1]][c[2]]}
        Precedes(b, r) == arrival[b[1]][b[2]] < arrival[r[1]][r[2]]
    IN  {[op |-> Cmd(b[1], b[2]).op, refs |-> Merged(b)] :
            b \in {x \in barriers : \A r \in datums : Precedes(x, r)}}
        \cup
        {[op |-> Cmd(r[1], r[2]).op, refs |-> Packed(r)] :
            r \in {x \in datums : \A b \in barriers : ~Precedes(b, x)}}

(***************************************************************************)
(* The holders of the trainer lock.                                        *)
(***************************************************************************)
Release == holder' = "nobody" /\ UNCHANGED lockQueue

\* The dispatcher releases the lock and asks for it again behind the others.
ReleaseAndAsk == holder' = "nobody" /\ lockQueue' = Append(lockQueue, Dispatcher)

\* requires_model_close_on_failure(), for an error of the given category.
ClosesOnFailure(c, category) ==
    LET op == Cmd(c[1], c[2]).op
    IN  op \in {"forward_backward", "optim_step"} \/ (op = "load_state" /\ category # "user")

\* _finish_request() of every request of a unit: it settles and leaves the
\* queue, or its model is going to be closed.
Finish(succeeded, failed, category) ==
    LET closed == {c \in failed : ClosesOnFailure(c, category)}
    IN  /\ closing' = {c[1] : c \in closed}
        /\ future' = [m \in Models |-> [s \in 1..MaxLen |->
              IF <<m, s>> \in succeeded THEN "done"
              ELSE IF <<m, s>> \in failed \ closed THEN "failed" ELSE future[m][s]]]
        /\ queue' = [m \in Models |->
              {s \in queue[m] : <<m, s>> \notin (succeeded \cup failed) \ closed}]

\* The datums of a command in a unit.
DatumsIn(u, m, s) == {r \in u.refs : u.op \in BatchOps /\ r[1] = m /\ r[2] = s}

Acquire(a) ==
    /\ holder = "nobody" /\ lockQueue # <<>> /\ Head(lockQueue) = a
    /\ lockQueue' = Tail(lockQueue)

\* run(): reject what failed validation, or start the next unit, or sleep.
Dispatch ==
    /\ Acquire(Dispatcher)
    /\ IF Rejections # {}
         THEN /\ holder' = Dispatcher /\ dispatcher' = "running"
              /\ Finish({}, Rejections, "user")
              /\ UNCHANGED <<unit, issued>>
         ELSE IF NextUnits # {}
         THEN /\ holder' = Dispatcher /\ dispatcher' = "running"
              /\ unit' \in NextUnits
              /\ issued' = [m \in Models |-> [s \in 1..MaxLen |->
                    issued[m][s] + Cardinality(DatumsIn(unit', m, s))]]
              /\ UNCHANGED <<closing, future, queue>>
         ELSE /\ holder' = "nobody" /\ dispatcher' = "sleeping"
              /\ UNCHANGED <<unit, issued, closing, future, queue>>
    /\ UNCHANGED <<client, record, enqueued, arrival, remaining, unloading, wake, trainer>>

\* _wake.wait() returns, the event is cleared and the lock asked for.
WakeUp ==
    /\ dispatcher = "sleeping" /\ wake
    /\ wake' = FALSE /\ dispatcher' = "acquiring"
    /\ lockQueue' = Append(lockQueue, Dispatcher)
    /\ UNCHANGED <<client, record, requests, future, holder, unit, closing, unloading, trainer>>

RequestsOf(u) == {<<r[1], r[2]>> : r \in u.refs}

Returns(ops) ==
    /\ holder = Dispatcher /\ unit.op \in ops
    /\ unit' = NoUnit
    /\ UNCHANGED <<client, record, enqueued, arrival, issued, lockQueue, holder, unloading, dispatcher, wake, loaded>>

Accumulate(refs) ==
    grads' = [l \in Slots |->
        grads[l] \cup {r \in refs : Cmd(r[1], r[2]).op = "forward_backward" /\ slotOf[r[1]] = l}]

\* _run_batch(), the trainer returned an output per datum.
BatchSucceeds ==
    /\ Returns(BatchOps)
    /\ Accumulate(unit.refs)
    /\ remaining' = [m \in Models |-> [s \in 1..MaxLen |->
          remaining[m][s] - Cardinality(DatumsIn(unit, m, s))]]
    /\ Finish({q \in RequestsOf(unit) : remaining'[q[1]][q[2]] = 0}, {}, "none")
    /\ UNCHANGED consumed

\* _fail_batch(): every request with a datum in the batch fails.  Some of its
\* gradients may have been accumulated.
BatchFails ==
    /\ Returns(BatchOps)
    /\ \E some \in {{}, unit.refs} : Accumulate(some)
    /\ Finish({}, RequestsOf(unit), "server")
    /\ UNCHANGED <<remaining, consumed>>

\* The gradients in the slot of every barrier of S are applied or discarded.
Consume(S) ==
    /\ consumed' = [m \in Models |-> [s \in 1..MaxLen |->
          IF <<m, s>> \in S THEN Append(consumed[m][s], grads[slotOf[m]]) ELSE consumed[m][s]]]
    /\ grads' = [l \in Slots |-> IF \E b \in S : slotOf[b[1]] = l THEN {} ELSE grads[l]]

\* _step_optimizers(): every slot has an outcome of its own.
OptimReturns ==
    /\ Returns({"optim_step"})
    /\ Consume(unit.refs)
    /\ \E ok \in SUBSET unit.refs : Finish(ok, unit.refs \ ok, "server")
    /\ UNCHANGED remaining

\* _save_state() and the exports leave the gradients alone.
SaveReturns ==
    /\ Returns({"save_state"})
    /\ \E ok \in {{}, unit.refs}, category \in {"user", "server"} : Finish(ok, unit.refs \ ok, category)
    /\ UNCHANGED <<remaining, grads, consumed>>

\* _load_state(): refused before the slot changes, or the slot starts afresh,
\* also when the load fails half-way.
LoadReturns ==
    /\ Returns({"load_state"})
    /\ \/ Finish({}, unit.refs, "user") /\ UNCHANGED <<grads, consumed>>
       \/ Finish({}, unit.refs, "server") /\ Consume(unit.refs)
       \/ Finish(unit.refs, {}, "none") /\ Consume(unit.refs)
    /\ UNCHANGED remaining

\* _close_model(): every request of the model fails, queued or not.
SettledByClose(m) == [s \in 1..MaxLen |-> IF future[m][s] = "pending" THEN "failed" ELSE future[m][s]]

\* Fault: the slot is free before it is unloaded.
CloseFreesFirst(m) ==
    /\ model' = [model EXCEPT ![m] = "closed"]
    /\ future' = [future EXCEPT ![m] = SettledByClose(m)]
    /\ unloading' = NoSlot /\ free' = free \cup {slotOf[m]}

\* _close_model() up to the unload; a slot that was never loaded is free at once.
Close(m) ==
    /\ model' = [model EXCEPT ![m] = "closed"]
    /\ future' = [future EXCEPT ![m] = SettledByClose(m)]
    /\ IF ready[m] THEN unloading' = slotOf[m] /\ UNCHANGED free
                   ELSE unloading' = NoSlot /\ free' = free \cup {slotOf[m]}

\* The holder closes the next model; _close_model() is idempotent.
CloseModel(m) ==
    /\ m \in closing /\ unloading = NoSlot
    /\ closing' = closing \ {m}
    /\ Close(m)
    /\ UNCHANGED <<client, slotOf, ready, requests, lockQueue, holder, unit, dispatcher, wake, trainer>>

\* unload_slot() returns; a slot that failed to unload stays unavailable.
Unloaded(ok) ==
    /\ unloading # NoSlot
    /\ free' = IF ok THEN free \cup {unloading} ELSE free
    /\ loaded' = [loaded EXCEPT ![unloading] = IF ok THEN NoModel ELSE @]
    /\ grads' = [grads EXCEPT ![unloading] = IF ok THEN {} ELSE @]
    /\ unloading' = NoSlot
    /\ UNCHANGED <<client, model, slotOf, ready, requests, future, lockQueue, holder, unit, closing, dispatcher, wake,
                   consumed>>

\* The holder has applied everything.
Done ==
    /\ holder # "nobody" /\ unit = NoUnit /\ closing = {} /\ unloading = NoSlot
    /\ IF holder = Dispatcher THEN ReleaseAndAsk /\ dispatcher' = "acquiring"
                              ELSE Release /\ UNCHANGED dispatcher
    /\ UNCHANGED <<client, record, requests, future, unit, closing, unloading, wake, trainer>>

\* _run_create_model() gets the lock: the model may be closed by now.
StartLoad(m) ==
    /\ Acquire(m)
    /\ IF model[m] = "open" THEN holder' = m /\ unit' = [op |-> "load_slot", refs |-> {m}]
                            ELSE holder' = "nobody" /\ UNCHANGED unit
    /\ UNCHANGED <<client, record, requests, future, closing, unloading, dispatcher, wake, trainer>>

\* load_slot() returns: the slot starts fresh, or the model is closed.
SlotLoaded(m, ok) ==
    /\ holder = m /\ unit.op = "load_slot"
    /\ ready' = [ready EXCEPT ![m] = TRUE]
    /\ loaded' = [loaded EXCEPT ![slotOf[m]] = m]
    /\ grads' = [grads EXCEPT ![slotOf[m]] = {}]
    /\ closing' = IF ok THEN {} ELSE {m}
    /\ unit' = NoUnit
    /\ UNCHANGED <<client, model, slotOf, free, requests, future, lockQueue, holder, unloading, dispatcher, wake,
                   consumed>>

\* _end_sessions(): sessions that lapsed or finished, then their models.
StartEndSessions(S) ==
    /\ Acquire(EndSessions)
    /\ S \subseteq sessions
    /\ sessions' = sessions \ S
    /\ holder' = EndSessions
    /\ closing' = {m \in Open : SessionOf[m] \in S}
    /\ UNCHANGED <<program, sweeps, record, requests, future, unit, unloading, dispatcher, wake, trainer>>

Next ==
    \/ \E m \in Models : CreateModel(m) \/ StartLoad(m) \/ \E ok \in BOOLEAN : SlotLoaded(m, ok)
    \/ \E m \in Models : \E s \in Seqs(m) : Submit(m, s) \/ Resubmit(m, s) \/ ExpireFuture(m, s)
    \/ AskToEndSessions \/ \E S \in SUBSET sessions : StartEndSessions(S)
    \/ Dispatch \/ WakeUp \/ BatchSucceeds \/ BatchFails \/ OptimReturns
    \/ SaveReturns \/ LoadReturns
    \/ (\E m \in Models : CloseModel(m)) \/ Done \/ \E ok \in BOOLEAN : Unloaded(ok)

Spec == Init /\ [][Next]_vars

(***************************************************************************)
(* Properties.                                                             *)
(***************************************************************************)
FutureStates == {"none", "pending", "done", "failed", "expired"}

Datums == Models \X (1..MaxLen) \X Nat

\* Every variable has its type.
TypeOK ==
    /\ program \in Programs /\ sessions \in SUBSET Sessions /\ sweeps \in 0..MaxSweeps
    /\ model \in [Models -> {"absent", "open", "closed"}]
    /\ slotOf \in [Models -> Slots \cup {NoSlot}] /\ ready \in [Models -> BOOLEAN] /\ free \in SUBSET Slots
    /\ enqueued \in [Models -> 0..MaxLen] /\ arrival \in [Models -> [1..MaxLen -> Nat]]
    /\ queue \in [Models -> SUBSET (1..MaxLen)]
    /\ issued \in [Models -> [1..MaxLen -> Nat]] /\ remaining \in [Models -> [1..MaxLen -> Nat]]
    /\ future \in [Models -> [1..MaxLen -> FutureStates]]
    /\ lockQueue \in Seq(Models \cup {Dispatcher, EndSessions})
    /\ holder \in Models \cup {"nobody", Dispatcher, EndSessions} /\ closing \in SUBSET Models
    /\ unloading \in Slots \cup {NoSlot} /\ dispatcher \in {"acquiring", "running", "sleeping"} /\ wake \in BOOLEAN
    /\ loaded \in [Slots -> Models \cup {NoModel}] /\ grads \in [Slots -> SUBSET Datums]
    /\ consumed \in [Models -> [1..MaxLen -> Seq(SUBSET Datums)]]

Resets(m, s) == Cmd(m, s).op \in {"optim_step", "load_state"} /\ consumed[m][s] # <<>>

\* The datums that an optimizer step or a load b finds accumulated: those of the
\* forward_backward commands since the one before it.
Accumulated(m, b) ==
    UNION {{<<m, s, i>> : i \in 1..Cmd(m, s).datums} : s \in
        {k \in 1..(b - 1) : /\ Cmd(m, k).op = "forward_backward"
                            /\ \A r \in (k + 1)..(b - 1) : ~Resets(m, r)}}

\* An optimizer step consumes every datum of its model since the previous step
\* exactly once, and nothing else: whatever the order of arrival, retries of the
\* client, the splitting and packing of requests, failures of other models and
\* the reuse of slots.
StepConsumesItsWindow ==
    \A m \in Models : \A b \in Seqs(m) :
        Resets(m, b) => consumed[m][b] = <<Accumulated(m, b)>>

\* While a barrier runs, everything its model submitted before it has settled
\* and nothing it submitted after it has been sent to the trainer.
BarrierSeparates ==
    unit.op \in {"optim_step", "save_state", "load_state"} =>
        \A b \in unit.refs : \A k \in Seqs(b[1]) :
            /\ k < b[2] => future[b[1]][k] \in {"done", "failed", "expired"}
            /\ k > b[2] => issued[b[1]][k] = 0 /\ future[b[1]][k] \in {"none", "pending"}

\* Models that are open have slots of their own, which are not free and, once ready,
\* loaded for them.
SlotsAreOwned ==
    /\ \A m, n \in Open : m # n => slotOf[m] # slotOf[n]
    /\ \A m \in Open : slotOf[m] \notin free /\ (ready[m] => loaded[slotOf[m]] = m)
    /\ \A l \in free : loaded[l] = NoModel

\* The trainer holds in a slot only gradients of the model the slot was given to.
GradsAreOwned ==
    /\ \A l \in Slots : \A r \in grads[l] : loaded[l] = r[1]
    /\ \A l \in free : grads[l] = {}

\* Two models never share a slot, and what one has accumulated in its slot never meets
\* another.
SlotsAreExclusive == SlotsAreOwned /\ GradsAreOwned

\* No client waits on a model that is gone: the close of a model settles every
\* request made of it, also those still waiting for an earlier sequence number.
ClosedModelsAreSettled ==
    \A m \in Models : model[m] = "closed" => \A s \in 1..MaxLen : future[m][s] # "pending"

\* The dispatcher never sleeps on work: while it waits for a wakeup that nobody
\* has sent, no request that reached its queue is unsettled, whichever half of a
\* split batch, barrier or rejection the last unit left behind.
NeverSleepsOnWork ==
    (dispatcher = "sleeping" /\ ~wake) =>
        \A m \in Open : \A s \in 1..enqueued[m] : future[m][s] # "pending"

\* No client waits for ever on a request that nobody is going to answer.
NoRequestIsStranded == ClosedModelsAreSettled /\ NeverSleepsOnWork
(***************************************************************************)
(* What the safety properties rest on.                                     *)
(***************************************************************************)
Settled == {"done", "failed", "expired"}
BarrierOps == Ops \ BatchOps

\* The trainer lock: a call that is awaited is the holder's, a slot is loaded for a
\* model that is open, and only a holder without a call closes models.
LockDiscipline ==
    /\ \/ unit = NoUnit
       \/ /\ unit.op = "load_slot" /\ unit.refs = {holder}
          /\ holder \in Open /\ ~ready[holder]
       \/ holder = Dispatcher /\ unit.op \in Ops
    /\ unit # NoUnit \/ holder = "nobody" => closing = {} /\ unloading = NoSlot
    /\ holder = "nobody" => unit = NoUnit
    /\ closing \subseteq Open

\* A model waits at most once to have its slot loaded.
OneTicket ==
    \A i \in DOMAIN lockQueue : lockQueue[i] \in Models =>
        /\ model[lockQueue[i]] # "absent" /\ ~ready[lockQueue[i]]
        /\ unit.op = "load_slot" => holder # lockQueue[i]
        /\ \A j \in DOMAIN lockQueue : lockQueue[j] = lockQueue[i] => j = i

\* The trainer holds nothing for a model before its slot is loaded, and a slot that
\* is being unloaded belongs to nobody.
SlotsAreClean ==
    /\ \A m \in Open : slotOf[m] # NoSlot /\ slotOf[m] # unloading
    /\ \A m \in Open : ~ready[m] => loaded[slotOf[m]] = NoModel
    /\ unloading \notin free

\* What is asked of a model is asked once it exists, and has a future from then on.
Asked ==
    \A m \in Models :
        /\ ready[m] => model[m] # "absent"
        /\ \A s \in 1..MaxLen :
              /\ arrival[m][s] # 0 => model[m] # "absent"
              /\ arrival[m][s] = 0 <=> future[m][s] = "none"

\* A client that waits asks nothing before the slot of its model is loaded.
ClientsWait == \A m \in Models : \A s \in 1..MaxLen : arrival[m][s] # 0 => ready[m]

\* The requests of an open model: in the queue and pending, or settled, or still to be
\* enqueued.
InSequence ==
    \A m \in Models :
        /\ enqueued[m] <= Len(program[m])
        /\ queue[m] \subseteq 1..enqueued[m]
        /\ \A s \in 1..MaxLen :
              /\ IF s <= enqueued[m] THEN arrival[m][s] # 0 ELSE issued[m][s] = 0 /\ consumed[m][s] = <<>>
              /\ m \in Open =>
                    IF s \in queue[m] THEN future[m][s] = "pending"
                    ELSE IF s <= enqueued[m] THEN future[m][s] \in Settled
                    ELSE future[m][s] \in {"none", "pending"}

\* Only batch operations are overtaken in the queue.
NoOvertaking ==
    \A m \in Open : \A j \in queue[m] : \A k \in (j + 1)..enqueued[m] :
        k \notin queue[m] \/ issued[m][k] > 0 => IsBatch(m, j) /\ Valid(m, j)

\* What a unit in flight is made of.
UnitFits ==
    /\ unit.op \in BatchOps => IsFiniteSet(unit.refs) /\ \A r \in unit.refs :
          \E m \in Open : \E s \in queue[m] : \E i \in 1..issued[m][s] :
             r = <<m, s, i>> /\ Cmd(m, s).op = unit.op /\ Valid(m, s)
    /\ unit.op \in BarrierOps => \A b \in unit.refs :
          \E m \in Open : \E s \in queue[m] :
             b = <<m, s>> /\ AtHead(m, s) /\ Cmd(m, s).op = unit.op /\ Valid(m, s)

Live(m) == m \in Open \ closing

\* Every datum of a batch operation is issued once, and its answers are counted; what
\* trains leaves the queue when all are issued.
Counted ==
    \A m \in Models : \A s \in Seqs(m) : Live(m) /\ IsBatch(m, s) /\ Valid(m, s) /\ arrival[m][s] # 0 =>
        IF s \in queue[m] \/ s > enqueued[m]
          THEN /\ issued[m][s] <= Cmd(m, s).datums /\ remaining[m][s] > 0
               /\ remaining[m][s] + issued[m][s] = Cmd(m, s).datums + Cardinality(DatumsIn(unit, m, s))
          ELSE Cmd(m, s).op = "forward_backward" => issued[m][s] = Cmd(m, s).datums

\* A request that did not validate never settles but with its model, if it trains.
NothingSkipped ==
    \A m \in Models : \A s \in 1..enqueued[m] :
        Live(m) /\ s \notin queue[m] /\ Cmd(m, s).op = "forward_backward" => Valid(m, s)

\* The datums sent to the trainer since the last step or load of a model.
Sent(m) ==
    UNION {{<<m, s, i>> : i \in 1..issued[m][s]} : s \in
        {k \in Seqs(m) : Cmd(m, k).op = "forward_backward" /\ \A r \in Seqs(m) : r > k => ~Resets(m, r)}}

\* The trainer has accumulated what was sent and has been answered.
GradsAreSent ==
    \A m \in Models : Live(m) /\ ready[m] =>
        grads[slotOf[m]] = Sent(m) \ (IF unit.op \in BatchOps THEN unit.refs ELSE {})

\* A step or load ran once, after everything before it; one in the queue has not.
Windows ==
    \A m \in Models : \A b \in 1..MaxLen :
        /\ consumed[m][b] # <<>> => Resets(m, b) /\ \A k \in queue[m] : k >= b
        /\ Live(m) /\ b \in queue[m] => consumed[m][b] = <<>>

\* The dispatcher sleeps over empty queues.
SleepsOnNothing == dispatcher = "sleeping" /\ ~wake => \A m \in Open : queue[m] = {}

\* The gradients, which are lost and mixed if a client does not wait.
GradsInv == ClientsWait /\ GradsAreOwned /\ GradsAreSent /\ StepConsumesItsWindow

IInv ==
    /\ TypeOK /\ LockDiscipline /\ OneTicket
    /\ SlotsAreOwned /\ SlotsAreClean /\ Asked
    /\ InSequence /\ NoOvertaking /\ UnitFits /\ Counted /\ NothingSkipped
    /\ Windows /\ ClosedModelsAreSettled /\ SleepsOnNothing
    /\ ClientWaits => GradsInv
=============================================================================
