----------------------------- MODULE FullyAsync -----------------------------
(***************************************************************************)
(* Fully asynchronous rollout (rollout/fully_async_rollout.py) over the    *)
(* default data buffer (rollout/fully_async_data_buffer.py) with the       *)
(* sample-level submission scheduler (rollout/submission_scheduler.py).    *)
(*                                                                         *)
(* One asyncio loop runs the worker (producer), one task per prompt group  *)
(* in generation, and the drain (consumer) of a training step.  An action  *)
(* is what one task does between two suspensions.  A prompt group is the   *)
(* number of its draw from the data source; its samples differ only in     *)
(* whether they are finished.                                              *)
(***************************************************************************)
EXTENDS Naturals, FiniteSets, SequencesExt

CONSTANTS
    Batch,           \* rollout_batch_size, the groups one get() asks for
    GroupSize,       \* n_samples_per_prompt
    Budget,          \* _max_in_flight_groups()
    Capacity,        \* floor(async_data_buffer_capacity_factor * Batch)
    MaxStaleness,    \* max_weight_staleness
    WithinStaleness, \* async_submit_within_staleness
    RetryUnused,     \* async_unused_samples_handler = "retry" (else "drop")
    MaxDraws,        \* bound: prompt groups drawn from the data source
    MaxVersion       \* bound: weight versions

ASSUME SizesAssumption ==
    /\ Batch \in Nat \ {0} /\ GroupSize \in Nat \ {0} /\ Budget \in Nat \ {0}
    /\ Capacity \in Nat /\ Capacity >= Batch
    /\ MaxStaleness \in Nat /\ MaxDraws \in Nat /\ MaxVersion \in Nat
ASSUME FlagsAssumption == WithinStaleness \in BOOLEAN /\ RetryUnused \in BOOLEAN

VARIABLES
    drawn,            \* position of the data source
    retryBuffer,      \* _retry_buffer
    running,          \* _running_tasks, in submission order
    samplesInFlight,  \* the scheduler's samples_in_flight
    sampleDone,       \* the scheduler's _sample_done event
    worker,           \* where the worker loop is suspended
    done,             \* finished groups the worker has yet to put
    putting,          \* the group whose put() is suspended on a full buffer
    buffer,           \* the data buffer
    resumed,          \* _producer_resumed
    admissionChanged, \* _admission_changed
    getPending,       \* _get_pending: a drain is suspended in get()
    taken,            \* the batch get() returned, until it is trained
    trained, dropped, \* groups that left the rollout side
    version           \* weight version of the engines, as published

producer == <<drawn, running, samplesInFlight, sampleDone, worker, done, putting>>
vars == <<producer, retryBuffer, buffer, resumed, admissionChanged, getPending, taken,
          trained, dropped, version>>

NoGroup == 0         \* draws count from 1

Outcomes == {"generating", "ok", "aborted", "rejected", "failed"}
GroupsOf(s) == {s[i].g : i \in DOMAIN s}
IdsOf(s) == [i \in DOMAIN s |-> s[i].g]
TaskOf(g) == CHOOSE i \in DOMAIN running : running[i].g = g

\* The k-th of a set of positions, and the entries of a sequence at such a set, in order.
Nth(K, k) == CHOOSE i \in K : Cardinality({j \in K : j <= i}) = k
Selected(s, K) == [k \in 1..Cardinality(K) |-> s[Nth(K, k)]]

Init ==
    /\ drawn = 0 /\ retryBuffer = <<>> /\ running = <<>>
    /\ samplesInFlight = 0 /\ sampleDone = FALSE
    /\ worker = "none" /\ done = {} /\ putting = NoGroup
    /\ buffer = <<>> /\ resumed = TRUE /\ admissionChanged = FALSE
    /\ getPending = FALSE /\ taken = <<>>
    /\ trained = {} /\ dropped = {} /\ version = 0

(***************************************************************************)
(* The producer.                                                           *)
(***************************************************************************)

\* admits(): how many more groups the staleness window lets in.
Window == (MaxStaleness + (IF getPending THEN 1 ELSE 0)) * Batch
Occupied == Len(buffer) + Len(running)

\* Fault: the groups in generation are not counted.
AdmissionIgnoresInFlight ==
    IF ~WithinStaleness THEN Budget + 1
    ELSE IF Len(buffer) < Window THEN Window - Len(buffer) ELSE 0

AdmissionSlots ==
    IF ~WithinStaleness THEN Budget + 1
    ELSE IF Occupied < Window THEN Window - Occupied ELSE 0

\* has_capacity(): with no pending group a leftover count is reset to 0.
InFlight == IF running = <<>> THEN 0 ELSE samplesInFlight

CapacitySlots ==
    IF InFlight >= Budget * GroupSize THEN 0
    ELSE (Budget * GroupSize - InFlight) \div GroupSize

\* n calls of _submit_one_group(): recycled prompts first, then new draws.
Submit(n) ==
    LET recycled == Min({n, Len(retryBuffer)})
        groups == SubSeq(retryBuffer, 1, recycled)
                     \o [i \in 1..(n - recycled) |-> drawn + i]
    IN  /\ drawn' = drawn + (n - recycled)
        /\ retryBuffer' = SubSeq(retryBuffer, recycled + 1, Len(retryBuffer))
        /\ running' = running \o [i \in 1..n |-> [g |-> groups[i], ver |-> version,
                                                  left |-> GroupSize, out |-> "generating"]]
        /\ samplesInFlight' = (IF AdmissionSlots = 0 THEN samplesInFlight ELSE InFlight)
                                  + n * GroupSize

\* One turn of _worker_loop() up to its wait: nothing is awaited between the
\* submissions.  The data source never ends; MaxDraws only bounds the model.
Submissions == Min({AdmissionSlots, CapacitySlots})
WorkerSubmit ==
    /\ worker = "top" /\ resumed
    /\ Submissions <= Len(retryBuffer) + MaxDraws - drawn
    /\ Submit(Submissions)
    /\ admissionChanged' = FALSE
    /\ IF CapacitySlots < AdmissionSlots
       THEN worker' = "progress" /\ sampleDone' = FALSE
       ELSE worker' = "admission" /\ UNCHANGED sampleDone
    /\ UNCHANGED <<done, putting, buffer, resumed, getPending, taken, trained, dropped,
                   version>>

Finished == {running[i].g : i \in {j \in DOMAIN running : running[j].out # "generating"}}

\* wait_for_progress() or _wait_for_admission() returns.
WorkerWake ==
    /\ \/ worker = "progress" /\ (sampleDone \/ Finished # {})
       \/ worker = "admission" /\ (admissionChanged \/ Finished # {})
    /\ worker' = "put"
    /\ done' = Finished
    /\ UNCHANGED <<drawn, running, samplesInFlight, sampleDone, putting, retryBuffer, buffer,
                   resumed, admissionChanged, getPending, taken, trained, dropped, version>>

\* The unused handler: _recycle or _drop_unused.
HandleUnused(groups) ==
    IF RetryUnused
    THEN retryBuffer' = retryBuffer \o groups /\ UNCHANGED dropped
    ELSE dropped' = dropped \cup Range(groups) /\ UNCHANGED retryBuffer

\* Fault: a group that was put stays listed as running.
RetireLate(g) ==
    /\ done' = done \ {g}
    /\ UNCHANGED running

Retire(g) ==
    /\ done' = done \ {g}
    /\ running' = Selected(running, {i \in DOMAIN running : running[i].g # g})

Store(g) ==
    buffer' = Append(buffer, [g |-> g, ver |-> running[TaskOf(g)].ver, at |-> version])

\* put() of a finished group, when it does not suspend.  The filters give
\* their verdict first; the group leaves _running_tasks in the same step.
Put(g) ==
    /\ worker = "put" /\ putting = NoGroup /\ g \in done
    /\ \/ /\ running[TaskOf(g)].out = "aborted"
          /\ HandleUnused(<<g>>)
          /\ admissionChanged' = TRUE
          /\ UNCHANGED buffer
       \/ /\ running[TaskOf(g)].out = "rejected"
          /\ dropped' = dropped \cup {g}
          /\ UNCHANGED <<retryBuffer, admissionChanged, buffer>>
       \/ /\ running[TaskOf(g)].out = "ok"
          /\ Len(buffer) < Capacity
          /\ Store(g)
          /\ UNCHANGED <<retryBuffer, admissionChanged, dropped>>
    /\ Retire(g)
    /\ UNCHANGED <<drawn, samplesInFlight, sampleDone, worker, putting, resumed, getPending,
                   taken, trained, version>>

\* put() suspends on a full buffer: the group stays in _running_tasks.
PutBlocks(g) ==
    /\ worker = "put" /\ putting = NoGroup /\ g \in done
    /\ running[TaskOf(g)].out = "ok"
    /\ Len(buffer) >= Capacity
    /\ putting' = g
    /\ UNCHANGED <<drawn, running, samplesInFlight, sampleDone, worker, done, retryBuffer,
                   buffer, resumed, admissionChanged, getPending, taken, trained, dropped,
                   version>>

\* Fault: put() does not look at the buffer again when it is woken.
PutUnblocksUnchecked ==
    /\ worker = "put" /\ putting # NoGroup
    /\ Store(putting)
    /\ Retire(putting)
    /\ putting' = NoGroup
    /\ UNCHANGED <<drawn, samplesInFlight, sampleDone, worker, retryBuffer, resumed,
                   admissionChanged, getPending, taken, trained, dropped, version>>

PutUnblocks ==
    /\ worker = "put" /\ putting # NoGroup
    /\ Len(buffer) < Capacity
    /\ Store(putting)
    /\ Retire(putting)
    /\ putting' = NoGroup
    /\ UNCHANGED <<drawn, samplesInFlight, sampleDone, worker, retryBuffer, resumed,
                   admissionChanged, getPending, taken, trained, dropped, version>>

\* A group whose generation raised ends the worker: task.result() raises.
WorkerDies(g) ==
    /\ worker = "put" /\ putting = NoGroup /\ g \in done
    /\ running[TaskOf(g)].out = "failed"
    /\ worker' = "dead"
    /\ UNCHANGED <<drawn, running, samplesInFlight, sampleDone, done, putting, retryBuffer,
                   buffer, resumed, admissionChanged, getPending, taken, trained, dropped,
                   version>>

WorkerLoops ==
    /\ worker = "put" /\ putting = NoGroup /\ done = {}
    /\ worker' = "top"
    /\ UNCHANGED <<drawn, running, samplesInFlight, sampleDone, done, putting, retryBuffer,
                   buffer, resumed, admissionChanged, getPending, taken, trained, dropped,
                   version>>

(***************************************************************************)
(* Generation of a group (generate_and_rm_group).                          *)
(***************************************************************************)

\* A sample task ends: its done callback returns the in-flight credit.
SampleFinishes(i) ==
    /\ running[i].out = "generating" /\ running[i].left > 0
    /\ running' = [running EXCEPT ![i].left = @ - 1]
    /\ samplesInFlight' = samplesInFlight - 1
    /\ sampleDone' = TRUE
    /\ UNCHANGED <<drawn, worker, done, putting, retryBuffer, buffer, resumed,
                   admissionChanged, getPending, taken, trained, dropped, version>>

\* The group task ends after all its samples, the group reward included; its
\* oldest token dates from some version since it was submitted.  A cancelled
\* task counts as aborted.
GroupFinishes(i, out) ==
    /\ running[i].out = "generating" /\ running[i].left = 0
    /\ \E v \in running[i].ver..version :
          running' = [running EXCEPT ![i].out = out, ![i].ver = v]
    /\ UNCHANGED <<drawn, samplesInFlight, sampleDone, worker, done, putting, retryBuffer,
                   buffer, resumed, admissionChanged, getPending, taken, trained, dropped,
                   version>>

(***************************************************************************)
(* The consumer.                                                           *)
(***************************************************************************)
IsStale(e) == version > e.ver + MaxStaleness
Fresh == {i \in DOMAIN buffer : ~IsStale(buffer[i])}

\* Fault: the newest groups are handed out first.
TakeNewest ==
    LET kept == Selected(buffer, Fresh)
        stale == Selected(buffer, DOMAIN buffer \ Fresh)
    IN  /\ HandleUnused(IdsOf(stale))
        /\ IF Len(kept) >= Batch
           THEN /\ taken' = SubSeq(kept, Len(kept) - Batch + 1, Len(kept))
                /\ buffer' = SubSeq(kept, 1, Len(kept) - Batch)
                /\ getPending' = FALSE
           ELSE /\ buffer' = kept
                /\ getPending' = TRUE
                /\ UNCHANGED taken

\* One turn of _take(): _drop_stale(), then hand out a batch if there is one.
Take ==
    LET kept == Selected(buffer, Fresh)
        stale == Selected(buffer, DOMAIN buffer \ Fresh)
    IN  /\ HandleUnused(IdsOf(stale))
        /\ IF Len(kept) >= Batch
           THEN /\ taken' = SubSeq(kept, 1, Batch)
                /\ buffer' = SubSeq(kept, Batch + 1, Len(kept))
                /\ getPending' = FALSE
           ELSE /\ buffer' = kept
                /\ getPending' = TRUE
                /\ UNCHANGED taken

\* __call__(): the first call starts the worker; _drain() refuses an ended one.
StartWorker ==
    /\ worker # "dead"
    /\ worker' = IF worker = "none" THEN "top" ELSE worker

\* Fault: a starting drain does not announce the extra batch to the worker.
StartDrainSilently ==
    /\ ~getPending /\ taken = <<>>
    /\ StartWorker
    /\ Take
    /\ UNCHANGED <<drawn, running, samplesInFlight, sampleDone, done, putting, resumed,
                   admissionChanged, trained, version>>

\* _drain(): the worker is told, and get() runs up to its first suspension.
StartDrain ==
    /\ ~getPending /\ taken = <<>>
    /\ StartWorker
    /\ Take
    /\ admissionChanged' = TRUE
    /\ UNCHANGED <<drawn, running, samplesInFlight, sampleDone, done, putting, resumed,
                   trained, version>>

\* The drain wakes: a put notified it, or its 30 s reminder passed.
DrainWakes ==
    /\ getPending
    /\ Take
    /\ admissionChanged' = (admissionChanged \/ \E i \in DOMAIN buffer : IsStale(buffer[i]))
    /\ UNCHANGED <<producer, resumed, trained, version>>

\* _on_worker_error cancels the drain that waits on the dead worker.
OnWorkerError ==
    /\ worker = "dead" /\ getPending
    /\ getPending' = FALSE
    /\ UNCHANGED <<producer, retryBuffer, buffer, resumed, admissionChanged, taken, trained,
                   dropped, version>>

\* dispose(): _end_worker() cancels the worker wherever it is suspended.
Dispose ==
    /\ worker \notin {"none", "dead"}
    /\ worker' = "dead"
    /\ UNCHANGED <<drawn, running, samplesInFlight, sampleDone, done, putting, retryBuffer,
                   buffer, resumed, admissionChanged, getPending, taken, trained, dropped,
                   version>>

\* Shared-engine evaluation pauses the submissions.
PauseForEval ==
    /\ resumed
    /\ resumed' = FALSE
    /\ UNCHANGED <<producer, retryBuffer, buffer, admissionChanged, getPending, taken, trained,
                   dropped, version>>

ResumeAfterEval ==
    /\ ~resumed
    /\ resumed' = TRUE
    /\ UNCHANGED <<producer, retryBuffer, buffer, admissionChanged, getPending, taken, trained,
                   dropped, version>>

\* The training step: one optimizer step, then the weight update, then the
\* next drain (the validated setting of --async-submit-within-staleness).
TrainStep ==
    /\ taken # <<>>
    /\ version < MaxVersion
    /\ trained' = trained \cup GroupsOf(taken)
    /\ taken' = <<>>
    /\ version' = version + 1
    /\ UNCHANGED <<producer, retryBuffer, buffer, resumed, admissionChanged, getPending, dropped>>

Generation ==
    \E i \in DOMAIN running :
       \/ SampleFinishes(i)
       \/ \E out \in Outcomes \ {"generating"} : GroupFinishes(i, out)

Worker ==
    \/ WorkerSubmit \/ WorkerWake \/ PutUnblocks \/ WorkerLoops
    \/ \E g \in done : Put(g) \/ PutBlocks(g) \/ WorkerDies(g)

Next ==
    \/ Worker \/ Generation
    \/ StartDrain \/ DrainWakes \/ OnWorkerError \/ TrainStep
    \/ Dispose \/ PauseForEval \/ ResumeAfterEval

Spec == Init /\ [][Next]_vars

(***************************************************************************)
(* Fairness.  The event loop runs every ready task; a generation request   *)
(* ends, and not every group is aborted, rejected or stale for ever; an    *)
(* evaluation ends.  Event.wait() returns once its event was set, even if  *)
(* it is cleared again before the worker runs: strong fairness.            *)
(***************************************************************************)
SomeSampleFinishes == \E i \in DOMAIN running : SampleFinishes(i)
SomeGroupSucceeds == \E i \in DOMAIN running : GroupFinishes(i, "ok")

FairSpec ==
    /\ Spec
    /\ WF_vars(Worker) /\ SF_vars(WorkerSubmit) /\ SF_vars(WorkerWake)
    /\ WF_vars(SomeSampleFinishes) /\ SF_vars(SomeGroupSucceeds)
    /\ WF_vars(DrainWakes) /\ WF_vars(OnWorkerError) /\ WF_vars(ResumeAfterEval)

(***************************************************************************)
(* Properties.                                                             *)
(***************************************************************************)
Groups == 1..MaxDraws
Versions == 0..MaxVersion
Tasks == [g : Groups, ver : Versions, left : 0..GroupSize, out : Outcomes]
Entries == [g : Groups, ver : Versions, at : Versions]

\* Every variable has its type; in particular the scheduler's count of samples
\* in flight never goes below zero.
TypeOK ==
    /\ drawn \in 0..MaxDraws /\ version \in Versions
    /\ retryBuffer \in Seq(Groups) /\ running \in Seq(Tasks)
    /\ samplesInFlight \in Nat /\ sampleDone \in BOOLEAN
    /\ worker \in {"none", "top", "progress", "admission", "put", "dead"}
    /\ done \subseteq Groups /\ putting \in Groups \cup {NoGroup}
    /\ buffer \in Seq(Entries) /\ taken \in Seq(Entries)
    /\ resumed \in BOOLEAN /\ admissionChanged \in BOOLEAN /\ getPending \in BOOLEAN
    /\ trained \subseteq Groups /\ dropped \subseteq Groups

\* No prompt group is lost or duplicated: every group drawn from the data
\* source is in exactly one place (retry buffer, running tasks, data buffer,
\* the batch in training) or was trained or dropped exactly once, whatever the
\* interleaving of aborted, rejected, stale and blocked groups.
Conservation ==
    /\ 1..drawn = Range(retryBuffer) \cup GroupsOf(running) \cup GroupsOf(buffer)
                    \cup GroupsOf(taken) \cup trained \cup dropped
    /\ drawn = Len(retryBuffer) + Len(running) + Len(buffer) + Len(taken)
                 + Cardinality(trained) + Cardinality(dropped)

\* With --async-submit-within-staleness the groups generated ahead never
\* exceed max_weight_staleness batches, plus the one a pending get() waits for;
\* a worker that died with its get() cancelled submits no more.
AdmissionWindow ==
    (WithinStaleness /\ worker # "dead") =>
        Len(buffer) + Len(running) <= (IF getPending THEN MaxStaleness + 1 ELSE MaxStaleness) * Batch

\* admits() promises that "a group that enters the buffer is trained at most
\* max_weight_staleness versions later": no group is left waiting in the buffer
\* for more versions than that, so none goes stale merely by waiting its turn.
BoundedQueueing ==
    WithinStaleness => \A i \in DOMAIN buffer : version - buffer[i].at <= MaxStaleness

\* Of every running group the samples that have not finished, by a number.
Unfinished ==
    {c \in Groups \X (1..GroupSize) : \E i \in DOMAIN running : running[i].g = c[1] /\ c[2] <= running[i].left}

\* The in-flight count of the submission scheduler is the number of unfinished
\* samples of running groups, and the budget is never exceeded.
SampleAccounting ==
    /\ samplesInFlight = Cardinality(Unfinished)
    /\ samplesInFlight <= Budget * GroupSize

\* A put() that slept on a full buffer and was woken by someone else's notify
\* never pushes the buffer over its capacity.
BufferBound == Len(buffer) <= Capacity

\* What is generated and kept ahead stays within its limits: every variable has
\* its type, the budget of samples in flight is the true count and is kept, and
\* the buffer never grows over its capacity.
WithinLimits == TypeOK /\ SampleAccounting /\ BufferBound

\* The worker never sleeps through a chance to submit: it waits for admission only
\* while the window is closed, and for progress only while no group's worth of
\* samples is free, unless the event that wakes it is already set, however drains,
\* takes, stale drops and evaluation pauses fall between its check and its wait.
NoMissedWakeup ==
    /\ worker = "admission" /\ ~admissionChanged => AdmissionSlots = 0
    /\ worker = "progress" /\ ~sampleDone => CapacitySlots = 0 /\ running # <<>>

OutOfDraws == worker = "top" /\ Submissions > Len(retryBuffer) + MaxDraws - drawn

\* A drain ends: its batch comes, or it is cancelled because the worker ended;
\* it never hangs with the producer asleep on a missed wakeup.
DrainEnds == getPending ~> (~getPending \/ OutOfDraws)

(***************************************************************************)
(* What the safety properties rest on.                                     *)
(***************************************************************************)

\* The places a group can be in, and how many groups there are in all of them.
Places(retry, tasks, kept, batch, old, gone) ==
    Range(retry) \cup GroupsOf(tasks) \cup GroupsOf(kept) \cup GroupsOf(batch) \cup old \cup gone
Total(retry, tasks, kept, batch, old, gone) ==
    Len(retry) + Len(tasks) + Len(kept) + Len(batch) + Cardinality(old) + Cardinality(gone)

\* Each of the first n draws is in one place: as many groups as there are draws.
AllPlaced(n, retry, tasks, kept, batch, old, gone) ==
    /\ 1..n = Places(retry, tasks, kept, batch, old, gone)
    /\ n = Total(retry, tasks, kept, batch, old, gone)

\* A group that ended has no unfinished sample.
FinishedHaveNoneLeft == \A i \in DOMAIN running : running[i].out # "generating" => running[i].left = 0

\* The worker puts groups that ended; the one whose put() sleeps is among them.
WorkerPutsFinished == done \subseteq Finished /\ (putting # NoGroup => putting \in done)

\* get() hands out one batch at a time.
OneBatch == ~(getPending /\ taken # <<>>)

\* The version of the weights that the next batch handed out will be trained on.
NextVersion == IF taken = <<>> THEN version ELSE version + 1

\* Every entry of the buffer is handed out in time: the batches before it are no more
\* than the versions it may still wait for.
InTime ==
    WithinStaleness => \A i \in DOMAIN buffer :
        (NextVersion - buffer[i].at) * Batch + i <= (MaxStaleness + 1) * Batch

\* What holds whatever becomes of the batches; old are the groups that have left.
Core ==
    /\ TypeOK /\ FinishedHaveNoneLeft /\ WorkerPutsFinished /\ OneBatch
    /\ SampleAccounting /\ BufferBound
Sound(old) ==
    Core /\ AllPlaced(drawn, retryBuffer, running, buffer, taken, old, dropped)

IInv ==
    /\ TypeOK /\ Conservation
    /\ FinishedHaveNoneLeft /\ WorkerPutsFinished /\ OneBatch
    /\ AdmissionWindow /\ InTime /\ SampleAccounting /\ BufferBound /\ NoMissedWakeup

=============================================================================
