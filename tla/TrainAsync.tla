----------------------------- MODULE TrainAsync -----------------------------
(***************************************************************************)
(* The asynchronous training loop (train_async.py) over the fully          *)
(* asynchronous rollout: the driver, the rollout executor with its         *)
(* snapshots of untrained outputs, the checkpoints on disk, and a crash of *)
(* the whole run at any point followed by a restart from the latest        *)
(* checkpoint.                                                             *)
(*                                                                         *)
(* The memory of the processes is lost in a crash.  What survives is the   *)
(* latest published model checkpoint and one rollout checkpoint directory  *)
(* per saved rollout.  trained and dropped are history: trained is what    *)
(* the model has learnt from, so it goes back with the model.              *)
(***************************************************************************)
EXTENDS FullyAsync

CONSTANTS
    Interval,      \* update_weights_interval
    AsyncSave,     \* the backend's async_save
    MaxRetained,   \* _MAX_RETAINED_OUTPUTS
    NumRollout,    \* num_rollout
    MaxCrashes     \* bound: crashes of the run

ASSUME DriverAssumption ==
    /\ Interval \in Nat \ {0} /\ AsyncSave \in BOOLEAN
    /\ MaxRetained \in Nat \ {0} /\ NumRollout \in Nat \ {0} /\ MaxCrashes \in Nat
    /\ NumRollout <= MaxVersion  \* a rollout publishes at most one version

VARIABLES
    driver,     \* where the training loop is
    rolloutId,  \* rollout_id of the loop
    asked,      \* rollouts whose get() the driver has requested
    begun,      \* rollouts whose get() the executor has begun
    current,    \* rollout_data_curr_ref: the batch to train on
    steps,      \* optimizer steps of the model, its weight version
    snapshots,  \* _snapshots of the executor, in insertion order
    pending,    \* a model checkpoint written but not yet published
    model,      \* the latest published model checkpoint
    ckpt,       \* rollout checkpoint directories, by rollout id
    crashes,    \* how often the run has died
    mixed       \* history: a model was resumed with a rollout checkpoint that
                \* another attempt at the same rollout had written

driverVars == <<driver, rolloutId, asked, begun, current, steps>>
diskVars == <<pending, model, ckpt, crashes, mixed>>
trainVars == <<vars, driverVars, snapshots, diskVars>>

NoModel == [start |-> 0, trained |-> {}, steps |-> 0, attempt |-> 0]

TrainInit ==
    /\ Init
    /\ driver = "await" /\ rolloutId = 0 /\ asked = 1 /\ begun = 0
    /\ current = <<>> /\ steps = 0 /\ snapshots = <<>>
    /\ pending = NoModel /\ model = NoModel /\ ckpt = <<>> /\ crashes = 0 /\ mixed = FALSE

\* The processes run; rollout_executor.save() never awaits, so nothing else
\* runs on its event loop while it replaces a directory.
Running == driver \notin {"failed", "swap"}

HasNext == rolloutId + 1 < NumRollout
UpdateDue == (rolloutId + 1) % Interval = 0

(***************************************************************************)
(* The rollout executor.                                                   *)
(***************************************************************************)

\* Fault: the batch prefetched for the next rollout is discarded too.
DiscardNextToo(snaps, id) == Selected(snaps, {i \in DOMAIN snaps : snaps[i].id > id + 1})

\* discard_completed(): outputs of trained rollouts need no replay.
DiscardCompleted(snaps, id) == Selected(snaps, {i \in DOMAIN snaps : snaps[i].id > id})

\* capture(): keeps only the last MaxRetained outputs captured by this process.
Retain(snaps) ==
    LET captured == {i \in DOMAIN snaps : snaps[i].phase = "captured"}
        stale == {i \in captured : Cardinality({j \in captured : j > i}) >= MaxRetained}
    IN  Selected(snaps, DOMAIN snaps \ stale)

\* No await sits between the batch leaving the buffer and its capture.
CaptureIfTaken ==
    IF getPending' THEN UNCHANGED snapshots
    ELSE snapshots' = Retain(Append(snapshots,
                          [id |-> begun' - 1, batch |-> taken', phase |-> "captured"]))

Loaded == {i \in DOMAIN snapshots : snapshots[i].phase = "loaded"}

\* get(): a fresh batch from the rollout function.
ExecutorGet ==
    /\ Running /\ begun < asked
    /\ \A i \in DOMAIN snapshots : snapshots[i].id # begun
    /\ StartDrain
    /\ begun' = begun + 1
    /\ CaptureIfTaken
    /\ UNCHANGED <<driver, rolloutId, asked, current, steps, diskVars>>

ExecutorGetReturns ==
    /\ Running
    /\ DrainWakes
    /\ begun' = begun
    /\ CaptureIfTaken
    /\ UNCHANGED <<driver, rolloutId, asked, current, steps, diskVars>>

\* get(): a batch restored from the checkpoint is replayed; the rollout
\* function is not called, so the producer is not started.
ExecutorReplay ==
    /\ Running /\ begun < asked /\ taken = <<>> /\ ~getPending
    /\ \E i \in Loaded :
          /\ snapshots[i].id = begun
          /\ taken' = snapshots[i].batch
          /\ snapshots' = [snapshots EXCEPT ![i].phase = "replayed"]
    /\ begun' = begun + 1
    /\ UNCHANGED <<producer, retryBuffer, buffer, resumed, admissionChanged, getPending, trained,
                   dropped, version, driver, rolloutId, asked, current, steps, diskVars>>

\* What the producer side does on its own.
RolloutStep ==
    /\ Running
    /\ Worker \/ Generation \/ OnWorkerError
    /\ UNCHANGED <<driverVars, snapshots, diskVars>>

(***************************************************************************)
(* The training loop.                                                      *)
(***************************************************************************)

\* The batch arrives; the next drain starts early unless an update is due.
AwaitBatch ==
    /\ driver = "await" /\ begun = rolloutId + 1 /\ taken # <<>>
    /\ current' = taken /\ taken' = <<>>
    /\ asked' = IF HasNext /\ ~UpdateDue THEN rolloutId + 2 ELSE asked
    /\ driver' = "train"
    /\ UNCHANGED <<producer, retryBuffer, buffer, resumed, admissionChanged, getPending, trained,
                   dropped, version, rolloutId, begun, steps, snapshots, diskVars>>

Train ==
    /\ driver = "train"
    /\ trained' = trained \cup GroupsOf(current)
    /\ current' = <<>>
    /\ steps' = steps + 1
    /\ driver' = "save"
    /\ UNCHANGED <<producer, retryBuffer, buffer, resumed, admissionChanged, getPending, taken,
                   dropped, version, rolloutId, asked, begun, snapshots, diskVars>>

\* Neither the periodic save nor the save sentinel asks for a checkpoint.
SkipSave ==
    /\ driver = "save"
    /\ driver' = "update"
    /\ UNCHANGED <<vars, rolloutId, asked, begun, current, steps, snapshots, diskVars>>

Published == IF pending.start > model.start THEN pending ELSE model
ModelNow == [start |-> rolloutId + 1, trained |-> trained, steps |-> steps, attempt |-> crashes]

\* save_model(): an asynchronous save is published by the next save, unless it
\* is forced (the last rollout, or a save sentinel).
SaveModel ==
    /\ driver = "save"
    /\ \E force \in {~HasNext, TRUE} :
          IF AsyncSave /\ ~force
          THEN model' = Published /\ pending' = ModelNow
          ELSE model' = ModelNow /\ pending' = NoModel
    /\ driver' = "saveRollout"
    /\ UNCHANGED <<vars, rolloutId, asked, begun, current, steps, snapshots, ckpt, crashes, mixed>>

RolloutState ==
    [drawn |-> drawn, retry |-> retryBuffer, running |-> IdsOf(running), buffer |-> buffer,
     dropped |-> dropped, snapshots |-> snapshots, attempt |-> crashes]

Without(f, x) == [y \in DOMAIN f \ {x} |-> f[y]]

\* rollout_executor.save() over an earlier directory of this rollout: the old
\* one is moved away before the new one takes its name.
ReplaceOldCheckpoint ==
    /\ driver = "saveRollout" /\ rolloutId \in DOMAIN ckpt
    /\ ckpt' = Without(ckpt, rolloutId)
    /\ driver' = "swap"
    /\ UNCHANGED <<vars, rolloutId, asked, begun, current, steps, snapshots, pending, model,
                   crashes, mixed>>

SaveRollout ==
    /\ \/ driver = "saveRollout" /\ rolloutId \notin DOMAIN ckpt
       \/ driver = "swap"
    /\ snapshots' = DiscardCompleted(snapshots, rolloutId)
    /\ ckpt' = [id \in DOMAIN ckpt \cup {rolloutId} |->
                  IF id = rolloutId THEN [RolloutState EXCEPT !.snapshots = snapshots']
                  ELSE ckpt[id]]
    /\ driver' = "update"
    /\ UNCHANGED <<vars, rolloutId, asked, begun, current, steps, pending, model, crashes, mixed>>

\* Fault: the weight update of an interval is forgotten.
NoPublish ==
    UNCHANGED version

\* update_weights() ends with set_weight_version().
PublishWeights ==
    version' = IF UpdateDue THEN steps ELSE version

\* The weight update when due, then the drain it deferred; the loop goes on.
UpdateWeights ==
    /\ driver = "update"
    /\ PublishWeights
    /\ IF HasNext
       THEN rolloutId' = rolloutId + 1 /\ asked' = rolloutId + 2 /\ driver' = "await"
       ELSE driver' = "done" /\ UNCHANGED <<rolloutId, asked>>
    /\ UNCHANGED <<producer, retryBuffer, buffer, resumed, admissionChanged, getPending, taken,
                   trained, dropped, begun, current, steps, snapshots, diskVars>>

(***************************************************************************)
(* Crash and restart.                                                      *)
(***************************************************************************)
Restored(m) == IF m.start = 0
               THEN [drawn |-> 0, retry |-> <<>>, running |-> <<>>, buffer |-> <<>>,
                     dropped |-> {}, snapshots |-> <<>>, attempt |-> 0]
               ELSE ckpt[m.start - 1]

\* create_training_models() loads the model m and, past rollout 0, the rollout
\* checkpoint of the same rollout; the weights are published before the loop.
\* Running groups come back as prompts to generate again.
Load(m) ==
    LET saved == Restored(m)
    IN  /\ drawn' = saved.drawn
        /\ retryBuffer' = saved.retry \o saved.running
        /\ buffer' = saved.buffer
        /\ dropped' = saved.dropped
        /\ snapshots' = DiscardCompleted([i \in DOMAIN saved.snapshots |->
                            [saved.snapshots[i] EXCEPT !.phase = "loaded"]], m.start - 1)
        /\ trained' = m.trained /\ steps' = m.steps /\ version' = m.steps
        /\ running' = <<>> /\ samplesInFlight' = 0 /\ sampleDone' = FALSE
        /\ worker' = "none" /\ done' = {} /\ putting' = NoGroup
        /\ resumed' = TRUE /\ admissionChanged' = FALSE /\ getPending' = FALSE
        /\ taken' = <<>> /\ current' = <<>>
        /\ rolloutId' = m.start /\ begun' = m.start
        /\ IF m.start < NumRollout
           THEN asked' = m.start + 1 /\ driver' = "await"
           ELSE asked' = m.start /\ driver' = "done"

\* The run dies at any point and is started again from the model m: after a
\* crash of all of it the latest published one, the unpublished one being lost;
\* after a hot restart, where the trainers outlive the script and the executor,
\* load_state() first publishes what is pending.
Crash(m) ==
    /\ driver \notin {"failed", "done"} /\ crashes < MaxCrashes
    /\ crashes' = crashes + 1
    /\ model' = m
    /\ pending' = NoModel
    /\ UNCHANGED ckpt

CrashAndRestart(m) ==
    /\ Crash(m)
    /\ m.start = 0 \/ m.start - 1 \in DOMAIN ckpt
    /\ mixed' = (mixed \/ Restored(m).attempt # m.attempt)
    /\ Load(m)

\* The assertion of rollout_executor.load(): the trainer restored a rollout
\* whose rollout checkpoint does not exist.
CrashAndFail(m) ==
    /\ Crash(m)
    /\ m.start > 0 /\ m.start - 1 \notin DOMAIN ckpt
    /\ driver' = "failed"
    /\ UNCHANGED <<vars, rolloutId, asked, begun, current, steps, snapshots, mixed>>

TrainNext ==
    \/ RolloutStep \/ ExecutorGet \/ ExecutorGetReturns \/ ExecutorReplay
    \/ AwaitBatch \/ Train \/ SkipSave \/ SaveModel \/ ReplaceOldCheckpoint \/ SaveRollout
    \/ UpdateWeights
    \/ \E m \in {model, Published} : CrashAndRestart(m) \/ CrashAndFail(m)

TrainSpec == TrainInit /\ [][TrainNext]_trainVars

(***************************************************************************)
(* Properties.                                                             *)
(***************************************************************************)
LoadedGroups == UNION {GroupsOf(snapshots[i].batch) : i \in Loaded}

\* Across any crash, restart and replay no prompt group is lost or trained
\* twice: every group the data source has handed out is waiting (retry
\* buffer, running, buffer, a batch on its way or restored for replay), or was
\* trained into the current model, or was dropped, and only one of these.  The
\* exception, a model resumed with the rollout checkpoint of another attempt,
\* is the subject of CheckpointsAgree.
NothingLostOrRepeated ==
    (driver # "failed" /\ ~mixed) =>
       /\ 1..drawn = Range(retryBuffer) \cup GroupsOf(running) \cup GroupsOf(buffer)
                       \cup GroupsOf(taken) \cup GroupsOf(current) \cup LoadedGroups
                       \cup trained \cup dropped
       /\ drawn = Len(retryBuffer) + Len(running) + Len(buffer) + Len(taken) + Len(current)
                    + Cardinality(LoadedGroups) + Cardinality(trained) + Cardinality(dropped)

\* The lag between the model and the oldest token it trains on is at most
\* max_weight_staleness plus the optimizer steps of one update interval, for a
\* replayed batch too.
BoundedLag ==
    \A i \in DOMAIN current : steps - current[i].ver <= MaxStaleness + Interval - 1

\* rollout_executor.load() asserts that the rollout checkpoint of the restored
\* rollout exists: a crash never leaves a run that cannot be resumed.
Resumable == driver # "failed"

\* train.py says of the order of its two saves: "Persist data progress before
\* model saving publishes the latest checkpoint".  Whatever crashes happen, a
\* published model is resumed with the data progress saved together with it.
CheckpointsAgree == ~mixed

\* --max-weight-staleness is documented as the maximum gap between a group's
\* oldest token and the current engine version of what is sent to training.
TrainedWithinStaleness ==
    \A i \in DOMAIN current : version - current[i].ver <= MaxStaleness

(***************************************************************************)
(* What the safety properties rest on.                                     *)
(***************************************************************************)

\* Rollouts whose batch the driver has received, and those it has trained on.
Received == IF driver = "await" \/ rolloutId = NumRollout THEN rolloutId ELSE rolloutId + 1
TrainedOn == IF driver \in {"await", "train"} \/ rolloutId = NumRollout THEN rolloutId ELSE rolloutId + 1

\* The batch b was fit to train on in rollout id when it was handed out.
WithinLag(b, id) == \A i \in DOMAIN b : id <= b[i].ver + MaxStaleness + Interval - 1

Phases == {"captured", "loaded", "replayed"}
Snapshots == [id : Nat, batch : Seq(Entries), phase : Phases]
SnapshotsOK(snaps) ==
    /\ snaps \in Seq(Snapshots)
    /\ \A i, j \in DOMAIN snaps : snaps[i].id = snaps[j].id => i = j
    /\ \A i \in DOMAIN snaps : snaps[i].batch # <<>> /\ WithinLag(snaps[i].batch, snaps[i].id)

\* The driver is at most one get() ahead of the batches it has received, never past
\* the last rollout, and not ahead at all across a weight update.
DriverInStep ==
    /\ driver \in {"await", "train", "save", "saveRollout", "swap", "update", "done"}
    /\ rolloutId \in 0..NumRollout /\ (rolloutId = NumRollout => driver = "done" /\ begun = asked)
    /\ begun \in Nat /\ asked \in Nat
    /\ Received <= begun /\ begun <= asked /\ asked <= Received + 1 /\ asked <= NumRollout
    /\ driver = "await" => asked = rolloutId + 1
    /\ asked = rolloutId + 2 => ~UpdateDue
    /\ steps = TrainedOn
    /\ (driver = "done" /\ rolloutId < NumRollout) => ~HasNext
    /\ driver # "done" => rolloutId - version <= rolloutId % Interval

\* The batch on its way to the driver is the one captured or replayed last; a batch
\* restored from a checkpoint is alone until it is replayed.
BatchOnItsWay ==
    /\ current \in Seq(Entries) /\ WithinLag(current, rolloutId) /\ (current # <<>> => driver = "train")
    /\ SnapshotsOK(snapshots)
    /\ getPending => taken = <<>> /\ begun = Received + 1
    /\ taken # <<>> =>
          /\ begun = Received + 1
          /\ \E i \in DOMAIN snapshots : snapshots[i].id = Received /\ snapshots[i].batch = taken
    /\ \A i \in DOMAIN snapshots \ Loaded :
          snapshots[i].id < Received \/ (snapshots[i].id = Received /\ taken # <<>>)
    /\ Loaded # {} =>
          /\ driver = "await" /\ begun = rolloutId /\ taken = <<>> /\ ~getPending
          /\ worker = "none" /\ running = <<>>
          /\ Loaded = {1} /\ Len(snapshots) = 1 /\ snapshots[1].id = rolloutId

\* The batch of which a checkpoint, or the memory after a restart, holds a copy only.
FirstBatch(snaps) == IF snaps = <<>> THEN <<>> ELSE snaps[1].batch
Arriving == IF Loaded = {} THEN taken ELSE FirstBatch(snapshots)

\* Every group drawn has one place, those that the model has learnt from being old.
Placed(old) == AllPlaced(drawn, retryBuffer, running, buffer, Arriving, old, dropped)

\* The same of what a rollout checkpoint would restore.
SavedPlaced(saved, old) ==
    AllPlaced(saved.drawn, saved.retry \o saved.running, <<>>, saved.buffer,
              FirstBatch(saved.snapshots), old, saved.dropped)

\* No group is in two places, whatever the model has learnt from; and that is just
\* what is in no other place, unless it was resumed with another attempt's checkpoint.
EveryGroupPlaced ==
    /\ \E old \in SUBSET Groups : Placed(old)
    /\ ~mixed => /\ Placed(trained \cup GroupsOf(current))
                 /\ Cardinality(trained \cup GroupsOf(current)) = Cardinality(trained) + Len(current)

\* A rollout checkpoint holds what the next rollout begins with, and every group once.
SavedOK(saved, id) ==
    /\ saved.drawn \in 0..MaxDraws /\ saved.retry \in Seq(Groups) /\ saved.running \in Seq(Groups)
    /\ saved.buffer \in Seq(Entries) /\ Len(saved.buffer) <= Capacity /\ saved.dropped \in SUBSET Groups
    /\ SnapshotsOK(saved.snapshots) /\ Len(saved.snapshots) <= 1
    /\ \A i \in DOMAIN saved.snapshots : saved.snapshots[i].id = id + 1 /\ id + 1 < NumRollout
    /\ \E old \in SUBSET Groups : SavedPlaced(saved, old)

ModelOK(m) ==
    /\ m.start \in 0..NumRollout /\ m.steps = m.start /\ m.trained \in SUBSET Groups
    /\ m.start = 0 => m = NoModel

\* A model agrees with the rollout checkpoint of its rollout, if they are of one attempt.
AgreesWith(m, disk) ==
    (m.start > 0 /\ m.start - 1 \in DOMAIN disk /\ disk[m.start - 1].attempt = m.attempt) =>
        SavedPlaced(disk[m.start - 1], m.trained)

\* What this attempt has written is of rollouts it has come past, a model at the
\* latest of what it has trained on.
RolloutWritten(id) == id < rolloutId \/ (id = rolloutId /\ driver \in {"update", "done"})
ModelWritten(m) ==
    \/ m.start <= rolloutId
    \/ /\ m.start = rolloutId + 1 /\ m.trained = trained
       /\ driver \in {"saveRollout", "swap", "update", "done"}

DiskOK ==
    /\ crashes \in Nat /\ mixed \in BOOLEAN
    /\ \A m \in {model, pending} :
          /\ ModelOK(m)
          /\ m.attempt \in 0..crashes /\ (m.start > 0 /\ m.attempt = crashes => ModelWritten(m))
          /\ ~mixed => AgreesWith(m, ckpt)
    /\ \A id \in DOMAIN ckpt :
          /\ id \in 0..(NumRollout - 1) /\ SavedOK(ckpt[id], id)
          /\ ckpt[id].attempt \in 0..crashes /\ (ckpt[id].attempt = crashes => RolloutWritten(id))

TrainIInv ==
    /\ Core
    /\ BoundedLag
    /\ driver # "failed" => DriverInStep /\ BatchOnItsWay /\ EveryGroupPlaced /\ DiskOK

=============================================================================
