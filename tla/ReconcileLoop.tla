---------------------------- MODULE ReconcileLoop ----------------------------
(***************************************************************************)
(* The reconcile loop (utils/workers/reconcile): the Kubernetes reflector  *)
(* that lists and watches pods, the driver that pumps its events into the  *)
(* object store, the work queue, the single worker, the retry scheduler    *)
(* and the lifecycle of the loop.                                          *)
(*                                                                         *)
(* The apiserver is external: a history of worlds whose index is the       *)
(* resource version, and of which it may forget a prefix.  Everything runs *)
(* on one event loop, so an action is what happens between two awaits.     *)
(***************************************************************************)
EXTENDS Integers, Sequences, FiniteSets

CONSTANTS
    Objects,      \* pods
    Parents,      \* parent keys: the cells
    NoParent,     \* what key_map returns for a pod it cannot attribute
    Revs,         \* the distinguishable states of a pod
    MaxChanges,   \* bound: changes of the world
    MaxFaults     \* bound: stream, LIST and reconcile failures, compactions

ASSUME SetsAssumption ==
    NoParent \notin Parents /\ IsFiniteSet(Parents) /\ Revs \subseteq Nat \ {0}
ASSUME BoundsAssumption == MaxChanges \in Nat /\ MaxFaults \in Nat

VARIABLES
    hist,     \* the apiserver: the world at every resource version
    oldest,   \* the oldest resource version it still streams from
    faults,   \* failures so far
    link,     \* the reflector: between watches, with a LIST answer, or watching
    cursor,   \* _WatchCursor.resource_version, 0 for None
    page,     \* the resource version of a LIST answer not yet handled
    cache,    \* ObjectStore._cache
    synced,   \* SourceStreamDriver._synced
    phase,    \* start() and stop()
    queue,    \* WorkQueue._keys
    wakeup,   \* WorkQueue._wakeup
    worker,   \* where _worker_loop() is
    current,  \* the key being reconciled
    hasRead,  \* whether that reconcile has read the store yet
    seen,     \* what it read
    retry,    \* RetryScheduler._infos: none, waiting (retry_at set), handed (retry_at None)
    acted     \* what the last successful reconcile of every key read

server == <<hist, oldest>>
reflector == <<link, cursor, page>>
store == <<cache, synced>>
work == <<worker, current, hasRead, seen, acted>>
vars == <<server, faults, reflector, store, phase, queue, wakeup, work, retry>>

Gone == [parent |-> NoParent, rev |-> 0]
Garbled == [parent |-> NoParent, rev |-> -1]    \* a pod that does not validate
Mapped == [parent : Parents, rev : Revs]
Unmapped == [parent : {NoParent}, rev : Revs]
PodStates == Mapped \cup Unmapped \cup {Gone, Garbled}
Caches == [Objects -> Mapped \cup {Gone}]

Elements(s) == {s[i] : i \in DOMAIN s}

Init ==
    /\ hist \in {<<w>> : w \in [Objects -> {Gone}]}
    /\ oldest = 1 /\ faults = 0
    /\ link = "idle" /\ cursor = 0 /\ page = 0
    /\ cache = [o \in Objects |-> Gone] /\ synced = FALSE
    /\ phase = "starting"
    /\ queue = <<>> /\ wakeup = FALSE
    /\ worker = "ready" /\ current = NoParent /\ hasRead = FALSE
    /\ seen = [o \in Objects |-> Gone]
    /\ retry = [p \in Parents |-> "none"]
    /\ acted = [p \in Parents |-> [o \in Objects |-> Gone]]

Fault == faults < MaxFaults /\ faults' = faults + 1

(***************************************************************************)
(* The apiserver.                                                          *)
(***************************************************************************)
World == hist[Len(hist)]

\* A pod appears, changes, moves to another cell, loses its labels or goes.
ChangeWorld(o, v) ==
    /\ Len(hist) <= MaxChanges
    /\ v # World[o]
    /\ hist' = Append(hist, [World EXCEPT ![o] = v])
    /\ UNCHANGED <<oldest, faults, reflector, store, phase, queue, wakeup, work, retry>>

\* The apiserver forgets versions a watch could have resumed from.
Compact ==
    /\ oldest < Len(hist) /\ Fault
    /\ oldest' = oldest + 1
    /\ UNCHANGED <<hist, reflector, store, phase, queue, wakeup, work, retry>>

ChangedAt(n) == CHOOSE o \in Objects : hist[n][o] # hist[n - 1][o]

\* A watch frame carries the pod, or its last state when it was deleted.
Unreadable(n) ==
    LET o == ChangedAt(n)
    IN  hist[n][o] = Garbled \/ (hist[n][o] = Gone /\ hist[n - 1][o] = Garbled)

(***************************************************************************)
(* The object store: the new cache and the parents an event affects.       *)
(***************************************************************************)

\* The object as it is, unless key_map cannot attribute it.
Upserted(c, o, v) == [c EXCEPT ![o] = IF v.parent = NoParent THEN Gone ELSE v]

\* Fault: the parent an object leaves is not notified.
NewParentOnly(c, o, v) ==
    (IF v.parent = NoParent THEN {c[o].parent} ELSE {v.parent}) \ {NoParent}

\* _handle_upsert(): the parent of the object and the one it had before; an
\* object that no longer maps is deleted, one that never did is ignored.
UpsertAffects(c, o, v) == {v.parent, c[o].parent} \ {NoParent}

Replaced(c, w) == [o \in Objects |-> IF w[o].parent = NoParent THEN Gone ELSE w[o]]

\* _handle_replace(): the upserts of the mapped objects, and the deletes of
\* what is cached and no longer there.
ReplaceAffects(c, w) ==
    ({w[o].parent : o \in Objects} \cup {c[o].parent : o \in Objects}) \ {NoParent}

\* _apply_delete(): attributed by the cache, or by the last state of the object.
DeleteAffects(c, o, last) ==
    (IF c[o] # Gone THEN {c[o].parent} ELSE {last.parent}) \ {NoParent}

(***************************************************************************)
(* The work queue.                                                         *)
(***************************************************************************)
Running == phase \in {"starting", "running"}

\* The keys of a batch that are not queued yet, in the order of the batch.
Batches(S) ==
    {s \in [1..Cardinality(S) -> S] : Elements(s) = S /\ \A i, j \in DOMAIN s : s[i] = s[j] => i = j}

\* Fault: the key being reconciled counts as queued.
EnqueueUnlessCurrent(S) ==
    IF ~Running THEN UNCHANGED <<queue, wakeup>>
    ELSE /\ \E s \in Batches((S \ Elements(queue)) \ {current}) : queue' = queue \o s
         /\ wakeup' = (wakeup \/ S # {})

\* WorkQueue.add() of every key of S.
Enqueue(S) ==
    IF ~Running THEN UNCHANGED <<queue, wakeup>>
    ELSE /\ \E s \in Batches(S \ Elements(queue)) : queue' = queue \o s
         /\ wakeup' = (wakeup \/ S # {})

(***************************************************************************)
(* KubernetesReflector.watch() and SourceStreamDriver._pump().             *)
(***************************************************************************)
Alive == phase # "stopped"

\* list_pods() answers with the world and its version; a pod that does not
\* validate fails the whole page.
List ==
    /\ Alive /\ link = "idle" /\ cursor = 0
    /\ \A o \in Objects : World[o] # Garbled
    /\ link' = "listed" /\ page' = Len(hist)
    /\ UNCHANGED <<server, faults, cursor, store, phase, queue, wakeup, work, retry>>

\* The ReplaceEvent is pumped into the store, then the cursor is set.
HandleReplace ==
    /\ Alive /\ link = "listed"
    /\ cache' = Replaced(cache, hist[page]) /\ synced' = TRUE
    /\ Enqueue(ReplaceAffects(cache, hist[page]))
    /\ link' = "idle" /\ cursor' = page /\ page' = 0
    /\ UNCHANGED <<server, faults, phase, work, retry>>

\* Fault: a cursor the apiserver rejects is kept.
OpenKeepingCursor ==
    /\ Alive /\ link = "idle" /\ cursor # 0 /\ cursor >= oldest
    /\ link' = "watching"
    /\ UNCHANGED <<server, faults, cursor, page, store, phase, queue, wakeup, work, retry>>

\* stream_pods() from the cursor; 410 Gone makes the reflector list again.
OpenWatch ==
    /\ Alive /\ link = "idle" /\ cursor # 0
    /\ IF cursor < oldest THEN cursor' = 0 /\ UNCHANGED link
                          ELSE link' = "watching" /\ UNCHANGED cursor
    /\ UNCHANGED <<server, faults, page, store, phase, queue, wakeup, work, retry>>

\* The next frame of the stream: the cursor moves, then the event is pumped.
HandleFrame ==
    LET n == cursor + 1
        o == ChangedAt(n)
    IN  /\ Alive /\ link = "watching" /\ cursor < Len(hist) /\ ~Unreadable(n)
        /\ cursor' = n
        /\ IF hist[n][o] = Gone
             THEN /\ cache' = [cache EXCEPT ![o] = Gone]
                  /\ Enqueue(DeleteAffects(cache, o, hist[n - 1][o]))
             ELSE /\ cache' = Upserted(cache, o, hist[n][o])
                  /\ Enqueue(UpsertAffects(cache, o, hist[n][o]))
        /\ UNCHANGED <<server, faults, link, page, synced, phase, work, retry>>

\* from_frame() raises inside stream_pods(): a stream failure like any other,
\* so the watch is opened again from the same cursor.
FrameUnreadable ==
    /\ Alive /\ link = "watching" /\ cursor < Len(hist) /\ Unreadable(cursor + 1)
    /\ link' = "idle"
    /\ UNCHANGED <<server, faults, cursor, page, store, phase, queue, wakeup, work, retry>>

\* The watch times out or breaks, or a LIST fails: tried again from the cursor.
WatchEnds ==
    /\ Alive /\ link = "watching" /\ Fault
    /\ link' = "idle"
    /\ UNCHANGED <<server, cursor, page, store, phase, queue, wakeup, work, retry>>

\* The apiserver rejects the cursor of an open watch: list again.
CursorRejected ==
    /\ Alive /\ link = "watching" /\ cursor < oldest
    /\ link' = "idle" /\ cursor' = 0
    /\ UNCHANGED <<server, faults, page, store, phase, queue, wakeup, work, retry>>

\* The source's generator dies: the driver opens a new one, with a new cursor.
StreamDies ==
    /\ Alive /\ Fault
    /\ link' = "idle" /\ cursor' = 0 /\ page' = 0
    /\ UNCHANGED <<server, store, phase, queue, wakeup, work, retry>>

(***************************************************************************)
(* Lifecycle: ReconcileLoop.start() and stop().                            *)
(***************************************************************************)

\* The first ReplaceEvent has set _synced; start() creates the worker.
Start ==
    /\ phase = "starting" /\ synced
    /\ phase' = "running"
    /\ UNCHANGED <<server, faults, reflector, store, queue, wakeup, work, retry>>

\* start() is cancelled before the first sync.
CancelStart ==
    /\ phase = "starting"
    /\ phase' = "stopped" /\ retry' = [p \in Parents |-> "none"]
    /\ UNCHANGED <<server, faults, reflector, store, queue, wakeup, work>>

\* The queue and the retry scheduler shut down; stop() waits for the poller.
Stop ==
    /\ phase = "running"
    /\ phase' = "stopping"
    /\ wakeup' = TRUE /\ retry' = [p \in Parents |-> "none"]
    /\ UNCHANGED <<server, faults, reflector, store, queue, work>>

\* The worker, the driver and the resync loop are cancelled where they are.
CancelTasks ==
    /\ phase = "stopping"
    /\ phase' = "stopped" /\ worker' = "exited"
    /\ current' = NoParent /\ hasRead' = FALSE
    /\ UNCHANGED <<server, faults, reflector, store, queue, wakeup, seen, acted, retry>>

(***************************************************************************)
(* The worker: _worker_loop() around WorkQueue.get().                      *)
(***************************************************************************)
WorkerUp == phase \in {"running", "stopping"}

GetKey ==
    /\ WorkerUp /\ worker = "ready" /\ phase = "running" /\ queue # <<>>
    /\ worker' = "reconciling" /\ current' = Head(queue) /\ hasRead' = FALSE
    /\ queue' = Tail(queue)
    /\ UNCHANGED <<server, faults, reflector, store, phase, wakeup, seen, acted, retry>>

GetWaits ==
    /\ WorkerUp /\ worker = "ready" /\ phase = "running" /\ queue = <<>>
    /\ worker' = "waiting" /\ wakeup' = FALSE
    /\ UNCHANGED <<server, faults, reflector, store, phase, queue, current, hasRead, seen, acted, retry>>

GetWakes ==
    /\ WorkerUp /\ worker = "waiting" /\ wakeup
    /\ worker' = "ready"
    /\ UNCHANGED <<server, faults, reflector, store, phase, queue, wakeup, current, hasRead, seen, acted, retry>>

\* get() returns None after the shutdown.
WorkerExits ==
    /\ worker = "ready" /\ phase = "stopping"
    /\ worker' = "exited"
    /\ UNCHANGED <<server, faults, reflector, store, phase, queue, wakeup, current, hasRead, seen, acted, retry>>

\* get_by_parent()
View(c, p) == [o \in Objects |-> IF c[o].parent = p THEN c[o] ELSE Gone]

\* The reconcile reads what the store holds of its key, at a moment of its own.
ReadStore ==
    /\ WorkerUp /\ worker = "reconciling" /\ ~hasRead
    /\ hasRead' = TRUE /\ seen' = View(cache, current)
    /\ UNCHANGED <<server, faults, reflector, store, phase, queue, wakeup, worker, current, acted, retry>>

\* The reconcile returns: note_success().
Succeed ==
    /\ WorkerUp /\ worker = "reconciling" /\ hasRead
    /\ acted' = [acted EXCEPT ![current] = seen]
    /\ retry' = [retry EXCEPT ![current] = "none"]
    /\ worker' = "ready" /\ current' = NoParent /\ hasRead' = FALSE
    /\ UNCHANGED <<server, faults, reflector, store, phase, queue, wakeup, seen>>

\* Fault: a failure is only logged.
FailForgets ==
    /\ WorkerUp /\ worker = "reconciling" /\ Fault
    /\ worker' = "ready" /\ current' = NoParent /\ hasRead' = FALSE
    /\ UNCHANGED <<server, reflector, store, phase, queue, wakeup, seen, acted, retry>>

\* The reconcile raises, before or after its read: note_failure().
Fail ==
    /\ WorkerUp /\ worker = "reconciling" /\ Fault
    /\ retry' = [retry EXCEPT ![current] = IF phase = "running" THEN "waiting" ELSE @]
    /\ worker' = "ready" /\ current' = NoParent /\ hasRead' = FALSE
    /\ UNCHANGED <<server, reflector, store, phase, queue, wakeup, seen, acted>>

\* RetryScheduler._poll(): the keys whose delay is over are queued again.
Poll(due) ==
    /\ phase = "running"
    /\ retry' = [p \in Parents |-> IF p \in due THEN "handed" ELSE retry[p]]
    /\ Enqueue(due)
    /\ UNCHANGED <<server, faults, reflector, store, phase, work>>

Waiting == {p \in Parents : retry[p] = "waiting"}

\* _resync_loop(): every parent that still has members is queued.
Resync ==
    /\ phase = "running"
    /\ Enqueue({cache[o].parent : o \in Objects} \ {NoParent})
    /\ UNCHANGED <<server, faults, reflector, store, phase, work, retry>>

(***************************************************************************)
(* The specification.                                                      *)
(***************************************************************************)
Environment == Compact \/ WatchEnds \/ StreamDies \/ \E o \in Objects, v \in PodStates : ChangeWorld(o, v)

Reflect == List \/ HandleReplace \/ OpenWatch \/ HandleFrame \/ FrameUnreadable \/ CursorRejected

Work == GetKey \/ GetWaits \/ GetWakes \/ WorkerExits \/ ReadStore \/ Succeed \/ Fail

Next ==
    \/ Environment
    \/ Reflect
    \/ Work
    \/ Start \/ CancelStart \/ Stop \/ CancelTasks
    \/ \E due \in SUBSET Waiting \ {{}} : Poll(due)
    \/ Resync

Spec == Init /\ [][Next]_vars

\* The reflector, the worker and the poller are tasks of a running event loop.
\* CursorRejected is the apiserver's choice, a failing reconcile the caller's.
Fairness ==
    /\ WF_vars(List \/ HandleReplace \/ OpenWatch)
    /\ WF_vars(HandleFrame \/ FrameUnreadable)
    /\ WF_vars(GetKey \/ GetWaits \/ GetWakes \/ ReadStore \/ Succeed \/ Fail)
    /\ WF_vars(Start)
    /\ \A p \in Parents : WF_vars(p \in Waiting /\ Poll({p}))

FairSpec == Spec /\ Fairness

(***************************************************************************)
(* Properties.                                                             *)
(***************************************************************************)
\* Every variable has its type.
TypeOK ==
    /\ hist # <<>> /\ hist \in Seq([Objects -> PodStates])
    /\ oldest \in 1..Len(hist) /\ faults \in 0..MaxFaults
    /\ link \in {"idle", "listed", "watching"}
    /\ cursor \in 0..Len(hist) /\ page \in 0..Len(hist) /\ (link = "listed" => page # 0)
    /\ cache \in Caches /\ synced \in BOOLEAN
    /\ phase \in {"starting", "running", "stopping", "stopped"}
    /\ queue \in Seq(Parents) /\ wakeup \in BOOLEAN
    /\ worker \in {"ready", "waiting", "reconciling", "exited"}
    /\ current \in Parents \cup {NoParent} /\ (worker = "reconciling") = (current # NoParent)
    /\ hasRead \in BOOLEAN /\ seen \in Caches
    /\ retry \in [Parents -> {"none", "waiting", "handed"}]
    /\ acted \in [Parents -> Caches]

\* The keys the loop still owes a reconcile: queued, being reconciled, or
\* waiting for their retry.  A loop that was stopped owes all of them.
Owed == IF Running THEN Elements(queue) \cup ({current} \ {NoParent}) \cup Waiting ELSE Parents

\* A key whose pods are not what its last successful reconcile read is never
\* forgotten, whatever arrives while it is queued, reconciled, failing or
\* waiting for its retry.
NothingForgotten == \A p \in Parents : acted[p] # View(cache, p) => p \in Owed

\* A reconcile that read the store before the store changed is owed another:
\* what it read is current, or its key is queued again.
StaleReadIsQueued ==
    (worker = "reconciling" /\ hasRead /\ Running /\ seen # View(cache, current))
        => current \in Elements(queue)

\* A key is queued at most once, so a burst of events costs one reconcile.
QueueHasNoDuplicates == \A i, j \in DOMAIN queue : queue[i] = queue[j] => i = j

\* The store holds exactly the mapped pods of the world at the cursor: no event
\* is skipped or applied twice over reconnects, relists and compactions.
CursorMatchesStore ==
    cursor # 0 => cache = [o \in Objects |-> IF hist[cursor][o].parent = NoParent THEN Gone ELSE hist[cursor][o]]

\* The worker sleeps only while there is nothing to do (no lost wakeup).
NoLostWakeup == worker = "waiting" /\ queue # <<>> => wakeup

\* The state the loop rests on: types, a queue without duplicates, a store that is
\* the world at the cursor, a queued key behind every stale read, and a wakeup set
\* behind every sleeping worker with work.
LoopInvariant ==
    TypeOK /\ QueueHasNoDuplicates /\ CursorMatchesStore /\ StaleReadIsQueued /\ NoLostWakeup

\* The next frame of the watch, or a LIST, has a pod that does not validate.
HeldUp == IF cursor = 0 THEN \E o \in Objects : World[o] = Garbled
                        ELSE cursor < Len(hist) /\ Unreadable(cursor + 1)

\* Once the world stops changing and calls stop failing, every cell that differs
\* from the world is reconciled against it, unless the loop was stopped or a pod
\* that cannot be read holds up the reflector.
Converges ==
    <>[](phase \in {"stopping", "stopped"} \/ HeldUp
         \/ \A p \in Parents : acted[p] = View([o \in Objects |-> World[o]], p))

\* A pod frame that cannot be read does not hold the watch at its cursor.
MalformedFrameIsPassed ==
    \A n \in 1..MaxChanges :
        (phase = "running" /\ cursor = n /\ n < Len(hist) /\ Unreadable(n + 1))
            ~> (cursor # n \/ phase # "running")

\* The loop implements the promise of a level-triggered controller: whatever the
\* source, the queue and the retries do, each step observes, acts or stutters.
Promise == INSTANCE LevelTriggered
    WITH Keys <- Parents, Views <- Caches, NoMembers <- [o \in Objects |-> Gone],
         view <- [p \in Parents |-> View(cache, p)], dirty <- Owed

ImplementsPromise == Promise!Spec

(***************************************************************************)
(* What the safety properties rest on.                                     *)
(***************************************************************************)
\* A resource version changes one object, the one its frame carries.
OneChange ==
    \A n \in 2..Len(hist) : \E o \in Objects :
        hist[n][o] # hist[n - 1][o] /\ \A q \in Objects \ {o} : hist[n][q] = hist[n - 1][q]

\* A watch is open from a resource version that was listed.
WatchHasCursor == link = "watching" => cursor # 0

IInv == LoopInvariant /\ NothingForgotten /\ OneChange /\ WatchHasCursor
=============================================================================
