---------------------------- MODULE ContextLock ----------------------------
(***************************************************************************)
(* The context lock of the inference controller (utils/context_lock.py):   *)
(* an asyncio.Lock whose ownership is a generation number kept in a        *)
(* context variable.  A task spawned by the owner inherits the owner's     *)
(* context, hence its grant; a lock detached at the end of one remote call *)
(* is reattached by a later one.                                           *)
(*                                                                         *)
(* A context is one asyncio task that serves a remote call of the          *)
(* controller, or a task such a call spawned.                              *)
(***************************************************************************)
EXTENDS Naturals, Sequences

CONSTANTS Contexts,       \* the asyncio tasks
          Updaters,       \* those that serve the weight update calls of a
                          \* trainer: start, then end or abort
          MaxGeneration   \* bound on the number of grants (exploration only)

ASSUME UpdatersAssumption == Updaters \subseteq Contexts
ASSUME GenerationAssumption == MaxGeneration \in Nat

VARIABLES
    locked,      \* _lock.locked()
    waiters,     \* the FIFO of contexts suspended in _lock.acquire()
    counter,     \* _generation_counter
    active,      \* _active_generation, None when no grant is live
    detached,    \* _detached
    grant,       \* the context variable _held_lock of every context
    pc,          \* which part of a decorated call a context executes
    parent       \* for a spawned task, the context that spawned it

vars == <<locked, waiters, counter, active, detached, grant, pc, parent>>

None == 0          \* generations are issued from 1

Bodies == {"body", "starting", "ending"}
Waiting == {"wait_body", "wait_starting", "wait_resume"}
Locations == {"idle", "polling", "updating", "helper"} \cup Bodies \cup Waiting

(***************************************************************************)
(* The lock object.                                                        *)
(***************************************************************************)
HeldInCurrentContext(c) == active # None /\ grant[c] = active

\* Fault: every grant is the same token, as a plain "held" flag would be.
ReusedGeneration(c) ==
    /\ active' = 1
    /\ grant' = [grant EXCEPT ![c] = 1]
    /\ counter' = 1

\* _issue_generation, and the grant written to the context of c.
IssueGeneration(c) ==
    /\ counter' = counter + 1
    /\ active' = counter + 1
    /\ grant' = [grant EXCEPT ![c] = counter + 1]

\* release(): the assertion, then the three assignments.
Release(c) ==
    /\ HeldInCurrentContext(c)
    /\ active' = None
    /\ grant' = [grant EXCEPT ![c] = None]
    /\ locked' = FALSE
    /\ UNCHANGED <<counter, detached>>

\* Fault: the exception path frees the lock without looking whose it is.
ReleaseUnconditionally(c) ==
    /\ active' = None
    /\ grant' = [grant EXCEPT ![c] = None]
    /\ locked' = FALSE
    /\ UNCHANGED <<counter, detached>>

\* _release_if_held(): release, or only log when the grant is not live.  The
\* task ends with its call, and its context with it.
ReleaseIfHeld(c) ==
    IF HeldInCurrentContext(c)
    THEN Release(c)
    ELSE /\ grant' = [grant EXCEPT ![c] = None]
         /\ UNCHANGED <<locked, counter, active, detached>>

\* detach(): the lock stays taken, no context owns it.
Detach(c) ==
    /\ HeldInCurrentContext(c)
    /\ detached' = TRUE
    /\ active' = None
    /\ grant' = [grant EXCEPT ![c] = None]
    /\ UNCHANGED <<locked, counter>>

\* reattach(): refused (AssertionError) unless detached, locked, no live grant.
Reattach(c) ==
    /\ detached
    /\ locked
    /\ ~HeldInCurrentContext(c)
    /\ detached' = FALSE
    /\ IssueGeneration(c)
    /\ UNCHANGED locked

At(c, from, to) ==
    /\ pc[c] = from
    /\ pc' = [pc EXCEPT ![c] = to]

(***************************************************************************)
(* The calls that go through the lock.                                     *)
(***************************************************************************)
Init ==
    /\ locked = FALSE
    /\ waiters = <<>>
    /\ counter = 0
    /\ active = None
    /\ detached = FALSE
    /\ grant = [c \in Contexts |-> None]
    /\ pc = [c \in Contexts |-> "idle"]
    /\ parent = [c \in Contexts |-> c]

\* acquire() up to its suspension in _lock.acquire(): asyncio.Lock is FIFO.
Enqueue(c, from, to) ==
    /\ ~HeldInCurrentContext(c)
    /\ At(c, from, to)
    /\ waiters' = Append(waiters, c)
    /\ UNCHANGED <<locked, counter, active, detached, grant, parent>>

\* A with_lock call, an acquires_lock call, and the end of with_released().
CallWithLock(c) == c \notin Updaters /\ Enqueue(c, "idle", "wait_body")
CallAcquiresLock(c) == c \in Updaters /\ Enqueue(c, "idle", "wait_starting")
ResumeAfterPoll(c) == Enqueue(c, "polling", "wait_resume")

\* The lock is handed to the first waiter, which then runs its body.
Acquire(c) ==
    /\ counter < MaxGeneration
    /\ ~locked
    /\ waiters # <<>>
    /\ c = Head(waiters)
    /\ waiters' = Tail(waiters)
    /\ locked' = TRUE
    /\ IssueGeneration(c)
    /\ \/ At(c, "wait_body", "body")
       \/ At(c, "wait_starting", "starting")
       \/ At(c, "wait_resume", "starting")
    /\ UNCHANGED <<detached, parent>>

\* The waiting task is cancelled: the wrapper raises, and the acquires_lock
\* wrapper of a cancelled with_released() runs _release_if_held.
CancelWaiter(c) ==
    /\ pc[c] \in Waiting
    /\ \E i \in 1..Len(waiters) :
          /\ waiters[i] = c
          /\ waiters' = SubSeq(waiters, 1, i - 1) \o SubSeq(waiters, i + 1, Len(waiters))
    /\ pc' = [pc EXCEPT ![c] = "idle"]
    /\ ReleaseIfHeld(c)
    /\ UNCHANGED parent

\* A with_lock body returns or raises: __aexit__.
ExitBody(c) ==
    /\ At(c, "body", "idle")
    /\ ReleaseIfHeld(c)
    /\ UNCHANGED <<waiters, parent>>

\* _ensure_cells_ready polls with the lock released.
Poll(c) ==
    /\ At(c, "starting", "polling")
    /\ Release(c)
    /\ UNCHANGED <<waiters, parent>>

\* An acquires_lock body returns: the lock outlives the call, until the
\* trainer's script calls end_update_weights or abort_update_weights.
FinishStart(c) ==
    /\ At(c, "starting", "updating")
    /\ Detach(c)
    /\ UNCHANGED <<waiters, parent>>

\* Fault: the acquires_lock wrapper lets the exception out with the lock held.
FailStartKeepingLock(c) ==
    /\ At(c, "starting", "idle")
    /\ grant' = [grant EXCEPT ![c] = None]
    /\ UNCHANGED <<locked, waiters, counter, active, detached, parent>>

\* An acquires_lock body raises.
FailStart(c) ==
    /\ At(c, "starting", "idle")
    /\ ReleaseIfHeld(c)
    /\ UNCHANGED <<waiters, parent>>

\* A releases_lock call.
CallReleasesLock(c) ==
    /\ counter < MaxGeneration
    /\ At(c, "updating", "ending")
    /\ Reattach(c)
    /\ UNCHANGED <<waiters, parent>>

\* A releases_lock body returns or raises: the finally clause.
FinishEnd(c) ==
    /\ At(c, "ending", "idle")
    /\ Release(c)
    /\ UNCHANGED <<waiters, parent>>

\* abort_update_weights -> release_if_detached: reattach and release with no
\* suspension between them; a generation is consumed.  Called when the
\* transfer raised, or by the next script when this one died
\* (init_or_reset_inference_controller waits until no call is running).
ReleaseIfDetached(c) ==
    /\ counter < MaxGeneration
    /\ At(c, "updating", "idle")
    /\ IF detached
       THEN /\ locked
            /\ detached' = FALSE
            /\ counter' = counter + 1
            /\ active' = None
            /\ locked' = FALSE
       ELSE UNCHANGED <<locked, counter, active, detached>>
    /\ UNCHANGED <<waiters, grant, parent>>

\* A body runs a coroutine in a task of its own (asyncio.gather), which
\* inherits the context.  gather does not wait for the siblings of a failed
\* task, so the helper may outlive the body.
SpawnHelper(c, h) ==
    /\ pc[c] \in Bodies
    /\ h \notin Updaters
    /\ At(h, "idle", "helper")
    /\ grant' = [grant EXCEPT ![h] = grant[c]]
    /\ parent' = [parent EXCEPT ![h] = c]
    /\ UNCHANGED <<locked, waiters, counter, active, detached>>

EndHelper(h) ==
    /\ At(h, "helper", "idle")
    /\ grant' = [grant EXCEPT ![h] = None]
    /\ parent' = [parent EXCEPT ![h] = h]
    /\ UNCHANGED <<locked, waiters, counter, active, detached>>

Next ==
    \E c \in Contexts :
        \/ CallWithLock(c) \/ CallAcquiresLock(c) \/ ResumeAfterPoll(c)
        \/ Acquire(c) \/ CancelWaiter(c)
        \/ ExitBody(c) \/ Poll(c) \/ FinishStart(c) \/ FailStart(c)
        \/ CallReleasesLock(c) \/ FinishEnd(c) \/ ReleaseIfDetached(c)
        \/ \E h \in Contexts \ {c} : SpawnHelper(c, h)
        \/ EndHelper(c)

Spec == Init /\ [][Next]_vars

(***************************************************************************)
(* Fairness: every decorated body ends (its awaits have timeouts), a poll   *)
(* sleeps for CELLS_READY_POLL_INTERVAL_SECONDS, the event loop hands a     *)
(* free lock to its first waiter, and update_weights() always answers a     *)
(* detached lock with end_update_weights or abort_update_weights.           *)
(***************************************************************************)
Fairness ==
    \A c \in Contexts :
          /\ WF_vars(Acquire(c))
          /\ WF_vars(ExitBody(c))
          /\ WF_vars(FinishStart(c) \/ FailStart(c))
          /\ WF_vars(ResumeAfterPoll(c))
          /\ WF_vars(FinishEnd(c))
          /\ WF_vars(EndHelper(c))
          /\ WF_vars(CallReleasesLock(c) \/ ReleaseIfDetached(c))

FairSpec == Spec /\ Fairness

-----------------------------------------------------------------------------
Generations == 0..counter

\* Every variable has its type: no context holds a generation not yet issued.
TypeOK ==
    /\ locked \in BOOLEAN
    /\ waiters \in Seq(Contexts)
    /\ counter \in Nat
    /\ active \in Generations
    /\ detached \in BOOLEAN
    /\ grant \in [Contexts -> Generations]
    /\ pc \in [Contexts -> Locations]
    /\ parent \in [Contexts -> Contexts]

\* At most one decorated body runs, and none while the lock is detached
\* between start_update_weights and end_update_weights; a running body holds
\* the live grant, so the assertion of its release() cannot fail.
MutualExclusion ==
    \A c \in Contexts : pc[c] \in Bodies =>
        /\ ~detached
        /\ HeldInCurrentContext(c)
        /\ \A d \in Contexts \ {c} : pc[d] \notin Bodies

\* The lock is never lost: whenever it is taken a running body will release
\* it, or it is detached and exactly one trainer still owes the controller an
\* end_update_weights or abort_update_weights.
NoLeakedLock ==
    /\ locked => (detached \/ \E c \in Contexts : pc[c] \in Bodies)
    /\ detached => \E c \in Updaters : pc[c] = "updating"
    /\ \A c, d \in Contexts :
          pc[c] = "updating" => detached /\ (pc[d] = "updating" => c = d)

\* requires_lock protects against stragglers: a spawned task passes the
\* held_in_current_context check only while the very call that spawned it is
\* still inside its body; after that call released, detached or polled, the
\* inherited grant is stale for ever, whoever owns the lock next.
StragglerLosesLock ==
    \A h \in Contexts : (pc[h] = "helper" /\ HeldInCurrentContext(h)) =>
        /\ pc[parent[h]] \in Bodies
        /\ grant[parent[h]] = grant[h]

\* Strengthening of the three invariants above: who may be where, and what
\* the fields of the lock object say about one another.
LockFields ==
    /\ (active # None \/ detached) => locked
    /\ detached => active = None

Roles ==
    \A c \in Contexts :
        /\ pc[c] \notin Bodies \cup {"helper"} => grant[c] = None
        /\ pc[c] \in {"wait_starting", "wait_resume", "polling", "starting",
                     "updating", "ending"} => c \in Updaters

IInv ==
    TypeOK /\ LockFields /\ Roles /\ MutualExclusion /\ NoLeakedLock /\ StragglerLosesLock

\* A waiting call obtains the lock (or is cancelled): the FIFO, the detached
\* window and the polling of _ensure_cells_ready cannot starve it.
WaiterServed ==
    \A c \in Contexts :
        pc[c] \in Waiting ~> (pc[c] \notin Waiting \/ counter = MaxGeneration)

=============================================================================
