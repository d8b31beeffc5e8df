------------------------- MODULE ContextLockProofs -------------------------
(***************************************************************************)
(* The safety of the context lock, for any set of tasks and any number of  *)
(* grants.                                                                 *)
(***************************************************************************)
EXTENDS ContextLock, SequenceTheorems, TLAPS

\* Removing a cancelled waiter leaves a queue of contexts.
LEMMA RemoveWaiter ==
    ASSUME NEW s \in Seq(Contexts), NEW i \in 1..Len(s)
    PROVE  SubSeq(s, 1, i - 1) \o SubSeq(s, i + 1, Len(s)) \in Seq(Contexts)
<1>1. SubSeq(s, 1, i - 1) \in Seq(Contexts)
  BY SubSeqProperties
<1>2. SubSeq(s, i + 1, Len(s)) \in Seq(Contexts)
  BY SubSeqProperties
<1> QED
  BY <1>1, <1>2

\* The fields of the lock object and of the contexts keep their types: every
\* generation seen anywhere was issued by _issue_generation.
LEMMA TypeStep == TypeOK /\ [Next]_vars => TypeOK'
<1> SUFFICES ASSUME TypeOK, [Next]_vars PROVE TypeOK'
  OBVIOUS
<1> USE DEF TypeOK, Generations, None
<1>1. ASSUME NEW c \in Contexts, NEW from \in Locations, NEW to \in Locations,
             Enqueue(c, from, to)
      PROVE  TypeOK'
  <2>1. (waiters \in Seq(Contexts))'
    BY <1>1 DEF Enqueue
  <2>2. (pc \in [Contexts -> Locations])'
    BY <1>1 DEF Enqueue, At
  <2>3. UNCHANGED <<locked, counter, active, detached, grant, parent>>
    BY <1>1 DEF Enqueue
  <2> QED
    BY <2>1, <2>2, <2>3
<1>2. ASSUME NEW c \in Contexts,
             Acquire(c)
      PROVE  TypeOK'
  <2>1. (waiters \in Seq(Contexts))'
    BY <1>2 DEF Acquire, IssueGeneration, At
  <2>2. (pc \in [Contexts -> Locations])'
    BY <1>2 DEF Acquire, IssueGeneration, At, Locations, Bodies, Waiting
  <2>3. (locked \in BOOLEAN /\ detached \in BOOLEAN)'
    BY <1>2 DEF Acquire, IssueGeneration, At
  <2>4. (counter \in Nat /\ active \in Generations /\ grant \in [Contexts -> Generations])'
    BY <1>2 DEF Acquire, IssueGeneration, At
  <2>5. (parent \in [Contexts -> Contexts])'
    BY <1>2 DEF Acquire, IssueGeneration, At
  <2> QED
    BY <2>1, <2>2, <2>3, <2>4, <2>5
<1>3. ASSUME NEW c \in Contexts,
             CancelWaiter(c)
      PROVE  TypeOK'
  <2>1. (waiters \in Seq(Contexts))'
    BY RemoveWaiter, <1>3 DEF CancelWaiter, ReleaseIfHeld, Release, HeldInCurrentContext
  <2>2. (pc \in [Contexts -> Locations])'
    BY <1>3 DEF CancelWaiter, ReleaseIfHeld, Release, HeldInCurrentContext, Locations, Bodies, Waiting
  <2>3. (locked \in BOOLEAN /\ detached \in BOOLEAN)'
    BY <1>3 DEF CancelWaiter, ReleaseIfHeld, Release, HeldInCurrentContext
  <2>4. (counter \in Nat /\ active \in Generations /\ grant \in [Contexts -> Generations])'
    BY <1>3 DEF CancelWaiter, ReleaseIfHeld, Release, HeldInCurrentContext
  <2>5. (parent \in [Contexts -> Contexts])'
    BY <1>3 DEF CancelWaiter, ReleaseIfHeld, Release, HeldInCurrentContext
  <2> QED
    BY <2>1, <2>2, <2>3, <2>4, <2>5
<1>4. ASSUME NEW c \in Contexts,
             ExitBody(c) \/ Poll(c) \/ FailStart(c) \/ FinishEnd(c)
      PROVE  TypeOK'
  <2>1. (waiters \in Seq(Contexts))'
    BY <1>4 DEF ExitBody, Poll, FailStart, FinishEnd, ReleaseIfHeld, Release, At
  <2>2. (pc \in [Contexts -> Locations])'
    BY <1>4 DEF ExitBody, Poll, FailStart, FinishEnd, ReleaseIfHeld, Release, At, Locations, Bodies, Waiting
  <2>3. (locked \in BOOLEAN /\ detached \in BOOLEAN)'
    BY <1>4 DEF ExitBody, Poll, FailStart, FinishEnd, ReleaseIfHeld, Release, At
  <2>0. /\ counter' = counter
        /\ active' \in {active, None}
        /\ grant' = [grant EXCEPT ![c] = None]
    BY <1>4 DEF ExitBody, Poll, FailStart, FinishEnd, ReleaseIfHeld, Release
  <2>4. (counter \in Nat /\ active \in Generations /\ grant \in [Contexts -> Generations])'
    BY <2>0
  <2>5. (parent \in [Contexts -> Contexts])'
    BY <1>4 DEF ExitBody, Poll, FailStart, FinishEnd, ReleaseIfHeld, Release, At
  <2> QED
    BY <2>1, <2>2, <2>3, <2>4, <2>5
<1>5. ASSUME NEW c \in Contexts,
             FinishStart(c)
      PROVE  TypeOK'
  <2>1. (waiters \in Seq(Contexts))'
    BY <1>5 DEF FinishStart, Detach, At
  <2>2. (pc \in [Contexts -> Locations])'
    BY <1>5 DEF FinishStart, Detach, At, Locations, Bodies, Waiting
  <2>3. (locked \in BOOLEAN /\ detached \in BOOLEAN)'
    BY <1>5 DEF FinishStart, Detach, At
  <2>4. (counter \in Nat /\ active \in Generations /\ grant \in [Contexts -> Generations])'
    BY <1>5 DEF FinishStart, Detach, At
  <2>5. (parent \in [Contexts -> Contexts])'
    BY <1>5 DEF FinishStart, Detach, At
  <2> QED
    BY <2>1, <2>2, <2>3, <2>4, <2>5
<1>6. ASSUME NEW c \in Contexts,
             CallReleasesLock(c)
      PROVE  TypeOK'
  <2>1. (waiters \in Seq(Contexts))'
    BY <1>6 DEF CallReleasesLock, Reattach, IssueGeneration, At
  <2>2. (pc \in [Contexts -> Locations])'
    BY <1>6 DEF CallReleasesLock, Reattach, IssueGeneration, At, Locations, Bodies, Waiting
  <2>3. (locked \in BOOLEAN /\ detached \in BOOLEAN)'
    BY <1>6 DEF CallReleasesLock, Reattach, IssueGeneration, At
  <2>4. (counter \in Nat /\ active \in Generations /\ grant \in [Contexts -> Generations])'
    BY <1>6 DEF CallReleasesLock, Reattach, IssueGeneration, At
  <2>5. (parent \in [Contexts -> Contexts])'
    BY <1>6 DEF CallReleasesLock, Reattach, IssueGeneration, At
  <2> QED
    BY <2>1, <2>2, <2>3, <2>4, <2>5
<1>7. ASSUME NEW c \in Contexts,
             ReleaseIfDetached(c)
      PROVE  TypeOK'
  <2>1. (waiters \in Seq(Contexts))'
    BY <1>7 DEF ReleaseIfDetached, At
  <2>2. (pc \in [Contexts -> Locations])'
    BY <1>7 DEF ReleaseIfDetached, At, Locations, Bodies, Waiting
  <2>3. (locked \in BOOLEAN /\ detached \in BOOLEAN)'
    BY <1>7 DEF ReleaseIfDetached, At
  <2>4. (counter \in Nat /\ active \in Generations /\ grant \in [Contexts -> Generations])'
    BY <1>7 DEF ReleaseIfDetached, At
  <2>5. (parent \in [Contexts -> Contexts])'
    BY <1>7 DEF ReleaseIfDetached, At
  <2> QED
    BY <2>1, <2>2, <2>3, <2>4, <2>5
<1>8. ASSUME NEW c \in Contexts, NEW h \in Contexts,
             SpawnHelper(c, h)
      PROVE  TypeOK'
  <2>1. (waiters \in Seq(Contexts))'
    BY <1>8 DEF SpawnHelper, At
  <2>2. (pc \in [Contexts -> Locations])'
    BY <1>8 DEF SpawnHelper, At, Locations, Bodies, Waiting
  <2>3. (locked \in BOOLEAN /\ detached \in BOOLEAN)'
    BY <1>8 DEF SpawnHelper, At
  <2>4. (counter \in Nat /\ active \in Generations /\ grant \in [Contexts -> Generations])'
    BY <1>8 DEF SpawnHelper, At
  <2>5. (parent \in [Contexts -> Contexts])'
    BY <1>8 DEF SpawnHelper, At
  <2> QED
    BY <2>1, <2>2, <2>3, <2>4, <2>5
<1>9. ASSUME NEW h \in Contexts,
             EndHelper(h)
      PROVE  TypeOK'
  <2>1. (waiters \in Seq(Contexts))'
    BY <1>9 DEF EndHelper, At
  <2>2. (pc \in [Contexts -> Locations])'
    BY <1>9 DEF EndHelper, At, Locations, Bodies, Waiting
  <2>3. (locked \in BOOLEAN /\ detached \in BOOLEAN)'
    BY <1>9 DEF EndHelper, At
  <2>4. (counter \in Nat /\ active \in Generations /\ grant \in [Contexts -> Generations])'
    BY <1>9 DEF EndHelper, At
  <2>5. (parent \in [Contexts -> Contexts])'
    BY <1>9 DEF EndHelper, At
  <2> QED
    BY <2>1, <2>2, <2>3, <2>4, <2>5
<1>10. ASSUME NEW c \in Contexts,
              CallWithLock(c) \/ CallAcquiresLock(c) \/ ResumeAfterPoll(c)
       PROVE  TypeOK'
  <2>1. {"idle", "polling", "wait_body", "wait_starting", "wait_resume"} \subseteq Locations
    BY DEF Locations, Waiting
  <2> QED
    BY <1>1, <1>10, <2>1 DEF CallWithLock, CallAcquiresLock, ResumeAfterPoll
<1>11. CASE UNCHANGED vars
  BY <1>11 DEF vars
<1> QED
  BY <1>2, <1>3, <1>4, <1>5, <1>6, <1>7, <1>8, <1>9, <1>10, <1>11 DEF Next

\* One step of any call keeps the safety part of the invariant.
LEMMA SafetyStep ==
    IInv /\ [Next]_vars => (LockFields /\ Roles /\ MutualExclusion /\ NoLeakedLock /\ StragglerLosesLock)'
<1> SUFFICES ASSUME IInv, [Next]_vars
             PROVE  (LockFields /\ Roles /\ MutualExclusion /\ NoLeakedLock /\ StragglerLosesLock)'
  OBVIOUS
<1> USE UpdatersAssumption DEF IInv, TypeOK, Generations, None, HeldInCurrentContext, Bodies, Waiting
<1>1. ASSUME NEW c \in Contexts,
             CallWithLock(c) \/ CallAcquiresLock(c) \/ ResumeAfterPoll(c)
      PROVE  (LockFields /\ Roles /\ MutualExclusion /\ NoLeakedLock /\ StragglerLosesLock)'
  <2>1. /\ UNCHANGED <<locked, detached, active, grant, parent>>
        /\ pc' = [pc EXCEPT ![c] = pc'[c]]
        /\ pc[c] \in {"idle", "polling"}
        /\ pc'[c] \in {"wait_body", "wait_starting", "wait_resume"}
        /\ pc'[c] \in {"wait_starting", "wait_resume"} => (c \in Updaters \/ pc[c] = "polling")
    BY <1>1 DEF CallWithLock, CallAcquiresLock, ResumeAfterPoll, Enqueue, At
  <2>2. LockFields'
    BY <2>1 DEF LockFields
  <2>3. Roles'
    BY <2>1 DEF Roles
  <2>4. MutualExclusion'
    BY <2>1 DEF MutualExclusion
  <2>5. NoLeakedLock'
    <3>1. \A d \in Contexts : (pc'[d] \in Bodies <=> pc[d] \in Bodies)
      BY <2>1
    <3>2. \A d \in Contexts : (pc'[d] = "updating" <=> pc[d] = "updating")
      BY <2>1
    <3> QED
      BY <2>1, <3>1, <3>2 DEF NoLeakedLock
  <2>6. StragglerLosesLock'
    BY <2>1 DEF StragglerLosesLock
  <2> QED
    BY <2>2, <2>3, <2>4, <2>5, <2>6
<1>2. ASSUME NEW c \in Contexts,
             Acquire(c)
      PROVE  (LockFields /\ Roles /\ MutualExclusion /\ NoLeakedLock /\ StragglerLosesLock)'
  <2>1. LockFields'
    BY <1>2 DEF LockFields, Roles, MutualExclusion, NoLeakedLock, StragglerLosesLock,
                Acquire, IssueGeneration, At
  <2>2. Roles'
    BY <1>2 DEF LockFields, Roles, MutualExclusion, NoLeakedLock, StragglerLosesLock,
                Acquire, IssueGeneration, At
  <2>3. MutualExclusion'
    BY <1>2 DEF LockFields, Roles, MutualExclusion, NoLeakedLock, StragglerLosesLock,
                Acquire, IssueGeneration, At
  <2>4. NoLeakedLock'
    BY <1>2 DEF LockFields, Roles, MutualExclusion, NoLeakedLock, StragglerLosesLock,
                Acquire, IssueGeneration, At
  <2>5. StragglerLosesLock'
    BY <1>2 DEF LockFields, Roles, MutualExclusion, NoLeakedLock, StragglerLosesLock,
                Acquire, IssueGeneration, At
  <2> QED
    BY <2>1, <2>2, <2>3, <2>4, <2>5
<1>3. ASSUME NEW c \in Contexts,
             CancelWaiter(c)
      PROVE  (LockFields /\ Roles /\ MutualExclusion /\ NoLeakedLock /\ StragglerLosesLock)'
  <2>1. LockFields'
    BY <1>3 DEF LockFields, Roles, MutualExclusion, NoLeakedLock, StragglerLosesLock,
                CancelWaiter, ReleaseIfHeld, Release
  <2>2. Roles'
    BY <1>3 DEF LockFields, Roles, MutualExclusion, NoLeakedLock, StragglerLosesLock,
                CancelWaiter, ReleaseIfHeld, Release
  <2>3. MutualExclusion'
    BY <1>3 DEF LockFields, Roles, MutualExclusion, NoLeakedLock, StragglerLosesLock,
                CancelWaiter, ReleaseIfHeld, Release
  <2>4. NoLeakedLock'
    BY <1>3 DEF LockFields, Roles, MutualExclusion, NoLeakedLock, StragglerLosesLock,
                CancelWaiter, ReleaseIfHeld, Release
  <2>5. StragglerLosesLock'
    BY <1>3 DEF LockFields, Roles, MutualExclusion, NoLeakedLock, StragglerLosesLock,
                CancelWaiter, ReleaseIfHeld, Release
  <2> QED
    BY <2>1, <2>2, <2>3, <2>4, <2>5
<1>4. ASSUME NEW c \in Contexts,
             ExitBody(c) \/ Poll(c) \/ FailStart(c) \/ FinishEnd(c)
      PROVE  (LockFields /\ Roles /\ MutualExclusion /\ NoLeakedLock /\ StragglerLosesLock)'
  <2>1. pc[c] \in Bodies
    BY <1>4 DEF ExitBody, Poll, FailStart, FinishEnd, At
  <2>2. Release(c) /\ UNCHANGED parent
    BY <1>4, <2>1 DEF MutualExclusion, ExitBody, Poll, FailStart, FinishEnd, ReleaseIfHeld
  <2>3. /\ pc' = [pc EXCEPT ![c] = pc'[c]]
        /\ pc'[c] \in {"idle", "polling"}
        /\ pc'[c] = "polling" => pc[c] = "starting"
    BY <1>4 DEF ExitBody, Poll, FailStart, FinishEnd, At
  <2>4. LockFields'
    BY <2>1, <2>2 DEF LockFields, MutualExclusion, Release
  <2>5. Roles'
    BY <2>2, <2>3 DEF Roles, Release
  <2>6. MutualExclusion'
    BY <2>1, <2>3 DEF MutualExclusion
  <2>7. NoLeakedLock'
    BY <2>1, <2>2, <2>3 DEF NoLeakedLock, MutualExclusion, Release
  <2>8. StragglerLosesLock'
    BY <2>2 DEF StragglerLosesLock, Release
  <2> QED
    BY <2>4, <2>5, <2>6, <2>7, <2>8
<1>5. ASSUME NEW c \in Contexts,
             FinishStart(c)
      PROVE  (LockFields /\ Roles /\ MutualExclusion /\ NoLeakedLock /\ StragglerLosesLock)'
  <2>1. LockFields'
    BY <1>5 DEF LockFields, Roles, MutualExclusion, NoLeakedLock, StragglerLosesLock,
                FinishStart, Detach, At
  <2>2. Roles'
    BY <1>5 DEF LockFields, Roles, MutualExclusion, NoLeakedLock, StragglerLosesLock,
                FinishStart, Detach, At
  <2>3. MutualExclusion'
    BY <1>5 DEF LockFields, Roles, MutualExclusion, NoLeakedLock, StragglerLosesLock,
                FinishStart, Detach, At
  <2>4. NoLeakedLock'
    BY <1>5 DEF LockFields, Roles, MutualExclusion, NoLeakedLock, StragglerLosesLock,
                FinishStart, Detach, At
  <2>5. StragglerLosesLock'
    BY <1>5 DEF LockFields, Roles, MutualExclusion, NoLeakedLock, StragglerLosesLock,
                FinishStart, Detach, At
  <2> QED
    BY <2>1, <2>2, <2>3, <2>4, <2>5
<1>6. ASSUME NEW c \in Contexts,
             CallReleasesLock(c)
      PROVE  (LockFields /\ Roles /\ MutualExclusion /\ NoLeakedLock /\ StragglerLosesLock)'
  <2>1. LockFields'
    BY <1>6 DEF LockFields, Roles, MutualExclusion, NoLeakedLock, StragglerLosesLock,
                CallReleasesLock, Reattach, IssueGeneration, At
  <2>2. Roles'
    BY <1>6 DEF LockFields, Roles, MutualExclusion, NoLeakedLock, StragglerLosesLock,
                CallReleasesLock, Reattach, IssueGeneration, At
  <2>3. MutualExclusion'
    BY <1>6 DEF LockFields, Roles, MutualExclusion, NoLeakedLock, StragglerLosesLock,
                CallReleasesLock, Reattach, IssueGeneration, At
  <2>4. NoLeakedLock'
    BY <1>6 DEF LockFields, Roles, MutualExclusion, NoLeakedLock, StragglerLosesLock,
                CallReleasesLock, Reattach, IssueGeneration, At
  <2>5. StragglerLosesLock'
    BY <1>6 DEF LockFields, Roles, MutualExclusion, NoLeakedLock, StragglerLosesLock,
                CallReleasesLock, Reattach, IssueGeneration, At
  <2> QED
    BY <2>1, <2>2, <2>3, <2>4, <2>5
<1>7. ASSUME NEW c \in Contexts,
             ReleaseIfDetached(c)
      PROVE  (LockFields /\ Roles /\ MutualExclusion /\ NoLeakedLock /\ StragglerLosesLock)'
  <2>1. LockFields'
    BY <1>7 DEF LockFields, Roles, MutualExclusion, NoLeakedLock, StragglerLosesLock,
                ReleaseIfDetached, At
  <2>2. Roles'
    BY <1>7 DEF LockFields, Roles, MutualExclusion, NoLeakedLock, StragglerLosesLock,
                ReleaseIfDetached, At
  <2>3. MutualExclusion'
    BY <1>7 DEF LockFields, Roles, MutualExclusion, NoLeakedLock, StragglerLosesLock,
                ReleaseIfDetached, At
  <2>4. NoLeakedLock'
    BY <1>7 DEF LockFields, Roles, MutualExclusion, NoLeakedLock, StragglerLosesLock,
                ReleaseIfDetached, At
  <2>5. StragglerLosesLock'
    BY <1>7 DEF LockFields, Roles, MutualExclusion, NoLeakedLock, StragglerLosesLock,
                ReleaseIfDetached, At
  <2> QED
    BY <2>1, <2>2, <2>3, <2>4, <2>5
<1>8. ASSUME NEW c \in Contexts, NEW h \in Contexts \ {c},
             SpawnHelper(c, h)
      PROVE  (LockFields /\ Roles /\ MutualExclusion /\ NoLeakedLock /\ StragglerLosesLock)'
  <2>1. LockFields'
    BY <1>8 DEF LockFields, Roles, MutualExclusion, NoLeakedLock, StragglerLosesLock,
                SpawnHelper, At
  <2>2. Roles'
    BY <1>8 DEF LockFields, Roles, MutualExclusion, NoLeakedLock, StragglerLosesLock,
                SpawnHelper, At
  <2>3. MutualExclusion'
    BY <1>8 DEF LockFields, Roles, MutualExclusion, NoLeakedLock, StragglerLosesLock,
                SpawnHelper, At
  <2>4. NoLeakedLock'
    BY <1>8 DEF LockFields, Roles, MutualExclusion, NoLeakedLock, StragglerLosesLock,
                SpawnHelper, At
  <2>5. StragglerLosesLock'
    BY <1>8 DEF LockFields, Roles, MutualExclusion, NoLeakedLock, StragglerLosesLock,
                SpawnHelper, At
  <2> QED
    BY <2>1, <2>2, <2>3, <2>4, <2>5
<1>9. ASSUME NEW h \in Contexts,
             EndHelper(h)
      PROVE  (LockFields /\ Roles /\ MutualExclusion /\ NoLeakedLock /\ StragglerLosesLock)'
  <2>1. LockFields'
    BY <1>9 DEF LockFields, Roles, MutualExclusion, NoLeakedLock, StragglerLosesLock,
                EndHelper, At
  <2>2. Roles'
    BY <1>9 DEF LockFields, Roles, MutualExclusion, NoLeakedLock, StragglerLosesLock,
                EndHelper, At
  <2>3. MutualExclusion'
    BY <1>9 DEF LockFields, Roles, MutualExclusion, NoLeakedLock, StragglerLosesLock,
                EndHelper, At
  <2>4. NoLeakedLock'
    BY <1>9 DEF LockFields, Roles, MutualExclusion, NoLeakedLock, StragglerLosesLock,
                EndHelper, At
  <2>5. StragglerLosesLock'
    BY <1>9 DEF LockFields, Roles, MutualExclusion, NoLeakedLock, StragglerLosesLock,
                EndHelper, At
  <2> QED
    BY <2>1, <2>2, <2>3, <2>4, <2>5
<1>10. CASE UNCHANGED vars
  BY <1>10 DEF vars, LockFields, Roles, MutualExclusion, NoLeakedLock, StragglerLosesLock
<1> QED
  BY <1>1, <1>2, <1>3, <1>4, <1>5, <1>6, <1>7, <1>8, <1>9, <1>10 DEF Next

LEMMA InitIInv == Init => IInv
<1> SUFFICES ASSUME Init PROVE IInv
  OBVIOUS
<1> USE DEF Init, None
<1>1. TypeOK
  <2>1. waiters \in Seq(Contexts) /\ counter \in Nat /\ active \in Generations
    BY DEF Generations
  <2>2. locked \in BOOLEAN /\ detached \in BOOLEAN
    OBVIOUS
  <2>3. grant \in [Contexts -> Generations]
    BY DEF Generations
  <2>4. pc \in [Contexts -> Locations] /\ parent \in [Contexts -> Contexts]
    BY DEF Locations
  <2> QED
    BY <2>1, <2>2, <2>3, <2>4 DEF TypeOK
<1> QED
  BY <1>1 DEF IInv, LockFields, Roles, MutualExclusion, NoLeakedLock, StragglerLosesLock,
              HeldInCurrentContext, Bodies

\* The inductive invariant holds of every behaviour of the controller's lock.
THEOREM LockInvariant == Spec => []IInv
<1>1. IInv /\ [Next]_vars => IInv'
  BY TypeStep, SafetyStep DEF IInv
<1> QED
  BY InitIInv, <1>1, PTL DEF Spec

\* Exclusion of the decorated controller calls (context_lock.py:155-199): the
\* bodies of with_lock, acquires_lock and releases_lock calls never overlap,
\* with one another or with the detached window of a weight update.
THEOREM Exclusion == Spec => []MutualExclusion
<1>1. IInv => MutualExclusion
  BY DEF IInv
<1> QED
  BY LockInvariant, <1>1, PTL

\* A taken lock always has someone left who will release it
\* (context_lock.py:80-116), for any number of tasks and trainers.
THEOREM NeverLeaked == Spec => []NoLeakedLock
<1>1. IInv => NoLeakedLock
  BY DEF IInv
<1> QED
  BY LockInvariant, <1>1, PTL

\* The generation check of held_in_current_context (context_lock.py:49-54)
\* rejects every task that outlived the call it was spawned by.
THEOREM StragglersRejected == Spec => []StragglerLosesLock
<1>1. IInv => StragglerLosesLock
  BY DEF IInv
<1> QED
  BY LockInvariant, <1>1, PTL
=============================================================================
