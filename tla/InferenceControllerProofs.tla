---------------------- MODULE InferenceControllerProofs ----------------------
(***************************************************************************)
(* Proofs about the inference controller, for any set of cells and any     *)
(* number of deployments and updates.                                      *)
(***************************************************************************)
EXTENDS InferenceController, TLAPS

\* The initial states satisfy the invariant.
LEMMA InitIInv == Init => IInv
BY BoundsAssumption
DEF Init, IInv, TypeOK, Distinct, Targeted, Leftovers, NeverServesLaunchWeights,
    ServesPublishedVersion, SnapshotStable, ServingIsRouted, Serving, ServingOf, Absent, Hashes,
    NoHash, LaunchWeights, States, Targets, Normal

\* A step that only moves the orchestration script out of an update or into
\* one that has not begun leaves the invariant alone.
LEMMA OrchOnly ==
  ASSUME IInv, orch' \in {"starting", "failed", "restarted"},
         UNCHANGED <<observed, nextHash, cell, routed, engine, update, settling>>
  PROVE  IInv'
BY DEF IInv, update, TypeOK, Distinct, Targeted, Leftovers, NeverServesLaunchWeights,
   ServesPublishedVersion, SnapshotStable, ServingIsRouted, Serving, ServingOf, Targets, Normal

\* Every step preserves the invariant.
LEMMA Step == IInv /\ [Next]_vars => IInv'
<1> SUFFICES ASSUME IInv, [Next]_vars PROVE IInv'
    OBVIOUS
<1> USE BoundsAssumption DEF NoHash, LaunchWeights, Torn, Hashes, States
<1>1. ASSUME NEW c \in CellIds, Deploy(c) PROVE IInv'
  <2>1. TypeOK'
    BY <1>1 DEF IInv, TypeOK, Deploy, update
  <2>2. Distinct'
    <3>1. /\ observed'[c] = nextHash
          /\ \A d \in CellIds \ {c} : observed'[d] = observed[d]
          /\ nextHash' = nextHash + 1 /\ UNCHANGED cell
      BY <1>1 DEF IInv, TypeOK, Deploy
    <3>2. /\ nextHash \in Nat
          /\ \A d \in CellIds : observed[d] \in Nat /\ cell[d].hash \in Nat
      BY DEF IInv, TypeOK
    <3>3. \A d \in CellIds : observed'[d] < nextHash' /\ cell'[d].hash < nextHash'
      BY <3>1, <3>2 DEF IInv, Distinct
    <3> QED BY <3>1, <3>2, <3>3 DEF IInv, Distinct
  <2>3. Targeted'
    BY <1>1 DEF IInv, TypeOK, Deploy, update, Targeted, Normal, Targets
  <2>4. Leftovers'
    BY <1>1 DEF IInv, TypeOK, Deploy, update, Leftovers, Targeted, Normal
  <2>5. NeverServesLaunchWeights'
    BY <1>1 DEF IInv, TypeOK, Deploy, update, NeverServesLaunchWeights, Targeted, Leftovers,
        Serving, ServingOf
  <2>6. ServesPublishedVersion'
    BY <1>1 DEF IInv, TypeOK, Deploy, update, ServesPublishedVersion, Targeted, Leftovers,
        Normal, Serving, ServingOf
  <2>7. SnapshotStable'
    BY <1>1 DEF IInv, TypeOK, Deploy, update, SnapshotStable, Targets
  <2>8. ServingIsRouted'
    BY <1>1 DEF IInv, TypeOK, Deploy, update, ServingIsRouted, Distinct, Serving, ServingOf
  <2> QED BY <2>1, <2>2, <2>3, <2>4, <2>5, <2>6, <2>7, <2>8 DEF IInv
<1>2. ASSUME NEW c \in CellIds, Vanish(c) PROVE IInv'
  <2>1. TypeOK'
    BY <1>2 DEF IInv, TypeOK, Vanish, update
  <2>2. Distinct'
    BY <1>2 DEF IInv, TypeOK, Vanish, update, Distinct
  <2>3. Targeted'
    BY <1>2 DEF IInv, TypeOK, Vanish, update, Targeted, Normal, Targets
  <2>4. Leftovers'
    BY <1>2 DEF IInv, TypeOK, Vanish, update, Leftovers, Targeted, Normal
  <2>5. NeverServesLaunchWeights'
    BY <1>2 DEF IInv, TypeOK, Vanish, update, NeverServesLaunchWeights, Targeted, Leftovers,
        Serving, ServingOf
  <2>6. ServesPublishedVersion'
    BY <1>2 DEF IInv, TypeOK, Vanish, update, ServesPublishedVersion, Targeted, Leftovers,
        Normal, Serving, ServingOf
  <2>7. SnapshotStable'
    BY <1>2 DEF IInv, TypeOK, Vanish, update, SnapshotStable, Targets
  <2>8. ServingIsRouted'
    BY <1>2 DEF IInv, TypeOK, Vanish, update, ServingIsRouted, Distinct, Serving, ServingOf
  <2> QED BY <2>1, <2>2, <2>3, <2>4, <2>5, <2>6, <2>7, <2>8 DEF IInv
<1>3. ASSUME NEW c \in CellIds, Reconcile(c) PROVE IInv'
  <2>1. TypeOK'
    BY <1>3 DEF IInv, TypeOK, Reconcile, Differs, update, LockFree, Added, DisposedRoutes, Absent
  <2>2. Distinct'
    BY <1>3 DEF IInv, TypeOK, Reconcile, Differs, update, Distinct, LockFree, Added, DisposedRoutes, Absent
  <2>3. Targeted'
    BY <1>3 DEF IInv, TypeOK, Reconcile, Differs, update, Targeted, Normal, Targets, LockFree, Added,
        DisposedRoutes, Absent
  <2>4. Leftovers'
    BY <1>3 DEF IInv, TypeOK, Reconcile, Differs, update, Leftovers, Targeted, Normal, LockFree, Added,
        DisposedRoutes, Absent
  <2>5. NeverServesLaunchWeights'
    BY <1>3 DEF IInv, TypeOK, Reconcile, Differs, update, NeverServesLaunchWeights, Targeted, Leftovers,
        Serving, ServingOf, LockFree, Added, DisposedRoutes, Absent
  <2>6. ServesPublishedVersion'
    BY <1>3 DEF IInv, TypeOK, Reconcile, Differs, update, ServesPublishedVersion, Targeted, Leftovers,
        Normal, Serving, ServingOf, LockFree, Added, DisposedRoutes, Absent
  <2>7. SnapshotStable'
    BY <1>3 DEF IInv, TypeOK, Reconcile, Differs, update, SnapshotStable, Targets, LockFree, Added,
        DisposedRoutes, Absent
  <2>8. ServingIsRouted'
    BY <1>3 DEF IInv, TypeOK, Reconcile, Differs, update, ServingIsRouted, Distinct, Serving, ServingOf,
        LockFree, Added, DisposedRoutes, Absent
  <2> QED BY <2>1, <2>2, <2>3, <2>4, <2>5, <2>6, <2>7, <2>8 DEF IInv
<1>4. ASSUME NEW c \in CellIds, Tick(c) PROVE IInv'
  <2>1. TypeOK'
    BY <1>4 DEF IInv, TypeOK, Tick, update, LockFree
  <2>2. Distinct'
    BY <1>4 DEF IInv, TypeOK, Tick, update, Distinct, LockFree
  <2>3. Targeted'
    BY <1>4 DEF IInv, TypeOK, Tick, update, Targeted, Normal, Targets, LockFree
  <2>4. Leftovers'
    BY <1>4 DEF IInv, TypeOK, Tick, update, Leftovers, Targeted, Normal, LockFree
  <2>5. NeverServesLaunchWeights'
    BY <1>4 DEF IInv, TypeOK, Tick, update, NeverServesLaunchWeights, Targeted, Leftovers,
        Serving, ServingOf, LockFree
  <2>6. ServesPublishedVersion'
    BY <1>4 DEF IInv, TypeOK, Tick, update, ServesPublishedVersion, Targeted, Leftovers, Normal,
        Serving, ServingOf, LockFree
  <2>7. SnapshotStable'
    BY <1>4 DEF IInv, TypeOK, Tick, update, SnapshotStable, Targets, LockFree
  <2>8. ServingIsRouted'
    BY <1>4 DEF IInv, TypeOK, Tick, update, ServingIsRouted, Distinct, Serving, ServingOf, LockFree
  <2> QED BY <2>1, <2>2, <2>3, <2>4, <2>5, <2>6, <2>7, <2>8 DEF IInv
<1>5. ASSUME NEW c \in CellIds, Push(c) PROVE IInv'
  <2> DEFINE h == snapshot[c]
  <2>a. h \in Hashes /\ candidate \in 1..MaxVersion /\ engine \in [Hashes -> 0..(MaxVersion + 1)]
    BY <1>5 DEF IInv, TypeOK, Push, Targeted
  <2>b. PICK w \in 1..(MaxVersion + 1) \cup {engine[h]}, r \in {"ok", "failed"} :
           /\ engine' = [engine EXCEPT ![h] = w]
           /\ pushed' = [pushed EXCEPT ![c] = r]
           /\ r = "ok" => w = candidate
    BY <1>5, <2>a DEF Push
  <2>c. /\ pushed \in [CellIds -> {"none", "todo", "ok", "failed"}] /\ pushed[c] = "todo"
        /\ orch = "updating"
        /\ UNCHANGED <<observed, nextHash, cell, routed, orch, snapshot, candidate, published,
                       settling>>
    BY <1>5 DEF Push, IInv, TypeOK
  <2>1. TypeOK'
    BY <2>a, <2>b, <2>c DEF IInv, TypeOK
  <2>2. Distinct'
    BY <1>5 DEF IInv, TypeOK, Push, update, Distinct
  <2>3. Targeted'
    BY <2>a, <2>b, <2>c DEF IInv, TypeOK, Targeted, Normal, Distinct
  <2>4. Leftovers'
    BY <2>a, <2>b, <2>c DEF IInv, TypeOK, Leftovers
  <2>5. NeverServesLaunchWeights'
    BY <2>a, <2>b, <2>c DEF IInv, TypeOK, NeverServesLaunchWeights, Serving, ServingOf
  <2>6. ServesPublishedVersion'
    BY <1>5 DEF IInv, TypeOK, Push, update, ServesPublishedVersion, Targeted, Leftovers, Normal,
        Serving, ServingOf
  <2>7. SnapshotStable'
    BY <1>5 DEF IInv, TypeOK, Push, update, SnapshotStable, Targets
  <2>8. ServingIsRouted'
    BY <1>5 DEF IInv, TypeOK, Push, update, ServingIsRouted, Distinct, Serving, ServingOf
  <2> QED BY <2>1, <2>2, <2>3, <2>4, <2>5, <2>6, <2>7, <2>8 DEF IInv
<1>6. CASE StartUpdate
  BY <1>6, OrchOnly DEF StartUpdate
<1>7. CASE CellsReady
  <2>1. TypeOK'
    BY <1>7 DEF IInv, TypeOK, CellsReady, update, Ready, Normal
  <2>2. Distinct'
    BY <1>7 DEF IInv, TypeOK, CellsReady, update, Distinct, Ready, Normal
  <2>3. Targeted'
    BY <1>7 DEF IInv, TypeOK, CellsReady, update, Targeted, Normal, Targets, Ready
  <2>4. Leftovers'
    BY <1>7 DEF IInv, TypeOK, CellsReady, update, Leftovers, Targeted, Normal, Ready
  <2>5. NeverServesLaunchWeights'
    BY <1>7 DEF IInv, TypeOK, CellsReady, update, NeverServesLaunchWeights, Targeted, Leftovers,
        Serving, ServingOf, Ready, Normal
  <2>6. ServesPublishedVersion'
    BY <1>7 DEF IInv, TypeOK, CellsReady, update, ServesPublishedVersion, Targeted, Leftovers,
        Normal, Serving, ServingOf, Ready
  <2>7. SnapshotStable'
    BY <1>7 DEF IInv, TypeOK, CellsReady, update, SnapshotStable, Targets, Ready, Normal
  <2>8. ServingIsRouted'
    BY <1>7 DEF IInv, TypeOK, CellsReady, update, ServingIsRouted, Distinct, Serving, ServingOf,
        Ready, Normal
  <2> QED BY <2>1, <2>2, <2>3, <2>4, <2>5, <2>6, <2>7, <2>8 DEF IInv
<1>8. CASE CellsReadyTimeout
  BY <1>8, OrchOnly DEF CellsReadyTimeout
<1>9. CASE AbortUpdate
  BY <1>9, OrchOnly DEF AbortUpdate
<1>10. CASE EndUpdate
  <2>a. \A d \in FailedCells \cup UpdatedCells : cell[d].hash \in Hashes /\ cell[d].state # "absent"
    BY DEF IInv, TypeOK, FailedCells, UpdatedCells, Targets
  <2>1. TypeOK'
    <3>1. cell' \in [CellIds -> [hash : Hashes \cup {NoHash}, state : States]]
      BY <1>10 DEF IInv, TypeOK, EndUpdate, Outcome
    <3>2. routed' \subseteq Hashes
      BY <1>10, <2>a DEF IInv, TypeOK, EndUpdate, HashesOf, ServingOf
    <3>3. \A d \in CellIds : cell'[d].hash = NoHash <=> cell'[d].state = "absent"
      BY <1>10, <2>a DEF IInv, TypeOK, EndUpdate, Outcome
    <3> QED BY <1>10, <3>1, <3>2, <3>3 DEF IInv, TypeOK, EndUpdate, Outcome
  <2>2. Distinct'
    BY <1>10 DEF IInv, TypeOK, EndUpdate, update, Outcome, Distinct, AllPushed, NoneReceived, Targets,
        FailedCells, UpdatedCells, HashesOf, ServingOf
  <2>3. Targeted'
    BY <1>10 DEF IInv, TypeOK, EndUpdate, update, Outcome, Targeted, Normal, Targets, AllPushed,
        NoneReceived, FailedCells, UpdatedCells, HashesOf, ServingOf
  <2>4. Leftovers'
    BY <1>10 DEF IInv, TypeOK, EndUpdate, update, Outcome, Leftovers, Targeted, Normal, AllPushed,
        NoneReceived, Targets, FailedCells, UpdatedCells, HashesOf, ServingOf
  <2>5. NeverServesLaunchWeights'
    BY <1>10 DEF IInv, TypeOK, EndUpdate, update, Outcome, NeverServesLaunchWeights, Targeted, Leftovers,
        Serving, ServingOf, AllPushed, NoneReceived, Targets, FailedCells, UpdatedCells, HashesOf
  <2>6. ServesPublishedVersion'
    BY <1>10 DEF IInv, TypeOK, EndUpdate, update, Outcome, ServesPublishedVersion, Targeted, Leftovers,
        Normal, Serving, ServingOf, AllPushed, NoneReceived, Targets, FailedCells, UpdatedCells,
        HashesOf
  <2>7. SnapshotStable'
    BY <1>10 DEF IInv, TypeOK, EndUpdate, update, Outcome, SnapshotStable, Targets, AllPushed,
        NoneReceived, FailedCells, UpdatedCells, HashesOf, ServingOf
  <2>8. ServingIsRouted'
    <3> SUFFICES ASSUME NEW d \in CellIds, cell'[d].state = "serving"
                 PROVE  cell'[d].hash \in routed'
      BY DEF ServingIsRouted, Serving, ServingOf
    <3>1. cell'[d].hash = cell[d].hash
      BY <1>10 DEF EndUpdate, IInv, TypeOK
    <3>2. CASE d \in UpdatedCells
      BY <1>10, <3>1, <3>2 DEF EndUpdate, HashesOf
    <3>3. CASE d \notin UpdatedCells
      <4>1. d \notin FailedCells /\ cell[d].state = "serving"
        BY <1>10, <3>3 DEF EndUpdate, IInv, TypeOK
      <4>2. cell[d].hash \in routed /\ cell[d].hash # NoHash
        BY <4>1 DEF IInv, TypeOK, ServingIsRouted, Serving, ServingOf
      <4>3. cell[d].hash \notin HashesOf(ServingOf(FailedCells))
        BY <4>1, <4>2 DEF HashesOf, ServingOf, FailedCells, Targets, IInv, Distinct
      <4> QED BY <1>10, <3>1, <4>2, <4>3 DEF EndUpdate
    <3> QED BY <3>2, <3>3
  <2> QED BY <2>1, <2>2, <2>3, <2>4, <2>5, <2>6, <2>7, <2>8 DEF IInv
<1>11. CASE EndUpdateUnregisterFails
  <2>a. \A d \in FailedCells \cup UpdatedCells : cell[d].hash \in Hashes /\ cell[d].state # "absent"
    BY DEF IInv, TypeOK, FailedCells, UpdatedCells, Targets
  <2>b. PICK bad, finished :
           /\ bad \in ServingOf(FailedCells) /\ finished \in SUBSET (FailedCells \ {bad})
           /\ cell' = [d \in CellIds |->
                          IF d \in finished THEN [cell[d] EXCEPT !.state = "errored"] ELSE cell[d]]
           /\ routed' = routed \ HashesOf(ServingOf(finished))
           /\ settling' = settling \cup
                 {[c |-> d, hash |-> cell[d].hash, to |-> "errored"] :
                     d \in FailedCells \ (finished \cup {bad})}
    BY <1>11 DEF EndUpdateUnregisterFails
  <2>c. /\ orch = "updating" /\ orch' = "failed"
        /\ UNCHANGED <<observed, nextHash, engine, snapshot, pushed, candidate, published>>
    BY <1>11 DEF EndUpdateUnregisterFails, update
  <2>d. /\ cell' \in [CellIds -> [hash : Hashes \cup {NoHash}, state : States]]
        /\ \A d \in CellIds : cell'[d].hash = cell[d].hash
    BY <2>b DEF IInv, TypeOK
  <2>e. \A d \in CellIds :
           \/ cell'[d].state = cell[d].state
           \/ d \in FailedCells \cup UpdatedCells /\ cell'[d].state \in {"serving", "errored"}
    BY <2>b DEF IInv, TypeOK
  <2>f. \A u \in settling' : u \in settling \/ \E d \in FailedCells :
           u = [c |-> d, hash |-> cell[d].hash, to |-> "errored"]
    BY <2>b
  <2>g. \A d \in FailedCells : d \in CellIds
    BY DEF FailedCells, Targets
  <2>1. TypeOK'
    <3>1. routed' \subseteq Hashes
      BY <2>a, <2>b DEF IInv, TypeOK, HashesOf
    <3>2. settling' \subseteq [c : CellIds, hash : Hashes, to : {"serving", "errored"}]
      BY <2>a, <2>f, <2>g DEF IInv, TypeOK
    <3>3. \A d \in CellIds : cell'[d].hash = NoHash <=> cell'[d].state = "absent"
      BY <2>a, <2>d, <2>e DEF IInv, TypeOK
    <3> QED BY <2>c, <2>d, <3>1, <3>2, <3>3 DEF IInv, TypeOK
  <2>2. Distinct'
    BY <1>11 DEF IInv, TypeOK, EndUpdateUnregisterFails, update, Distinct, AllPushed,
        NoneReceived, Targets, FailedCells, UpdatedCells, HashesOf, ServingOf
  <2>3. Targeted'
    BY <1>11 DEF IInv, TypeOK, EndUpdateUnregisterFails, update, Targeted, Normal, Targets,
        AllPushed, NoneReceived, FailedCells, UpdatedCells, HashesOf, ServingOf
  <2>4. Leftovers'
    <3> SUFFICES ASSUME NEW u \in settling'
                 PROVE  /\ u.hash < nextHash
                        /\ observed[u.c] = u.hash => cell'[u.c].hash = u.hash
                        /\ cell'[u.c].hash = u.hash => cell'[u.c].state # "initializing"
                        /\ u.to = "serving" => engine[u.hash] # LaunchWeights
      BY <2>c DEF Leftovers
    <3>1. CASE u \in settling
      <4>1. u.c \in CellIds
        BY <3>1 DEF IInv, TypeOK
      <4> QED BY <3>1, <4>1, <2>d, <2>e DEF IInv, Leftovers
    <3>2. ASSUME NEW d \in FailedCells, u = [c |-> d, hash |-> cell[d].hash, to |-> "errored"]
          PROVE  /\ u.hash < nextHash
                 /\ observed[u.c] = u.hash => cell'[u.c].hash = u.hash
                 /\ cell'[u.c].hash = u.hash => cell'[u.c].state # "initializing"
                 /\ u.to = "serving" => engine[u.hash] # LaunchWeights
      <4>2. cell[d].state # "initializing"
        BY <2>a, <2>c, <2>g, <3>2 DEF IInv, Targeted, Normal
      <4>3. cell[d].hash < nextHash
        BY <2>g, <3>2 DEF IInv, Distinct
      <4>4. cell'[d].state # "initializing"
        BY <2>e, <2>g, <3>2, <4>2
      <4>5. u.to = "serving" => engine[cell[d].hash] # LaunchWeights
        BY <2>c, <2>g, <3>2 DEF IInv, Targeted, UpdatedCells
      <4> QED BY <2>d, <2>g, <3>2, <4>3, <4>4, <4>5
    <3> QED BY <2>f, <3>1, <3>2
  <2>5. NeverServesLaunchWeights'
    BY <1>11 DEF IInv, TypeOK, EndUpdateUnregisterFails, update, NeverServesLaunchWeights,
        Targeted, Leftovers, Serving, ServingOf, AllPushed, NoneReceived, Targets, FailedCells,
        UpdatedCells, HashesOf
  <2>6. ServesPublishedVersion'
    BY <1>11 DEF IInv, TypeOK, EndUpdateUnregisterFails, update, ServesPublishedVersion,
        Targeted, Leftovers, Normal, Serving, ServingOf, AllPushed, NoneReceived, Targets,
        FailedCells, UpdatedCells, HashesOf
  <2>7. SnapshotStable'
    BY <1>11 DEF IInv, TypeOK, EndUpdateUnregisterFails, update, SnapshotStable, Targets,
        AllPushed, NoneReceived, FailedCells, UpdatedCells, HashesOf, ServingOf
  <2>8. ServingIsRouted'
    BY <1>11 DEF IInv, TypeOK, EndUpdateUnregisterFails, update, ServingIsRouted, Distinct,
        Serving, ServingOf, AllPushed, NoneReceived, Targets, FailedCells, UpdatedCells, HashesOf
  <2> QED BY <2>1, <2>2, <2>3, <2>4, <2>5, <2>6, <2>7, <2>8 DEF IInv
<1>12. CASE EndUpdateRegisterFails
  <2>a. \A d \in FailedCells \cup UpdatedCells : cell[d].hash \in Hashes /\ cell[d].state # "absent"
    BY DEF IInv, TypeOK, FailedCells, UpdatedCells, Targets
  <2>b. PICK bad, finished :
           /\ bad \in UpdatedCells /\ finished \in SUBSET (UpdatedCells \ {bad})
           /\ cell' = [d \in CellIds |->
                          IF d \in FailedCells THEN [cell[d] EXCEPT !.state = "errored"]
                          ELSE IF d \in finished THEN [cell[d] EXCEPT !.state = "serving"]
                          ELSE cell[d]]
           /\ routed' = (routed \ HashesOf(ServingOf(FailedCells))) \cup HashesOf(finished)
           /\ settling' = settling \cup
                 {[c |-> d, hash |-> cell[d].hash, to |-> "serving"] :
                     d \in UpdatedCells \ (finished \cup {bad})}
    BY <1>12 DEF EndUpdateRegisterFails
  <2>c. /\ orch = "updating" /\ orch' = "failed"
        /\ UNCHANGED <<observed, nextHash, engine, snapshot, pushed, candidate, published>>
    BY <1>12 DEF EndUpdateRegisterFails, update
  <2>d. /\ cell' \in [CellIds -> [hash : Hashes \cup {NoHash}, state : States]]
        /\ \A d \in CellIds : cell'[d].hash = cell[d].hash
    BY <2>b DEF IInv, TypeOK
  <2>e. \A d \in CellIds :
           \/ cell'[d].state = cell[d].state
           \/ d \in FailedCells \cup UpdatedCells /\ cell'[d].state \in {"serving", "errored"}
    BY <2>b DEF IInv, TypeOK
  <2>f. \A u \in settling' : u \in settling \/ \E d \in UpdatedCells :
           u = [c |-> d, hash |-> cell[d].hash, to |-> "serving"]
    BY <2>b
  <2>g. \A d \in UpdatedCells : d \in CellIds
    BY DEF UpdatedCells, Targets
  <2>1. TypeOK'
    <3>1. routed' \subseteq Hashes
      BY <2>a, <2>b DEF IInv, TypeOK, HashesOf
    <3>2. settling' \subseteq [c : CellIds, hash : Hashes, to : {"serving", "errored"}]
      BY <2>a, <2>f, <2>g DEF IInv, TypeOK
    <3>3. \A d \in CellIds : cell'[d].hash = NoHash <=> cell'[d].state = "absent"
      BY <2>a, <2>d, <2>e DEF IInv, TypeOK
    <3> QED BY <2>c, <2>d, <3>1, <3>2, <3>3 DEF IInv, TypeOK
  <2>2. Distinct'
    BY <1>12 DEF IInv, TypeOK, EndUpdateRegisterFails, update, Distinct, AllPushed,
        NoneReceived, Targets, FailedCells, UpdatedCells, HashesOf, ServingOf
  <2>3. Targeted'
    BY <1>12 DEF IInv, TypeOK, EndUpdateRegisterFails, update, Targeted, Normal, Targets,
        AllPushed, NoneReceived, FailedCells, UpdatedCells, HashesOf, ServingOf
  <2>4. Leftovers'
    <3> SUFFICES ASSUME NEW u \in settling'
                 PROVE  /\ u.hash < nextHash
                        /\ observed[u.c] = u.hash => cell'[u.c].hash = u.hash
                        /\ cell'[u.c].hash = u.hash => cell'[u.c].state # "initializing"
                        /\ u.to = "serving" => engine[u.hash] # LaunchWeights
      BY <2>c DEF Leftovers
    <3>1. CASE u \in settling
      <4>1. u.c \in CellIds
        BY <3>1 DEF IInv, TypeOK
      <4> QED BY <3>1, <4>1, <2>d, <2>e DEF IInv, Leftovers
    <3>2. ASSUME NEW d \in UpdatedCells, u = [c |-> d, hash |-> cell[d].hash, to |-> "serving"]
          PROVE  /\ u.hash < nextHash
                 /\ observed[u.c] = u.hash => cell'[u.c].hash = u.hash
                 /\ cell'[u.c].hash = u.hash => cell'[u.c].state # "initializing"
                 /\ u.to = "serving" => engine[u.hash] # LaunchWeights
      <4>2. cell[d].state # "initializing"
        BY <2>a, <2>c, <2>g, <3>2 DEF IInv, Targeted, Normal
      <4>3. cell[d].hash < nextHash
        BY <2>g, <3>2 DEF IInv, Distinct
      <4>4. cell'[d].state # "initializing"
        BY <2>e, <2>g, <3>2, <4>2
      <4>5. u.to = "serving" => engine[cell[d].hash] # LaunchWeights
        BY <2>c, <2>g, <3>2 DEF IInv, Targeted, UpdatedCells
      <4> QED BY <2>d, <2>g, <3>2, <4>3, <4>4, <4>5
    <3> QED BY <2>f, <3>1, <3>2
  <2>5. NeverServesLaunchWeights'
    BY <1>12 DEF IInv, TypeOK, EndUpdateRegisterFails, update, NeverServesLaunchWeights,
        Targeted, Leftovers, Serving, ServingOf, AllPushed, NoneReceived, Targets, FailedCells,
        UpdatedCells, HashesOf
  <2>6. ServesPublishedVersion'
    BY <1>12 DEF IInv, TypeOK, EndUpdateRegisterFails, update, ServesPublishedVersion, Targeted,
        Leftovers, Normal, Serving, ServingOf, AllPushed, NoneReceived, Targets, FailedCells,
        UpdatedCells, HashesOf
  <2>7. SnapshotStable'
    BY <1>12 DEF IInv, TypeOK, EndUpdateRegisterFails, update, SnapshotStable, Targets,
        AllPushed, NoneReceived, FailedCells, UpdatedCells, HashesOf, ServingOf
  <2>8. ServingIsRouted'
    <3> SUFFICES ASSUME NEW d \in CellIds, cell'[d].state = "serving"
                 PROVE  cell[d].hash \in routed'
      BY <2>d DEF ServingIsRouted, Serving, ServingOf
    <3>1. d \notin FailedCells
      BY <2>b DEF IInv, TypeOK
    <3>2. CASE d \in finished
      BY <2>b, <3>2 DEF HashesOf
    <3>3. CASE d \notin finished
      <4>1. cell[d].state = "serving" /\ cell[d].hash \in routed
        BY <2>b, <3>1, <3>3 DEF IInv, ServingIsRouted, Serving, ServingOf
      <4>2. cell[d].hash # NoHash
        BY <4>1 DEF IInv, TypeOK
      <4>3. \A e \in FailedCells : e \in CellIds /\ cell[e].hash # cell[d].hash
        BY <3>1, <4>2 DEF IInv, Distinct, FailedCells, Targets
      <4> QED BY <2>b, <4>1, <4>3 DEF HashesOf, ServingOf
    <3> QED BY <3>2, <3>3
  <2> QED BY <2>1, <2>2, <2>3, <2>4, <2>5, <2>6, <2>7, <2>8 DEF IInv
<1>13. CASE Restart
  BY <1>13, OrchOnly DEF Restart
<1>14. ASSUME NEW t \in settling, Settle(t) PROVE IInv'
  <2>a. t.c \in CellIds /\ t.hash \in Hashes /\ t.to \in {"serving", "errored"}
    BY DEF IInv, TypeOK
  <2>b. \/ cell' = cell
        \/ /\ t.to = "serving" /\ cell[t.c].hash = t.hash /\ cell[t.c].state = "pending"
           /\ cell' = [cell EXCEPT ![t.c].state = "serving"]
        \/ /\ t.to = "errored" /\ cell[t.c].hash = t.hash
           /\ cell[t.c].state \in {"pending", "serving"}
           /\ cell' = [cell EXCEPT ![t.c].state = "errored"]
    BY <1>14, <2>a DEF Settle
  <2>c. /\ UNCHANGED <<observed, nextHash, engine, orch, snapshot, pushed, candidate, published>>
        /\ settling' \subseteq settling
    BY <1>14 DEF Settle, update
  <2>d. \A d \in CellIds :
           /\ cell'[d].hash = cell[d].hash
           /\ \/ cell'[d].state = cell[d].state
              \/ /\ d = t.c /\ cell[d].hash = t.hash /\ cell[d].state \in {"pending", "serving"}
                 /\ cell'[d].state = "errored"
              \/ /\ d = t.c /\ cell[d].hash = t.hash /\ cell[d].state = "pending"
                 /\ cell'[d].state = "serving" /\ t.to = "serving"
    BY <2>a, <2>b DEF IInv, TypeOK
  <2>1. TypeOK'
    <3>1. cell' \in [CellIds -> [hash : Hashes \cup {NoHash}, state : States]]
      <4>1. cell \in [CellIds -> [hash : Hashes \cup {NoHash}, state : States]]
        BY DEF IInv, TypeOK
      <4>2. ASSUME NEW x \in States, cell' = [cell EXCEPT ![t.c].state = x]
            PROVE  cell' \in [CellIds -> [hash : Hashes \cup {NoHash}, state : States]]
        BY <2>a, <4>1, <4>2
      <4> QED BY <2>b, <4>1, <4>2
    <3>2. routed' \subseteq Hashes
      BY <1>14, <2>a DEF IInv, TypeOK, Settle
    <3>3. \A d \in CellIds : cell'[d].hash = NoHash <=> cell'[d].state = "absent"
      BY <2>a, <2>d DEF IInv, TypeOK
    <3>4. settling' \subseteq [c : CellIds, hash : Hashes, to : {"serving", "errored"}]
      BY <2>c DEF IInv, TypeOK
    <3> QED BY <2>c, <3>1, <3>2, <3>3, <3>4 DEF IInv, TypeOK
  <2>2. Distinct'
    BY <2>c, <2>d DEF IInv, Distinct
  <2>3. Targeted'
    BY <2>c, <2>d DEF IInv, Targeted, Normal
  <2>4. Leftovers'
    <3>1. \A u \in settling' : u \in settling /\ u.c \in CellIds
      BY <2>c DEF IInv, TypeOK
    <3> QED BY <2>a, <2>c, <2>d, <3>1 DEF IInv, Leftovers
  <2>5. NeverServesLaunchWeights'
    BY <2>a, <2>c, <2>d DEF IInv, Leftovers, NeverServesLaunchWeights, Serving, ServingOf
  <2>6. ServesPublishedVersion'
    BY <2>a, <2>c, <2>d DEF IInv, Leftovers, ServesPublishedVersion, Serving, ServingOf
  <2>7. SnapshotStable'
    BY <2>c, <2>d DEF IInv, SnapshotStable, Targets
  <2>8. ServingIsRouted'
    <3> SUFFICES ASSUME NEW d \in CellIds, cell'[d].state = "serving"
                 PROVE  cell[d].hash \in routed'
      BY <2>d DEF ServingIsRouted, Serving, ServingOf
    <3>1. CASE t.to = "serving"
      <4>1. routed' = routed \cup {t.hash}
        BY <1>14, <3>1 DEF Settle
      <4>2. cell[d].state = "serving" \/ cell[d].hash = t.hash
        BY <2>d
      <4> QED BY <4>1, <4>2 DEF IInv, ServingIsRouted, Serving, ServingOf
    <3>2. CASE t.to = "errored"
      <4>1. cell[d].state = "serving" /\ cell[d].hash \in routed
        BY <2>d, <3>2 DEF IInv, ServingIsRouted, Serving, ServingOf
      <4>2. CASE routed' = routed
        BY <4>1, <4>2
      <4>3. CASE routed' # routed
        <5>1. /\ cell[t.c] = [hash |-> t.hash, state |-> "serving"]
              /\ routed' = routed \ {t.hash}
              /\ cell' = [cell EXCEPT ![t.c].state = "errored"]
          BY <1>14, <3>2, <4>3 DEF Settle
        <5>2. d # t.c
          BY <2>a, <5>1 DEF IInv, TypeOK
        <5>3. cell[t.c].hash # cell[d].hash
          BY <2>a, <5>1, <5>2 DEF IInv, Distinct
        <5> QED BY <4>1, <5>1, <5>3
      <4> QED BY <4>2, <4>3
    <3> QED BY <2>a, <3>1, <3>2
  <2> QED BY <2>1, <2>2, <2>3, <2>4, <2>5, <2>6, <2>7, <2>8 DEF IInv
<1>15. CASE UNCHANGED vars
  BY <1>15 DEF IInv, vars, TypeOK, Distinct, Targeted, Leftovers, NeverServesLaunchWeights,
      ServesPublishedVersion, SnapshotStable, ServingIsRouted, Serving, ServingOf, Targets, Normal
<1> QED
  BY <1>1, <1>2, <1>3, <1>4, <1>5, <1>6, <1>7, <1>8, <1>9, <1>10, <1>11, <1>12, <1>13, <1>14,
      <1>15 DEF Next

\* The invariant holds in every reachable state.
THEOREM ControllerInvariant == Spec => []IInv
BY InitIInv, Step, PTL DEF Spec

\* No cell answers a request with the weights its engine was launched with,
\* whatever deployments, transfers and registrations failed on the way.
THEOREM LaunchWeightsNeverServe == Spec => []NeverServesLaunchWeights
<1>1. IInv => NeverServesLaunchWeights
  BY DEF IInv
<1> QED BY <1>1, ControllerInvariant, PTL

\* While the script trains, every serving cell holds the published version.
THEOREM PublishedVersionServes == Spec => []ServesPublishedVersion
<1>1. IInv => ServesPublishedVersion
  BY DEF IInv
<1> QED BY <1>1, ControllerInvariant, PTL

\* The engines handed to the trainer are not replaced during an update.
THEOREM SnapshotIsStable == Spec => []SnapshotStable
<1>1. IInv => SnapshotStable
  BY DEF IInv
<1> QED BY <1>1, ControllerInvariant, PTL

\* A cell that serves is registered with the router.
THEOREM ServingCellsRouted == Spec => []ServingIsRouted
<1>1. IInv => ServingIsRouted
  BY DEF IInv
<1> QED BY <1>1, ControllerInvariant, PTL
=============================================================================
