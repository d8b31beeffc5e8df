------------------------------ MODULE CellHealth ------------------------------
(***************************************************************************)
(* The health of trainer cells, from the probe to the restart.  A          *)
(* SimpleHealthChecker per cell probes its workers while the controller    *)
(* declares them active; the API server joins its verdict with what the    *)
(* worker manager says of the cell; the mini FT controller polls that and  *)
(* suspends and resumes the cells that are broken; the watcher of the      *)
(* trainer controller replaces its cell when the incarnation has changed.  *)
(*                                                                         *)
(* Ray backend: cells are started and stopped by the worker manager, whose *)
(* operations queue up on its membership lock.                             *)
(***************************************************************************)
EXTENDS TrainerCells, Sequences, FiniteSetsExt

CONSTANTS
    Threshold,    \* failure_threshold
    MaxEpochs,    \* bound: pauses and resumptions of the probes
    MaxTimeouts   \* bound: requests to the API server that time out

ASSUME ProbesAssumption ==
    Threshold \in Nat \ {0} /\ MaxFaults \in Nat /\ MaxEpochs \in Nat /\ MaxTimeouts \in Nat

VARIABLES
    worker,    \* _CellManager: the actors of the cell, and what became of them
    gen,       \* _CellManager.generation, the workers_hash
    ops,       \* the operations that hold and wait for _membership_lock
    trainerCell,    \* TrainerCell: its hash, the incarnation its handles call, its state
    watch,     \* PollingReconcileLoop: seen_infos, and the listing being applied
    activity,  \* ActivenessTracker of the trainer controller
    checker,   \* SimpleHealthChecker of the cell
    blips,     \* consecutive probes that a live worker failed
    ft,        \* _MiniFTController: where it is
    backoff,   \* _cell_backoffs
    timeouts   \* requests that timed out; faults are workers that crash or hang, calls
               \* that raise and starts that fail

manager == <<worker, gen, ops>>
trainer == <<trainerCell, watch>>
health == <<activity, checker, blips>>
controller == <<ft, backoff>>
bounds == <<faults, timeouts>>
healthVars == <<manager, trainer, health, controller, bounds>>

NoCell == [hash |-> 0, handles |-> 0, state |-> "none"]

\* SimpleHealthChecker.__init__() and start().
NewChecker ==
    [at |-> "asleep", active |-> FALSE, epoch |-> 0, firstWait |-> TRUE, failures |-> 0, status |-> "unknown"]

CheckerOff == [NewChecker EXCEPT !.at = "off"]

HealthInit ==
    /\ worker = [c \in Cells |-> "up"] /\ gen = [c \in Cells |-> 1] /\ ops = <<>>
    /\ trainerCell = [c \in Cells |-> [hash |-> 1, handles |-> 1, state |-> "alive"]]
    /\ watch = [seen |-> gen, listed |-> gen, todo |-> {}]
    /\ activity = [active |-> TRUE, epoch |-> 0]
    /\ checker = [c \in Cells |-> NewChecker] /\ blips = [c \in Cells |-> 0]
    /\ ft = [pc |-> "idle", infos |-> gen, unhealthy |-> {}, todo |-> {}]
    /\ backoff = [c \in Cells |-> "none"]
    /\ faults = 0 /\ timeouts = 0

(***************************************************************************)
(* The workers and the worker manager.                                     *)
(***************************************************************************)

\* A worker crashes, or it hangs: only its probes tell.
Break(c, how) ==
    /\ worker[c] = "up" /\ Fault
    /\ worker' = [worker EXCEPT ![c] = how]
    /\ UNCHANGED <<gen, ops, trainer, health, controller, timeouts>>

\* get_info(): a cell whose actors have no addresses yet is not alive.
Listed(c) == IF worker[c] \in {"stopped", "launching"} THEN 0 ELSE gen[c]

Op(name, c) == [op |-> name, cell |-> c, gen |-> gen[c], awaited |-> name # "scan"]

\* _scan_liveness_once() finds dead actors and waits for the lock.
Scan(c) ==
    /\ worker[c] = "dead" /\ \A i \in DOMAIN ops : ops[i] # Op("scan", c)
    /\ ops' = Append(ops, Op("scan", c))
    /\ UNCHANGED <<worker, gen, trainer, health, controller, bounds>>

\* The operation returns: the request of the controller that waits for it is
\* answered.
Return(answer) ==
    /\ ops' = Tail(ops)
    /\ ft' = IF Head(ops).awaited THEN [ft EXCEPT !.pc = answer] ELSE ft

\* stop_cells(), and the scan once it holds the lock, stop the actors unless they
\* are gone, or are not the ones that were scanned.
Stops(op) == worker[op.cell] # "stopped" /\ (op.op = "scan" => gen[op.cell] = op.gen)

Stop ==
    /\ ops # <<>> /\ Head(ops).op \in {"stop", "scan"}
    /\ worker' = IF Stops(Head(ops)) THEN [worker EXCEPT ![Head(ops).cell] = "stopped"] ELSE worker
    /\ Return("suspended")
    /\ UNCHANGED <<gen, trainer, health, backoff, bounds>>

\* start_cells(): launch_actors() if there are none, then ports and set-up.
Launch ==
    /\ ops # <<>> /\ Head(ops).op = "start" /\ worker[Head(ops).cell] = "stopped"
    /\ worker' = [worker EXCEPT ![Head(ops).cell] = "launching"]
    /\ gen' = [gen EXCEPT ![Head(ops).cell] = @ + 1]
    /\ UNCHANGED <<ops, trainer, health, controller, bounds>>

Started ==
    /\ ops # <<>> /\ Head(ops).op = "start" /\ worker[Head(ops).cell] # "stopped"
    /\ worker' = [worker EXCEPT ![Head(ops).cell] = IF @ = "launching" THEN "up" ELSE @]
    /\ Return("resumed")
    /\ UNCHANGED <<gen, trainer, health, backoff, bounds>>

\* The start is rolled back and the error reaches the controller.
StartFails ==
    /\ ops # <<>> /\ Head(ops).op = "start" /\ worker[Head(ops).cell] = "launching"
    /\ Fault
    /\ worker' = [worker EXCEPT ![Head(ops).cell] = "stopped"]
    /\ Return("failed")
    /\ UNCHANGED <<gen, trainer, health, backoff, timeouts>>

(***************************************************************************)
(* The trainer controller: its watcher and its cells.                      *)
(***************************************************************************)

\* _poll_once() lists the cells that are alive.
List ==
    /\ watch.todo = {}
    /\ watch' = [watch EXCEPT !.listed = [c \in Cells |-> Listed(c)],
                              !.todo = {c \in Cells : watch.seen[c] # Listed(c)}]
    /\ UNCHANGED <<manager, trainerCell, health, controller, bounds>>

\* _reconcile(): the cell of another incarnation is disposed, and a cell is made
\* with handles to the workers there are now; without any it raises, and the
\* listing is not noted as seen.
Reconcile(c) ==
    /\ watch.todo # {} /\ c = Min(watch.todo)
    /\ LET listed == watch.listed[c]
           added == listed # 0 /\ listed # trainerCell[c].hash
           made == added /\ Listed(c) # 0
       IN /\ trainerCell' = [trainerCell EXCEPT ![c] =
                        IF made THEN [hash |-> listed, handles |-> gen[c], state |-> "uninitialized"]
                        ELSE IF added \/ listed = 0 THEN NoCell ELSE @]
          /\ checker' = [checker EXCEPT ![c] = IF added \/ listed = 0 THEN CheckerOff ELSE @]
          /\ watch' = [watch EXCEPT !.todo = @ \ {c},
                                    !.seen[c] = IF added /\ ~made THEN @ ELSE listed]
    /\ UNCHANGED <<manager, activity, blips, controller, bounds>>

\* The workers that the handles of the cell call answer.
Up(c) == worker[c] = "up" /\ trainerCell[c].handles = gen[c]

\* init() of a healing cell.
InitCell(c) ==
    /\ trainerCell[c].state = "uninitialized" /\ Up(c)
    /\ trainerCell' = [trainerCell EXCEPT ![c].state = "alive"]
    /\ checker' = [checker EXCEPT ![c] = NewChecker] /\ blips' = [blips EXCEPT ![c] = 0]
    /\ UNCHANGED <<manager, watch, activity, controller, bounds>>

\* A call raises: the cell is errored and its workers are killed, if they can be.
CallRaises(c) ==
    /\ trainerCell[c].state \in {"uninitialized", "alive"}
    /\ IF Up(c) THEN Fault ELSE UNCHANGED faults
    /\ trainerCell' = [trainerCell EXCEPT ![c].state = "errored"]
    /\ worker' = IF Up(c) THEN [worker EXCEPT ![c] = "dead"] ELSE worker
    /\ UNCHANGED <<gen, ops, watch, health, controller, timeouts>>

(***************************************************************************)
(* SimpleHealthChecker.                                                    *)
(***************************************************************************)

\* bump_active(): offload() and onload(), and the preparation of a regroup.
Pause ==
    /\ activity.active /\ activity.epoch + 2 <= MaxEpochs
    /\ activity' = [active |-> FALSE, epoch |-> activity.epoch + 1]
    /\ UNCHANGED <<manager, trainer, checker, blips, controller, bounds>>

Resume ==
    /\ ~activity.active
    /\ activity' = [active |-> TRUE, epoch |-> activity.epoch + 1]
    /\ blips' = [c \in Cells |-> 0]
    /\ UNCHANGED <<manager, trainer, checker, controller, bounds>>

\* Fault: a resumption keeps the failures counted before the pause.
OnResumedKeepsFailures(k) == [k EXCEPT !.firstWait = TRUE, !.status = "unknown"]

OnResumed(k) == [k EXCEPT !.firstWait = TRUE, !.status = "unknown", !.failures = 0]
OnPaused(k) == [k EXCEPT !.status = "unknown"]

\* One turn of _loop(), up to the sleep or the probe it awaits.
Turn(c) ==
    /\ checker[c].at = "asleep"
    /\ LET k == checker[c]
           noted == [k EXCEPT !.active = activity.active, !.epoch = activity.epoch]
           read == IF noted = k THEN k ELSE IF activity.active THEN OnResumed(noted) ELSE OnPaused(noted)
       IN checker' = [checker EXCEPT ![c] =
                        IF ~read.active THEN read
                        ELSE IF read.firstWait THEN [read EXCEPT !.firstWait = FALSE]
                        ELSE [read EXCEPT !.at = "probing"]]
    /\ UNCHANGED <<manager, trainer, activity, blips, controller, bounds>>

\* _publish_result().  Failures beyond the threshold are not told apart.
Published(k, success) ==
    LET failures == IF success THEN 0 ELSE Min({k.failures + 1, Threshold})
    IN [k EXCEPT !.failures = failures,
                 !.status = IF success THEN "true" ELSE IF failures >= Threshold THEN "false" ELSE @]

\* The probe belongs to the period of activity that is on.
Current(k) == activity.active /\ activity.epoch = k.epoch

\* The probe of a worker that answers fails while it is asleep, in a pause, and
\* at most Threshold - 1 times in a row otherwise.
ProbeEnds(c, success) ==
    /\ checker[c].at = "probing"
    /\ LET k == checker[c]
           answers == trainerCell[c].state # "alive" \/ Up(c)
           disturbed == ~activity.active \/ activity.epoch # k.epoch
       IN /\ success => answers
          /\ IF success THEN blips' = [blips EXCEPT ![c] = 0]
             ELSE IF answers /\ ~disturbed
             THEN /\ trainerCell[c].state = "alive" /\ blips[c] + 1 < Threshold
                  /\ blips' = [blips EXCEPT ![c] = @ + 1]
             ELSE UNCHANGED blips
          /\ checker' = [checker EXCEPT ![c] =
                           [(IF Current(k) THEN Published(k, success) ELSE k) EXCEPT !.at = "asleep"]]
    /\ UNCHANGED <<manager, trainer, activity, controller, bounds>>

\* status: unknown in a pause, and until the loop has noted a resumption.
Status(c) ==
    LET k == checker[c]
    IN IF activity.active /\ k.active /\ k.epoch = activity.epoch THEN k.status ELSE "unknown"

(***************************************************************************)
(* The API server and _MiniFTController.                                   *)
(***************************************************************************)

\* Fault: the verdict on another incarnation is passed on.
VerdictOfAny(c, listed) ==
    CASE trainerCell[c].state = "errored" -> "false"
      [] trainerCell[c].state = "alive" -> Status(c)
      [] OTHER -> "true"

\* _compute_status_of_generation() of what compute_cell_status() says.
Verdict(c, listed) ==
    IF trainerCell[c].hash # listed THEN "unknown"
    ELSE IF trainerCell[c].state = "errored" THEN "false"
    ELSE IF trainerCell[c].state = "alive" THEN Status(c)
    ELSE "true"

\* list_cells(): first the infos of the manager, later the statuses.
GetCells ==
    /\ ft.pc = "idle"
    /\ ft' = [ft EXCEPT !.pc = "listed", !.infos = [c \in Cells |-> Listed(c)]]
    /\ UNCHANGED <<manager, trainer, health, backoff, bounds>>

\* Fault: a suspended cell, which has no condition, is not unhealthy.
UnhealthyIfFailed(c) == ft.infos[c] # 0 /\ Verdict(c, ft.infos[c]) = "false"

\* _compute_cell_snapshot(): failed, or suspended.
Unhealthy(c) == ft.infos[c] = 0 \/ Verdict(c, ft.infos[c]) = "false"

GetStatuses ==
    /\ ft.pc = "listed"
    /\ LET broken == {c \in Cells : Unhealthy(c)}
       IN /\ ft' = [ft EXCEPT !.pc = "round", !.unhealthy = broken, !.todo = broken]
          /\ backoff' = [c \in Cells |-> IF c \in broken /\ backoff[c] = "none" THEN "ready" ELSE backoff[c]]
    /\ UNCHANGED <<manager, trainer, health, bounds>>

\* The unhealthy cells in turn: _heal() unless the backoff is on.
Suspend ==
    /\ ft.pc = "round" /\ ft.todo # {}
    /\ LET c == Min(ft.todo)
       IN IF backoff[c] = "ready"
            THEN /\ ops' = Append(ops, Op("stop", c))
                 /\ ft' = [ft EXCEPT !.pc = "suspending"]
            ELSE /\ ft' = [ft EXCEPT !.todo = @ \ {c}]
                 /\ UNCHANGED ops
    /\ UNCHANGED <<worker, gen, trainer, health, backoff, bounds>>

\* After resume_delay.
ResumeCell ==
    /\ ft.pc = "suspended"
    /\ ops' = Append(ops, Op("start", Min(ft.todo)))
    /\ ft' = [ft EXCEPT !.pc = "resuming"]
    /\ UNCHANGED <<worker, gen, trainer, health, backoff, bounds>>

\* The cool-down of a healed cell, the longer one of a failed attempt.
HealEnds ==
    /\ ft.pc \in {"resumed", "failed"}
    /\ backoff' = [backoff EXCEPT ![Min(ft.todo)] = "waiting"]
    /\ ft' = [ft EXCEPT !.pc = "round", !.todo = @ \ {Min(ft.todo)}]
    /\ UNCHANGED <<manager, trainer, health, bounds>>

\* The request is given up; what it asked for is done all the same.
RequestTimesOut ==
    /\ ft.pc \in {"suspending", "resuming"} /\ timeouts < MaxTimeouts
    /\ timeouts' = timeouts + 1
    /\ ops' = [i \in DOMAIN ops |-> [ops[i] EXCEPT !.awaited = FALSE]]
    /\ ft' = [ft EXCEPT !.pc = "failed"]
    /\ UNCHANGED <<worker, gen, trainer, health, backoff, faults>>

RoundEnds ==
    /\ ft.pc = "round" /\ ft.todo = {}
    /\ ft' = [ft EXCEPT !.pc = "idle"]
    /\ backoff' = [c \in Cells |-> IF c \in ft.unhealthy THEN backoff[c] ELSE "none"]
    /\ UNCHANGED <<manager, trainer, health, bounds>>

\* The clock passes next_attempt_at.
BackoffEnds(c) ==
    /\ backoff[c] = "waiting"
    /\ backoff' = [backoff EXCEPT ![c] = "ready"]
    /\ UNCHANGED <<manager, trainer, health, ft, bounds>>

HealthNext ==
    \/ \E c \in Cells, how \in {"dead", "hung"} : Break(c, how)
    \/ \E c \in Cells : Scan(c) \/ Reconcile(c) \/ InitCell(c) \/ CallRaises(c)
    \/ Stop \/ Launch \/ Started \/ StartFails
    \/ List \/ Pause \/ Resume
    \/ \E c \in Cells : Turn(c) \/ BackoffEnds(c) \/ \E success \in BOOLEAN : ProbeEnds(c, success)
    \/ GetCells \/ GetStatuses \/ Suspend \/ ResumeCell \/ HealEnds \/ RequestTimesOut \/ RoundEnds

HealthSpec == HealthInit /\ [][HealthNext]_healthVars

\* The loops go round, clocks advance, calls and operations return, and a pause
\* ends: onload() follows offload(), and the regroup is a context manager.
HealthFairness ==
    /\ WF_healthVars(Stop \/ Launch \/ Started)
    /\ WF_healthVars(List \/ \E c \in Cells : Reconcile(c))
    /\ WF_healthVars(Resume)
    /\ WF_healthVars(GetCells \/ GetStatuses \/ Suspend \/ ResumeCell \/ HealEnds \/ RoundEnds)
    /\ \A c \in Cells :
          /\ WF_healthVars(InitCell(c)
                             \/ (trainerCell[c].state = "uninitialized" /\ ~Up(c) /\ CallRaises(c)))
          /\ WF_healthVars(Turn(c) \/ \E success \in BOOLEAN : ProbeEnds(c, success))
          /\ WF_healthVars(BackoffEnds(c)) /\ WF_healthVars(Scan(c))

HealthFairSpec == HealthSpec /\ HealthFairness

(***************************************************************************)
(* Properties.                                                             *)
(***************************************************************************)
\* Every variable has its type.
HealthTypeOK ==
    /\ worker \in [Cells -> {"stopped", "launching", "up", "hung", "dead"}]
    /\ gen \in [Cells -> Nat \ {0}]
    /\ ops \in Seq([op : {"stop", "start", "scan"}, cell : Cells, gen : Nat, awaited : BOOLEAN])
    /\ trainerCell \in [Cells -> [hash : Nat, handles : Nat,
                           state : {"none", "uninitialized", "alive", "errored"}]]
    /\ watch \in [seen : [Cells -> Nat], listed : [Cells -> Nat], todo : SUBSET Cells]
    /\ activity \in [active : BOOLEAN, epoch : 0..MaxEpochs]
    /\ ~activity.active => activity.epoch < MaxEpochs
    /\ checker \in [Cells -> [at : {"off", "asleep", "probing"}, active : BOOLEAN, epoch : 0..MaxEpochs,
                              firstWait : BOOLEAN, failures : 0..Threshold, status : {"unknown", "true", "false"}]]
    /\ ft \in [pc : {"idle", "listed", "round", "suspending", "suspended", "resuming", "resumed", "failed"},
               infos : [Cells -> Nat], unhealthy : SUBSET Cells, todo : SUBSET Cells]
    /\ backoff \in [Cells -> {"none", "ready", "waiting"}]
    /\ blips \in [Cells -> 0..(Threshold - 1)]
    /\ faults \in 0..MaxFaults /\ timeouts \in 0..MaxTimeouts

\* A cell whose workers answer is never reported as failed: neither the answers
\* that were late because of a pause, nor failures counted on both sides of one,
\* add up to the threshold.
LiveIsNotFailed == \A c \in Cells : trainerCell[c].state = "alive" /\ Up(c) => Status(c) # "false"

\* What the controller or the scan is about to stop is broken: a verdict on an
\* earlier incarnation, or a scan of one, never takes down the one that replaced
\* it, as long as no request to the API server has timed out.
OnlyTheBrokenAreStopped ==
    timeouts = 0 => \A i \in DOMAIN ops : LET c == ops[i].cell
                          IN ops[i].op \in {"stop", "scan"} /\ worker[c] = "up"
                               => \/ trainerCell[c].state = "errored"
                                  \/ ops[i].op = "scan" /\ ops[i].gen # gen[c]

\* When faults and timeouts have ended, every cell comes back and stays: its
\* workers run, and the controller has initialised them.
Recovers == <>[](\A c \in Cells : Up(c) /\ trainerCell[c].state = "alive")

(***************************************************************************)
(* What the safety properties rest on.                                     *)
(***************************************************************************)

\* A cell is made of a listed incarnation, with handles to it or to one that
\* came after; no handle calls workers that are still launched.  A listing that
\* is being applied is not older than the cell.
Incarnations ==
    \A c \in Cells :
        /\ trainerCell[c].hash <= trainerCell[c].handles /\ trainerCell[c].handles <= gen[c]
        /\ watch.listed[c] <= gen[c]
        /\ worker[c] = "launching" => trainerCell[c].handles < gen[c]
        /\ c \in watch.todo =>
              \/ watch.listed[c] >= trainerCell[c].hash
              \/ watch.listed[c] = 0 /\ (trainerCell[c].hash = gen[c] => worker[c] = "stopped")

\* The failures that a checker counts in a period of activity are those that its
\* live worker had in it.
FailuresAreBlips ==
    \A c \in Cells :
        LET k == checker[c]
        IN  /\ k.epoch <= activity.epoch
            /\ k.status = "false" => k.failures = Threshold
            /\ (Current(k) /\ trainerCell[c].state = "alive" /\ Up(c)) => k.failures <= blips[c]

\* A scan is of this incarnation, dead since, or of an earlier one; workers are
\* launched by the operation that holds the lock.
DeadScan(op) ==
    op.op = "scan" =>
        /\ ~op.awaited /\ op.gen <= gen[op.cell]
        /\ op.gen = gen[op.cell] => worker[op.cell] \in {"dead", "stopped"}
ScansAreOfTheDead ==
    /\ \A i \in DOMAIN ops : DeadScan(ops[i])
    /\ \A c \in Cells : worker[c] = "launching" =>
          ops # <<>> /\ Head(ops).op = "start" /\ Head(ops).cell = c

\* The controller waits for one operation at most, on the cell of its round whose
\* turn it is; without a timeout there is no other that it has asked for.
Asked(op) ==
    op.awaited =>
        op.cell = Min(ft.todo) /\ <<ft.pc, op.op>> \in {<<"suspending", "stop">>, <<"resuming", "start">>}
OneRequest ==
    /\ ft.pc \in {"suspending", "suspended", "resuming", "resumed", "failed"} => ft.todo # {}
    /\ \A i \in DOMAIN ops : Asked(ops[i])
    /\ \A i, j \in DOMAIN ops : ops[i].awaited /\ ops[j].awaited => i = j
    /\ timeouts = 0 => \A i \in DOMAIN ops : ops[i].op # "scan" => ops[i].awaited

\* What was found unhealthy stays broken until it is started again.
Broken(c) ==
    /\ worker[c] # "launching"
    /\ worker[c] = "up" => trainerCell[c].state = "errored" /\ trainerCell[c].hash = gen[c]
InRound == IF ft.pc \in {"round", "suspending", "suspended"} THEN ft.todo
           ELSE IF ft.pc \in {"resuming", "resumed", "failed"} THEN ft.todo \ {Min(ft.todo)}
           ELSE {}
UnhealthyAreBroken ==
    timeouts = 0 =>
        /\ ft.pc = "listed" => \A c \in Cells : ft.infos[c] = gen[c] \/ (ft.infos[c] = 0 /\ worker[c] = "stopped")
        /\ \A c \in InRound : Broken(c)

HealthIInv ==
    /\ HealthTypeOK /\ Incarnations /\ FailuresAreBlips
    /\ ScansAreOfTheDead /\ OneRequest /\ UnhealthyAreBroken
=============================================================================
