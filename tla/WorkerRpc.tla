------------------------------ MODULE WorkerRpc ------------------------------
(***************************************************************************)
(* The RPC between an orchestration script and a worker process            *)
(* (miles/utils/workers/rpc): a call is submitted once and then polled     *)
(* until its outcome is there.  The handle is pinned to the boot uuid of   *)
(* the process it first reached (require_stable_boot_uuid, which every     *)
(* handle of worker_provider/utils.py sets), the server refuses a request  *)
(* that expects another boot uuid, the call store refuses a call id it     *)
(* knows and purges outcomes that have aged.                               *)
(*                                                                         *)
(* Requests may be lost, answered late or delivered after their sender     *)
(* gave up; the server may crash and come back empty; the script may die   *)
(* and be replaced by one that takes the worker over once it is idle       *)
(* (miles/utils/hot_restart.py).                                           *)
(***************************************************************************)
EXTENDS Naturals, FiniteSets

CONSTANTS
    OldCalls,       \* calls of the first script
    NewCalls,       \* calls of the script that takes over
    Gate,           \* the take-over's wait_idle, which uses the same handle
    MaxBoots,       \* bound: incarnations of the worker process
    MaxTimeouts     \* bound: requests whose sender gives up waiting

ASSUME CallsAssumption ==
    /\ OldCalls \cap NewCalls = {}
    /\ Gate \notin OldCalls \cup NewCalls
    /\ MaxBoots \in Nat \ {0} /\ MaxTimeouts \in Nat

Calls == OldCalls \cup NewCalls
Users == Calls \cup {Gate}

VARIABLES
    boot,       \* the worker's boot uuid, a serial number
    up,         \* the worker's http server answers
    store,      \* CallStore of the running process: call -> record
    script,     \* 1: the first orchestration script runs, 2: its successor
    pin,        \* BootUuidPin._value of the script's handle, 0 is None
    cl,         \* what each user of the handle is doing
    net,        \* requests that no handler has answered
    resp,       \* the answer each user has not read yet
    timeouts,   \* requests given up so far
    begun,      \* history: the incarnations that began a call, with their order
    outage,     \* history: a caller was held up past the time to live of its outcome
    late        \* history: calls begun after the death of their script

history == <<outage, late>>
vars == <<boot, up, store, script, pin, cl, net, resp, timeouts, begun, history>>

Active == {"handshake", "submit", "poll"}
Ended == {"success", "failed", "unreachable", "timeout", "restarted", "protocol"}
Record == [st : {"none", "pending", "success", "failed"},
           retrieved : BOOLEAN, aged : BOOLEAN]
NoRecord == [st |-> "none", retrieved |-> FALSE, aged |-> FALSE]
Pending == [st |-> "pending", retrieved |-> FALSE, aged |-> FALSE]
Request == [user : Users, kind : Active \cup {"idle"},
            expected : 0 .. MaxBoots, live : BOOLEAN]
Answers == {"ok", "pending", "success", "failed", "idle", "busy",
            "mismatch", "unknown", "duplicate"}
Response == [st : Answers, from : 1 .. MaxBoots]
Nothing == [st |-> "none", from |-> 0]

Init ==
    /\ boot = 1 /\ up = TRUE
    /\ store = [c \in Calls |-> NoRecord]
    /\ script = 1 /\ pin = 0
    /\ cl = [u \in Users |-> "new"]
    /\ net = {} /\ resp = [u \in Users |-> Nothing]
    /\ timeouts = 0
    /\ begun = [c \in Calls |-> <<0, 0>>]
    /\ outage = FALSE /\ late = {}

-----------------------------------------------------------------------------
(* The client: RpcWorkerHandle, RpcCall and RpcTransport.                  *)

CallsOf(s) == IF s = 1 THEN OldCalls ELSE NewCalls
Current == CallsOf(script) \cup (IF script = 2 THEN {Gate} ELSE {})

Awaits(u) == resp[u] # Nothing \/ \E r \in net : r.user = u /\ r.live
Kind(u) == IF u = Gate THEN "idle" ELSE cl[u]
InCall(u) == u \in Current /\ cl[u] \in Active

\* A call of the new script follows its take-over gate.
MayStart(c) ==
    /\ c \in CallsOf(script) /\ cl[c] = "new"
    /\ script = 2 => cl[Gate] = "success"

\* _prepare_call: an unpinned handle shakes hands first.
Start(c) ==
    /\ MayStart(c)
    /\ cl' = [cl EXCEPT ![c] = IF pin = 0 THEN "handshake" ELSE "submit"]
    /\ UNCHANGED <<boot, up, store, script, pin, net, resp, timeouts, begun, history>>

\* wait_idle() of the take-over; the question is_initialized() before it is left out.
OpenGate ==
    /\ script = 2 /\ cl[Gate] = "new"
    /\ cl' = [cl EXCEPT ![Gate] = "poll"]
    /\ UNCHANGED <<boot, up, store, script, pin, net, resp, timeouts, begun, history>>

\* Fault: the request does not say which incarnation it is meant for.
ExpectedAny == 0

\* RpcTransport.send: the header is the pin at the time of sending.
Expected == pin

\* The request leaves; a connect error is the absence of this step, since
\* submit, poll and the readiness probe all try again after one.
Send(u) ==
    /\ InCall(u) /\ ~Awaits(u)
    /\ net' = net \cup {[user |-> u, kind |-> Kind(u), expected |-> Expected, live |-> TRUE]}
    /\ UNCHANGED <<boot, up, store, script, pin, cl, resp, timeouts, begun, history>>

\* A request whose sender is gone: nobody takes its answer.
Unattended(r) == [r EXCEPT !.live = FALSE]

\* The user no longer waits for its request, which stays on its way or is lost.
Abandoned(u) ==
    LET live == {r \in net : r.user = u /\ r.live}
        rest == net \ live
    IN  {rest, rest \cup {Unattended(r) : r \in live}}

\* Fault: a submit whose answer did not come is sent again.
AfterTimeoutResubmits(u) == cl[u]

\* submit() retries only what never reached the server, so a submit without an
\* answer ends the call; the probe, the polls and wait_idle are repeated.
AfterTimeout(u) == IF cl[u] = "submit" THEN "unreachable" ELSE cl[u]

\* The request fails in the transport or times out, or the server answers 5xx.
Timeout(u) ==
    /\ InCall(u) /\ Awaits(u) /\ timeouts < MaxTimeouts
    /\ timeouts' = timeouts + 1
    /\ net' \in Abandoned(u)
    /\ resp' = [resp EXCEPT ![u] = Nothing]
    /\ cl' = [cl EXCEPT ![u] = AfterTimeout(u)]
    /\ UNCHANGED <<boot, up, store, script, pin, begun, history>>

\* The submit window, the ready timeout, the call timeout or that of the gate is over.
Deadline(u) ==
    /\ InCall(u) /\ timeouts < MaxTimeouts
    /\ timeouts' = timeouts + 1
    /\ net' \in Abandoned(u)
    /\ resp' = [resp EXCEPT ![u] = Nothing]
    /\ cl' = [cl EXCEPT ![u] = IF cl[u] = "poll" THEN "timeout" ELSE "unreachable"]
    /\ UNCHANGED <<boot, up, store, script, pin, begun, history>>

\* BootUuidPin.verify: an unpinned handle is pinned by the first answer, a
\* pinned one refuses the answer of another incarnation.
Refused(a) == a.st = "mismatch" \/ (pin # 0 /\ a.from # pin)

\* Fault: the poll of a restarted server is repeated like one that failed.
OnRestartRetries(u) == cl[u]

\* ServerRestartedError is not among the errors that are retried.
OnRestart(u) == "restarted"

After(u) ==
    LET a == resp[u] IN
    IF a.st \in {"unknown", "duplicate"} THEN "protocol"
    ELSE IF Refused(a) THEN OnRestart(u)
    ELSE IF cl[u] = "handshake" THEN "submit"
    ELSE IF cl[u] = "submit" THEN "poll"
    ELSE IF a.st \in {"success", "failed"} THEN a.st
    ELSE IF a.st = "idle" THEN "success"
    ELSE cl[u]

Receive(u) ==
    /\ InCall(u) /\ resp[u] # Nothing
    /\ cl' = [cl EXCEPT ![u] = After(u)]
    /\ pin' = IF pin = 0 /\ resp[u].st \notin {"mismatch", "unknown", "duplicate"}
              THEN resp[u].from ELSE pin
    /\ resp' = [resp EXCEPT ![u] = Nothing]
    /\ UNCHANGED <<boot, up, store, script, net, timeouts, begun, history>>

\* wait_ready(allow_server_uuid_change=True), which the reporter calls after a
\* ServerRestartedError with no call in progress: the handle is pinned to the
\* process that answers now.
Follow ==
    /\ up /\ pin \notin {0, boot}
    /\ \E u \in Current : cl[u] = "restarted"
    /\ ~\E u \in Users : InCall(u)
    /\ pin' = boot
    /\ UNCHANGED <<boot, up, store, script, cl, net, resp, timeouts, begun, history>>

-----------------------------------------------------------------------------
(* The server: boot_uuid_guard, RpcServer, CallStore and RpcCallExecutor.  *)

\* Fault: a retrieved outcome is forgotten by the next submit.
LiveAtOnce(rec) == rec.st = "pending" \/ ~rec.retrieved

\* CallStore._is_live
IsLive(rec) == ~rec.aged

Purged == [c \in Calls |-> IF IsLive(store[c]) THEN store[c] ELSE NoRecord]

\* RpcServer.submit_call and CallStore.begin: the answer, with the store it leaves.
Submitted(c) ==
    IF Purged[c].st # "none"
    THEN <<"duplicate", Purged>>
    ELSE <<"ok", [Purged EXCEPT ![c] = Pending]>>

\* RpcServer.query_call and CallStore.wait
Queried(c) ==
    CASE store[c].st = "none" -> <<"unknown", store>>
      [] store[c].st = "pending" -> <<"pending", store>>
      [] OTHER -> <<store[c].st, [store EXCEPT ![c].retrieved = TRUE]>>

\* Fault: a call the script that asks did not submit is not in flight.
InFlightOfScript == {c \in CallsOf(script) : store[c].st = "pending"}

\* CallStore.in_flight_call_ids
InFlight == {c \in Calls : store[c].st = "pending"}

\* boot_uuid_guard, then the route's handler.
Answer(r) ==
    IF r.expected \notin {0, boot} THEN <<"mismatch", store>>
    ELSE IF r.kind = "handshake" THEN <<"ok", store>>
    ELSE IF r.kind = "idle" THEN <<IF InFlight = {} THEN "idle" ELSE "busy", store>>
    ELSE IF r.kind = "submit" THEN Submitted(r.user)
    ELSE Queried(r.user)

Serve(r) ==
    /\ up /\ r \in net
    /\ net' = net \ {r}
    /\ store' = Answer(r)[2]
    /\ resp' = IF r.live
               THEN [resp EXCEPT ![r.user] = [st |-> Answer(r)[1], from |-> boot]]
               ELSE resp
    /\ IF r.kind = "submit" /\ Answer(r)[1] = "ok"
       THEN /\ begun' = [begun EXCEPT ![r.user] = <<boot, @[2] + 1>>]
            /\ late' = late \cup ({r.user} \ Current)
       ELSE UNCHANGED <<begun, late>>
    /\ UNCHANGED <<boot, up, script, pin, cl, timeouts, outage>>

\* RpcCallExecutor._run: the worker's method returns or raises.
Finish(c) ==
    /\ store[c].st = "pending"
    /\ \E o \in {"success", "failed"} : store' = [store EXCEPT ![c].st = o]
    /\ UNCHANGED <<boot, up, script, pin, cl, net, resp, timeouts, begun, history>>

\* The time to live of an outcome is over: RETRIEVED_TTL_SECONDS after a poll
\* first read it, or the longer FINISHED_TTL_SECONDS without one.  A caller that
\* still polls does so every few seconds, unless an outage holds it up.
Age(c) ==
    /\ store[c].st \in {"success", "failed"} /\ ~store[c].aged
    /\ outage' = (outage \/ InCall(c))
    /\ store' = [store EXCEPT ![c].aged = TRUE]
    /\ UNCHANGED <<boot, up, script, pin, cl, net, resp, timeouts, begun, late>>

\* The worker process dies with its store.
Crash ==
    /\ up /\ boot < MaxBoots
    /\ up' = FALSE
    /\ store' = [c \in Calls |-> NoRecord]
    /\ UNCHANGED <<boot, script, pin, cl, net, resp, timeouts, begun, history>>

Boot ==
    /\ ~up
    /\ up' = TRUE /\ boot' = boot + 1
    /\ UNCHANGED <<store, script, pin, cl, net, resp, timeouts, begun, history>>

\* The script dies; its successor builds an unpinned handle.
ScriptDies ==
    /\ script = 1
    /\ script' = 2 /\ pin' = 0
    /\ cl' = [u \in Users |-> IF cl[u] \in Active THEN "timeout" ELSE cl[u]]
    /\ net' = {Unattended(r) : r \in net}
    /\ resp' = [u \in Users |-> Nothing]
    /\ UNCHANGED <<boot, up, store, timeouts, begun, history>>

ClientStep ==
    \/ \E u \in Users : Send(u) \/ Receive(u)
    \/ OpenGate \/ Follow

ServerStep == Boot \/ \E r \in net : Serve(r)

Next ==
    \/ ClientStep \/ ServerStep
    \/ \E c \in Calls : Start(c) \/ Finish(c) \/ Age(c)
    \/ \E u \in Users : Timeout(u) \/ Deadline(u)
    \/ Crash \/ ScriptDies

Spec == Init /\ [][Next]_vars

\* The event loops of both sides run, the supervisor restarts the process and
\* a worker's method ends.  No deadline, timeout or crash is assumed.
FairSpec ==
    /\ Spec
    /\ \A u \in Users : WF_vars(Send(u)) /\ WF_vars(Receive(u))
    /\ \A r \in Request : WF_vars(Serve(r))
    /\ \A c \in Calls : WF_vars(Finish(c))
    /\ WF_vars(OpenGate) /\ WF_vars(Boot)

-----------------------------------------------------------------------------
\* Every variable has its type, and a record that was read or has aged holds an
\* outcome (store.py).
TypeOK ==
    /\ boot \in 1 .. MaxBoots /\ up \in BOOLEAN /\ (up \/ boot < MaxBoots)
    /\ store \in [Calls -> Record]
    /\ \A c \in Calls : store[c].aged \/ store[c].retrieved => store[c].st \in {"success", "failed"}
    /\ script \in {1, 2} /\ pin \in 0 .. MaxBoots
    /\ cl \in [Users -> {"new"} \cup Active \cup Ended]
    /\ net \subseteq Request
    /\ resp \in [Users -> Response \cup {Nothing}]
    /\ timeouts \in 0 .. MaxTimeouts
    /\ begun \in [Calls -> (0 .. MaxBoots) \X (0 .. MaxTimeouts + 1)]
    /\ outage \in BOOLEAN /\ late \subseteq OldCalls

\* A worker method runs at most once per call, whatever is lost, repeated,
\* delivered late or restarted: submit() repeats only what never reached the
\* server (call.py:89).
AtMostOnce == \A c \in Calls : begun[c][2] <= 1

\* A call runs in the incarnation its script's handle is pinned to, or not at
\* all: a request delivered late runs nothing in a process that came up since,
\* and a caller polls the process that runs its call, so that no result comes
\* from a worker that lost its state in between (misc.py:65, 125-137, app.py:51).
RunsWherePinned ==
    \A c \in CallsOf(script) :
        /\ pin # 0 => begun[c][1] <= pin
        /\ cl[c] = "poll" => begun[c] = <<pin, 1>>

\* No caller is told that its call is unknown or a duplicate: unless an outage
\* outlasted its time to live, the outcome waits until its caller has read
\* it (store.py:78-83).
AnswerIsKept == ~outage => \A u \in Users : cl[u] # "protocol"

\* The script that took over shares the worker with no call of its predecessor
\* once its gate is open, but for a request that was still on its way when the
\* script died (hot_restart.py:67-68, 100-102).
TakeOverIsQuiet ==
    cl[Gate] = "success" => \A c \in OldCalls \ late : store[c].st # "pending"

\* Every call ends, without help from a deadline: with a result, or with an error
\* that says why there is none (call.py:108-148).
CallsEnd == \A c \in Calls : (cl[c] \in Active) ~> (cl[c] \notin Active)
-----------------------------------------------------------------------------
(* What the safety properties rest on.                                     *)

\* A request whose sender still waits for it is the only one of its user, and the
\* user has no answer yet; a submit says which incarnation it is meant for.
Requests ==
    /\ \A r \in net :
          /\ r.kind = "idle" <=> r.user = Gate
          /\ script = 1 => r.user \in OldCalls
          /\ r.live => InCall(r.user) /\ r.kind = Kind(r.user) /\ resp[r.user] = Nothing
          /\ r.live /\ r.kind \in {"submit", "poll"} => r.expected = pin
          /\ r.kind = "submit" /\ r.user \in CallsOf(script) => r.expected \in 1 .. pin
    /\ \A r, q \in net :
          r.user = q.user /\ ((r.live /\ q.live) \/ (r.kind = "submit" /\ q.kind = "submit")) => r = q

\* A call begins once, when its one submit is served, and its record is kept by
\* the incarnation that began it.
OneSubmit ==
    \A c \in Calls :
        /\ begun[c] = <<0, 0>> \/ (begun[c][1] \in 1 .. boot /\ begun[c][2] = 1)
        /\ cl[c] \in {"new", "handshake"} \/ (cl[c] = "submit" /\ resp[c] = Nothing)
              => begun[c] = <<0, 0>>
        /\ store[c].st # "none" => up /\ begun[c] = <<boot, 1>>

\* A submit on its way has begun nothing, and its caller will send no other.
Sent ==
    \A r \in net : r.kind = "submit" =>
        /\ begun[r.user] = <<0, 0>>
        /\ cl[r.user] \notin {"new", "handshake"}
        /\ cl[r.user] = "submit" => r.live

\* Only the script that runs has calls on their way, and an answer only while it
\* is waited for and fit for the question.
Fit ==
    /\ \A u \in Users : cl[u] \in Active => u \in Current
    /\ script = 1 => \A u \in NewCalls \cup {Gate} : cl[u] = "new"
    /\ cl[Gate] \notin {"handshake", "submit"}
    /\ \A u \in Users : resp[u] # Nothing =>
          /\ cl[u] \in Active /\ resp[u].from <= boot
          /\ Kind(u) \in {"handshake", "submit"} => resp[u].st \in {"ok", "mismatch"}
          /\ Kind(u) = "poll" => resp[u].st \in {"unknown", "pending", "success", "failed", "mismatch"}
          /\ Kind(u) = "idle" => resp[u].st \in {"idle", "busy", "mismatch"}
          /\ resp[u].st = "unknown" => outage

\* What a handle pinned to an incarnation knows of it.
Pinned ==
    /\ pin <= boot
    /\ \A c \in CallsOf(script) :
          /\ begun[c][1] <= pin
          /\ cl[c] \in {"submit", "poll"} => pin # 0
          /\ cl[c] = "poll" => begun[c] = <<pin, 1>>
          /\ cl[c] = "submit" /\ resp[c].st = "ok" => begun[c] = <<resp[c].from, 1>>

\* Unless an outage outlasted it, the record of a call that its caller still asks
\* for is there as long as the process is.
Kept ==
    ~outage => \A c \in Calls :
        cl[c] \in Active /\ up /\ begun[c] = <<boot, 1>> => store[c].st # "none" /\ ~store[c].aged

\* An answer "idle" that the gate has not read yet still holds.
QuietAnswer ==
    resp[Gate].st = "idle" => \A c \in OldCalls \ late : store[c].st # "pending"

IInv ==
    TypeOK /\ Requests /\ OneSubmit /\ Sent /\ Fit /\ Pinned /\ Kept /\ QuietAnswer
        /\ AnswerIsKept /\ TakeOverIsQuiet
=============================================================================
