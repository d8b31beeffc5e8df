-------------------------- MODULE WorkerRpcProofs --------------------------
(***************************************************************************)
(* The safety of the worker RPC, for any calls of the two scripts, any     *)
(* number of incarnations of the worker and any number of lost or late     *)
(* requests.                                                               *)
(*                                                                         *)
(* And, below, the safety of the session server, for any prompts, texts    *)
(* and chats.  The two share no state.                                     *)
(***************************************************************************)
EXTENDS WorkerRpc, SessionServer, TLAPS, SequenceTheorems, WellFoundedInduction

\* Nobody takes the answer of a request whose sender is gone; the rest of it stays.
LEMMA UnattendedRequest ==
  ASSUME NEW r \in Request
  PROVE  /\ Unattended(r) \in Request
         /\ Unattended(r).user = r.user /\ Unattended(r).kind = r.kind
         /\ Unattended(r).expected = r.expected /\ Unattended(r).live = FALSE
BY DEF Unattended, Request

\* A poll that reads an outcome changes nothing else of its record.
LEMMA ReadRecord ==
  ASSUME NEW s \in [Calls -> Record], NEW c \in Calls, NEW t, t = [s EXCEPT ![c].retrieved = TRUE]
  PROVE  /\ t \in [Calls -> Record] /\ \A d \in Calls \ {c} : t[d] = s[d]
         /\ t[c].st = s[c].st /\ t[c].aged = s[c].aged
<1> DEFINE rec == [s[c] EXCEPT !.retrieved = TRUE]
<1>1. rec \in Record /\ rec.st = s[c].st /\ rec.aged = s[c].aged
  BY DEF Record
<1>2. t = [s EXCEPT ![c] = rec]
  OBVIOUS
<1> HIDE DEF rec
<1> QED BY <1>1, <1>2

\* What serving a request can do: begin the call of a submit, which no store knows
\* yet, or answer without touching what the store says of the calls.
LEMMA ServeCases ==
  ASSUME IInv, NEW r \in net, Serve(r)
  PROVE  \/ /\ r.kind = "submit" /\ r.expected \in {0, boot} /\ r.user \in Calls
            /\ store' = [d \in Calls |-> IF d = r.user THEN Pending
                                         ELSE IF store[d].aged THEN NoRecord ELSE store[d]]
            /\ begun' = [begun EXCEPT ![r.user] = <<boot, 1>>]
            /\ late' = late \cup ({r.user} \ Current)
            /\ resp' = IF r.live THEN [resp EXCEPT ![r.user] = [st |-> "ok", from |-> boot]] ELSE resp
         \/ /\ UNCHANGED <<begun, late>>
            /\ store' \in [Calls -> Record]
            /\ \A d \in Calls : /\ store'[d].st = store[d].st /\ store'[d].aged = store[d].aged
                                /\ store'[d].retrieved => store[d].retrieved \/ store[d].st \in {"success", "failed"}
            /\ \E st \in Answers :
                  /\ resp' = IF r.live THEN [resp EXCEPT ![r.user] = [st |-> st, from |-> boot]] ELSE resp
                  /\ r.kind = "handshake" => st \in {"ok", "mismatch"}
                  /\ r.kind = "submit" => st = "mismatch"
                  /\ r.kind = "idle" => st \in {"busy", "mismatch"} \/ (st = "idle" /\ InFlight = {})
                  /\ r.kind = "poll" => \/ st \in {"pending", "success", "failed", "mismatch"}
                                        \/ /\ st = "unknown" /\ r.expected \in {0, boot}
                                           /\ r.user \in Calls /\ store[r.user].st = "none"
<1> USE CallsAssumption DEF IInv, TypeOK
<1>1. r \in Request /\ (r.kind = "idle" <=> r.user = Gate) /\ (r.kind # "idle" => r.user \in Calls)
  BY DEF Requests, Request, Users
<1>2. CASE r.expected \notin {0, boot}
  BY <1>2 DEF Serve, Answer, Answers
<1>3. CASE r.expected \in {0, boot} /\ r.kind \in {"handshake", "idle"}
  BY <1>3 DEF Serve, Answer, Answers
<1>4. CASE r.expected \in {0, boot} /\ r.kind = "submit"
  <2>1. begun[r.user] = <<0, 0>> /\ store[r.user].st = "none"
    BY <1>1, <1>4 DEF Sent, OneSubmit
  <2>2. Purged[r.user].st = "none"
    BY <1>1, <1>4, <2>1 DEF Purged, IsLive
  <2>3. Answer(r) = <<"ok", [Purged EXCEPT ![r.user] = Pending]>>
    BY <1>4, <2>2 DEF Answer, Submitted
  <2>5. begun' = [begun EXCEPT ![r.user] = <<boot, 1>>]
    BY <1>1, <1>4, <2>1, <2>3 DEF Serve
  <2>6. store' = [Purged EXCEPT ![r.user] = Pending]
    BY <2>3 DEF Serve
  <2>7. store' = [d \in Calls |-> IF d = r.user THEN Pending
                                         ELSE IF store[d].aged THEN NoRecord ELSE store[d]]
    BY <1>1, <1>4, <2>6 DEF Purged, IsLive
  <2>8. /\ late' = late \cup ({r.user} \ Current)
        /\ resp' = IF r.live THEN [resp EXCEPT ![r.user] = [st |-> "ok", from |-> boot]] ELSE resp
    BY <1>4, <2>3 DEF Serve
  <2> QED BY <1>1, <1>4, <2>5, <2>7, <2>8
<1>5. CASE r.expected \in {0, boot} /\ r.kind = "poll"
  <2>1. Answer(r) = Queried(r.user)
    BY <1>5 DEF Answer
  <2>2. CASE store[r.user].st = "none"
    <3>1. Answer(r) = <<"unknown", store>>
      BY <2>1, <2>2 DEF Queried
    <3> QED BY <1>1, <1>5, <2>2, <3>1 DEF Serve, Answers
  <2>3. CASE store[r.user].st = "pending"
    <3>1. Answer(r) = <<"pending", store>>
      BY <2>1, <2>3 DEF Queried
    <3> QED BY <1>1, <1>5, <2>3, <3>1 DEF Serve, Answers
  <2>4. CASE store[r.user].st \in {"success", "failed"}
    <3>1. Answer(r) = <<store[r.user].st, [store EXCEPT ![r.user].retrieved = TRUE]>>
      BY <2>1, <2>4 DEF Queried
    <3>2. store' = [store EXCEPT ![r.user].retrieved = TRUE]
      BY <3>1 DEF Serve
    <3>3. /\ store' \in [Calls -> Record] /\ \A d \in Calls \ {r.user} : store'[d] = store[d]
          /\ store'[r.user].st = store[r.user].st /\ store'[r.user].aged = store[r.user].aged
      BY <1>1, <1>5, <3>2, ReadRecord
    <3>4. \A d \in Calls : /\ store'[d].st = store[d].st /\ store'[d].aged = store[d].aged
                           /\ store'[d].retrieved => store[d].retrieved \/ store[d].st \in {"success", "failed"}
      BY <2>4, <3>3
    <3>5. resp' = IF r.live THEN [resp EXCEPT ![r.user] = [st |-> store[r.user].st, from |-> boot]] ELSE resp
      BY <3>1 DEF Serve
    <3>6. UNCHANGED <<begun, late>>
      BY <1>5 DEF Serve
    <3> QED BY <1>5, <2>4, <3>3, <3>4, <3>5, <3>6 DEF Answers
  <2> QED BY <1>1, <1>5, <2>2, <2>3, <2>4 DEF Record
<1> QED BY <1>1, <1>2, <1>3, <1>4, <1>5 DEF Request, Active

\* A call starts.
LEMMA StartKeeps ==
  ASSUME IInv, NEW c \in Calls, Start(c)
  PROVE  IInv'
<1> USE CallsAssumption DEF IInv, TypeOK, Calls, Users, Active, Record, NoRecord, Nothing, Current, CallsOf, InCall, history
<1>1. TypeOK'
  BY DEF Start
<1>2. Requests'
  BY DEF Start, MayStart, Requests, Fit, Kind
<1>3. OneSubmit'
  BY DEF Start, MayStart, OneSubmit, Sent
<1>4. Sent'
  BY DEF Start, MayStart, Sent, Requests, Request
<1>5. Fit'
  BY DEF Start, MayStart, Fit, Requests, Pinned, Kind
<1>6. Pinned'
  BY DEF Start, MayStart, Pinned, Requests, Fit, Kind
<1>7. Kept'
  BY DEF Start, MayStart, Kept, OneSubmit, Fit
<1>8. QuietAnswer'
  BY DEF Start, QuietAnswer
<1>9. AnswerIsKept'
  BY DEF Start, AnswerIsKept
<1>10. TakeOverIsQuiet'
  BY DEF Start, TakeOverIsQuiet
<1> QED BY <1>1, <1>2, <1>3, <1>4, <1>5, <1>6, <1>7, <1>8, <1>9, <1>10

\* The gate starts to ask.
LEMMA OpenGateKeeps ==
  ASSUME IInv, OpenGate
  PROVE  IInv'
<1> USE CallsAssumption DEF IInv, TypeOK, Calls, Users, Active, Record, NoRecord, Nothing, Current, CallsOf, InCall, history
<1>1. TypeOK'
  BY DEF OpenGate
<1>2. Requests'
  BY DEF OpenGate, Requests, Fit, Kind
<1>3. OneSubmit'
  BY DEF OpenGate, OneSubmit
<1>4. Sent'
  BY DEF OpenGate, Sent, Requests, Request
<1>5. Fit'
  BY DEF OpenGate, Fit, Requests, Pinned, Kind
<1>6. Pinned'
  BY DEF OpenGate, Pinned
<1>7. Kept'
  BY DEF OpenGate, Kept
<1>8. QuietAnswer'
  BY DEF OpenGate, QuietAnswer
<1>9. AnswerIsKept'
  BY DEF OpenGate, AnswerIsKept
<1>10. TakeOverIsQuiet'
  BY DEF OpenGate, TakeOverIsQuiet
<1> QED BY <1>1, <1>2, <1>3, <1>4, <1>5, <1>6, <1>7, <1>8, <1>9, <1>10

\* A request leaves: by Requests and Sent its user has no other one to be served.
LEMMA SendKeeps ==
  ASSUME IInv, NEW u \in Users, Send(u)
  PROVE  IInv'
<1> USE CallsAssumption DEF IInv, TypeOK, Calls, Users, Active, Record, NoRecord, Nothing, Current, CallsOf, InCall, history
<1> DEFINE new == [user |-> u, kind |-> Kind(u), expected |-> pin, live |-> TRUE]
<1>a. /\ net' = net \cup {new} /\ new \in Request
      /\ InCall(u) /\ resp[u] = Nothing /\ \A r \in net : ~(r.user = u /\ r.live)
      /\ UNCHANGED <<boot, up, store, script, pin, cl, resp, timeouts, begun, outage, late>>
  BY DEF Send, Awaits, Expected, Kind, Request
<1>b. new.user = u /\ new.kind = Kind(u) /\ new.expected = pin /\ new.live
  OBVIOUS
<1> HIDE DEF new
<1>1. TypeOK'
  BY <1>a
<1>2. Requests'
  <2>1. ASSUME NEW r \in net' PROVE
          /\ r.kind = "idle" <=> r.user = Gate
          /\ script' = 1 => r.user \in OldCalls
          /\ r.live => InCall(r.user)' /\ r.kind = Kind(r.user)' /\ resp'[r.user] = Nothing
          /\ r.live /\ r.kind \in {"submit", "poll"} => r.expected = pin'
          /\ r.kind = "submit" /\ r.user \in CallsOf(script)' => r.expected \in 1 .. pin'
    BY <1>a, <1>b DEF Requests, Pinned, Kind
  <2>2. \A r \in net : r.user = u => ~(r.live \/ (r.kind = "submit" /\ new.kind = "submit"))
    BY <1>a, <1>b DEF Sent, Kind
  <2>3. ASSUME NEW r \in net', NEW q \in net', r.user = q.user,
               (r.live /\ q.live) \/ (r.kind = "submit" /\ q.kind = "submit")
        PROVE  r = q
    BY <1>a, <1>b, <2>2, <2>3 DEF Requests
  <2> QED BY <2>1, <2>3 DEF Requests
<1>3. OneSubmit'
  BY <1>a DEF OneSubmit
<1>4. Sent'
  <2>1. new.kind = "submit" => /\ cl[u] = "submit" /\ begun[u] = <<0, 0>>
    BY <1>a, <1>b DEF Kind, OneSubmit
  <2> QED BY <1>a, <1>b, <2>1 DEF Sent, Requests
<1>5. Fit'
  BY DEF Send, Kind, Expected, Fit, Requests, Pinned
<1>6. Pinned'
  BY DEF Send, Pinned
<1>7. Kept'
  BY DEF Send, Kept
<1>8. QuietAnswer'
  BY DEF Send, QuietAnswer
<1>9. AnswerIsKept'
  BY DEF Send, AnswerIsKept
<1>10. TakeOverIsQuiet'
  BY DEF Send, TakeOverIsQuiet
<1> QED BY <1>1, <1>2, <1>3, <1>4, <1>5, <1>6, <1>7, <1>8, <1>9, <1>10

\* What a timeout and a deadline have in common.
GivesUp(u) ==
    /\ InCall(u)
    /\ net' \in Abandoned(u)
    /\ resp' = [resp EXCEPT ![u] = Nothing]
    /\ timeouts' \in 0 .. MaxTimeouts
    /\ \A v \in Users \ {u} : cl'[v] = cl[v]
    /\ cl' \in [Users -> {"new"} \cup Active \cup Ended]
    /\ cl'[u] \in {"handshake", "poll", "unreachable", "timeout"}
    /\ cl'[u] \in Active => cl'[u] = cl[u]
    /\ UNCHANGED <<boot, up, store, script, pin, begun, history>>

\* A user gives its request up, which stays on its way unattended or is lost.
LEMMA GivesUpKeeps ==
  ASSUME IInv, NEW u \in Users, GivesUp(u)
  PROVE  IInv'
<1> USE CallsAssumption DEF IInv, TypeOK, Calls, Users, Active, Record, NoRecord, Nothing, Current, CallsOf, InCall, history
<1>a. PICK S \in {{}, {Unattended(r) : r \in {q \in net : q.user = u /\ q.live}}} :
         net' = (net \ {q \in net : q.user = u /\ q.live}) \cup S
  BY DEF GivesUp, Abandoned
<1>b. \A q \in net : /\ Unattended(q) \in Request
                     /\ Unattended(q).user = q.user /\ Unattended(q).kind = q.kind
                     /\ Unattended(q).expected = q.expected /\ Unattended(q).live = FALSE
  BY UnattendedRequest
<1>c. \A r \in net' : \/ r \in net /\ ~(r.user = u /\ r.live)
                      \/ \E q \in net : q.user = u /\ q.live /\ r = Unattended(q)
  BY <1>a
<1>d. /\ InCall(u) /\ UNCHANGED <<boot, up, store, script, pin, begun, outage, late>>
      /\ resp' = [resp EXCEPT ![u] = Nothing]
      /\ timeouts' \in 0 .. MaxTimeouts
      /\ \A v \in Users \ {u} : cl'[v] = cl[v]
      /\ cl' \in [Users -> {"new"} \cup Active \cup Ended]
      /\ cl'[u] \in {"handshake", "poll", "unreachable", "timeout"}
      /\ cl'[u] \in Active => cl'[u] = cl[u]
  BY DEF GivesUp
<1>1. TypeOK'
  <2>1. net' \subseteq Request
    BY <1>b, <1>c
  <2> QED BY <1>d, <2>1 DEF Ended
<1>2. Requests'
  <2>1. ASSUME NEW r \in net' PROVE
          /\ r.kind = "idle" <=> r.user = Gate
          /\ script' = 1 => r.user \in OldCalls
          /\ r.live => InCall(r.user)' /\ r.kind = Kind(r.user)' /\ resp'[r.user] = Nothing
          /\ r.live /\ r.kind \in {"submit", "poll"} => r.expected = pin'
          /\ r.kind = "submit" /\ r.user \in CallsOf(script)' => r.expected \in 1 .. pin'
    <3>1. CASE r \in net /\ ~(r.user = u /\ r.live)
      BY <1>d, <3>1 DEF Requests, Kind
    <3>2. ASSUME NEW q \in net, q.user = u, q.live, r = Unattended(q)
          PROVE  /\ r.kind = "idle" <=> r.user = Gate
                 /\ script' = 1 => r.user \in OldCalls
                 /\ ~r.live
                 /\ r.kind = "submit" /\ r.user \in CallsOf(script)' => r.expected \in 1 .. pin'
      BY <1>b, <1>d, <3>2 DEF Requests
    <3> QED BY <1>c, <3>1, <3>2
  <2>2. ASSUME NEW r \in net', NEW q \in net', r.user = q.user,
               (r.live /\ q.live) \/ (r.kind = "submit" /\ q.kind = "submit")
        PROVE  r = q
    <3>1. CASE r \in net /\ q \in net
      BY <2>2, <3>1 DEF Requests
    <3>2. ASSUME NEW s \in net, s.user = u, s.live, NEW x, NEW y \in net', x = Unattended(s),
                 x.user = y.user, (x.live /\ y.live) \/ (x.kind = "submit" /\ y.kind = "submit")
          PROVE  x = y
      BY <1>b, <1>c, <3>2 DEF Requests
    <3> QED BY <1>c, <2>2, <3>1, <3>2
  <2> QED BY <2>1, <2>2 DEF Requests
<1>3. OneSubmit'
  BY <1>d DEF OneSubmit
<1>4. Sent'
  <2>1. ASSUME NEW r \in net', r.kind = "submit"
        PROVE  /\ begun'[r.user] = <<0, 0>>
               /\ cl'[r.user] \notin {"new", "handshake"}
               /\ cl'[r.user] = "submit" => r.live
    <3>1. CASE r \in net /\ ~(r.user = u /\ r.live)
      <4>1. r.user \in Users /\ begun[r.user] = <<0, 0>> /\ cl[r.user] \notin {"new", "handshake"}
            /\ (cl[r.user] = "submit" => r.live)
        BY <2>1, <3>1 DEF Sent, Request
      <4>2. CASE r.user = u
        BY <1>d, <3>1, <4>1, <4>2
      <4>3. CASE r.user # u
        BY <1>d, <4>1, <4>3
      <4> QED BY <4>2, <4>3
    <3>2. ASSUME NEW q \in net, q.user = u, q.live, r.user = u, q.kind = "submit"
          PROVE  begun[u] = <<0, 0>> /\ cl[u] = "submit"
      BY <3>2 DEF Sent, Requests, Kind
    <3>3. CASE r \notin net \/ (r.user = u /\ r.live)
      <4>1. r.user = u /\ begun[u] = <<0, 0>> /\ cl[u] = "submit"
        BY <1>b, <1>c, <2>1, <3>2, <3>3
      <4> QED BY <1>d, <4>1
    <3> QED BY <3>1, <3>3
  <2> QED BY <2>1 DEF Sent
<1>5. Fit'
  BY <1>d DEF Fit, Kind
<1>6. Pinned'
  BY <1>d DEF Pinned
<1>7. Kept'
  BY <1>d DEF Kept
<1>8. QuietAnswer'
  BY <1>d DEF QuietAnswer
<1>9. AnswerIsKept'
  BY <1>d DEF AnswerIsKept
<1>10. TakeOverIsQuiet'
  BY <1>d DEF TakeOverIsQuiet
<1> QED BY <1>1, <1>2, <1>3, <1>4, <1>5, <1>6, <1>7, <1>8, <1>9, <1>10

\* The request times out.
LEMMA TimeoutKeeps ==
  ASSUME IInv, NEW u \in Users, Timeout(u)
  PROVE  IInv'
<1>1. GivesUp(u)
  BY CallsAssumption DEF Timeout, AfterTimeout, GivesUp, IInv, TypeOK, InCall, Active, Ended
<1> QED BY <1>1, GivesUpKeeps

\* The call's deadline is over.
LEMMA DeadlineKeeps ==
  ASSUME IInv, NEW u \in Users, Deadline(u)
  PROVE  IInv'
<1>1. GivesUp(u)
  BY CallsAssumption DEF Deadline, GivesUp, IInv, TypeOK, Active, Ended
<1> QED BY <1>1, GivesUpKeeps

\* A user reads its answer: a handle without a pin takes the answer's incarnation
\* before any of its calls is submitted.
LEMMA ReceiveKeeps ==
  ASSUME IInv, NEW u \in Users, Receive(u)
  PROVE  IInv'
<1>b. /\ resp[u].st = "unknown" => After(u) = "protocol"
      /\ resp[u].st # "unknown" => After(u) \in {"submit", "poll", "success", "failed", "restarted"}
      /\ resp[u].st = "mismatch" => After(u) = "restarted"
      /\ After(u) = "submit" => cl[u] = "handshake" /\ resp[u].st = "ok"
      /\ After(u) = "poll" => \/ cl[u] = "poll"
                              \/ cl[u] = "submit" /\ resp[u].st = "ok" /\ (pin # 0 => resp[u].from = pin)
      /\ After(u) = "success" /\ u = Gate => resp[u].st = "idle"
  <2>1. cl[u] \in Active /\ (u = Gate => cl[u] = "poll")
    BY DEF Receive, IInv, Fit, Active
  <2>2. /\ cl[u] \in {"handshake", "submit"} => resp[u].st \in {"ok", "mismatch"}
        /\ cl[u] = "poll" /\ u # Gate => resp[u].st \in {"unknown", "pending", "success", "failed", "mismatch"}
        /\ u = Gate => resp[u].st \in {"idle", "busy", "mismatch"}
    BY <2>1 DEF Receive, IInv, Fit, Kind
  <2> QED BY <2>1, <2>2 DEF After, Refused, OnRestart, Active
<1> USE CallsAssumption DEF IInv, TypeOK, Calls, Users, Active, Record, NoRecord, Nothing, Current, CallsOf, InCall, history
<1>a. /\ InCall(u) /\ resp[u] # Nothing /\ resp[u].from \in 1 .. boot
      /\ cl' = [cl EXCEPT ![u] = After(u)]
      /\ resp' = [resp EXCEPT ![u] = Nothing]
      /\ \/ pin' = pin
         \/ pin = 0 /\ pin' = resp[u].from
      /\ UNCHANGED <<boot, up, store, script, net, timeouts, begun, outage, late>>
  BY DEF Receive, Fit, Response
<1>c. /\ After(u) = "submit" => pin' # 0
      /\ u # Gate /\ After(u) = "poll" /\ cl[u] = "submit" => resp[u].from = pin'
  BY <1>a, <1>b DEF Receive, Pinned
<1> HIDE DEF After
<1>1. TypeOK'
  BY <1>a, <1>b, <1>c DEF Ended
<1>2. Requests'
  BY DEF Receive, After, OnRestart, Answers, Requests, OneSubmit, Pinned, Kind
<1>3. OneSubmit'
  BY <1>a, <1>b DEF OneSubmit
<1>4. Sent'
  BY <1>a, <1>b, <1>c DEF Sent, Request
<1>5. Fit'
  BY <1>a, <1>b, <1>c DEF Fit, Kind
<1>6. Pinned'
  <2>1. pin' # pin => \A c \in CallsOf(script) : cl[c] \notin {"submit", "poll"} /\ begun[c][1] = 0
    BY <1>a DEF Pinned
  <2> QED BY <1>a, <1>b, <1>c, <2>1 DEF Pinned, Ended
<1>7. Kept'
  BY <1>a, <1>b, <1>c DEF Kept, Ended
<1>8. QuietAnswer'
  BY <1>a, <1>b, <1>c DEF QuietAnswer
<1>9. AnswerIsKept'
  BY <1>a, <1>b, <1>c DEF AnswerIsKept, Fit
<1>10. TakeOverIsQuiet'
  BY <1>a, <1>b, <1>c DEF TakeOverIsQuiet, QuietAnswer
<1> QED BY <1>1, <1>2, <1>3, <1>4, <1>5, <1>6, <1>7, <1>8, <1>9, <1>10

\* The handle follows the process that answers now, between calls.
LEMMA FollowKeeps ==
  ASSUME IInv, Follow
  PROVE  IInv'
<1> USE CallsAssumption DEF IInv, TypeOK, Calls, Users, Active, Record, NoRecord, Nothing, Current, CallsOf, InCall, history
<1>1. TypeOK'
  BY DEF Follow
<1>2. Requests'
  BY DEF Follow, Requests, OneSubmit, Pinned, Kind
<1>3. OneSubmit'
  BY DEF Follow, OneSubmit
<1>4. Sent'
  BY DEF Follow, Sent
<1>5. Fit'
  BY DEF Follow, Fit
<1>6. Pinned'
  BY DEF Follow, Pinned
<1>7. Kept'
  BY DEF Follow, Kept
<1>8. QuietAnswer'
  BY DEF Follow, QuietAnswer
<1>9. AnswerIsKept'
  BY DEF Follow, AnswerIsKept
<1>10. TakeOverIsQuiet'
  BY DEF Follow, TakeOverIsQuiet
<1> QED BY <1>1, <1>2, <1>3, <1>4, <1>5, <1>6, <1>7, <1>8, <1>9, <1>10

\* The server answers a request.
LEMMA ServeKeeps ==
  ASSUME IInv, NEW r \in net, Serve(r)
  PROVE  IInv'
<1> USE CallsAssumption DEF IInv, TypeOK, Calls, Users, Active, Record, NoRecord, Nothing, Current, CallsOf, InCall, history
<1>1. /\ up /\ r \in net /\ net' = net \ {r} /\ r \in Request
      /\ UNCHANGED <<boot, up, script, pin, cl, timeouts, outage>>
      /\ r.kind = "idle" <=> r.user = Gate
      /\ r.live => InCall(r.user) /\ r.kind = Kind(r.user) /\ resp[r.user] = Nothing
  BY DEF Serve, Requests
\* A submit that is accepted begins its call.
<1>2. CASE /\ r.kind = "submit" /\ r.expected \in {0, boot} /\ r.user \in Calls
           /\ store' = [d \in Calls |-> IF d = r.user THEN Pending
                                        ELSE IF store[d].aged THEN NoRecord ELSE store[d]]
           /\ begun' = [begun EXCEPT ![r.user] = <<boot, 1>>]
           /\ late' = late \cup ({r.user} \ Current)
           /\ resp' = IF r.live THEN [resp EXCEPT ![r.user] = [st |-> "ok", from |-> boot]] ELSE resp
  <2> USE DEF Pending
  <2>a. /\ r.live => cl[r.user] = "submit"
        /\ cl[r.user] \notin {"new", "handshake"} /\ begun[r.user] = <<0, 0>>
        /\ cl[r.user] = "submit" => r.live
    BY <1>1, <1>2 DEF Kind, Sent
  <2>b. /\ \A d \in Calls \ {r.user} : store'[d].st # "none" => store'[d] = store[d]
        /\ store'[r.user] = Pending
    BY <1>2
  <2>c. \A q \in net' : q.kind = "submit" => q.user # r.user
    BY <1>1, <1>2 DEF Requests
  <2>1. TypeOK'
    <3>1. store' \in [Calls -> Record]
      BY <1>2
    <3>2. begun' \in [Calls -> (0 .. MaxBoots) \X (0 .. MaxTimeouts + 1)]
      BY <1>2
    <3>3. resp' \in [Users -> Response \cup {Nothing}]
      BY <1>1, <1>2 DEF Response, Answers
    <3>4. late' \subseteq OldCalls
      <4>1. r.user \in OldCalls \cup Current
        BY <1>1, <1>2 DEF Requests
      <4> QED BY <1>2, <4>1
    <3>5. \A d \in Calls : store'[d].aged \/ store'[d].retrieved => store'[d].st \in {"success", "failed"}
      BY <1>2
    <3> QED BY <1>1, <3>1, <3>2, <3>3, <3>4, <3>5
  <2>2. Requests'
    BY <1>1, <1>2 DEF Requests, Kind
  <2>3. OneSubmit'
    BY <1>1, <1>2, <2>a, <2>b DEF OneSubmit
  <2>4. Sent'
    BY <1>1, <1>2, <2>c DEF Sent, Requests, Request
  <2>5. Fit'
    BY <1>1, <1>2, <2>a DEF Fit, Kind
  <2>6. Pinned'
    BY <1>1, <1>2, <2>a DEF Pinned, Requests
  <2>7. Kept'
    BY <1>1, <1>2, <2>b DEF Kept
  <2>8. QuietAnswer'
    BY <1>1, <1>2, <2>b DEF QuietAnswer, Fit
  <2>9. AnswerIsKept'
    BY <1>1, <1>2 DEF AnswerIsKept
  <2>10. TakeOverIsQuiet'
    BY <1>1, <1>2, <2>b DEF TakeOverIsQuiet, Fit
  <2> QED BY <2>1, <2>2, <2>3, <2>4, <2>5, <2>6, <2>7, <2>8, <2>9, <2>10
\* Every other request leaves what the store says of the calls alone.
<1>3. ASSUME NEW st \in Answers,
             UNCHANGED <<begun, late>>,
             store' \in [Calls -> Record],
             \A d \in Calls : /\ store'[d].st = store[d].st /\ store'[d].aged = store[d].aged
                              /\ store'[d].retrieved => store[d].retrieved \/ store[d].st \in {"success", "failed"},
             resp' = IF r.live THEN [resp EXCEPT ![r.user] = [st |-> st, from |-> boot]] ELSE resp,
             r.kind = "handshake" => st \in {"ok", "mismatch"},
             r.kind = "submit" => st = "mismatch",
             r.kind = "idle" => st \in {"busy", "mismatch"} \/ (st = "idle" /\ InFlight = {}),
             r.kind = "poll" => \/ st \in {"pending", "success", "failed", "mismatch"}
                                \/ /\ st = "unknown" /\ r.expected \in {0, boot}
                                   /\ r.user \in Calls /\ store[r.user].st = "none"
      PROVE  IInv'
  <2>a. resp' \in [Users -> Response \cup {Nothing}]
    BY <1>1, <1>3 DEF Response
  <2>b. \A u \in Users : \/ resp'[u] = resp[u]
                         \/ /\ u = r.user /\ r.live /\ resp'[u] = [st |-> st, from |-> boot]
    BY <1>1, <1>3
  <2>c. st = "unknown" /\ r.live => outage
    <3>1. SUFFICES ASSUME st = "unknown", r.live, ~outage PROVE FALSE
      OBVIOUS
    <3>2. /\ r.kind = "poll" /\ cl[r.user] = "poll" /\ r.user \in Calls /\ r.user \in Current
          /\ r.expected = pin /\ r.expected \in {0, boot} /\ store[r.user].st = "none"
      BY <1>1, <1>3, <3>1 DEF Requests, Kind
    <3>3. pin = boot /\ begun[r.user] = <<boot, 1>>
      BY <3>2 DEF Pinned
    <3> QED BY <1>1, <3>1, <3>2, <3>3 DEF Kept
  <2>1. TypeOK'
    BY <1>1, <1>3, <2>a
  <2>2. Requests'
    BY <1>1, <1>3 DEF Requests, Kind
  <2>3. OneSubmit'
    BY <1>1, <1>3, <2>b DEF OneSubmit
  <2>4. Sent'
    BY <1>1, <1>3 DEF Sent
  <2>5. Fit'
    <3>1. ASSUME NEW u \in Users, resp'[u] # Nothing
          PROVE  /\ cl[u] \in Active /\ resp'[u].from <= boot
                 /\ Kind(u) \in {"handshake", "submit"} => resp'[u].st \in {"ok", "mismatch"}
                 /\ Kind(u) = "poll" => resp'[u].st \in {"unknown", "pending", "success", "failed", "mismatch"}
                 /\ Kind(u) = "idle" => resp'[u].st \in {"idle", "busy", "mismatch"}
                 /\ resp'[u].st = "unknown" => outage
      <4>1. CASE resp'[u] = resp[u]
        BY <3>1, <4>1 DEF Fit
      <4>2. CASE u = r.user /\ r.live /\ resp'[u] = [st |-> st, from |-> boot]
        BY <1>1, <1>3, <2>c, <4>2
      <4> QED BY <2>b, <4>1, <4>2
    <3> QED BY <1>1, <3>1 DEF Fit, Kind
  <2>6. Pinned'
    <3>1. \A c \in Calls : cl[c] = "submit" /\ resp'[c].st = "ok" => resp'[c] = resp[c]
      BY <1>1, <1>3, <2>b DEF Kind
    <3> QED BY <1>1, <1>3, <3>1 DEF Pinned
  <2>7. Kept'
    BY <1>1, <1>3 DEF Kept
  <2>8. QuietAnswer'
    BY <1>1, <1>3, <2>b DEF QuietAnswer, InFlight
  <2>9. AnswerIsKept'
    BY <1>1 DEF AnswerIsKept
  <2>10. TakeOverIsQuiet'
    BY <1>1, <1>3 DEF TakeOverIsQuiet
  <2> QED BY <2>1, <2>2, <2>3, <2>4, <2>5, <2>6, <2>7, <2>8, <2>9, <2>10
<1> QED BY <1>2, <1>3, ServeCases

\* A method ends.
LEMMA FinishKeeps ==
  ASSUME IInv, NEW c \in Calls, Finish(c)
  PROVE  IInv'
<1> USE CallsAssumption DEF IInv, TypeOK, Calls, Users, Active, Record, NoRecord, Nothing, Current, CallsOf, InCall, history
<1>1. TypeOK'
  BY DEF Finish
<1>2. Requests'
  BY DEF Finish, Requests, Fit, Kind
<1>3. OneSubmit'
  BY DEF Finish, OneSubmit
<1>4. Sent'
  BY DEF Finish, Sent
<1>5. Fit'
  BY DEF Finish, Fit, Requests, Pinned, Kind
<1>6. Pinned'
  BY DEF Finish, Pinned
<1>7. Kept'
  BY DEF Finish, Kept
<1>8. QuietAnswer'
  BY DEF Finish, QuietAnswer
<1>9. AnswerIsKept'
  BY DEF Finish, AnswerIsKept
<1>10. TakeOverIsQuiet'
  BY DEF Finish, TakeOverIsQuiet
<1> QED BY <1>1, <1>2, <1>3, <1>4, <1>5, <1>6, <1>7, <1>8, <1>9, <1>10

\* An outcome ages: its caller is held up, or has the outcome.
LEMMA AgeKeeps ==
  ASSUME IInv, NEW c \in Calls, Age(c)
  PROVE  IInv'
<1>a. /\ store' \in [Calls -> Record] /\ \A d \in Calls \ {c} : store'[d] = store[d]
      /\ store'[c].st = store[c].st
  <2> DEFINE rec == [store[c] EXCEPT !.aged = TRUE]
  <2>1. store \in [Calls -> Record] /\ store' = [store EXCEPT ![c] = rec]
    BY DEF Age, IInv, TypeOK
  <2>2. rec \in Record /\ rec.st = store[c].st
    BY <2>1 DEF Record
  <2> HIDE DEF rec
  <2> QED BY <2>1, <2>2
<1> USE CallsAssumption DEF IInv, TypeOK, Calls, Users, Active, Record, NoRecord, Nothing, Current, CallsOf, InCall, history
<1>1. TypeOK'
  <2>1. outage' \in BOOLEAN
    BY DEF Age
  <2>2. \A d \in Calls : store'[d].aged \/ store'[d].retrieved => store'[d].st \in {"success", "failed"}
    BY <1>a DEF Age
  <2> QED BY <1>a, <2>1, <2>2 DEF Age
<1>2. Requests'
  BY DEF Age, Requests, Fit, Kind
<1>3. OneSubmit'
  BY DEF Age, OneSubmit
<1>4. Sent'
  BY DEF Age, Sent
<1>5. Fit'
  BY DEF Age, Fit, Requests, Pinned, Kind
<1>6. Pinned'
  BY DEF Age, Pinned
<1>7. Kept'
  BY DEF Age, Kept, Fit
<1>8. QuietAnswer'
  BY DEF Age, QuietAnswer
<1>9. AnswerIsKept'
  BY DEF Age, AnswerIsKept
<1>10. TakeOverIsQuiet'
  BY DEF Age, TakeOverIsQuiet
<1> QED BY <1>1, <1>2, <1>3, <1>4, <1>5, <1>6, <1>7, <1>8, <1>9, <1>10

\* The process dies with its store.
LEMMA CrashKeeps ==
  ASSUME IInv, Crash
  PROVE  IInv'
<1> USE CallsAssumption DEF IInv, TypeOK, Calls, Users, Active, Record, NoRecord, Nothing, Current, CallsOf, InCall, history
<1>1. TypeOK'
  BY DEF Crash
<1>2. Requests'
  BY DEF Crash, Requests, Fit, Kind
<1>3. OneSubmit'
  BY DEF Crash, OneSubmit
<1>4. Sent'
  BY DEF Crash, Sent
<1>5. Fit'
  BY DEF Crash, Fit, Requests, Pinned, Kind
<1>6. Pinned'
  BY DEF Crash, Pinned
<1>7. Kept'
  BY DEF Crash, Kept
<1>8. QuietAnswer'
  BY DEF Crash, QuietAnswer
<1>9. AnswerIsKept'
  BY DEF Crash, AnswerIsKept
<1>10. TakeOverIsQuiet'
  BY DEF Crash, TakeOverIsQuiet
<1> QED BY <1>1, <1>2, <1>3, <1>4, <1>5, <1>6, <1>7, <1>8, <1>9, <1>10

\* A process without calls comes up.
LEMMA BootKeeps ==
  ASSUME IInv, Boot
  PROVE  IInv'
<1> USE CallsAssumption DEF IInv, TypeOK, Calls, Users, Active, Record, NoRecord, Nothing, Current, CallsOf, InCall, history
<1>1. TypeOK'
  BY DEF Boot
<1>2. Requests'
  BY DEF Boot, Requests, Fit, Kind
<1>3. OneSubmit'
  BY DEF Boot, OneSubmit
<1>4. Sent'
  BY DEF Boot, Sent
<1>5. Fit'
  BY DEF Boot, Fit, Kind, Response
<1>6. Pinned'
  BY DEF Boot, Pinned
<1>7. Kept'
  BY DEF Boot, Kept, OneSubmit, Fit
<1>8. QuietAnswer'
  BY DEF Boot, QuietAnswer
<1>9. AnswerIsKept'
  BY DEF Boot, AnswerIsKept
<1>10. TakeOverIsQuiet'
  BY DEF Boot, TakeOverIsQuiet
<1> QED BY <1>1, <1>2, <1>3, <1>4, <1>5, <1>6, <1>7, <1>8, <1>9, <1>10

\* The successor of the script starts without a pin, and without calls of its own.
LEMMA ScriptDiesKeeps ==
  ASSUME IInv, ScriptDies
  PROVE  IInv'
<1> USE CallsAssumption DEF IInv, TypeOK, Calls, Users, Active, Record, NoRecord, Nothing, Current, CallsOf, InCall, history
<1>a. \A q \in net : /\ Unattended(q) \in Request
                     /\ Unattended(q).user = q.user /\ Unattended(q).kind = q.kind
                     /\ Unattended(q).expected = q.expected /\ Unattended(q).live = FALSE
  BY UnattendedRequest
<1>b. \A r \in net' : \E q \in net : r = Unattended(q)
  BY DEF ScriptDies
<1>c. /\ script = 1 /\ script' = 2 /\ pin' = 0
      /\ \A u \in Users : cl'[u] = IF cl[u] \in Active THEN "timeout" ELSE cl[u]
      /\ resp' = [u \in Users |-> Nothing]
      /\ UNCHANGED <<boot, up, store, timeouts, begun, outage, late>>
      /\ \A u \in NewCalls \cup {Gate} : cl[u] = "new"
  BY DEF ScriptDies, Fit
<1>1. TypeOK'
  <2>1. net' \subseteq Request
    BY <1>a, <1>b
  <2>2. cl' \in [Users -> {"new"} \cup Active \cup Ended]
    BY DEF ScriptDies, Ended
  <2> QED BY <1>c, <2>1, <2>2
<1>2. Requests'
  <2>1. \A r \in net' : r.kind = "submit" => r.user \notin CallsOf(2)
    BY <1>a, <1>b, <1>c DEF Requests
  <2> QED BY <1>a, <1>b, <1>c, <2>1 DEF Requests
<1>3. OneSubmit'
  BY <1>c DEF OneSubmit
<1>4. Sent'
  BY <1>a, <1>b, <1>c DEF Sent, Requests
<1>5. Fit'
  BY DEF ScriptDies, Fit
<1>6. Pinned'
  BY DEF ScriptDies, Ended, Pinned, OneSubmit, Fit, Kind
<1>7. Kept'
  BY DEF ScriptDies, Kept
<1>8. QuietAnswer'
  BY DEF ScriptDies, QuietAnswer
<1>9. AnswerIsKept'
  BY DEF ScriptDies, AnswerIsKept
<1>10. TakeOverIsQuiet'
  BY DEF ScriptDies, TakeOverIsQuiet
<1> QED BY <1>1, <1>2, <1>3, <1>4, <1>5, <1>6, <1>7, <1>8, <1>9, <1>10

\* Nothing happens.
LEMMA StutterKeeps ==
  ASSUME IInv, UNCHANGED vars
  PROVE  IInv'
<1> USE CallsAssumption DEF IInv, TypeOK, Calls, Users, Active, Record, NoRecord, Nothing, Current, CallsOf, InCall, history
<1>1. TypeOK'
  BY DEF vars
<1>2. Requests'
  BY DEF vars, Requests, Fit, Kind
<1>3. OneSubmit'
  BY DEF vars, OneSubmit
<1>4. Sent'
  BY DEF vars, Sent
<1>5. Fit'
  BY DEF vars, Fit, Requests, Pinned, Kind
<1>6. Pinned'
  BY DEF vars, Pinned
<1>7. Kept'
  BY DEF vars, Kept
<1>8. QuietAnswer'
  BY DEF vars, QuietAnswer
<1>9. AnswerIsKept'
  BY DEF vars, AnswerIsKept
<1>10. TakeOverIsQuiet'
  BY DEF vars, TakeOverIsQuiet
<1> QED BY <1>1, <1>2, <1>3, <1>4, <1>5, <1>6, <1>7, <1>8, <1>9, <1>10

\* Every step keeps the invariant.
LEMMA Step == IInv /\ [Next]_vars => IInv'
<1> SUFFICES ASSUME IInv, [Next]_vars PROVE IInv'
  OBVIOUS
<1>1. ASSUME NEW c \in Calls, Start(c) PROVE IInv'
  BY <1>1, StartKeeps
<1>2. ASSUME OpenGate PROVE IInv'
  BY <1>2, OpenGateKeeps
<1>3. ASSUME NEW u \in Users, Send(u) PROVE IInv'
  BY <1>3, SendKeeps
<1>4. ASSUME NEW u \in Users, Timeout(u) PROVE IInv'
  BY <1>4, TimeoutKeeps
<1>5. ASSUME NEW u \in Users, Deadline(u) PROVE IInv'
  BY <1>5, DeadlineKeeps
<1>6. ASSUME NEW u \in Users, Receive(u) PROVE IInv'
  BY <1>6, ReceiveKeeps
<1>7. ASSUME Follow PROVE IInv'
  BY <1>7, FollowKeeps
<1>8. ASSUME NEW r \in net, Serve(r) PROVE IInv'
  BY <1>8, ServeKeeps
<1>9. ASSUME NEW c \in Calls, Finish(c) PROVE IInv'
  BY <1>9, FinishKeeps
<1>10. ASSUME NEW c \in Calls, Age(c) PROVE IInv'
  BY <1>10, AgeKeeps
<1>11. ASSUME Crash PROVE IInv'
  BY <1>11, CrashKeeps
<1>12. ASSUME Boot PROVE IInv'
  BY <1>12, BootKeeps
<1>13. ASSUME ScriptDies PROVE IInv'
  BY <1>13, ScriptDiesKeeps
<1>14. ASSUME UNCHANGED vars PROVE IInv'
  BY <1>14, StutterKeeps
<1> QED BY <1>1, <1>2, <1>3, <1>4, <1>5, <1>6, <1>7, <1>8, <1>9, <1>10, <1>11, <1>12, <1>13, <1>14 DEF Next, ClientStep, ServerStep

\* Nothing has been submitted.
LEMMA InitIInv == Init => IInv
<1> SUFFICES ASSUME Init PROVE IInv
  OBVIOUS
<1> USE CallsAssumption DEF Init, IInv, Calls, Users, Nothing, NoRecord
<1>1. TypeOK
  <2>1. boot \in 1 .. MaxBoots /\ pin \in 0 .. MaxBoots /\ timeouts \in 0 .. MaxTimeouts
    OBVIOUS
  <2>2. store \in [Calls -> Record] /\ \A c \in Calls : ~store[c].aged /\ ~store[c].retrieved
    BY DEF Record
  <2>3. begun \in [Calls -> (0 .. MaxBoots) \X (0 .. MaxTimeouts + 1)]
    OBVIOUS
  <2>4. cl \in [Users -> {"new"} \cup Active \cup Ended] /\ resp \in [Users -> Response \cup {Nothing}]
    OBVIOUS
  <2> QED BY <2>1, <2>2, <2>3, <2>4 DEF TypeOK
<1>2. Requests /\ Sent /\ Kept /\ QuietAnswer
  BY DEF Requests, Sent, Kept, QuietAnswer
<1>3. OneSubmit /\ Pinned /\ Fit
  BY DEF OneSubmit, Pinned, Fit, Active, CallsOf
<1>4. AnswerIsKept /\ TakeOverIsQuiet
  BY DEF AnswerIsKept, TakeOverIsQuiet
<1> QED BY <1>1, <1>2, <1>3, <1>4

\* The inductive invariant holds of every behaviour of the two scripts and the worker.
THEOREM WorkerRpcInvariant == Spec => []IInv
<1> QED BY InitIInv, Step, PTL DEF Spec

\* A worker method runs at most once per call: submit() sends a second request only
\* when the first never reached the server (call.py:82-106), so no incarnation, the
\* one that lost its store included, is asked to begin a call a second time.
THEOREM CallRunsAtMostOnce == Spec => []AtMostOnce
<1>1. IInv => AtMostOnce
  BY DEF IInv, OneSubmit, AtMostOnce
<1> QED BY <1>1, WorkerRpcInvariant, PTL

\* A call runs in the incarnation its handle is pinned to or in none, and a caller
\* polls the process that runs its call (misc.py:125-137, app.py:51).
THEOREM CallRunsWherePinned == Spec => []RunsWherePinned
<1>1. IInv => RunsWherePinned
  BY CallsAssumption DEF IInv, TypeOK, Pinned, RunsWherePinned, CallsOf
<1> QED BY <1>1, WorkerRpcInvariant, PTL

\* Unless an outage outlasts an outcome's time to live, no caller is told that its
\* call is unknown (store.py:78-83).
THEOREM AnswerWaitsForItsCaller == Spec => []AnswerIsKept
<1>1. IInv => AnswerIsKept
  BY DEF IInv
<1> QED BY <1>1, WorkerRpcInvariant, PTL

\* Once the gate of the script that took over is open, the worker runs no call of
\* the script that died (hot_restart.py:58-70), but for a submit that was on its way.
THEOREM TakeOverSharesNothing == Spec => []TakeOverIsQuiet
<1>1. IInv => TakeOverIsQuiet
  BY DEF IInv
<1> QED BY <1>1, WorkerRpcInvariant, PTL

-----------------------------------------------------------------------------
(* The session server: what sequences, their flattening and numbers offer. *)

\* A set of numbers that is not empty has a smallest one.
LEMMA Smallest ==
  ASSUME NEW S \in SUBSET Nat, S # {}
  PROVE  \E x \in S : \A y \in S : x <= y
<1>1. \E R : IsWellFoundedOn(R, Nat) /\ \A p, q \in Nat : p < q => <<p, q>> \in R
  <2>1. \A p, q \in Nat : p < q => <<p, q>> \in OpToRel(<, Nat)
    BY DEF OpToRel
  <2> QED BY <2>1, NatLessThanWellFounded, Zenon
<1>2. PICK R : IsWellFoundedOn(R, Nat) /\ \A p, q \in Nat : p < q => <<p, q>> \in R
  BY <1>1
<1>3. IsWellFoundedOn(R, Nat) /\ S \subseteq Nat
  BY <1>2
<1>4. PICK x \in S : \A y \in S : ~(<<y, x>> \in R)
  BY <1>3, WFMin, Zenon
<1>5. \A y \in S : x \in Nat /\ y \in Nat /\ ~(y < x)
  BY <1>2, <1>3, <1>4, Zenon
<1> QED
  BY <1>5

\* And a largest one, if it is bounded.
LEMMA Largest ==
  ASSUME NEW S \in SUBSET Nat, S # {}, NEW n \in Nat, \A y \in S : y <= n
  PROVE  Max(S) \in S /\ \A y \in S : y <= Max(S)
<1> DEFINE T == {n - y : y \in S}
<1>1. PICK t \in T : \A u \in T : t <= u
  <2>1. \A y \in S : y \in Nat /\ n - y \in Nat
    OBVIOUS
  <2>2. T \in SUBSET Nat
    BY <2>1
  <2>3. T # {}
    OBVIOUS
  <2> HIDE DEF T
  <2> QED BY <2>2, <2>3, Smallest
<1>2. PICK x \in S : t = n - x
  BY <1>1
<1>3. \A y \in S : x \in Nat /\ y \in Nat /\ n - x <= n - y
  BY <1>1, <1>2
<1>4. \A y \in S : x >= y
  BY <1>3
<1>5. \A y \in S : Max(S) >= y
  BY <1>4, Zenon DEF Max
<1>6. Max(S) \in S
  BY <1>4, Zenon DEF Max
<1>7. Max(S) \in Nat
  BY <1>6
<1> QED
  BY <1>5, <1>6, <1>7

-----------------------------------------------------------------------------
(* Flattening. *)

\* g[i] is the concatenation of the first i members of seqs.
Flattens(g, seqs) ==
    /\ DOMAIN g = 1 .. Len(seqs)
    /\ \A i \in 1 .. Len(seqs) : g[i] = IF i = 1 THEN seqs[i] ELSE g[i - 1] \o seqs[i]

\* FlattenSeq is the last of them.
LEMMA FlattenBy ==
  ASSUME NEW S, NEW seqs \in Seq(Seq(S)), Len(seqs) # 0,
         NEW g, g = [i \in 1 .. Len(seqs) |-> g[i]], Flattens(g, seqs)
  PROVE  FlattenSeq(seqs) = g[Len(seqs)]
<1> DEFINE n == Len(seqs)
           F(f) == [i \in 1 .. n |-> IF i = 1 THEN seqs[i] ELSE f[i - 1] \o seqs[i]]
           fl == CHOOSE f : f = F(f)
<1>0. n \in Nat
  BY LenProperties
<1>1. FlattenSeq(seqs) = fl[n]
  BY DEF FlattenSeq
<1>2. g = F(g)
  BY DEF Flattens
<1>3. fl = F(fl)
  BY <1>2, Zenon
<1> HIDE DEF fl
<1>4. \A i \in 1 .. n : fl[i] = IF i = 1 THEN seqs[i] ELSE fl[i - 1] \o seqs[i]
  BY <1>3
<1> DEFINE Bad == {i \in 1 .. n : fl[i] # g[i]}
<1>5. Bad = {}
  <2> SUFFICES ASSUME Bad # {} PROVE FALSE
    OBVIOUS
  <2>1. Bad \in SUBSET Nat
    OBVIOUS
  <2>2. PICK i \in Bad : \A j \in Bad : i <= j
    <3> HIDE DEF Bad
    <3> QED BY <2>1, Smallest
  <2>3. i \in 1 .. n /\ fl[i] # g[i]
    BY <2>2
  <2>4. CASE i = 1
    BY <2>3, <2>4, <1>4 DEF Flattens
  <2>5. CASE i # 1
    <3>1. i - 1 \in 1 .. n /\ ~(i <= i - 1)
      BY <2>3, <2>5, <1>0
    <3>2. fl[i - 1] = g[i - 1]
      BY <3>1, <2>2
    <3>3. fl[i] = fl[i - 1] \o seqs[i]
      BY <2>3, <2>5, <1>4
    <3>4. g[i] = g[i - 1] \o seqs[i]
      BY <2>3, <2>5 DEF Flattens
    <3> QED
      BY <3>2, <3>3, <3>4, <2>3
  <2> QED BY <2>4, <2>5
<1>6. n \in 1 .. n
  BY <1>0
<1>7. fl[n] = g[n]
  BY <1>5, <1>6
<1> QED
  BY <1>1, <1>7

\* There is such a g, of sequences.
LEMMA SomeFlattens ==
  ASSUME NEW S, NEW seqs \in Seq(Seq(S))
  PROVE  \E g \in [1 .. Len(seqs) -> Seq(S)] : Flattens(g, seqs)
<1> DEFINE Exists(n) == \E g \in [1 .. n -> Seq(S)] :
                         \A i \in 1 .. n : g[i] = IF i = 1 THEN seqs[i] ELSE g[i - 1] \o seqs[i]
           Bad == {n \in 0 .. Len(seqs) : ~Exists(n)}
<1>0. Len(seqs) \in Nat /\ \A i \in 1 .. Len(seqs) : seqs[i] \in Seq(S)
  BY LenProperties, ElementOfSeq
<1>1. Bad = {}
  <2> SUFFICES ASSUME Bad # {} PROVE FALSE
    OBVIOUS
  <2>1. Bad \in SUBSET Nat
    BY <1>0
  <2>2. PICK n \in Bad : \A j \in Bad : n <= j
    <3> HIDE DEF Bad
    <3> QED BY <2>1, Smallest
  <2>3. n \in 0 .. Len(seqs) /\ ~Exists(n)
    BY <2>2
  <2>4. CASE n = 0
    <3>1. Exists(0)
      <4> DEFINE e == [i \in 1 .. 0 |-> <<>>]
      <4>1. e \in [1 .. 0 -> Seq(S)]
        OBVIOUS
      <4>2. \A i \in 1 .. 0 : e[i] = IF i = 1 THEN seqs[i] ELSE e[i - 1] \o seqs[i]
        OBVIOUS
      <4> HIDE DEF e
      <4> QED BY <4>1, <4>2
    <3> QED BY <3>1, <2>3, <2>4
  <2>5. CASE n # 0
    <3>1. n \in Nat \ {0} /\ n - 1 \in 0 .. Len(seqs) /\ ~(n <= n - 1)
      BY <2>3, <2>5, <1>0
    <3>2. Exists(n - 1)
      BY <3>1, <2>2
    <3>3. PICK g \in [1 .. (n - 1) -> Seq(S)] :
             \A i \in 1 .. (n - 1) : g[i] = IF i = 1 THEN seqs[i] ELSE g[i - 1] \o seqs[i]
      BY <3>2
    <3> DEFINE new == IF n = 1 THEN seqs[n] ELSE g[n - 1] \o seqs[n]
               f == [i \in 1 .. n |-> IF i = n THEN new ELSE g[i]]
    <3>4. new \in Seq(S)
      <4>1. seqs[n] \in Seq(S)
        BY <1>0, <2>3, <3>1
      <4>2. n # 1 => g[n - 1] \in Seq(S)
        BY <3>1, <3>3
      <4> QED BY <4>1, <4>2, ConcatProperties
    <3>5. \A i \in 1 .. n : i # n => i \in 1 .. (n - 1)
      BY <3>1
    <3>6. f \in [1 .. n -> Seq(S)]
      BY <3>3, <3>4, <3>5
    <3>7. \A i \in 1 .. n : f[i] = IF i = 1 THEN seqs[i] ELSE f[i - 1] \o seqs[i]
      <4> SUFFICES ASSUME NEW i \in 1 .. n PROVE f[i] = IF i = 1 THEN seqs[i] ELSE f[i - 1] \o seqs[i]
        OBVIOUS
      <4>1. i # 1 => i - 1 \in 1 .. n /\ i - 1 # n /\ f[i - 1] = g[i - 1]
        BY <3>1
      <4>2. f[i] = IF i = n THEN new ELSE g[i]
        OBVIOUS
      <4>3. i # n => g[i] = IF i = 1 THEN seqs[i] ELSE g[i - 1] \o seqs[i]
        BY <3>3, <3>5
      <4> QED BY <4>1, <4>2, <4>3
    <3> HIDE DEF f
    <3>8. Exists(n)
      BY <3>6, <3>7
    <3> QED BY <3>8, <2>3
  <2> QED BY <2>4, <2>5
<1>2. Exists(Len(seqs))
  <2>1. Len(seqs) \in 0 .. Len(seqs)
    BY <1>0
  <2> HIDE DEF Exists
  <2> QED BY <1>1, <2>1
<1> QED
  BY <1>2, Zenon DEF Flattens

\* Flattening gives a sequence, and goes on from what it gives for a shorter one.
LEMMA FlattenAppend ==
  ASSUME NEW S, NEW seqs \in Seq(Seq(S)), NEW s \in Seq(S)
  PROVE  FlattenSeq(Append(seqs, s)) = FlattenSeq(seqs) \o s /\ FlattenSeq(seqs) \in Seq(S)
<1> DEFINE n == Len(seqs)
           more == Append(seqs, s)
<1>1. /\ n \in Nat /\ more \in Seq(Seq(S)) /\ Len(more) = n + 1 /\ more[n + 1] = s
      /\ \A i \in 1 .. n : more[i] = seqs[i]
  BY AppendProperties, LenProperties
<1>2. PICK g \in [1 .. n -> Seq(S)] : Flattens(g, seqs)
  BY SomeFlattens
<1> DEFINE f == [i \in 1 .. (n + 1) |-> IF i <= n THEN g[i] ELSE IF n = 0 THEN s ELSE g[n] \o s]
<1>3. Flattens(f, more)
  <2> SUFFICES ASSUME NEW i \in 1 .. (n + 1)
               PROVE  f[i] = IF i = 1 THEN more[i] ELSE f[i - 1] \o more[i]
    BY <1>1 DEF Flattens
  <2>1. CASE i <= n
    <3>1. i \in 1 .. n /\ f[i] = g[i] /\ more[i] = seqs[i]
      BY <1>1, <2>1
    <3>2. i # 1 => f[i - 1] = g[i - 1]
      BY <1>1, <2>1
    <3> QED BY <3>1, <3>2, <1>2 DEF Flattens
  <2>2. CASE i = n + 1
    <3>1. f[i] = IF n = 0 THEN s ELSE g[n] \o s
      BY <1>1, <2>2
    <3>2. n # 0 => i - 1 = n /\ f[n] = g[n]
      BY <1>1, <2>2
    <3> QED BY <3>1, <3>2, <1>1, <2>2
  <2> QED BY <2>1, <2>2, <1>1
<1>4. f = [i \in 1 .. Len(more) |-> f[i]]
  BY <1>1
<1> HIDE DEF f, more
<1>5. FlattenSeq(more) = f[n + 1]
  BY <1>1, <1>3, <1>4, Len(more) # 0, FlattenBy
<1>6. f[n + 1] = IF n = 0 THEN s ELSE g[n] \o s
  BY <1>1 DEF f
<1>7. CASE n = 0
  <2>1. FlattenSeq(seqs) = <<>>
    <3>1. seqs = <<>>
      BY <1>7, EmptySeq
    <3> QED BY <1>7, <3>1 DEF FlattenSeq
  <2> QED BY <2>1, <1>5, <1>6, <1>7, ConcatEmptySeq, EmptySeq DEF more
<1>8. CASE n # 0
  <2>1. g = [i \in 1 .. Len(seqs) |-> g[i]]
    OBVIOUS
  <2>2. FlattenSeq(seqs) = g[n]
    BY <2>1, <1>2, <1>8, FlattenBy
  <2>3. g[n] \in Seq(S)
    BY <1>1, <1>8, n \in 1 .. n
  <2> QED BY <2>2, <2>3, <1>5, <1>6, <1>8 DEF more
<1> QED BY <1>7, <1>8

\* Flattening nothing.
LEMMA FlattenEmpty == FlattenSeq(<<>>) = <<>>
BY EmptySeq DEF FlattenSeq

\* Flattening one sequence.
LEMMA FlattenOne ==
  ASSUME NEW S, NEW s \in Seq(S)
  PROVE  FlattenSeq(<<s>>) = s
<1>1. <<>> \in Seq(Seq(S)) /\ <<s>> = Append(<<>>, s)
  BY EmptySeq
<1>2. FlattenSeq(Append(<<>>, s)) = FlattenSeq(<<>>) \o s
  BY <1>1, FlattenAppend
<1> QED
  BY <1>1, <1>2, FlattenEmpty, ConcatEmptySeq

\* Two sequences with the same members.
LEMMA SameSequence ==
  ASSUME NEW S, NEW s \in Seq(S), NEW t \in Seq(S), Len(s) = Len(t), \A i \in 1 .. Len(s) : s[i] = t[i]
  PROVE  s = t
BY SeqEqual

\* The tokens of a reply, and what they become when the conversation goes on.
LEMMA CompletionTokens ==
  ASSUME NEW text \in Contents
  PROVE  /\ Completion(text) \in Seq(TokenSet) /\ Len(Completion(text)) = 2
         /\ Completion(text)[1] = text /\ Completion(text)[2] = "stop"
<1>1. text \in TokenSet /\ "stop" \in TokenSet
  BY DEF TokenSet, Messages
<1> QED
  BY <1>1 DEF Completion

\* A turn that goes on keeps its length and all of its tokens but the last.
LEMMA ContinuedTokens ==
  ASSUME NEW toks \in Seq(TokenSet)
  PROVE  /\ Continued(toks) \in Seq(TokenSet) /\ Len(Continued(toks)) = Len(toks)
         /\ \A i \in 1 .. Len(toks) : Continued(toks)[i] = IF Trim = 1 /\ i = Len(toks) THEN "delim" ELSE toks[i]
<1> DEFINE n == Len(toks)
<1>0. n \in Nat /\ \A i \in 1 .. n : toks[i] \in TokenSet
  BY LenProperties, ElementOfSeq
<1>1. CASE ~(Trim = 1 /\ toks # <<>>)
  <2>1. toks = <<>> => n = 0
    BY EmptySeq
  <2> QED BY <1>0, <1>1, <2>1 DEF Continued
<1>2. CASE Trim = 1 /\ toks # <<>>
  <2>1. n \in Nat \ {0}
    BY <1>2, EmptySeq
  <2> DEFINE f == SubSeq(toks, 1, n - 1)
  <2>2. f \in Seq(TokenSet) /\ Len(f) = n - 1 /\ \A i \in 1 .. (n - 1) : f[i] = toks[i]
    <3> DEFINE m == n - 1
    <3>1. m \in Int /\ m \in Nat /\ \A i \in 1 .. m : toks[i] \in TokenSet
      BY <1>0, <2>1
    <3> HIDE DEF m
    <3>2. /\ SubSeq(toks, 1, m) \in Seq(TokenSet)
          /\ Len(SubSeq(toks, 1, m)) = IF 1 <= m THEN m - 1 + 1 ELSE 0
          /\ \A i \in 1 .. (m - 1 + 1) : SubSeq(toks, 1, m)[i] = toks[1 + i - 1]
      BY <3>1, SubSeqProperties
    <3>3. Len(SubSeq(toks, 1, m)) = m /\ \A i \in 1 .. m : SubSeq(toks, 1, m)[i] = toks[i]
      BY <3>1, <3>2
    <3> QED BY <3>2, <3>3 DEF m
  <2>3. <<"delim">> \in Seq(TokenSet) /\ Len(<<"delim">>) = 1 /\ <<"delim">>[1] = "delim"
    BY DEF TokenSet
  <2>4. Continued(toks) = f \o <<"delim">>
    BY <1>2 DEF Continued, Front
  <2> HIDE DEF f
  <2> DEFINE d == <<"delim">>
  <2> HIDE DEF d
  <2>5. /\ f \o d \in Seq(TokenSet) /\ Len(f \o d) = n
        /\ \A i \in 1 .. n : (f \o d)[i] = IF i <= n - 1 THEN f[i] ELSE d[i - (n - 1)]
    BY <2>1, <2>2, <2>3, ConcatProperties DEF d
  <2>6. \A i \in 1 .. n : (f \o d)[i] = IF i = n THEN "delim" ELSE toks[i]
    BY <2>1, <2>2, <2>3, <2>5 DEF d
  <2> QED BY <1>2, <2>4, <2>5, <2>6 DEF d
<1> QED BY <1>1, <1>2

\* Only the last token of a history is trimmed.
LEMMA ContinuedConcat ==
  ASSUME NEW a \in Seq(TokenSet), NEW b \in Seq(TokenSet), Len(b) # 0
  PROVE  Continued(a \o b) = a \o Continued(b)
<1>0. Len(a) \in Nat /\ Len(b) \in Nat
  BY LenProperties
<1> DEFINE ab == a \o b
           l == Continued(ab)
           c == Continued(b)
           r == a \o c
<1>1. /\ ab \in Seq(TokenSet) /\ Len(ab) = Len(a) + Len(b)
      /\ \A i \in 1 .. Len(a) + Len(b) : ab[i] = IF i <= Len(a) THEN a[i] ELSE b[i - Len(a)]
  BY ConcatProperties
<1> HIDE DEF ab
<1>2. /\ l \in Seq(TokenSet) /\ Len(l) = Len(a) + Len(b)
      /\ \A i \in 1 .. Len(a) + Len(b) : l[i] = IF Trim = 1 /\ i = Len(a) + Len(b) THEN "delim" ELSE ab[i]
  <2>1. /\ l \in Seq(TokenSet) /\ Len(l) = Len(ab)
        /\ \A i \in 1 .. Len(ab) : l[i] = IF Trim = 1 /\ i = Len(ab) THEN "delim" ELSE ab[i]
    BY <1>1, ContinuedTokens
  <2> QED BY <1>1, <2>1
<1>3. /\ c \in Seq(TokenSet) /\ Len(c) = Len(b)
      /\ \A i \in 1 .. Len(b) : c[i] = IF Trim = 1 /\ i = Len(b) THEN "delim" ELSE b[i]
  BY ContinuedTokens
<1> HIDE DEF l, c
<1>4. /\ r \in Seq(TokenSet) /\ Len(r) = Len(a) + Len(b)
      /\ \A i \in 1 .. Len(a) + Len(b) : r[i] = IF i <= Len(a) THEN a[i] ELSE c[i - Len(a)]
  <2>1. /\ r \in Seq(TokenSet) /\ Len(r) = Len(a) + Len(c)
        /\ \A i \in 1 .. Len(a) + Len(c) : r[i] = IF i <= Len(a) THEN a[i] ELSE c[i - Len(a)]
    BY <1>3, ConcatProperties
  <2> QED BY <1>3, <2>1
<1> HIDE DEF r
<1>5. \A i \in 1 .. Len(a) + Len(b) : l[i] = r[i]
  <2> SUFFICES ASSUME NEW i \in 1 .. Len(a) + Len(b) PROVE l[i] = r[i]
    OBVIOUS
  <2>1. CASE i <= Len(a)
    BY <2>1, <1>0, <1>1, <1>2, <1>4
  <2>2. CASE ~(i <= Len(a))
    <3>1. i - Len(a) \in 1 .. Len(b) /\ (i = Len(a) + Len(b) <=> i - Len(a) = Len(b))
      BY <2>2, <1>0
    <3>2. c[i - Len(a)] = IF Trim = 1 /\ i - Len(a) = Len(b) THEN "delim" ELSE b[i - Len(a)]
      BY <3>1, <1>3
    <3> QED BY <2>2, <3>1, <3>2, <1>1, <1>2, <1>4
  <2> QED BY <2>1, <2>2
<1>6. l = r
  BY <1>2, <1>4, <1>5, SameSequence
<1> QED BY <1>6 DEF l, r, c, ab

-----------------------------------------------------------------------------
(* Rendering and the canonical tokens of a history. *)

\* The prompt of a turn is a sequence of tokens.
LEMMA RenderedTokens ==
  ASSUME SessionTypeOK, NEW k \in 0 .. Len(turns), NEW request \in Seq(Messages)
  PROVE  Rendered(k, request) \in Seq(TokenSet)
<1> DEFINE base == IF k = 0 THEN <<>> ELSE turns[k].tokens
           suffix == SubSeq(request, End(k) + 1, Len(request))
           rendered(msg) == IF msg \in Prompts THEN <<msg>> ELSE Continued(Completion(msg))
           pieces == [i \in 1 .. Len(suffix) |-> rendered(suffix[i])]
<1>1. base \in Seq(TokenSet) /\ End(k) \in Nat
  <2>1. k # 0 => k \in 1 .. Len(turns)
    BY LenProperties DEF SessionTypeOK
  <2>2. k # 0 => turns[k] \in Turn
    BY <2>1, ElementOfSeq DEF SessionTypeOK
  <2> QED BY <2>2, EmptySeq DEF Turn, End
<1>2. suffix \in Seq(Messages) /\ Len(suffix) \in Nat
  <2>1. Len(request) \in Nat /\ \A i \in 1 .. Len(request) : request[i] \in Messages
    BY LenProperties, ElementOfSeq
  <2>2. suffix \in Seq(Messages)
    BY <1>1, <2>1, SubSeqProperties
  <2> QED BY <2>2, LenProperties
<1>3. \A msg \in Messages : rendered(msg) \in Seq(TokenSet)
  <2> SUFFICES ASSUME NEW msg \in Messages PROVE rendered(msg) \in Seq(TokenSet)
    OBVIOUS
  <2>1. CASE msg \in Prompts
    BY <2>1 DEF TokenSet, Messages
  <2>2. CASE msg \notin Prompts
    BY <2>2, CompletionTokens, ContinuedTokens DEF Messages
  <2> QED BY <2>1, <2>2
<1>4. pieces \in Seq(Seq(TokenSet))
  <2>1. \A i \in 1 .. Len(suffix) : suffix[i] \in Messages
    BY <1>2, ElementOfSeq
  <2> HIDE DEF rendered, suffix
  <2>2. pieces \in [1 .. Len(suffix) -> Seq(TokenSet)]
    BY <1>3, <2>1
  <2> QED BY <1>2, <2>2, SeqDef
<1>5. FlattenSeq(pieces) \in Seq(TokenSet)
  <2> HIDE DEF pieces
  <2> QED BY <1>4, FlattenAppend, EmptySeq
<1>6. Continued(base) \in Seq(TokenSet)
  BY <1>1, ContinuedTokens
<1>7. Rendered(k, request) = Continued(base) \o FlattenSeq(pieces)
  BY DEF Rendered
<1> HIDE DEF base, pieces
<1> QED
  BY <1>5, <1>6, <1>7, ConcatProperties

\* A request that adds one prompt to the history of its checkpoint.
LEMMA RenderedPrompt ==
  ASSUME SessionTypeOK, NEW k \in 0 .. Len(turns), NEW request \in Seq(Messages),
         Len(request) = End(k) + 1, request[End(k) + 1] \in Prompts
  PROVE  Rendered(k, request) = Continued(IF k = 0 THEN <<>> ELSE turns[k].tokens) \o <<request[End(k) + 1]>>
<1> DEFINE suffix == SubSeq(request, End(k) + 1, Len(request))
           p == request[End(k) + 1]
           rendered(msg) == IF msg \in Prompts THEN <<msg>> ELSE Continued(Completion(msg))
           pieces == [i \in 1 .. Len(suffix) |-> rendered(suffix[i])]
<1>1. End(k) \in Nat
  <2>1. k # 0 => k \in 1 .. Len(turns)
    BY LenProperties DEF SessionTypeOK
  <2>2. k # 0 => turns[k] \in Turn
    BY <2>1, ElementOfSeq DEF SessionTypeOK
  <2> QED BY <2>2 DEF Turn, End
<1>2. Len(suffix) = 1 /\ suffix[1] = p
  <2>1. Len(request) \in Nat /\ \A i \in 1 .. Len(request) : request[i] \in Messages
    BY LenProperties, ElementOfSeq
  <2>2. \A i \in (End(k) + 1) .. Len(request) : request[i] \in Messages
    BY <1>1, <2>1
  <2>3. /\ Len(suffix) = IF End(k) + 1 <= Len(request) THEN Len(request) - (End(k) + 1) + 1 ELSE 0
        /\ \A i \in 1 .. Len(request) - (End(k) + 1) + 1 : suffix[i] = request[(End(k) + 1) + i - 1]
    <3>1. End(k) + 1 \in Int /\ Len(request) \in Int
      BY <1>1, <2>1
    <3> QED BY <2>2, <3>1, SubSeqProperties
  <2>4. 1 \in 1 .. Len(request) - (End(k) + 1) + 1 /\ (End(k) + 1) + 1 - 1 = End(k) + 1
    BY <1>1
  <2> HIDE DEF suffix
  <2>5. Len(request) - (End(k) + 1) + 1 = 1 /\ End(k) + 1 <= Len(request)
    BY <1>1
  <2> QED BY <2>3, <2>4, <2>5 DEF p
<1>3. pieces = << <<p>> >>
  <2> HIDE DEF suffix, p
  <2>1. p \in Prompts
    BY DEF p
  <2> QED BY <1>2, <2>1
<1>4. FlattenSeq(pieces) = <<p>>
  <2>1. <<p>> \in Seq(Prompts)
    OBVIOUS
  <2> QED BY <1>3, <2>1, FlattenOne
<1> QED
  BY <1>4 DEF Rendered

\* The pieces a history is tokenized to.
Pieces(msgs) ==
    [i \in 1 .. Len(msgs) |-> IF msgs[i] \in Contents /\ i < Len(msgs)
                              THEN Continued(Completion(msgs[i])) ELSE Tokens(msgs[i])]

\* They make up the canonical tokens.
LEMMA CanonicalIsFlat == \A msgs : Canonical(msgs) = FlattenSeq(Pieces(msgs))
BY DEF Canonical, Pieces

\* They are sequences of tokens, one for each message.
LEMMA PiecesAreTokens ==
  ASSUME NEW msgs \in Seq(Messages)
  PROVE  /\ Pieces(msgs) \in Seq(Seq(TokenSet)) /\ Len(Pieces(msgs)) = Len(msgs)
         /\ Canonical(msgs) \in Seq(TokenSet)
<1>1. Len(msgs) \in Nat /\ \A i \in 1 .. Len(msgs) : msgs[i] \in Messages
  BY LenProperties, ElementOfSeq
<1>2. \A i \in 1 .. Len(msgs) :
        /\ msgs[i] \in Contents => Continued(Completion(msgs[i])) \in Seq(TokenSet)
        /\ Tokens(msgs[i]) \in Seq(TokenSet)
  <2> SUFFICES ASSUME NEW m \in Messages
               PROVE  (m \in Contents => Continued(Completion(m)) \in Seq(TokenSet)) /\ Tokens(m) \in Seq(TokenSet)
    BY <1>1
  <2>1. m \in Contents => Completion(m) \in Seq(TokenSet) /\ Continued(Completion(m)) \in Seq(TokenSet)
    BY CompletionTokens, ContinuedTokens
  <2>2. m \in Prompts => <<m>> \in Seq(TokenSet)
    BY DEF TokenSet, Messages
  <2> QED BY <2>1, <2>2 DEF Tokens, Messages
<1>3. Pieces(msgs) \in [1 .. Len(msgs) -> Seq(TokenSet)]
  BY <1>2 DEF Pieces
<1>4. Pieces(msgs) \in Seq(Seq(TokenSet))
  BY <1>1, <1>3, SeqDef
<1>5. Len(Pieces(msgs)) = Len(msgs)
  BY <1>1, <1>3, <1>4, LenProperties DEF Pieces
<1> QED
  BY <1>4, <1>5, CanonicalIsFlat, FlattenAppend, EmptySeq

\* A sequence with one more member.
LEMMA OneAppended ==
  ASSUME NEW S, NEW s \in Seq(S), NEW e \in S, NEW t, t = Append(s, e)
  PROVE  /\ t \in Seq(S) /\ Len(t) = Len(s) + 1 /\ t[Len(s) + 1] = e
         /\ \A i \in 1 .. Len(s) : t[i] = s[i]
BY AppendProperties

\* The same, said by concatenation.
LEMMA OneMore ==
  ASSUME NEW S, NEW s \in Seq(S), NEW e \in S
  PROVE  /\ s \o <<e>> \in Seq(S) /\ Len(s \o <<e>>) = Len(s) + 1 /\ (s \o <<e>>)[Len(s) + 1] = e
         /\ \A i \in 1 .. Len(s) : (s \o <<e>>)[i] = s[i]
<1>1. Append(s, e) = s \o <<e>>
  BY AppendIsConcat
<1> QED
  BY <1>1, AppendProperties

\* A sequence with two more members.
LEMMA TwoMore ==
  ASSUME NEW S, NEW s \in Seq(S), NEW e \in S, NEW f \in S, NEW t, t = s \o <<e>> \o <<f>>
  PROVE  /\ t \in Seq(S) /\ Len(t) = Len(s) + 2
         /\ t[Len(s) + 1] = e /\ t[Len(s) + 2] = f
         /\ \A i \in 1 .. Len(s) : t[i] = s[i]
<1> DEFINE a == s \o <<e>>
<1>1. /\ a \in Seq(S) /\ Len(a) = Len(s) + 1 /\ a[Len(s) + 1] = e
      /\ \A i \in 1 .. Len(s) : a[i] = s[i]
  BY OneMore
<1>2. t = a \o <<f>>
  OBVIOUS
<1> HIDE DEF a
<1>3. /\ t \in Seq(S) /\ Len(t) = Len(a) + 1 /\ t[Len(a) + 1] = f
      /\ \A i \in 1 .. Len(a) : t[i] = a[i]
  BY <1>1, <1>2, OneMore
<1>4. Len(s) \in Nat
  BY LenProperties
<1> QED
  BY <1>1, <1>3, <1>4

\* A history with one more exchange.
GoesOn(g, h, n, p, x) ==
    /\ g \in Seq(Messages) /\ Len(g) = 2 * n + 2 /\ Exchanges(g, n + 1)
    /\ \A i \in 1 .. (2 * n) : g[i] = h[i]
    /\ g[2 * n + 1] = p /\ g[2 * n + 2] = x

\* A prompt and a reply make one exchange more.
LEMMA OneMoreExchange ==
  ASSUME NEW n \in Nat, NEW h \in Seq(Messages), Exchanges(h, n), NEW p \in Prompts, NEW x \in Contents,
         NEW g, g = h \o <<p>> \o <<x>>
  PROVE  GoesOn(g, h, n, p, x)
<1>0. Len(h) = 2 * n /\ \A i \in 1 .. n : h[2 * i - 1] \in Prompts /\ h[2 * i] \in Contents
  BY DEF Exchanges
<1>1. p \in Messages /\ x \in Messages
  BY DEF Messages
<1>2. /\ g \in Seq(Messages) /\ Len(g) = Len(h) + 2 /\ g[Len(h) + 1] = p /\ g[Len(h) + 2] = x
      /\ \A i \in 1 .. Len(h) : g[i] = h[i]
  BY <1>1, TwoMore
<1>3. Len(g) = 2 * n + 2 /\ g[2 * n + 1] = p /\ g[2 * n + 2] = x /\ \A i \in 1 .. (2 * n) : g[i] = h[i]
  BY <1>0, <1>2
<1>5. \A i \in 1 .. (n + 1) : g[2 * i - 1] \in Prompts /\ g[2 * i] \in Contents
  <2> SUFFICES ASSUME NEW i \in 1 .. (n + 1) PROVE g[2 * i - 1] \in Prompts /\ g[2 * i] \in Contents
    OBVIOUS
  <2>1. CASE i = n + 1
    <3>1. 2 * i - 1 = 2 * n + 1 /\ 2 * i = 2 * n + 2
      BY <2>1
    <3> QED BY <3>1, <1>3
  <2>2. CASE i # n + 1
    <3>1. i \in 1 .. n /\ 2 * i - 1 \in 1 .. (2 * n) /\ 2 * i \in 1 .. (2 * n)
      BY <2>2
    <3> QED BY <3>1, <1>0, <1>3
  <2> QED BY <2>1, <2>2
<1>6. Len(g) = 2 * (n + 1)
  BY <1>3
<1> QED
  BY <1>2, <1>3, <1>5, <1>6 DEF Exchanges, GoesOn

\* Its tokens are those of the history, continued.
LEMMA CanonicalGrows ==
  ASSUME NEW n \in Nat, NEW h \in Seq(Messages), Exchanges(h, n), NEW p \in Prompts, NEW x \in Contents
  PROVE  Canonical(h \o <<p>> \o <<x>>) = Continued(Canonical(h)) \o <<p>> \o Completion(x)
<1> DEFINE g == h \o <<p>> \o <<x>>
           piece(m) == IF m \in Contents THEN Continued(Completion(m)) ELSE Tokens(m)
           A == [i \in 1 .. (2 * n) |-> piece(h[i])]
<1>0. Len(h) = 2 * n /\ \A i \in 1 .. n : h[2 * i - 1] \in Prompts /\ h[2 * i] \in Contents
  BY DEF Exchanges
<1>1. /\ g \in Seq(Messages) /\ Len(g) = 2 * n + 2
      /\ \A i \in 1 .. (2 * n) : g[i] = h[i]
      /\ g[2 * n + 1] = p /\ g[2 * n + 2] = x
  <2>1. GoesOn(g, h, n, p, x)
    BY OneMoreExchange, Zenon
  <2> HIDE DEF g
  <2> QED BY <2>1 DEF GoesOn
<1> HIDE DEF g
<1>2. p \notin Contents /\ x \notin Prompts
  BY SessionAssumption
<1>3. \A m \in Messages : piece(m) \in Seq(TokenSet)
  <2> SUFFICES ASSUME NEW m \in Messages PROVE piece(m) \in Seq(TokenSet)
    OBVIOUS
  <2>1. m \in Contents => Continued(Completion(m)) \in Seq(TokenSet)
    BY CompletionTokens, ContinuedTokens
  <2>2. m \notin Contents => m \in Prompts /\ m \in TokenSet
    BY DEF Messages, TokenSet
  <2>3. m \notin Contents => Tokens(m) \in Seq(TokenSet)
    <3>1. m \in TokenSet => <<m>> \in Seq(TokenSet)
      OBVIOUS
    <3> QED BY <2>2, <3>1 DEF Tokens
  <2> QED BY <2>1, <2>3
<1>4. \A i \in 1 .. (2 * n) : h[i] \in Messages
  BY <1>0, ElementOfSeq
<1>5. A \in Seq(Seq(TokenSet)) /\ Len(A) = 2 * n
  <2>1. A \in [1 .. (2 * n) -> Seq(TokenSet)] /\ 2 * n \in Nat
    <3> HIDE DEF piece
    <3> QED BY <1>3, <1>4
  <2> HIDE DEF A
  <2>2. A \in Seq(Seq(TokenSet))
    BY <2>1, SeqDef
  <2> QED BY <2>1, <2>2, LenProperties
<1>6. <<p>> \in Seq(TokenSet) /\ Completion(x) \in Seq(TokenSet)
  BY CompletionTokens DEF TokenSet, Messages
<1>7. Canonical(g) = FlattenSeq(A) \o <<p>> \o Completion(x)
  <2> DEFINE A1 == Append(A, <<p>>)
             A2 == Append(A1, Completion(x))
  <2>1. /\ A1 \in Seq(Seq(TokenSet)) /\ Len(A1) = 2 * n + 1 /\ A1[2 * n + 1] = <<p>>
        /\ \A i \in 1 .. (2 * n) : A1[i] = A[i]
    <3> HIDE DEF A
    <3>1. /\ A1 \in Seq(Seq(TokenSet)) /\ Len(A1) = Len(A) + 1 /\ A1[Len(A) + 1] = <<p>>
          /\ \A i \in 1 .. Len(A) : A1[i] = A[i]
      <4>1. A1 = Append(A, <<p>>)
        OBVIOUS
      <4> HIDE DEF A1
      <4> QED BY <1>5, <1>6, <4>1, OneAppended
    <3> QED BY <1>5, <3>1
  <2>2. FlattenSeq(A1) = FlattenSeq(A) \o <<p>>
    <3> HIDE DEF A
    <3> QED BY <1>5, <1>6, FlattenAppend
  <2> HIDE DEF A1
  <2>3. /\ A2 \in Seq(Seq(TokenSet)) /\ Len(A2) = (2 * n + 1) + 1 /\ A2[(2 * n + 1) + 1] = Completion(x)
        /\ \A i \in 1 .. (2 * n + 1) : A2[i] = A1[i]
    <3>1. /\ A2 \in Seq(Seq(TokenSet)) /\ Len(A2) = Len(A1) + 1 /\ A2[Len(A1) + 1] = Completion(x)
          /\ \A i \in 1 .. Len(A1) : A2[i] = A1[i]
      <4>1. A2 = Append(A1, Completion(x))
        OBVIOUS
      <4> HIDE DEF A2
      <4> DEFINE c == Completion(x)
      <4>2. A1 \in Seq(Seq(TokenSet)) /\ c \in Seq(TokenSet) /\ A2 = Append(A1, c)
        BY <2>1, <1>6, <4>1
      <4> HIDE DEF c
      <4>3. /\ A2 \in Seq(Seq(TokenSet)) /\ Len(A2) = Len(A1) + 1 /\ A2[Len(A1) + 1] = c
            /\ \A i \in 1 .. Len(A1) : A2[i] = A1[i]
        BY <4>2, OneAppended
      <4> QED BY <4>3 DEF c
    <3> HIDE DEF A2
    <3> QED BY <2>1, <3>1
  <2>4. FlattenSeq(A2) = FlattenSeq(A1) \o Completion(x)
    BY <2>1, <1>6, FlattenAppend
  <2> HIDE DEF A2
  <2>5. Pieces(g) \in Seq(Seq(TokenSet)) /\ Len(Pieces(g)) = 2 * n + 2
    BY <1>1, PiecesAreTokens
  <2>6. \A i \in 1 .. (2 * n + 2) : Pieces(g)[i] = A2[i]
    <3> SUFFICES ASSUME NEW i \in 1 .. (2 * n + 2) PROVE Pieces(g)[i] = A2[i]
      OBVIOUS
    <3>1. Pieces(g)[i] = IF g[i] \in Contents /\ i < 2 * n + 2 THEN Continued(Completion(g[i])) ELSE Tokens(g[i])
      BY <1>1 DEF Pieces
    <3>2. CASE i \in 1 .. (2 * n)
      <4>1. A2[i] = A[i] /\ i < 2 * n + 2
        BY <3>2, <2>1, <2>3
      <4>2. A[i] = piece(h[i]) /\ g[i] = h[i]
        BY <3>2, <1>1
      <4> QED BY <3>1, <4>1, <4>2
    <3>3. CASE i = 2 * n + 1
      <4>1. A2[i] = <<p>> /\ g[i] = p
        BY <3>3, <2>1, <2>3, <1>1
      <4> QED BY <3>1, <4>1, <1>2 DEF Tokens
    <3>4. CASE i = 2 * n + 2
      <4>1. A2[i] = Completion(x) /\ g[i] = x /\ ~(i < 2 * n + 2)
        BY <3>4, <2>3, <1>1
      <4> QED BY <3>1, <4>1, <1>2 DEF Tokens
    <3> QED BY <3>2, <3>3, <3>4
  <2>7. Pieces(g) = A2
    <3>1. Len(A2) = 2 * n + 2
      BY <2>3
    <3> QED BY <2>3, <2>5, <2>6, <3>1, SameSequence
  <2> HIDE DEF A
  <2> QED BY <2>2, <2>4, <2>7, CanonicalIsFlat
<1>8. FlattenSeq(A) = Continued(Canonical(h))
  <2>1. CASE n = 0
    <3>1. A = <<>>
      <4> HIDE DEF A
      <4> QED BY <2>1, <1>5, EmptySeq
    <3>2. Pieces(h) = <<>>
      <4>1. Pieces(h) \in Seq(Seq(TokenSet)) /\ Len(Pieces(h)) = 0
        <5>1. Pieces(h) \in Seq(Seq(TokenSet)) /\ Len(Pieces(h)) = Len(h)
          BY PiecesAreTokens
        <5> QED BY <5>1, <2>1, <1>0
      <4> QED BY <4>1, EmptySeq
    <3> HIDE DEF A
    <3> QED BY <3>1, <3>2, FlattenEmpty, CanonicalIsFlat DEF Continued
  <2>2. CASE n # 0
    <3> DEFINE m == 2 * n - 1
               B == [i \in 1 .. m |-> piece(h[i])]
               y == h[2 * n]
    <3>1. m \in Nat /\ m + 1 = 2 * n /\ y \in Contents /\ \A i \in 1 .. m : i \in 1 .. (2 * n)
      BY <2>2, <1>0
    <3>2. B \in Seq(Seq(TokenSet)) /\ Len(B) = m
      <4>1. B \in [1 .. m -> Seq(TokenSet)]
        <5> HIDE DEF piece
        <5> QED BY <1>3, <1>4, <3>1
      <4> HIDE DEF B, m
      <4>2. B \in Seq(Seq(TokenSet))
        BY <3>1, <4>1, SeqDef
      <4> QED BY <3>1, <4>1, <4>2, LenProperties
    <3>3. \A i \in 1 .. m : B[i] = piece(h[i])
      OBVIOUS
    <3> HIDE DEF B, m
    <3>4. Completion(y) \in Seq(TokenSet) /\ Len(Completion(y)) = 2 /\ Continued(Completion(y)) \in Seq(TokenSet)
      BY <3>1, CompletionTokens, ContinuedTokens
    <3>5. A = Append(B, Continued(Completion(y)))
      <4> DEFINE B1 == Append(B, Continued(Completion(y)))
      <4>1. /\ B1 \in Seq(Seq(TokenSet)) /\ Len(B1) = m + 1 /\ B1[m + 1] = Continued(Completion(y))
            /\ \A i \in 1 .. m : B1[i] = B[i]
        BY <3>2, <3>4, AppendProperties
      <4> HIDE DEF B1
      <4>2. \A i \in 1 .. (2 * n) : A[i] = B1[i]
        <5> SUFFICES ASSUME NEW i \in 1 .. (2 * n) PROVE A[i] = B1[i]
          OBVIOUS
        <5>1. A[i] = piece(h[i])
          OBVIOUS
        <5>2. CASE i \in 1 .. m
          BY <5>1, <5>2, <4>1, <3>3
        <5>3. CASE i = m + 1
          <6>1. h[i] = y
            BY <5>3, <3>1
          <6> QED BY <5>1, <6>1, <5>3, <4>1, <3>1
        <5> QED BY <5>2, <5>3, <3>1
      <4> HIDE DEF A
      <4>3. A = B1
        BY <1>5, <3>1, <4>1, <4>2, SameSequence
      <4> QED BY <4>3 DEF B1
    <3>6. Pieces(h) = Append(B, Completion(y))
      <4> DEFINE B1 == Append(B, Completion(y))
      <4>1. /\ B1 \in Seq(Seq(TokenSet)) /\ Len(B1) = m + 1 /\ B1[m + 1] = Completion(y)
            /\ \A i \in 1 .. m : B1[i] = B[i]
        BY <3>2, <3>4, AppendProperties
      <4> HIDE DEF B1
      <4>2. Pieces(h) \in Seq(Seq(TokenSet)) /\ Len(Pieces(h)) = 2 * n
        BY <1>0, PiecesAreTokens
      <4>3. \A i \in 1 .. (2 * n) : Pieces(h)[i] = B1[i]
        <5> SUFFICES ASSUME NEW i \in 1 .. (2 * n) PROVE Pieces(h)[i] = B1[i]
          OBVIOUS
        <5>1. Pieces(h)[i] = IF h[i] \in Contents /\ i < 2 * n THEN Continued(Completion(h[i])) ELSE Tokens(h[i])
          BY <1>0 DEF Pieces
        <5>2. CASE i \in 1 .. m
          <6>1. i < 2 * n
            BY <5>2, <3>1
          <6> QED BY <5>1, <5>2, <6>1, <4>1, <3>3
        <5>3. CASE i = m + 1
          <6>1. h[i] = y /\ ~(i < 2 * n) /\ y \notin Prompts
            BY <5>3, <3>1, SessionAssumption
          <6>2. Tokens(y) = Completion(y)
            BY <6>1 DEF Tokens
          <6>3. Pieces(h)[i] = Tokens(y)
            <7> HIDE DEF y
            <7> QED BY <5>1, <6>1
          <6> QED BY <6>2, <6>3, <5>3, <4>1
        <5> QED BY <5>2, <5>3, <3>1
      <4>4. Pieces(h) = B1
        BY <3>1, <4>1, <4>2, <4>3, SameSequence
      <4> QED BY <4>4 DEF B1
    <3> HIDE DEF A, y
    <3>7. FlattenSeq(A) = FlattenSeq(B) \o Continued(Completion(y)) /\ FlattenSeq(B) \in Seq(TokenSet)
      BY <3>2, <3>4, <3>5, FlattenAppend
    <3>8. Canonical(h) = FlattenSeq(B) \o Completion(y)
      BY <3>2, <3>4, <3>6, FlattenAppend, CanonicalIsFlat
    <3>9. Continued(FlattenSeq(B) \o Completion(y)) = FlattenSeq(B) \o Continued(Completion(y))
      BY <3>4, <3>7, Len(Completion(y)) # 0, ContinuedConcat
    <3> QED BY <3>7, <3>8, <3>9
  <2> QED BY <2>1, <2>2
<1> HIDE DEF A
<1> QED
  BY <1>7, <1>8 DEF g

\* The beginning of a sequence.
LEMMA Beginning ==
  ASSUME NEW S, NEW s \in Seq(S), NEW n \in 0 .. Len(s), NEW t, t = SubSeq(s, 1, n)
  PROVE  t \in Seq(S) /\ Len(t) = n /\ \A i \in 1 .. n : t[i] = s[i]
<1>1. Len(s) \in Nat /\ n \in Nat /\ \A i \in 1 .. n : s[i] \in S
  BY LenProperties, ElementOfSeq
<1>2. /\ t \in Seq(S)
      /\ Len(t) = IF 1 <= n THEN n - 1 + 1 ELSE 0
      /\ \A i \in 1 .. (n - 1 + 1) : t[i] = s[1 + i - 1]
  BY <1>1, SubSeqProperties
<1> QED BY <1>1, <1>2

\* The tokens of n exchanges tell their messages.
Tells(h, n) ==
    /\ Len(Canonical(h)) = 3 * n
    /\ \A i \in 1 .. n : /\ Canonical(h)[3 * i - 2] = h[2 * i - 1]
                         /\ Canonical(h)[3 * i - 1] = h[2 * i]

\* They do if those of one exchange less do.
LEMMA TellsOn ==
  ASSUME NEW j \in Nat, NEW m \in Nat, m = j + 1, NEW g \in Seq(Messages), Exchanges(g, m),
         \A h \in Seq(Messages) : Exchanges(h, j) => Tells(h, j)
  PROVE  Tells(g, m)
<1> DEFINE b == SubSeq(g, 1, 2 * j)
           p == g[2 * m - 1]
           x == g[2 * m]
           t == Canonical(b)
           u == Continued(t)
           v == Completion(x)
           w == u \o <<p>> \o v
<1>1. Len(g) = 2 * m /\ \A i \in 1 .. m : g[2 * i - 1] \in Prompts /\ g[2 * i] \in Contents
  BY DEF Exchanges
<1>2. p \in Prompts /\ x \in Contents
  <2>1. m \in 1 .. m
    OBVIOUS
  <2> QED BY <1>1, <2>1
<1>3. b \in Seq(Messages) /\ Len(b) = 2 * j /\ \A i \in 1 .. (2 * j) : b[i] = g[i]
  <2>1. 2 * j \in 0 .. Len(g)
    BY <1>1
  <2> QED BY <2>1, Beginning
<1> HIDE DEF b
<1>4. Exchanges(b, j)
  <2>1. \A i \in 1 .. j : 2 * i - 1 \in 1 .. (2 * j) /\ 2 * i \in 1 .. (2 * j) /\ i \in 1 .. m
    OBVIOUS
  <2> QED BY <1>1, <1>3, <2>1 DEF Exchanges
<1>5. g = b \o <<p>> \o <<x>>
  <2> DEFINE d == b \o <<p>> \o <<x>>
  <2>1. GoesOn(d, b, j, p, x)
    BY <1>2, <1>3, <1>4, OneMoreExchange, Zenon
  <2> HIDE DEF d
  <2>2. /\ d \in Seq(Messages) /\ Len(d) = 2 * m
        /\ d[2 * m - 1] = p /\ d[2 * m] = x /\ \A i \in 1 .. (2 * j) : d[i] = b[i]
    BY <2>1 DEF GoesOn
  <2>3. \A i \in 1 .. (2 * m) : i \in 1 .. (2 * j) \/ i = 2 * m - 1 \/ i = 2 * m
    OBVIOUS
  <2>4. \A i \in 1 .. (2 * m) : g[i] = d[i]
    BY <1>3, <2>2, <2>3
  <2>5. g = d
    BY <1>1, <2>2, <2>4, SameSequence
  <2> QED BY <2>5 DEF d
<1> HIDE DEF p, x
<1>6. Canonical(g) = w
  BY <1>2, <1>3, <1>4, <1>5, CanonicalGrows, Zenon
<1>7. Tells(b, j)
  BY <1>3, <1>4
<1>8. t \in Seq(TokenSet) /\ Len(t) = 3 * j
  BY <1>3, <1>7, PiecesAreTokens DEF Tells
<1>9. \A i \in 1 .. j : t[3 * i - 2] = b[2 * i - 1] /\ t[3 * i - 1] = b[2 * i]
  BY <1>7 DEF Tells
<1> HIDE DEF t
<1>10. u \in Seq(TokenSet) /\ Len(u) = 3 * j /\ \A i \in 1 .. (3 * j - 1) : u[i] = t[i]
  <2>1. /\ u \in Seq(TokenSet) /\ Len(u) = Len(t)
        /\ \A i \in 1 .. Len(t) : u[i] = IF Trim = 1 /\ i = Len(t) THEN "delim" ELSE t[i]
    BY <1>8, ContinuedTokens
  <2> HIDE DEF u
  <2> QED BY <1>8, <2>1
<1> HIDE DEF u
<1>11. v \in Seq(TokenSet) /\ Len(v) = 2 /\ v[1] = x
  BY <1>2, CompletionTokens
<1> HIDE DEF v
<1>12. /\ Len(w) = 3 * m /\ \A i \in 1 .. (3 * j) : w[i] = u[i]
       /\ w[3 * m - 2] = p /\ w[3 * m - 1] = x
  <2> DEFINE q == u \o <<p>>
  <2>1. /\ q \in Seq(TokenSet) /\ Len(q) = Len(u) + 1 /\ q[Len(u) + 1] = p
        /\ \A i \in 1 .. Len(u) : q[i] = u[i]
    <3>1. p \in TokenSet
      BY <1>2 DEF TokenSet, Messages
    <3>2. u \in Seq(TokenSet)
      BY <1>10
    <3> QED BY <3>1, <3>2, OneMore
  <2>2. w = q \o v
    OBVIOUS
  <2> HIDE DEF q, w
  <2>3. /\ Len(w) = Len(q) + Len(v)
        /\ \A i \in 1 .. Len(q) + Len(v) : w[i] = IF i <= Len(q) THEN q[i] ELSE v[i - Len(q)]
    BY <1>11, <2>1, <2>2, ConcatProperties
  <2>4. Len(q) = 3 * j + 1 /\ 3 * m - 2 = 3 * j + 1 /\ 3 * m - 1 = 3 * j + 2
    BY <1>10, <2>1
  <2>5. Len(w) = 3 * m
    BY <1>11, <2>3, <2>4
  <2>6. \A i \in 1 .. (3 * j) : w[i] = u[i]
    <3>1. \A i \in 1 .. (3 * j) : i \in 1 .. Len(q) + Len(v) /\ i <= Len(q) /\ i \in 1 .. Len(u)
      <4>1. Len(u) = 3 * j /\ Len(v) = 2
        BY <1>10, <1>11
      <4> QED BY <4>1, <2>4
    <3> QED BY <2>1, <2>3, <3>1
  <2>7. w[3 * j + 1] = p
    <3>1. 3 * j + 1 \in 1 .. Len(q) + Len(v) /\ 3 * j + 1 <= Len(q) /\ 3 * j + 1 = Len(u) + 1
      BY <1>10, <1>11, <2>4
    <3> QED BY <2>1, <2>3, <3>1
  <2>8. w[3 * j + 2] = v[1]
    <3>1. 3 * j + 2 \in 1 .. Len(q) + Len(v) /\ ~(3 * j + 2 <= Len(q)) /\ 3 * j + 2 - Len(q) = 1
      BY <1>11, <2>4
    <3> QED BY <2>3, <3>1
  <2> QED BY <1>11, <2>4, <2>5, <2>6, <2>7, <2>8
<1> HIDE DEF w
<1>13. \A i \in 1 .. m : w[3 * i - 2] = g[2 * i - 1] /\ w[3 * i - 1] = g[2 * i]
  <2> SUFFICES ASSUME NEW i \in 1 .. m
               PROVE  w[3 * i - 2] = g[2 * i - 1] /\ w[3 * i - 1] = g[2 * i]
    OBVIOUS
  <2>1. CASE i = m
    BY <2>1, <1>12 DEF p, x
  <2>2. CASE i # m
    <3>1. /\ i \in 1 .. j /\ 3 * i - 2 \in 1 .. (3 * j - 1) /\ 3 * i - 1 \in 1 .. (3 * j - 1)
          /\ 3 * i - 2 \in 1 .. (3 * j) /\ 3 * i - 1 \in 1 .. (3 * j)
          /\ 2 * i - 1 \in 1 .. (2 * j) /\ 2 * i \in 1 .. (2 * j)
      BY <2>2
    <3>2. w[3 * i - 2] = t[3 * i - 2] /\ w[3 * i - 1] = t[3 * i - 1]
      BY <3>1, <1>10, <1>12
    <3>3. b[2 * i - 1] = g[2 * i - 1] /\ b[2 * i] = g[2 * i]
      BY <3>1, <1>3
    <3> QED BY <3>1, <3>2, <3>3, <1>9
  <2> QED BY <2>1, <2>2
<1>14. Tells(g, m)
  BY <1>6, <1>12, <1>13 DEF Tells
<1> QED BY <1>14

\* The tokens tell the messages.
LEMMA CanonicalTells ==
  ASSUME NEW n \in Nat, NEW h \in Seq(Messages), Exchanges(h, n)
  PROVE  /\ Len(Canonical(h)) = 3 * n
         /\ \A i \in 1 .. n : Canonical(h)[3 * i - 2] = h[2 * i - 1] /\ Canonical(h)[3 * i - 1] = h[2 * i]
<1> DEFINE Bad == {m \in Nat : \E g \in Seq(Messages) : Exchanges(g, m) /\ ~Tells(g, m)}
<1>1. Bad = {}
  <2> SUFFICES ASSUME Bad # {} PROVE FALSE
    OBVIOUS
  <2>1. PICK m \in Bad : \A j \in Bad : m <= j
    <3>1. Bad \in SUBSET Nat
      OBVIOUS
    <3> HIDE DEF Bad
    <3> QED BY <3>1, Smallest
  <2>2. m \in Nat /\ \E g \in Seq(Messages) : Exchanges(g, m) /\ ~Tells(g, m)
    BY <2>1
  <2>3. PICK g \in Seq(Messages) : Exchanges(g, m) /\ ~Tells(g, m)
    BY <2>2
  <2>4. Len(g) = 2 * m /\ \A i \in 1 .. m : g[2 * i - 1] \in Prompts /\ g[2 * i] \in Contents
    BY <2>3 DEF Exchanges
  <2>5. CASE m = 0
    <3>1. Pieces(g) \in Seq(Seq(TokenSet)) /\ Len(Pieces(g)) = 0
      <4>1. Pieces(g) \in Seq(Seq(TokenSet)) /\ Len(Pieces(g)) = Len(g)
        BY PiecesAreTokens
      <4> QED BY <2>4, <2>5, <4>1
    <3>2. Pieces(g) = <<>>
      BY <3>1, EmptySeq
    <3>3. Canonical(g) = <<>>
      BY <3>2, CanonicalIsFlat, FlattenEmpty
    <3>4. Len(Canonical(g)) = 0
      BY <3>3
    <3> QED BY <2>3, <2>5, <3>4 DEF Tells
  <2>6. CASE m # 0
    <3> DEFINE j == m - 1
    <3>1. m \in Nat
      BY <2>2
    <3>2. j \in Nat /\ ~(m <= j) /\ m = j + 1
      BY <2>6, <3>1
    <3>3. \A b \in Seq(Messages) : Exchanges(b, j) => Tells(b, j)
      <4> HIDE DEF j
      <4> QED BY <2>1, <3>2
    <3> HIDE DEF j
    <3>4. Tells(g, m)
      BY <2>3, <3>1, <3>2, <3>3, TellsOn
    <3> QED BY <2>3, <3>4
  <2> QED BY <2>5, <2>6
<1> QED
  BY <1>1 DEF Tells

-----------------------------------------------------------------------------
(* The checkpoint of a request. *)

\* The longest common prefix of two sequences.
LEMMA CommonPrefix ==
  ASSUME NEW S, NEW a \in Seq(S), NEW b \in Seq(S), NEW l, l = LongestCommonPrefix({a, b})
  PROVE  /\ Len(l) \in Nat /\ Len(l) <= Len(a) /\ Len(l) <= Len(b)
         /\ \A n \in 0 .. Len(a) : n <= Len(b) /\ SubSeq(a, 1, n) = SubSeq(b, 1, n) => n <= Len(l)
<1> DEFINE C == CommonPrefixes({a, b})
           D == {Len(x) : x \in C}
<1>0. Len(a) \in Nat /\ Len(b) \in Nat
  BY LenProperties
<1>1. \A s \in Seq(S) : \A n \in 0 .. Len(s) : SubSeq(s, 1, n) \in Seq(S) /\ Len(SubSeq(s, 1, n)) = n
  <2> SUFFICES ASSUME NEW s \in Seq(S), NEW n \in 0 .. Len(s)
               PROVE  SubSeq(s, 1, n) \in Seq(S) /\ Len(SubSeq(s, 1, n)) = n
    OBVIOUS
  <2>1. Len(s) \in Nat /\ n \in Nat /\ \A i \in 1 .. n : s[i] \in S
    BY LenProperties, ElementOfSeq
  <2>2. /\ SubSeq(s, 1, n) \in Seq(S)
        /\ Len(SubSeq(s, 1, n)) = IF 1 <= n THEN n - 1 + 1 ELSE 0
    BY <2>1, SubSeqProperties
  <2> QED BY <2>1, <2>2
<1>2. \A x \in C : x \in Seq(S) /\ Len(x) \in Nat /\ Len(x) <= Len(a) /\ Len(x) <= Len(b)
  <2> SUFFICES ASSUME NEW x \in C
               PROVE  x \in Seq(S) /\ Len(x) \in Nat /\ Len(x) <= Len(a) /\ Len(x) <= Len(b)
    OBVIOUS
  <2>1. x \in Prefixes(a) \cup Prefixes(b) /\ IsPrefix(x, a) /\ IsPrefix(x, b)
    BY DEF CommonPrefixes
  <2>2. \E s \in {a, b} : \E n \in 0 .. Len(s) : x = SubSeq(s, 1, n)
    BY <2>1 DEF Prefixes
  <2>3. x \in Seq(S)
    BY <2>2, <1>1
  <2> QED BY <2>1, <2>3, LenProperties DEF IsPrefix
<1>3. \A n \in 0 .. Len(a) : n <= Len(b) /\ SubSeq(a, 1, n) = SubSeq(b, 1, n) => \E x \in C : Len(x) = n
  <2> SUFFICES ASSUME NEW n \in 0 .. Len(a), n <= Len(b), SubSeq(a, 1, n) = SubSeq(b, 1, n)
               PROVE  \E x \in C : Len(x) = n
    OBVIOUS
  <2> DEFINE x == SubSeq(a, 1, n)
  <2>1. x \in Seq(S) /\ Len(x) = n
    BY <1>1
  <2>2. SubSeq(x, 1, Len(x)) = x
    BY <2>1, SubSeqFull
  <2>3. IsPrefix(x, a) /\ IsPrefix(x, b)
    BY <2>1, <2>2 DEF IsPrefix
  <2>4. x \in Prefixes(a)
    BY DEF Prefixes
  <2>5. x \in C
    BY <2>3, <2>4 DEF CommonPrefixes
  <2> QED BY <2>1, <2>5
<1>4. C # {}
  <2>1. 0 \in 0 .. Len(a) /\ 0 <= Len(b) /\ SubSeq(a, 1, 0) = SubSeq(b, 1, 0)
    <3>1. SubSeq(a, 1, 0) = <<>> /\ SubSeq(b, 1, 0) = <<>>
      BY SubSeqEmpty
    <3> QED BY <1>0, <3>1
  <2> HIDE DEF C
  <2> QED BY <2>1, <1>3
<1> HIDE DEF C
<1>5. D \in SUBSET Nat /\ D # {} /\ \A d \in D : d <= Len(a)
  BY <1>2, <1>4
<1> DEFINE m == Max(D)
<1>6. m \in D /\ \A d \in D : d <= m
  <2> HIDE DEF D
  <2> QED BY <1>0, <1>5, Largest
<1> HIDE DEF m
<1>7. PICK x \in C : \A y \in C : Len(y) <= Len(x)
  BY <1>6
<1>8. l \in C /\ \A y \in C : Len(y) <= Len(l)
  <2>1. l = CHOOSE z \in C : \A y \in C : Len(y) <= Len(z)
    BY DEF LongestCommonPrefix, C
  <2> QED BY <1>7, <2>1
<1> QED
  BY <1>2, <1>3, <1>8

\* Where the messages of a checkpoint end.
LEMMA EndsAreNumbers ==
  ASSUME SessionTypeOK
  PROVE  Len(turns) \in Nat /\ End(0) = 0 /\ \A k \in 0 .. Len(turns) : End(k) \in Nat
<1>1. Len(turns) \in Nat /\ \A k \in 1 .. Len(turns) : turns[k] \in Turn
  BY LenProperties, ElementOfSeq DEF SessionTypeOK
<1> QED
  BY <1>1 DEF Turn, End

\* A request finds one of the checkpoints, or the empty one.
LEMMA CheckpointIsOne ==
  ASSUME SessionTypeOK, NEW request \in Seq(Messages)
  PROVE  Checkpoint(request) \in 0 .. Len(turns)
<1> DEFINE m == MatchLen(request)
           K == {k \in 0 .. Len(turns) : End(k) <= m}
<1>1. m \in Nat
  BY CommonPrefix DEF SessionTypeOK, MatchLen
<1> HIDE DEF m
<1>2. K \in SUBSET Nat /\ K # {} /\ \A k \in K : k <= Len(turns)
  <2>1. 0 \in K
    BY <1>1, EndsAreNumbers
  <2> QED BY <2>1, EndsAreNumbers
<1>3. Max(K) \in K
  <2> HIDE DEF K
  <2> QED BY <1>2, EndsAreNumbers, Largest
<1>4. Checkpoint(request) \in {Len(turns), Max(K)}
  BY DEF Checkpoint, m
<1> HIDE DEF m
<1> QED
  BY <1>3, <1>4, EndsAreNumbers

\* A request that adds a prompt to the history of a checkpoint goes on from it.
LEMMA CheckpointIsKnown ==
  ASSUME SessionTypeOK, Exchanges(messages, Len(turns)), \A k \in 1 .. Len(turns) : turns[k].end = 2 * k,
         NEW j \in 0 .. Len(turns), NEW request \in Seq(Messages), Len(request) = 2 * j + 1,
         SubSeq(request, 1, 2 * j) = SubSeq(messages, 1, 2 * j)
  PROVE  Checkpoint(request) = j
<1> DEFINE m == MatchLen(request)
           n == Len(turns)
           K == {k \in 0 .. n : End(k) <= m}
<1>1. n \in Nat /\ Len(messages) = 2 * n /\ \A k \in 0 .. n : End(k) = 2 * k
  BY EndsAreNumbers DEF Exchanges, End
<1>2. m \in Nat /\ m <= 2 * n /\ m <= 2 * j + 1 /\ 2 * j <= m
  <2> DEFINE l == LongestCommonPrefix({messages, request})
  <2>1. /\ Len(l) \in Nat /\ Len(l) <= Len(messages) /\ Len(l) <= Len(request)
        /\ \A i \in 0 .. Len(messages) :
              i <= Len(request) /\ SubSeq(messages, 1, i) = SubSeq(request, 1, i) => i <= Len(l)
    BY CommonPrefix DEF SessionTypeOK
  <2>2. m = Len(l)
    BY DEF MatchLen
  <2> HIDE DEF l, m, n
  <2>3. 2 * j \in 0 .. Len(messages) /\ 2 * j <= Len(request)
    BY <1>1 DEF n
  <2>4. 2 * j <= Len(l)
    BY <2>1, <2>3
  <2> QED BY <1>1, <2>1, <2>2, <2>4
<1>3. Checkpoint(request) = IF m >= 2 * n THEN n ELSE Max(K)
  BY <1>1 DEF Checkpoint
<1> HIDE DEF m, n
<1>4. j \in 0 .. n
  BY DEF n
<1>5. CASE j = n
  BY <1>1, <1>2, <1>3, <1>5
<1>6. CASE j # n
  <2>1. ~(m >= 2 * n)
    BY <1>1, <1>2, <1>4, <1>6
  <2>2. j \in K /\ \A k \in K : k <= j
    BY <1>1, <1>2, <1>4
  <2>3. K \in SUBSET Nat
    BY <1>1
  <2>4. Max(K) \in K /\ j <= Max(K)
    <3>1. j \in Nat /\ K # {}
      BY <1>4, <2>2
    <3> HIDE DEF K
    <3> QED BY <2>2, <2>3, <3>1, Largest
  <2>5. Max(K) = j
    <3>1. Max(K) <= j /\ Max(K) \in Nat /\ j \in Nat
      BY <2>2, <2>3, <2>4, <1>4
    <3> QED BY <2>4, <3>1
  <2> QED BY <1>3, <2>1, <2>5
<1> QED BY <1>5, <1>6

-----------------------------------------------------------------------------
(* Turns, chats and refs. *)

\* The smaller of two numbers.
LEMMA MinOfTwo ==
  ASSUME NEW a \in Nat, NEW b \in Nat
  PROVE  Min({a, b}) = IF a <= b THEN a ELSE b
<1> DEFINE m == IF a <= b THEN a ELSE b
<1>1. m \in {a, b} /\ \A y \in {a, b} : m <= y
  OBVIOUS
<1>2. \A x \in {a, b} : (\A y \in {a, b} : x <= y) => x = m
  OBVIOUS
<1> HIDE DEF m
<1>3. Min({a, b}) = m
  BY <1>1, <1>2 DEF Min
<1> QED
  BY <1>3 DEF m

\* The messages of a checkpoint, which end where it does unless the list is shorter.
LEMMA UptoMessages ==
  ASSUME SessionTypeOK, NEW k \in 0 .. Len(turns)
  PROVE  /\ Upto(k) \in Seq(Messages)
         /\ End(k) <= Len(messages) => Upto(k) = SubSeq(messages, 1, End(k))
<1> DEFINE m == Min({End(k), Len(messages)})
<1>1. End(k) \in Nat /\ Len(messages) \in Nat /\ messages \in Seq(Messages)
  BY EndsAreNumbers, LenProperties DEF SessionTypeOK
<1>2. m = IF End(k) <= Len(messages) THEN End(k) ELSE Len(messages)
  BY <1>1, MinOfTwo
<1>3. Upto(k) = SubSeq(messages, 1, m)
  BY DEF Upto
<1> HIDE DEF m
<1>4. m \in 0 .. Len(messages)
  BY <1>1, <1>2
<1> QED
  BY <1>1, <1>2, <1>3, <1>4, Beginning

\* What a turn is made of.
LEMMA TurnFields ==
  ASSUME SessionTypeOK
  PROVE  /\ Len(turns) \in Nat
         /\ \A k \in 1 .. Len(turns) :
              /\ turns[k] \in Turn /\ turns[k].end \in Nat /\ turns[k].tokens \in Seq(TokenSet)
              /\ turns[k].record.chat \in Chats /\ turns[k].record.prompt \in Seq(TokenSet)
              /\ \E text \in Contents : turns[k].record.output = Completion(text)
<1>1. Len(turns) \in Nat /\ \A k \in 1 .. Len(turns) : turns[k] \in Turn
  BY LenProperties, ElementOfSeq DEF SessionTypeOK
<1> QED
  BY <1>1 DEF Turn

\* What a chat is made of.
LEMMA ChatFields ==
  ASSUME SessionTypeOK, NEW c \in Chats
  PROVE  /\ chat[c] \in [pc : {"idle", "proxied", "rejected", "answered", "failed", "lost", "mismatch"},
                         request : Seq(Messages), prompt : Seq(TokenSet), expected : Nat]
         /\ chat[c].request \in Seq(Messages) /\ chat[c].prompt \in Seq(TokenSet) /\ chat[c].expected \in Nat
BY DEF SessionTypeOK

\* Refs of some turns.
LEMMA RefsOfTurns ==
  ASSUME NEW ts \in Seq(Turn)
  PROVE  /\ RefsOf(ts) = {ts[i].record.chat : i \in 1 .. Len(ts)}
         /\ RefsOf(ts) \subseteq Chats
         /\ \A n \in 0 .. Len(ts) : RefsOf(SubSeq(ts, 1, n)) \subseteq RefsOf(ts)
<1>1. \A s \in Seq(Turn) : RefsOf(s) = {s[i].record.chat : i \in 1 .. Len(s)}
  BY LenProperties DEF RefsOf, Range
<1>2. \A i \in 1 .. Len(ts) : ts[i].record.chat \in Chats
  <2>1. \A i \in 1 .. Len(ts) : ts[i] \in Turn
    BY ElementOfSeq
  <2> QED BY <2>1 DEF Turn
<1>3. ASSUME NEW n \in 0 .. Len(ts) PROVE RefsOf(SubSeq(ts, 1, n)) \subseteq RefsOf(ts)
  <2> DEFINE s == SubSeq(ts, 1, n)
  <2>1. s \in Seq(Turn) /\ Len(s) = n /\ \A i \in 1 .. n : s[i] = ts[i]
    BY Beginning
  <2> HIDE DEF s
  <2>2. RefsOf(s) = {s[i].record.chat : i \in 1 .. n} /\ \A i \in 1 .. n : i \in 1 .. Len(ts)
    BY <1>1, <2>1, LenProperties
  <2>3. RefsOf(s) \subseteq RefsOf(ts)
    BY <1>1, <2>1, <2>2
  <2> QED BY <2>3 DEF s
<1> QED
  BY <1>1, <1>2, <1>3

\* No turns have no refs.
LEMMA RefsOfNone == RefsOf(<<>>) = {}
<1>1. RefsOf(<<>>) = {<<>>[i].record.chat : i \in 1 .. Len(<<>>)}
  BY EmptySeq, RefsOfTurns
<1>2. Len(<<>>) = 0
  BY EmptySeq
<1> QED BY <1>1, <1>2

\* A chat that is over was not the one of any turn.
LEMMA OtherChats ==
  ASSUME OneTurnPerChat, NEW c \in Chats, chat[c].pc # "answered", NEW k \in 1 .. Len(turns)
  PROVE  turns[k].record.chat # c
BY DEF OneTurnPerChat

\* A chat ends: it changes its state and no other chat.
LEMMA ChatOver ==
  ASSUME SessionIInv, NEW c \in Chats, NEW pc \in {"rejected", "answered", "failed", "lost", "mismatch"},
         chat[c].pc \in {"idle", "proxied"}, chat' = [chat EXCEPT ![c] = Over(pc)]
  PROVE  /\ chat' \in [Chats -> [pc : {"idle", "proxied", "rejected", "answered", "failed", "lost", "mismatch"},
                                 request : Seq(Messages), prompt : Seq(TokenSet), expected : Nat]]
         /\ \A d \in Chats \ {c} : chat'[d] = chat[d]
         /\ chat'[c].pc = pc
         /\ pc # "lost" => Unseen' = Unseen
         /\ pc = "lost" => Unseen' = Unseen \cup {c}
<1> DEFINE R == [pc : {"idle", "proxied", "rejected", "answered", "failed", "lost", "mismatch"},
                 request : Seq(Messages), prompt : Seq(TokenSet), expected : Nat]
           r == Over(pc)
<1>1. chat \in [Chats -> R]
  BY DEF SessionIInv, SessionTypeOK
<1>2. r \in R /\ r.pc = pc
  BY EmptySeq DEF Over, Idle
<1>3. chat' = [chat EXCEPT ![c] = r]
  OBVIOUS
<1> HIDE DEF r, R
<1>4. chat' \in [Chats -> R] /\ chat'[c] = r /\ \A d \in Chats \ {c} : chat'[d] = chat[d]
  BY <1>1, <1>2, <1>3
<1>5. chat'[c].pc = pc
  BY <1>2, <1>4
<1>6. /\ pc # "lost" => Unseen' = Unseen
      /\ pc = "lost" => Unseen' = Unseen \cup {c}
  BY <1>4, <1>5 DEF Unseen
<1> QED
  BY <1>4, <1>5, <1>6 DEF R

\* The trajectory stays what it was when a chat ends that none of its turns is of.
LEMMA TurnsStay ==
  ASSUME SessionIInv, UNCHANGED <<messages, turns>>, NEW c \in Chats, chat[c].pc # "answered",
         chat'[c].pc # "proxied", \A d \in Chats \ {c} : chat'[d] = chat[d]
  PROVE  OneTurnPerChat' /\ TokensGrow' /\ Linear'
<1>1. OneTurnPerChat'
  <2>1. \A k \in 1 .. Len(turns) : turns[k].record.chat \in Chats \ {c}
    BY TurnFields, OtherChats DEF SessionIInv
  <2> QED BY <2>1 DEF SessionIInv, OneTurnPerChat
<1>2. TokensGrow'
  BY DEF SessionIInv, TokensGrow
<1>3. Linear'
  BY DEF SessionIInv, Linear, Asks
<1> QED BY <1>1, <1>2, <1>3

\* The trajectory stays what it was when no chat moves.
LEMMA NothingStirs ==
  ASSUME SessionIInv, UNCHANGED <<messages, turns, chat>>
  PROVE  OneTurnPerChat' /\ TokensGrow' /\ Linear' /\ Unseen' = Unseen
<1>1. OneTurnPerChat'
  BY DEF SessionIInv, OneTurnPerChat
<1>2. TokensGrow'
  BY DEF SessionIInv, TokensGrow
<1>3. Linear'
  BY DEF SessionIInv, Linear, Asks
<1>4. Unseen' = Unseen
  BY DEF Unseen
<1> QED BY <1>1, <1>2, <1>3, <1>4

\* What the store holds is still accounted for when the chat of a ref that is taken ends.
LEMMA TakenIsAccounted ==
  ASSUME SessionIInv, NEW c \in Chats, chat[c].pc = "proxied", Taken(c),
         NEW pc \in {"answered", "failed", "mismatch"}, chat' = [chat EXCEPT ![c] = Over(pc)],
         RefsOf(turns') \subseteq RefsOf(turns) \cup (IF closing THEN {} ELSE {c}),
         UNCHANGED <<closing, handedOver, job, client, received>>
  PROVE  RefsAccounted' /\ arrived' \subseteq Chats /\ objects' \subseteq Chats /\ undeleted' \subseteq Chats
<1>1. /\ RefsAccounted /\ arrived \subseteq Chats /\ objects \subseteq Chats /\ undeleted \subseteq Chats
      /\ RefsOf(turns') \subseteq RefsOf(turns) \cup (IF closing THEN {} ELSE {c})
      /\ UNCHANGED <<closing, handedOver, job, client, received>>
  BY DEF SessionIInv, SessionTypeOK
<1>2. /\ \A d \in Chats \ {c} : chat'[d] = chat[d]
      /\ chat'[c].pc = pc /\ Unseen' = Unseen
  <2>1. pc \in {"rejected", "answered", "failed", "lost", "mismatch"} /\ pc # "lost"
    OBVIOUS
  <2> QED BY <2>1, ChatOver
<1>3. arrived' \subseteq arrived \cup {c} /\ (closing => arrived' = arrived) /\ c \notin arrived /\ c \notin received
  BY <1>1 DEF Taken, RefsAccounted
<1>4. \A d \in arrived' : chat'[d].pc \in {"answered", "failed", "mismatch"}
  BY <1>1, <1>2, <1>3 DEF RefsAccounted
<1>5. CASE closing
  <2>1. Owned' = Owned /\ c \notin Owned
    BY <1>1, <1>3, <1>5 DEF Owned
  <2>2. PICK gone \in SUBSET {c} : objects' = (objects \cup {c}) \ gone /\ undeleted' = undeleted \cup ({c} \ gone)
    BY <1>5 DEF Taken, Deleted
  <2>3. Owned' \subseteq objects' /\ objects' \subseteq Owned' \cup undeleted' \cup Unseen'
    BY <1>1, <1>2, <2>1, <2>2 DEF RefsAccounted
  <2>4. objects' \subseteq Chats /\ undeleted' \subseteq Chats /\ arrived' \subseteq Chats
    BY <1>1, <1>3, <1>5, <2>2
  <2> QED BY <1>1, <1>3, <1>4, <1>5, <2>3, <2>4 DEF RefsAccounted
<1>6. CASE ~closing
  <2>1. /\ arrived' = arrived \cup {c} /\ objects' = objects \cup {c} /\ undeleted' = undeleted
        /\ client # "done"
    BY <1>1, <1>6 DEF Taken, RefsAccounted
  <2>2. Owned' \subseteq objects' /\ objects' \subseteq Owned' \cup undeleted' \cup Unseen'
    BY <1>1, <1>2, <2>1 DEF RefsAccounted, Owned
  <2> QED BY <1>1, <1>4, <1>6, <2>1, <2>2 DEF RefsAccounted
<1> QED BY <1>5, <1>6

-----------------------------------------------------------------------------
(* The steps that leave the trajectory alone. *)

\* Nothing has happened yet.
LEMMA SessionInitHolds == ASSUME SessionInit PROVE SessionIInv
<1>1. SessionTypeOK
  <2>1. Idle \in [pc : {"idle", "proxied", "rejected", "answered", "failed", "lost", "mismatch"},
                  request : Seq(Messages), prompt : Seq(TokenSet), expected : Nat]
    BY EmptySeq DEF Idle
  <2> QED BY <2>1, EmptySeq DEF SessionInit, SessionTypeOK
<1>2. Len(turns) = 0 /\ Len(messages) = 0 /\ RefsOf(turns) = {} /\ RefsOf(job) = {}
  <2>1. Len(<<>>) = 0
    BY EmptySeq
  <2> QED BY <2>1, RefsOfNone DEF SessionInit
<1>3. RefsAccounted
  BY <1>2 DEF SessionInit, RefsAccounted, Owned
<1>4. OneTurnPerChat
  BY <1>2 DEF OneTurnPerChat
<1>5. TokensGrow
  BY <1>2 DEF TokensGrow
<1>6. Linear
  <2>1. \A c \in Chats : chat[c].pc # "proxied"
    BY DEF SessionInit, Idle
  <2> QED BY <1>2, <2>1 DEF Linear, Exchanges
<1> QED BY <1>1, <1>3, <1>4, <1>5, <1>6 DEF SessionIInv

\* The generation is aborted.
LEMMA AbortedKeeps == ASSUME SessionIInv, NEW c \in Chats, Aborted(c) PROVE SessionIInv'
<1>1. /\ chat[c].pc = "proxied" /\ chat' = [chat EXCEPT ![c] = Over("failed")] /\ Taken(c)
      /\ UNCHANGED <<messages, turns, closing, handedOver, broken, replies, job, client, received>>
  BY DEF Aborted
<1>2. /\ chat' \in [Chats -> [pc : {"idle", "proxied", "rejected", "answered", "failed", "lost", "mismatch"},
                              request : Seq(Messages), prompt : Seq(TokenSet), expected : Nat]]
      /\ \A d \in Chats \ {c} : chat'[d] = chat[d]
      /\ chat'[c].pc = "failed"
  BY <1>1, ChatOver
<1>3. OneTurnPerChat' /\ TokensGrow' /\ Linear'
  BY <1>1, <1>2, TurnsStay
<1>4. RefsAccounted' /\ arrived' \subseteq Chats /\ objects' \subseteq Chats /\ undeleted' \subseteq Chats
  BY <1>1, TakenIsAccounted
<1>5. SessionTypeOK'
  BY <1>1, <1>2, <1>4 DEF SessionIInv, SessionTypeOK
<1> QED BY <1>3, <1>4, <1>5 DEF SessionIInv

\* The answer is lost, and with it the ref of its object.
LEMMA LostKeeps == ASSUME SessionIInv, NEW c \in Chats, Lost(c) PROVE SessionIInv'
<1>1. /\ chat[c].pc = "proxied" /\ chat' = [chat EXCEPT ![c] = Over("lost")]
      /\ objects' \in {objects, objects \cup {c}}
      /\ UNCHANGED <<messages, turns, closing, arrived, handedOver, broken, replies, job, client, received, undeleted>>
  BY DEF Lost
<1>2. /\ chat' \in [Chats -> [pc : {"idle", "proxied", "rejected", "answered", "failed", "lost", "mismatch"},
                              request : Seq(Messages), prompt : Seq(TokenSet), expected : Nat]]
      /\ \A d \in Chats \ {c} : chat'[d] = chat[d]
      /\ chat'[c].pc = "lost" /\ Unseen' = Unseen \cup {c}
  BY <1>1, ChatOver
<1>3. OneTurnPerChat' /\ TokensGrow' /\ Linear'
  BY <1>1, <1>2, TurnsStay
<1>4. SessionTypeOK'
  BY <1>1, <1>2 DEF SessionIInv, SessionTypeOK
<1>5. RefsAccounted'
  <2>1. RefsAccounted /\ arrived \subseteq Chats /\ Owned' = Owned
    BY <1>1 DEF SessionIInv, SessionTypeOK, Owned
  <2>2. \A d \in arrived' : chat'[d].pc \in {"answered", "failed", "mismatch"}
    BY <1>1, <1>2, <2>1 DEF RefsAccounted
  <2>3. Owned' \subseteq objects' /\ objects' \subseteq Owned' \cup undeleted' \cup Unseen'
    BY <1>1, <1>2, <2>1 DEF RefsAccounted
  <2> QED BY <1>1, <2>1, <2>2, <2>3 DEF RefsAccounted
<1> QED BY <1>3, <1>4, <1>5 DEF SessionIInv

\* The engine fails, or the store's contract is broken.
LEMMA FailedKeeps == ASSUME SessionIInv, NEW c \in Chats, Failed(c) PROVE SessionIInv'
<1>1. /\ chat[c].pc = "proxied" /\ chat' = [chat EXCEPT ![c] = Over("failed")] /\ broken' \in {broken, TRUE}
      /\ UNCHANGED <<messages, turns, closing, arrived, handedOver, replies, job, client, received, objects, undeleted>>
  BY DEF Failed
<1>2. /\ chat' \in [Chats -> [pc : {"idle", "proxied", "rejected", "answered", "failed", "lost", "mismatch"},
                              request : Seq(Messages), prompt : Seq(TokenSet), expected : Nat]]
      /\ \A d \in Chats \ {c} : chat'[d] = chat[d]
      /\ chat'[c].pc = "failed" /\ Unseen' = Unseen
  BY <1>1, ChatOver
<1>3. OneTurnPerChat' /\ TokensGrow' /\ Linear'
  BY <1>1, <1>2, TurnsStay
<1>4. SessionTypeOK'
  BY <1>1, <1>2 DEF SessionIInv, SessionTypeOK
<1>5. RefsAccounted'
  <2>1. RefsAccounted /\ arrived \subseteq Chats /\ Owned' = Owned
    BY <1>1 DEF SessionIInv, SessionTypeOK, Owned
  <2>2. \A d \in arrived' : chat'[d].pc \in {"answered", "failed", "mismatch"}
    BY <1>1, <1>2, <2>1 DEF RefsAccounted
  <2> QED BY <1>1, <1>2, <2>1, <2>2 DEF RefsAccounted
<1> QED BY <1>3, <1>4, <1>5 DEF SessionIInv

\* /samples takes its snapshot.
LEMMA CollectKeeps == ASSUME SessionIInv, Collect PROVE SessionIInv'
<1>1. OneTurnPerChat' /\ TokensGrow' /\ Linear' /\ Unseen' = Unseen
  BY NothingStirs DEF Collect
<1>2. SessionTypeOK'
  BY EmptySeq DEF SessionIInv, SessionTypeOK, Collect
<1>4. RefsAccounted'
  BY <1>1, RefsOfNone DEF SessionIInv, RefsAccounted, Collect, Owned
<1> QED BY <1>1, <1>2, <1>4 DEF SessionIInv

\* The sample is assembled and its refs are handed over.
LEMMA AssembledKeeps == ASSUME SessionIInv, NEW n \in 0 .. Len(job), Assembled(n) PROVE SessionIInv'
<1> DEFINE given == RefsOf(SubSeq(job, 1, n))
<1>1. OneTurnPerChat' /\ TokensGrow' /\ Linear' /\ Unseen' = Unseen
  BY NothingStirs DEF Assembled
<1>2. given \subseteq RefsOf(job) /\ RefsOf(job) \subseteq Chats /\ RefsOf(<<>>) = {}
  <2>1. job \in Seq(Turn)
    BY DEF SessionIInv, SessionTypeOK
  <2> QED BY <2>1, RefsOfTurns, RefsOfNone
<1>3. /\ job # <<>> /\ job' = <<>> /\ handedOver' = handedOver \cup given
      /\ received' = IF client = "collecting" THEN given ELSE received
      /\ client' = IF client = "collecting" THEN "received" ELSE client
      /\ UNCHANGED <<messages, turns, closing, arrived, broken, chat, replies, objects, undeleted>>
  BY DEF Assembled
<1> HIDE DEF given
<1>4. SessionTypeOK'
  BY <1>2, <1>3, EmptySeq DEF SessionIInv, SessionTypeOK
<1>5. RefsAccounted'
  BY <1>1, <1>2, <1>3 DEF SessionIInv, RefsAccounted, Owned
<1> QED BY <1>1, <1>4, <1>5 DEF SessionIInv

\* The client gives up.
LEMMA ClientTimesOutKeeps == ASSUME SessionIInv, ClientTimesOut PROVE SessionIInv'
<1>1. OneTurnPerChat' /\ TokensGrow' /\ Linear' /\ Unseen' = Unseen
  BY NothingStirs DEF ClientTimesOut
<1>2. SessionTypeOK'
  BY DEF SessionIInv, SessionTypeOK, ClientTimesOut
<1>3. RefsAccounted'
  BY <1>1 DEF SessionIInv, RefsAccounted, ClientTimesOut, Owned
<1> QED BY <1>1, <1>2, <1>3 DEF SessionIInv

\* DELETE begins.
LEMMA BeginDeleteKeeps == ASSUME SessionIInv, BeginDelete PROVE SessionIInv'
<1>1. OneTurnPerChat' /\ TokensGrow' /\ Linear' /\ Unseen' = Unseen
  BY NothingStirs DEF BeginDelete
<1>2. SessionTypeOK'
  BY DEF SessionIInv, SessionTypeOK, BeginDelete
<1>3. RefsAccounted'
  BY <1>1 DEF SessionIInv, RefsAccounted, BeginDelete, Owned
<1> QED BY <1>1, <1>2, <1>3 DEF SessionIInv

\* DELETE ends: what was not handed over is deleted.
LEMMA EndDeleteKeeps == ASSUME SessionIInv, EndDelete PROVE SessionIInv'
<1>1. OneTurnPerChat' /\ TokensGrow' /\ Linear' /\ Unseen' = Unseen
  BY NothingStirs DEF EndDelete
<1> DEFINE kept == KeptBySession(client = "received")
<1>2. PICK gone \in SUBSET kept : objects' = objects \ gone /\ undeleted' = undeleted \cup (kept \ gone)
  BY DEF EndDelete, Deleted
<1>3. RefsAccounted /\ SessionTypeOK
  BY DEF SessionIInv
<1>4. kept = (IF client = "received" THEN arrived \ handedOver ELSE arrived) /\ kept \subseteq Chats
  BY <1>3 DEF KeptBySession, SessionTypeOK
<1>5. /\ closing /\ client \in {"received", "failed"} /\ client' = "done"
      /\ UNCHANGED <<messages, turns, closing, arrived, handedOver, broken, chat, replies, job, received>>
  BY DEF EndDelete
<1> HIDE DEF kept
<1>6. SessionTypeOK'
  BY <1>2, <1>3, <1>4, <1>5 DEF SessionTypeOK
<1>7. Owned = arrived /\ Owned' = received /\ arrived = received \cup kept /\ received \cap kept = {}
  BY <1>3, <1>4, <1>5 DEF RefsAccounted, Owned
<1>8. Owned' \subseteq objects' /\ objects' \subseteq Owned' \cup undeleted' \cup Unseen'
  BY <1>1, <1>2, <1>3, <1>7 DEF RefsAccounted
<1>9. RefsAccounted'
  BY <1>3, <1>5, <1>8 DEF RefsAccounted
<1> QED BY <1>1, <1>6, <1>9 DEF SessionIInv

-----------------------------------------------------------------------------
(* A turn is prepared. *)

\* The trajectory is rolled back to a checkpoint of its own.
LEMMA RolledBack ==
  ASSUME SessionIInv, NEW k \in 0 .. Len(turns), RollBack(k)
  PROVE  /\ turns' \in Seq(Turn) /\ Len(turns') = k /\ \A i \in 1 .. k : turns'[i] = turns[i]
         /\ messages' \in Seq(Messages) /\ RefsOf(turns') \subseteq RefsOf(turns)
<1>1. turns \in Seq(Turn) /\ messages \in Seq(Messages) /\ SessionTypeOK
  BY DEF SessionIInv, SessionTypeOK
<1>2. turns' = SubSeq(turns, 1, k) /\ (messages' = messages \/ messages' = Upto(k))
  BY DEF RollBack
<1>3. turns' \in Seq(Turn) /\ Len(turns') = k /\ \A i \in 1 .. k : turns'[i] = turns[i]
  BY <1>1, <1>2, Beginning
<1>4. messages' \in Seq(Messages)
  BY <1>1, <1>2, UptoMessages
<1>5. RefsOf(turns') \subseteq RefsOf(turns)
  BY <1>1, <1>2, RefsOfTurns
<1> QED BY <1>3, <1>4, <1>5

\* A request is a history with one more prompt.
LEMMA RequestIsMessages ==
  ASSUME SessionIInv, NEW h \in Histories, NEW p \in Prompts
  PROVE  h \in Seq(Messages) /\ Append(h, p) \in Seq(Messages) /\ Checkpoint(Append(h, p)) \in 0 .. Len(turns)
<1>1. SessionTypeOK
  BY DEF SessionIInv
<1>2. h \in Seq(Messages)
  <2>1. CASE Branches
    BY <1>1, <2>1 DEF Histories, SessionTypeOK
  <2>2. CASE ~Branches
    <3>1. PICK k \in 0 .. Len(turns) : h = Upto(k)
      BY <2>2 DEF Histories
    <3> QED BY <1>1, <3>1, UptoMessages
  <2> QED BY <2>1, <2>2
<1>3. Append(h, p) \in Seq(Messages)
  <2>1. p \in Messages
    BY DEF Messages
  <2> QED BY <1>2, <2>1, AppendProperties
<1> QED
  BY <1>1, <1>2, <1>3, CheckpointIsOne

\* A request that adds the prompt to the history of checkpoint j, and finds it.
RequestOf(r, h, p, j) ==
    /\ Checkpoint(r) = j /\ h = SubSeq(messages, 1, 2 * j)
    /\ Len(r) = 2 * j + 1 /\ r[2 * j + 1] = p /\ SubSeq(r, 1, 2 * j) = h

\* Every request without branches is one.
LEMMA RequestOfHistory ==
  ASSUME SessionIInv, ~Branches, NEW h \in Histories, NEW p \in Prompts
  PROVE  \E j \in 0 .. Len(turns) : RequestOf(Append(h, p), h, p, j)
<1> DEFINE r == Append(h, p)
<1>1. /\ SessionTypeOK /\ messages \in Seq(Messages) /\ Exchanges(messages, Len(turns))
      /\ \A k \in 1 .. Len(turns) : turns[k].end = 2 * k
  BY DEF SessionIInv, SessionTypeOK, Linear
<1>2. PICK j \in 0 .. Len(turns) : h = Upto(j)
  BY DEF Histories
<1>3. Len(turns) \in Nat /\ Len(messages) = 2 * Len(turns)
  BY <1>1, EndsAreNumbers DEF Exchanges
<1>4. End(j) = 2 * j /\ 2 * j <= Len(messages) /\ 2 * j \in 0 .. Len(messages)
  BY <1>1, <1>3 DEF End
<1>5. h = SubSeq(messages, 1, 2 * j)
  BY <1>1, <1>2, <1>4, UptoMessages
<1>6. h \in Seq(Messages) /\ Len(h) = 2 * j
  BY <1>1, <1>4, <1>5, Beginning
<1>7. p \in Messages
  BY DEF Messages
<1>R. r = Append(h, p)
  OBVIOUS
<1> HIDE DEF r
<1>8. r \in Seq(Messages) /\ Len(r) = 2 * j + 1 /\ r[2 * j + 1] = p /\ \A i \in 1 .. (2 * j) : r[i] = h[i]
  BY <1>6, <1>7, <1>R, OneAppended
<1>9. SubSeq(r, 1, 2 * j) = h
  <2> DEFINE s == SubSeq(r, 1, 2 * j)
  <2>1. 2 * j \in 0 .. Len(r)
    BY <1>8
  <2>2. s \in Seq(Messages) /\ Len(s) = 2 * j /\ \A i \in 1 .. (2 * j) : s[i] = r[i]
    BY <1>8, <2>1, Beginning
  <2> HIDE DEF s
  <2>3. s = h
    BY <1>6, <1>8, <2>2, SameSequence
  <2> QED BY <2>3 DEF s
<1>10. Checkpoint(r) = j
  BY <1>1, <1>5, <1>8, <1>9, CheckpointIsKnown
<1>11. RequestOf(r, h, p, j)
  BY <1>5, <1>8, <1>9, <1>10 DEF RequestOf
<1> QED
  BY <1>11 DEF r

\* The beginning of a beginning.
LEMMA BeginningTwice ==
  ASSUME NEW S, NEW s \in Seq(S), NEW n \in 0 .. Len(s), NEW m \in 0 .. n
  PROVE  SubSeq(SubSeq(s, 1, n), 1, m) = SubSeq(s, 1, m)
<1> DEFINE t == SubSeq(s, 1, n)
           u == SubSeq(t, 1, m)
           v == SubSeq(s, 1, m)
<1>1. t \in Seq(S) /\ Len(t) = n /\ \A i \in 1 .. n : t[i] = s[i]
  BY Beginning
<1> HIDE DEF t
<1>2. u \in Seq(S) /\ Len(u) = m /\ \A i \in 1 .. m : u[i] = t[i]
  BY <1>1, Beginning
<1>3. m \in 0 .. Len(s) /\ \A i \in 1 .. m : i \in 1 .. n
  BY LenProperties
<1>4. v \in Seq(S) /\ Len(v) = m /\ \A i \in 1 .. m : v[i] = s[i]
  BY <1>3, Beginning
<1> HIDE DEF u, v
<1>5. u = v
  BY <1>1, <1>2, <1>3, <1>4, SameSequence
<1> QED
  BY <1>5 DEF t, u, v

\* The exchanges of a beginning.
LEMMA ExchangesBefore ==
  ASSUME NEW n \in Nat, NEW h \in Seq(Messages), Exchanges(h, n), NEW j \in 0 .. n, NEW g, g = SubSeq(h, 1, 2 * j)
  PROVE  g \in Seq(Messages) /\ Exchanges(g, j)
<1>1. Len(h) = 2 * n /\ \A i \in 1 .. n : h[2 * i - 1] \in Prompts /\ h[2 * i] \in Contents
  BY DEF Exchanges
<1>2. 2 * j \in 0 .. Len(h)
  BY <1>1
<1>3. g \in Seq(Messages) /\ Len(g) = 2 * j /\ \A i \in 1 .. (2 * j) : g[i] = h[i]
  BY <1>2, Beginning
<1>4. \A i \in 1 .. j : i \in 1 .. n /\ 2 * i - 1 \in 1 .. (2 * j) /\ 2 * i \in 1 .. (2 * j)
  OBVIOUS
<1>5. \A i \in 1 .. j : g[2 * i - 1] \in Prompts /\ g[2 * i] \in Contents
  BY <1>1, <1>3, <1>4
<1> QED
  BY <1>3, <1>5 DEF Exchanges

\* The turn is refused, or its trajectory rolled back and its request sent on.
LEMMA PrepareCases ==
  ASSUME SessionIInv, NEW c \in Chats, NEW h \in Histories, NEW p \in Prompts, Prepare(c, h, p),
         NEW r, r = Append(h, p), NEW k, k = Checkpoint(r)
  PROVE  /\ chat[c].pc = "idle"
         /\ \/ chat' = [chat EXCEPT ![c] = Over("rejected")] /\ UNCHANGED <<messages, turns>>
            \/ /\ RollBack(k)
               /\ chat' = [chat EXCEPT ![c] = [pc |-> "proxied", request |-> r,
                                               prompt |-> Rendered(k, r), expected |-> k]]
         /\ UNCHANGED <<closing, arrived, handedOver, broken, replies, job, client, received, objects, undeleted>>
BY DEF Prepare

\* A chat takes on a new state, and no other chat does.
LEMMA SentOn ==
  ASSUME SessionTypeOK, NEW c \in Chats,
         NEW e \in [pc : {"idle", "proxied", "rejected", "answered", "failed", "lost", "mismatch"},
                    request : Seq(Messages), prompt : Seq(TokenSet), expected : Nat],
         chat' = [chat EXCEPT ![c] = e]
  PROVE  /\ chat' \in [Chats -> [pc : {"idle", "proxied", "rejected", "answered", "failed", "lost", "mismatch"},
                                 request : Seq(Messages), prompt : Seq(TokenSet), expected : Nat]]
         /\ \A d \in Chats \ {c} : chat'[d] = chat[d]
         /\ chat'[c] = e
<1> DEFINE R == [pc : {"idle", "proxied", "rejected", "answered", "failed", "lost", "mismatch"},
                 request : Seq(Messages), prompt : Seq(TokenSet), expected : Nat]
<1>1. chat \in [Chats -> R] /\ e \in R
  BY DEF SessionTypeOK
<1> HIDE DEF R
<1>2. chat' \in [Chats -> R] /\ chat'[c] = e /\ \A d \in Chats \ {c} : chat'[d] = chat[d]
  BY <1>1
<1> QED
  BY <1>2 DEF R

\* The trajectory is rolled back and the request sent on.
LEMMA SentOnKeeps ==
  ASSUME SessionIInv, NEW c \in Chats, NEW h \in Histories, NEW p \in Prompts,
         NEW r, r = Append(h, p), NEW k, k = Checkpoint(r), RollBack(k), chat[c].pc = "idle",
         chat' = [chat EXCEPT ![c] = [pc |-> "proxied", request |-> r,
                                      prompt |-> Rendered(k, r), expected |-> k]],
         UNCHANGED <<closing, arrived, handedOver, broken, replies, job, client, received, objects, undeleted>>
  PROVE  SessionIInv'
<1>1. SessionTypeOK /\ r \in Seq(Messages) /\ k \in 0 .. Len(turns)
  BY RequestIsMessages DEF SessionIInv
<1>2. Len(turns) \in Nat /\ k \in Nat
  BY <1>1, EndsAreNumbers
<1> DEFINE toks == Rendered(k, r)
<1>3. toks \in Seq(TokenSet)
  BY <1>1, RenderedTokens
<1>4. chat' = [chat EXCEPT ![c] = [pc |-> "proxied", request |-> r, prompt |-> toks, expected |-> k]]
  OBVIOUS
<1>T. toks = Rendered(k, r)
  OBVIOUS
<1> HIDE DEF toks
<1> DEFINE e == [pc |-> "proxied", request |-> r, prompt |-> toks, expected |-> k]
<1>E. /\ e \in [pc : {"idle", "proxied", "rejected", "answered", "failed", "lost", "mismatch"},
               request : Seq(Messages), prompt : Seq(TokenSet), expected : Nat]
      /\ chat' = [chat EXCEPT ![c] = e]
  BY <1>1, <1>2, <1>3, <1>4
<1> HIDE DEF e
<1>5. /\ chat' \in [Chats -> [pc : {"idle", "proxied", "rejected", "answered", "failed", "lost", "mismatch"},
                              request : Seq(Messages), prompt : Seq(TokenSet), expected : Nat]]
      /\ \A d \in Chats \ {c} : chat'[d] = chat[d]
      /\ chat'[c] = e
  BY <1>1, <1>E, SentOn
<1>F. /\ chat'[c].pc = "proxied" /\ chat'[c].request = r
      /\ chat'[c].prompt = toks /\ chat'[c].expected = k
  BY <1>5 DEF e
<1>6. /\ turns' \in Seq(Turn) /\ Len(turns') = k /\ \A i \in 1 .. k : turns'[i] = turns[i]
      /\ messages' \in Seq(Messages) /\ RefsOf(turns') \subseteq RefsOf(turns)
  BY <1>1, RolledBack
<1>7. SessionTypeOK'
  BY <1>5, <1>6 DEF SessionIInv, SessionTypeOK
<1>8. RefsAccounted'
  <2>1. RefsAccounted /\ arrived \subseteq Chats /\ Owned' = Owned
    BY DEF SessionIInv, SessionTypeOK, Owned
  <2>2. \A d \in arrived' : chat'[d].pc \in {"answered", "failed", "mismatch"}
    BY <1>5, <2>1 DEF RefsAccounted
  <2>3. Unseen' = Unseen
    BY <1>5, <1>F DEF Unseen
  <2> QED BY <1>6, <2>1, <2>2, <2>3 DEF RefsAccounted
<1>K. \A i \in 1 .. k : i \in 1 .. Len(turns)
  BY <1>1, <1>2
<1>9. OneTurnPerChat'
  <2>1. \A i \in 1 .. k : turns[i].record.chat \in Chats \ {c}
    BY <1>1, <1>K, TurnFields, OtherChats DEF SessionIInv
  <2>2. \A i \in 1 .. k : LET t == turns[i].record
                          IN  turns[i].tokens = t.prompt \o t.output /\ chat[t.chat].pc = "answered"
    BY <1>K DEF SessionIInv, OneTurnPerChat
  <2>3. \A i, j \in 1 .. k : turns[i].record.chat = turns[j].record.chat => i = j
    BY <1>K DEF SessionIInv, OneTurnPerChat
  <2>4. \A i \in 1 .. k : LET t == turns'[i].record
                          IN  turns'[i].tokens = t.prompt \o t.output /\ chat'[t.chat].pc = "answered"
    <3>1. \A i \in 1 .. k : chat'[turns[i].record.chat] = chat[turns[i].record.chat]
      BY <1>5, <2>1
    <3>2. \A i \in 1 .. k : turns'[i] = turns[i]
      BY <1>6
    <3>3. \A i \in 1 .. k : turns[i].tokens = turns[i].record.prompt \o turns[i].record.output
      BY <2>2
    <3>4. \A i \in 1 .. k : chat[turns[i].record.chat].pc = "answered"
      BY <2>2
    <3> SUFFICES ASSUME NEW i \in 1 .. k
                 PROVE  /\ turns'[i].tokens = turns'[i].record.prompt \o turns'[i].record.output
                        /\ chat'[turns'[i].record.chat].pc = "answered"
      OBVIOUS
    <3>5. turns'[i] = turns[i]
      BY <3>2
    <3>6. turns[i].tokens = turns[i].record.prompt \o turns[i].record.output
      BY <3>3
    <3>7. chat'[turns[i].record.chat].pc = "answered"
      BY <3>1, <3>4
    <3> QED BY <3>5, <3>6, <3>7
  <2>5. \A i, j \in 1 .. k : turns'[i].record.chat = turns'[j].record.chat => i = j
    BY <1>6, <2>3
  <2> QED BY <1>6, <2>4, <2>5 DEF OneTurnPerChat
<1>10. TokensGrow'
  <2>1. Len(turns') = k /\ \A i \in 1 .. k : turns'[i] = turns[i]
    BY <1>6
  <2>2. TokensGrow
    BY DEF SessionIInv
  <2> SUFFICES ASSUME NEW i \in 1 .. k, NEW j \in 1 .. k, i < j
               PROVE  /\ Len(turns'[i].tokens) <= Len(turns'[j].tokens)
                      /\ \A l \in 1 .. Len(turns'[i].tokens) - Trim : turns'[j].tokens[l] = turns'[i].tokens[l]
    BY <2>1 DEF TokensGrow
  <2>3. /\ Len(turns[i].tokens) <= Len(turns[j].tokens)
        /\ \A l \in 1 .. Len(turns[i].tokens) - Trim : turns[j].tokens[l] = turns[i].tokens[l]
    BY <1>K, <2>2 DEF TokensGrow
  <2> QED BY <2>1, <2>3
<1>11. Linear'
  <2> SUFFICES ASSUME ~Branches PROVE Linear'
    BY DEF Linear
  <2>1. /\ messages \in Seq(Messages) /\ Exchanges(messages, Len(turns))
        /\ \A i \in 1 .. Len(turns) : /\ turns[i].end = 2 * i
                                      /\ turns[i].tokens = Canonical(SubSeq(messages, 1, 2 * i))
        /\ \A d \in Chats : chat[d].pc = "proxied" => Asks(chat[d])
    BY DEF SessionIInv, SessionTypeOK, Linear
  <2>2. PICK j \in 0 .. Len(turns) : RequestOf(Append(h, p), h, p, j)
    BY RequestOfHistory
  <2>3. /\ h = SubSeq(messages, 1, 2 * k) /\ Len(r) = 2 * k + 1 /\ r[2 * k + 1] = p
        /\ SubSeq(r, 1, 2 * k) = h
    BY <2>2 DEF RequestOf
  <2>4. Len(messages) = 2 * Len(turns) /\ End(k) = 2 * k /\ 2 * k \in 0 .. Len(messages)
    <3>1. Len(messages) = 2 * Len(turns)
      BY <2>1 DEF Exchanges
    <3>2. End(k) = 2 * k
      BY <1>1, <1>2, <2>1 DEF End
    <3> QED BY <1>1, <1>2, <3>1, <3>2
  <2>5. messages' = h
    <3>1. CASE k = Len(turns)
      <4>1. SubSeq(messages, 1, Len(messages)) = messages
        BY <2>1, SubSeqFull
      <4>2. messages' = messages
        BY <3>1 DEF RollBack
      <4> QED BY <3>1, <2>3, <2>4, <4>1, <4>2
    <3>2. CASE k # Len(turns)
      <4>1. messages' = Upto(k)
        BY <3>2 DEF RollBack
      <4>2. End(k) <= Len(messages)
        BY <2>4
      <4> QED BY <1>1, <2>3, <2>4, <4>1, <4>2, UptoMessages
    <3> QED BY <3>1, <3>2
  <2>6. Exchanges(h, k) /\ h \in Seq(Messages)
    BY <1>1, <1>2, <2>1, <2>3, ExchangesBefore
  <2>7. \A i \in 1 .. k : SubSeq(h, 1, 2 * i) = SubSeq(messages, 1, 2 * i)
    <3> SUFFICES ASSUME NEW i \in 1 .. k PROVE SubSeq(h, 1, 2 * i) = SubSeq(messages, 1, 2 * i)
      OBVIOUS
    <3>1. 2 * i \in 0 .. (2 * k)
      BY <1>2
    <3> QED BY <2>1, <2>3, <2>4, <3>1, BeginningTwice
  <2>8. toks = Continued(Canonical(h)) \o <<p>>
    <3>1. toks = Continued(IF k = 0 THEN <<>> ELSE turns[k].tokens) \o <<p>>
      <4>1. Len(r) = End(k) + 1 /\ r[End(k) + 1] = p
        BY <2>3, <2>4
      <4> QED BY <1>1, <1>T, <4>1, RenderedPrompt, Zenon
    <3>2. CASE k = 0
      <4>1. h = <<>>
        <5>1. SubSeq(messages, 1, 0) = <<>>
          BY SubSeqEmpty
        <5> QED BY <3>2, <5>1, <2>3
      <4>2. Canonical(<<>>) = <<>>
        <5>1. Pieces(<<>>) = <<>>
          BY DEF Pieces
        <5> QED BY <5>1, CanonicalIsFlat, FlattenEmpty
      <4> QED BY <3>1, <3>2, <4>1, <4>2
    <3>3. CASE k # 0
      <4>1. k \in 1 .. Len(turns)
        BY <1>1, <1>2, <3>3
      <4>2. turns[k].tokens = Canonical(h)
        BY <2>1, <2>3, <4>1
      <4> QED BY <3>1, <3>3, <4>2
    <3> QED BY <3>2, <3>3
  <2>9. \A d \in Chats : chat'[d].pc = "proxied" => Asks(chat'[d])
    <3>2. Asks(chat'[c])
      BY <1>F, <2>3, <2>6, <2>8 DEF Asks
    <3> QED BY <1>5, <2>1, <3>2
  <2>10. \A i \in 1 .. k : turns'[i].end = 2 * i /\ turns'[i].tokens = Canonical(SubSeq(h, 1, 2 * i))
    BY <1>6, <1>K, <2>1, <2>7
  <2> QED BY <1>6, <2>5, <2>6, <2>9, <2>10 DEF Linear
<1> QED BY <1>7, <1>8, <1>9, <1>10, <1>11 DEF SessionIInv

\* A turn is prepared, or refused.
LEMMA PrepareKeeps ==
  ASSUME SessionIInv, NEW c \in Chats, NEW h \in Histories, NEW p \in Prompts, Prepare(c, h, p)
  PROVE  SessionIInv'
<1> DEFINE r == Append(h, p)
           k == Checkpoint(r)
<1>1. /\ chat[c].pc = "idle"
      /\ \/ chat' = [chat EXCEPT ![c] = Over("rejected")] /\ UNCHANGED <<messages, turns>>
         \/ /\ RollBack(k)
            /\ chat' = [chat EXCEPT ![c] = [pc |-> "proxied", request |-> r,
                                            prompt |-> Rendered(k, r), expected |-> k]]
      /\ UNCHANGED <<closing, arrived, handedOver, broken, replies, job, client, received, objects, undeleted>>
  BY PrepareCases
<1>2. CASE chat' = [chat EXCEPT ![c] = Over("rejected")] /\ UNCHANGED <<messages, turns>>
  <2>1. /\ chat' \in [Chats -> [pc : {"idle", "proxied", "rejected", "answered", "failed", "lost", "mismatch"},
                                request : Seq(Messages), prompt : Seq(TokenSet), expected : Nat]]
        /\ \A d \in Chats \ {c} : chat'[d] = chat[d]
        /\ chat'[c].pc = "rejected" /\ Unseen' = Unseen
    BY <1>1, <1>2, ChatOver
  <2>2. OneTurnPerChat' /\ TokensGrow' /\ Linear'
    BY <1>1, <1>2, <2>1, TurnsStay
  <2>3. SessionTypeOK'
    BY <1>1, <1>2, <2>1 DEF SessionIInv, SessionTypeOK
  <2>4. RefsAccounted'
    <3>1. RefsAccounted /\ arrived \subseteq Chats /\ Owned' = Owned
      BY <1>1 DEF SessionIInv, SessionTypeOK, Owned
    <3>2. \A d \in arrived' : chat'[d].pc \in {"answered", "failed", "mismatch"}
      BY <1>1, <2>1, <3>1 DEF RefsAccounted
    <3> QED BY <1>1, <1>2, <2>1, <3>1, <3>2 DEF RefsAccounted
  <2> QED BY <2>2, <2>3, <2>4 DEF SessionIInv
<1>3. CASE RollBack(k) /\ chat' = [chat EXCEPT ![c] = [pc |-> "proxied", request |-> r,
                                                       prompt |-> Rendered(k, r), expected |-> k]]
  BY <1>1, <1>3, SentOnKeeps
<1> QED BY <1>1, <1>2, <1>3

-----------------------------------------------------------------------------
(* A generation comes in. *)

\* The tokens of a turn: its prompt's and its completion's.
PromptAndReply(t, q, x) ==
    /\ t \in Seq(TokenSet) /\ Len(q) \in Nat /\ Len(t) = Len(q) + 2
    /\ t[Len(q) + 1] = x /\ t[Len(q) + 2] = "stop"
    /\ \A i \in 1 .. Len(q) : t[i] = q[i]

\* They are a sequence that ends with the text and the stop token.
LEMMA TurnTokens ==
  ASSUME NEW q \in Seq(TokenSet), NEW x \in Contents
  PROVE  PromptAndReply(q \o Completion(x), q, x)
<1> DEFINE o == Completion(x)
           t == q \o o
<1>1. o \in Seq(TokenSet) /\ Len(o) = 2 /\ o[1] = x /\ o[2] = "stop"
  BY CompletionTokens
<1> HIDE DEF o
<1>3. Len(q) \in Nat
  BY LenProperties
<1>4. /\ t \in Seq(TokenSet) /\ Len(t) = Len(q) + Len(o)
      /\ \A i \in 1 .. Len(q) + Len(o) : t[i] = IF i <= Len(q) THEN q[i] ELSE o[i - Len(q)]
  BY <1>1, ConcatProperties
<1> HIDE DEF t
<1>5. Len(t) = Len(q) + 2
  BY <1>1, <1>4
<1>6. t[Len(q) + 1] = x
  <2>1. Len(q) + 1 \in 1 .. Len(q) + Len(o) /\ ~(Len(q) + 1 <= Len(q)) /\ Len(q) + 1 - Len(q) = 1
    BY <1>1, <1>3
  <2> QED BY <1>1, <1>4, <2>1
<1>7. t[Len(q) + 2] = "stop"
  <2>1. Len(q) + 2 \in 1 .. Len(q) + Len(o) /\ ~(Len(q) + 2 <= Len(q)) /\ Len(q) + 2 - Len(q) = 2
    BY <1>1, <1>3
  <2> QED BY <1>1, <1>4, <2>1
<1>8. \A i \in 1 .. Len(q) : t[i] = q[i]
  BY <1>1, <1>3, <1>4
<1> QED
  BY <1>3, <1>4, <1>5, <1>6, <1>7, <1>8 DEF PromptAndReply, t, o

\* The check of the prefix.
Matches(all, T) ==
    LET n == Len(T) - Trim
    IN  ~(n > 0 /\ SubSeq(all, 1, IF n <= Len(all) THEN n ELSE Len(all)) # SubSeq(T, 1, n))

\* New tokens go on from the stored ones, up to what the family trims.
Grow(T, all) == Len(T) <= Len(all) /\ \A i \in 1 .. Len(T) - Trim : all[i] = T[i]

\* Tokens that pass the check of the prefix go on from the stored ones, up to what
\* the family trims: they cannot end where the stored text does.
LEMMA MatchGrows ==
  ASSUME NEW q \in Seq(TokenSet), NEW r \in Seq(TokenSet), NEW x \in Contents, NEW y \in Contents,
         Matches(r \o Completion(y), q \o Completion(x))
  PROVE  Grow(q \o Completion(x), r \o Completion(y))
<1> DEFINE T == q \o Completion(x)
           all == r \o Completion(y)
           n == Len(T) - Trim
           m == IF n <= Len(all) THEN n ELSE Len(all)
           a == SubSeq(all, 1, m)
           b == SubSeq(T, 1, n)
<1>0. Trim \in {0, 1} /\ "stop" \notin Contents
  BY SessionAssumption
<1>1. /\ T \in Seq(TokenSet) /\ Len(q) \in Nat /\ Len(T) = Len(q) + 2
      /\ T[Len(q) + 1] = x /\ T[Len(q) + 2] = "stop"
  <2>1. PromptAndReply(T, q, x)
    BY TurnTokens
  <2> QED BY <2>1 DEF PromptAndReply
<1>2. /\ all \in Seq(TokenSet) /\ Len(r) \in Nat /\ Len(all) = Len(r) + 2
      /\ all[Len(r) + 1] = y /\ all[Len(r) + 2] = "stop"
  <2>1. PromptAndReply(all, r, y)
    BY TurnTokens
  <2> QED BY <2>1 DEF PromptAndReply
<1>M. Matches(all, T)
  OBVIOUS
<1> HIDE DEF T, all
<1>3. n \in Nat /\ n > 0 /\ n \in 0 .. Len(T) /\ m \in 0 .. Len(all)
  BY <1>0, <1>1, <1>2
<1>4. a = b
  BY <1>3, <1>M DEF Matches
<1> HIDE DEF n, m
<1>5. a \in Seq(TokenSet) /\ Len(a) = m /\ \A i \in 1 .. m : a[i] = all[i]
  BY <1>2, <1>3, Beginning
<1>6. b \in Seq(TokenSet) /\ Len(b) = n /\ \A i \in 1 .. n : b[i] = T[i]
  BY <1>1, <1>3, Beginning
<1> HIDE DEF a, b
<1>7. m = n /\ \A i \in 1 .. n : all[i] = T[i]
  BY <1>4, <1>5, <1>6
<1>8. n <= Len(all)
  BY <1>3, <1>7 DEF m
<1>9. Len(T) <= Len(all)
  <2> SUFFICES ASSUME ~(Len(T) <= Len(all)) PROVE FALSE
    OBVIOUS
  <2>1. Len(r) + 2 = Len(q) + 1 /\ n = Len(q) + 1
    BY <1>0, <1>1, <1>2, <1>8 DEF n
  <2>2. n \in 1 .. n
    BY <1>3
  <2>3. all[n] = T[n]
    BY <1>7, <2>2
  <2>4. all[n] = "stop" /\ T[n] = x
    BY <1>1, <1>2, <2>1
  <2> QED BY <1>0, <2>3, <2>4
<1>10. Grow(T, all)
  BY <1>7, <1>9 DEF n, Grow
<1> QED
  BY <1>10 DEF T, all

\* What a turn that is committed adds.
LEMMA CommitAdds ==
  ASSUME SessionIInv, NEW c \in Chats, NEW text \in Contents, Committed(c, text)
  PROVE  \E t \in Turn :
            /\ t.tokens = chat[c].prompt \o Completion(text) /\ t.end = Len(chat[c].request) + 1
            /\ t.record.chat = c /\ t.tokens = t.record.prompt \o t.record.output
            /\ turns' \in Seq(Turn) /\ Len(turns') = Len(turns) + 1 /\ turns'[Len(turns) + 1] = t
            /\ \A i \in 1 .. Len(turns) : turns'[i] = turns[i]
<1> DEFINE o == Completion(text)
           q == chat[c].prompt
           all == q \o o
           rec == [chat |-> c, prompt |-> q, output |-> o]
           t == [end |-> Len(chat[c].request) + 1, tokens |-> all, record |-> rec]
<1>1. SessionTypeOK /\ turns \in Seq(Turn)
  BY DEF SessionIInv, SessionTypeOK
<1>2. q \in Seq(TokenSet) /\ Len(chat[c].request) \in Nat
  BY <1>1, ChatFields, LenProperties
<1>3. all \in Seq(TokenSet)
  BY <1>2, TurnTokens DEF PromptAndReply
<1>4. turns' = Append(turns, t)
  BY DEF Committed
<1>5. t \in Turn
  <2>1. rec \in [chat : Chats, prompt : Seq(TokenSet), output : {Completion(z) : z \in Contents}]
    BY <1>2
  <2>2. Len(chat[c].request) + 1 \in Nat
    BY <1>2
  <2> HIDE DEF rec
  <2> QED BY <1>3, <2>1, <2>2 DEF Turn
<1>6. /\ t.tokens = all /\ t.end = Len(chat[c].request) + 1
      /\ t.record.chat = c /\ t.tokens = t.record.prompt \o t.record.output
  OBVIOUS
<1> HIDE DEF t
<1>7. /\ turns' \in Seq(Turn) /\ Len(turns') = Len(turns) + 1 /\ turns'[Len(turns) + 1] = t
      /\ \A i \in 1 .. Len(turns) : turns'[i] = turns[i]
  BY <1>1, <1>4, <1>5, OneAppended
<1> QED
  BY <1>5, <1>6, <1>7

\* The stored tokens are those of the last turn.
LEMMA TokensOfTheLast ==
  ASSUME SessionIInv, turns # <<>>
  PROVE  Len(turns) \in 1 .. Len(turns) /\ TokenIds = turns[Len(turns)].tokens
<1>1. turns \in Seq(Turn)
  BY DEF SessionIInv, SessionTypeOK
<1>2. Len(turns) \in Nat /\ Len(turns) # 0
  BY <1>1, EmptySeq
<1>3. Last(turns) = turns[Len(turns)]
  BY DEF Last
<1> QED
  BY <1>2, <1>3 DEF TokenIds

\* The tokens of a turn that passed the check go on from those of every turn.
LEMMA CommitGrows ==
  ASSUME SessionIInv, NEW c \in Chats, NEW text \in Contents,
         NEW all, all = chat[c].prompt \o Completion(text), ~Mismatch(all), NEW j \in 1 .. Len(turns)
  PROVE  Len(turns[j].tokens) <= Len(all) /\ \A i \in 1 .. Len(turns[j].tokens) - Trim : all[i] = turns[j].tokens[i]
<1> DEFINE n == Len(turns)
           T == turns[n].tokens
           U == turns[j].tokens
<1>1. SessionTypeOK /\ n \in Nat /\ j \in 1 .. n /\ n \in 1 .. n /\ turns # <<>>
  BY EndsAreNumbers, EmptySeq DEF SessionIInv
<1>2. chat[c].prompt \in Seq(TokenSet)
  BY <1>1, ChatFields
<1>3. turns[n].record.prompt \in Seq(TokenSet) /\ \E x \in Contents : turns[n].record.output = Completion(x)
  BY <1>1, TurnFields
<1>4. PICK x \in Contents : turns[n].record.output = Completion(x)
  BY <1>3
<1>5. T = turns[n].record.prompt \o Completion(x)
  BY <1>1, <1>4 DEF SessionIInv, OneTurnPerChat
<1>6. TokenIds = T
  BY <1>1, TokensOfTheLast
<1>7. Matches(all, T)
  BY <1>6 DEF Mismatch, Matches
<1>8. all = chat[c].prompt \o Completion(text) /\ all \in Seq(TokenSet) /\ T \in Seq(TokenSet)
  BY <1>1, <1>2, TurnTokens, TurnFields DEF PromptAndReply
<1> HIDE DEF T
<1>9. Len(T) <= Len(all) /\ \A i \in 1 .. Len(T) - Trim : all[i] = T[i]
  <2> DEFINE q == turns[n].record.prompt
             r == chat[c].prompt
  <2>1. q \in Seq(TokenSet) /\ r \in Seq(TokenSet) /\ T = q \o Completion(x) /\ all = r \o Completion(text)
    BY <1>2, <1>3, <1>5, <1>8
  <2>2. Matches(r \o Completion(text), q \o Completion(x))
    BY <1>7, <2>1
  <2> HIDE DEF q, r
  <2>3. Grow(q \o Completion(x), r \o Completion(text))
    BY <2>1, <2>2, MatchGrows
  <2> QED BY <2>1, <2>3 DEF Grow
<1>10. Len(U) <= Len(T) /\ \A i \in 1 .. Len(U) - Trim : T[i] = U[i]
  <2>1. CASE j = n
    BY <1>1, <1>9, <2>1, TurnFields DEF T
  <2>2. CASE j # n
    BY <1>1, <2>2 DEF SessionIInv, TokensGrow, T
  <2> QED BY <2>1, <2>2
<1>11. Len(T) \in Nat /\ Len(U) \in Nat /\ Len(all) \in Nat /\ Trim \in {0, 1}
  <2>1. T \in Seq(TokenSet) /\ U \in Seq(TokenSet)
    BY <1>1, TurnFields DEF T
  <2>2. all \in Seq(TokenSet)
    BY <1>2, <1>8, TurnTokens DEF PromptAndReply
  <2> QED BY <2>1, <2>2, LenProperties, SessionAssumption
<1> HIDE DEF U
<1>12. Len(U) <= Len(all) /\ \A i \in 1 .. Len(U) - Trim : i \in 1 .. Len(T) - Trim
  BY <1>9, <1>10, <1>11
<1>13. \A i \in 1 .. Len(U) - Trim : all[i] = U[i]
  BY <1>9, <1>10, <1>12
<1> QED
  BY <1>12, <1>13 DEF U

\* A history that its tokens tell is the one the trajectory holds.
LEMMA SameHistory ==
  ASSUME NEW n \in Nat, NEW h \in Seq(Messages), Exchanges(h, n), NEW g \in Seq(Messages), Exchanges(g, n),
         NEW p \in Prompts, NEW x \in Contents,
         Grow(Canonical(g), Continued(Canonical(h)) \o <<p>> \o Completion(x))
  PROVE  h = g
<1> DEFINE b == Canonical(h)
           a == Continued(b)
           T == Canonical(g)
           z == <<p>> \o Completion(x)
           all == a \o <<p>> \o Completion(x)
<1>1. /\ Len(b) = 3 * n
      /\ \A i \in 1 .. n : b[3 * i - 2] = h[2 * i - 1] /\ b[3 * i - 1] = h[2 * i]
  BY CanonicalTells
<1>2. /\ Len(T) = 3 * n
      /\ \A i \in 1 .. n : T[3 * i - 2] = g[2 * i - 1] /\ T[3 * i - 1] = g[2 * i]
  BY CanonicalTells
<1>3. b \in Seq(TokenSet)
  BY PiecesAreTokens
<1>4. a \in Seq(TokenSet) /\ Len(a) = Len(b) /\ \A i \in 1 .. Len(b) - 1 : a[i] = b[i]
  <2>1. /\ a \in Seq(TokenSet) /\ Len(a) = Len(b)
        /\ \A i \in 1 .. Len(b) : a[i] = IF Trim = 1 /\ i = Len(b) THEN "delim" ELSE b[i]
    <3> HIDE DEF b
    <3> QED BY <1>3, ContinuedTokens
  <2>2. Len(b) \in Nat
    BY <1>3, LenProperties
  <2> HIDE DEF a, b
  <2> QED BY <2>1, <2>2
<1>5. z \in Seq(TokenSet) /\ Completion(x) \in Seq(TokenSet) /\ <<p>> \in Seq(TokenSet)
  <2>1. p \in TokenSet
    BY DEF TokenSet, Messages
  <2>2. Completion(x) \in Seq(TokenSet) /\ <<p>> \in Seq(TokenSet)
    BY <2>1, CompletionTokens
  <2> QED BY <2>2, ConcatProperties
<1>G. Len(T) <= Len(all) /\ \A i \in 1 .. Len(T) - Trim : all[i] = T[i]
  BY DEF Grow
<1> HIDE DEF a, b, T
<1>6. all = a \o z
  BY <1>4, <1>5, ConcatAssociative
<1> HIDE DEF all, z
<1>7. \A i \in 1 .. Len(a) : all[i] = a[i]
  <2>1. Len(a) \in Nat /\ Len(z) \in Nat
    BY <1>4, <1>5, LenProperties
  <2>2. \A i \in 1 .. Len(a) + Len(z) : all[i] = IF i <= Len(a) THEN a[i] ELSE z[i - Len(a)]
    BY <1>4, <1>5, <1>6, ConcatProperties
  <2> QED BY <2>1, <2>2
<1>8. \A i \in 1 .. (3 * n - 1) : T[i] = b[i]
  BY <1>1, <1>2, <1>4, <1>7, <1>G, SessionAssumption
<1>9. \A i \in 1 .. n : h[2 * i - 1] = g[2 * i - 1] /\ h[2 * i] = g[2 * i]
  <2> SUFFICES ASSUME NEW i \in 1 .. n PROVE h[2 * i - 1] = g[2 * i - 1] /\ h[2 * i] = g[2 * i]
    OBVIOUS
  <2>1. 3 * i - 2 \in 1 .. (3 * n - 1) /\ 3 * i - 1 \in 1 .. (3 * n - 1)
    OBVIOUS
  <2> QED BY <1>1, <1>2, <1>8, <2>1
<1>10. Len(h) = 2 * n /\ Len(g) = 2 * n
  BY DEF Exchanges
<1>11. \A j \in 1 .. (2 * n) : h[j] = g[j]
  <2> SUFFICES ASSUME NEW j \in 1 .. (2 * n) PROVE h[j] = g[j]
    OBVIOUS
  <2>1. \E i \in 1 .. n : j = 2 * i - 1 \/ j = 2 * i
    <3>1. (j % 2 = 0 /\ j = 2 * (j \div 2)) \/ (j % 2 = 1 /\ j = 2 * (j \div 2) + 1)
      OBVIOUS
    <3>2. CASE j = 2 * (j \div 2)
      <4>1. j \div 2 \in 1 .. n
        BY <3>2
      <4> QED BY <3>2, <4>1
    <3>3. CASE j = 2 * (j \div 2) + 1
      <4>1. (j \div 2) + 1 \in 1 .. n /\ j = 2 * ((j \div 2) + 1) - 1
        BY <3>3
      <4> QED BY <4>1
    <3> QED BY <3>1, <3>2, <3>3
  <2> QED BY <1>9, <2>1
<1> QED
  BY <1>10, <1>11, SameSequence

\* The turn is skipped: another one overtook it, the session closes or its tokens do
\* not go on from the stored ones.
LEMMA SkippedKeeps ==
  ASSUME SessionIInv, NEW c \in Chats, NEW text \in Contents, Generated(c, text), UNCHANGED <<messages, turns>>
  PROVE  SessionIInv'
<1> DEFINE pc == IF ~closing /\ ~Moved(c) /\ Mismatch(chat[c].prompt \o Completion(text))
                 THEN "mismatch" ELSE "answered"
<1>1. /\ chat[c].pc = "proxied" /\ Taken(c) /\ chat' = [chat EXCEPT ![c] = Over(pc)]
      /\ replies' \in {replies, replies \cup {Reply(c, text)}}
      /\ UNCHANGED <<closing, handedOver, broken, job, client, received>>
  BY DEF Generated
<1>2. pc \in {"mismatch", "answered"}
  OBVIOUS
<1> HIDE DEF pc
<1>3. /\ chat' \in [Chats -> [pc : {"idle", "proxied", "rejected", "answered", "failed", "lost", "mismatch"},
                              request : Seq(Messages), prompt : Seq(TokenSet), expected : Nat]]
      /\ \A d \in Chats \ {c} : chat'[d] = chat[d]
      /\ chat'[c].pc = pc
  BY <1>1, <1>2, ChatOver
<1>4. OneTurnPerChat' /\ TokensGrow' /\ Linear'
  BY <1>1, <1>2, <1>3, TurnsStay
<1>5. Reply(c, text) \in Seq(Messages)
  <2>1. chat[c].request \in Seq(Messages) /\ text \in Messages
    BY ChatFields DEF SessionIInv, Messages
  <2> QED BY <2>1, AppendProperties DEF Reply
<1>6. RefsAccounted' /\ arrived' \subseteq Chats /\ objects' \subseteq Chats /\ undeleted' \subseteq Chats
  <2>1. RefsOf(turns') \subseteq RefsOf(turns) \cup (IF closing THEN {} ELSE {c})
    OBVIOUS
  <2> QED BY <1>1, <1>2, <2>1, TakenIsAccounted
<1>7. SessionTypeOK'
  BY <1>1, <1>3, <1>5, <1>6 DEF SessionIInv, SessionTypeOK
<1> QED BY <1>4, <1>6, <1>7 DEF SessionIInv

\* Without branches the turn goes on from the trajectory.
LEMMA CommitIsLinear ==
  ASSUME SessionIInv, ~Branches, NEW c \in Chats, NEW text \in Contents, Committed(c, text),
         chat[c].pc = "proxied", ~Moved(c), ~Mismatch(chat[c].prompt \o Completion(text))
  PROVE  \E p \in Prompts :
            /\ messages' = messages \o <<p>> \o <<text>>
            /\ chat[c].prompt = Continued(Canonical(messages)) \o <<p>>
            /\ Len(chat[c].request) = 2 * Len(turns) + 1
<1> DEFINE n == Len(turns)
           req == chat[c].request
           h == SubSeq(req, 1, 2 * n)
           p == req[2 * n + 1]
           all == chat[c].prompt \o Completion(text)
<1>1. /\ SessionTypeOK /\ messages \in Seq(Messages) /\ Exchanges(messages, n)
      /\ \A i \in 1 .. n : /\ turns[i].end = 2 * i
                           /\ turns[i].tokens = Canonical(SubSeq(messages, 1, 2 * i))
      /\ Asks(chat[c])
  BY DEF SessionIInv, SessionTypeOK, Linear
<1>2. n \in Nat /\ req \in Seq(Messages) /\ chat[c].expected = n
  BY <1>1, EndsAreNumbers, ChatFields DEF Moved
<1>3. /\ Exchanges(h, n) /\ Len(req) = 2 * n + 1 /\ p \in Prompts
      /\ chat[c].prompt = Continued(Canonical(h)) \o <<p>>
  BY <1>1, <1>2 DEF Asks
<1>4. 2 * n \in 0 .. Len(req) /\ Len(messages) = 2 * n
  BY <1>1, <1>2, <1>3 DEF Exchanges
<1>5. h \in Seq(Messages) /\ Len(h) = 2 * n
  BY <1>2, <1>4, Beginning
<1>6. SubSeq(req, Len(messages) + 1, Len(req)) = <<p>>
  <2> DEFINE s == SubSeq(req, 2 * n + 1, 2 * n + 1)
  <2>1. \A i \in (2 * n + 1) .. (2 * n + 1) : req[i] \in Messages
    BY <1>2, <1>3, ElementOfSeq
  <2>2. 2 * n + 1 \in Int
    BY <1>2
  <2> DEFINE m == 2 * n + 1
  <2>M. m \in Int /\ (\A i \in m .. m : req[i] \in Messages) /\ s = SubSeq(req, m, m)
    BY <2>1, <2>2
  <2> HIDE DEF s, m
  <2>3. s \in Seq(Messages) /\ Len(s) = (IF m <= m THEN m - m + 1 ELSE 0)
        /\ \A i \in 1 .. m - m + 1 : s[i] = req[m + i - 1]
    BY <2>M, SubSeqProperties
  <2>4. Len(s) = 1 /\ s[1] = req[m]
    BY <2>M, <2>3
  <2>5. s = <<s[1]>>
    BY <2>3, <2>4
  <2>6. s[1] = p
    BY <2>4 DEF m
  <2>7. SubSeq(req, Len(messages) + 1, Len(req)) = s
    BY <1>3, <1>4 DEF s
  <2> QED BY <2>5, <2>6, <2>7
<1>7. messages' = messages \o <<p>> \o <<text>>
  BY <1>6 DEF Committed
<1>8. all = Continued(Canonical(h)) \o <<p>> \o Completion(text)
  BY <1>3
<1> HIDE DEF h, p, req
<1>9. h = messages
  <2>1. CASE n = 0
    BY <1>1, <1>4, <1>5, <2>1, EmptySeq
  <2>2. CASE n # 0
    <3>1. n \in 1 .. n /\ turns # <<>>
      BY <1>2, <2>2, EmptySeq
    <3>2. Canonical(messages) = turns[n].tokens
      <4>1. SubSeq(messages, 1, 2 * n) = messages
        BY <1>1, <1>4, SubSeqFull
      <4> QED BY <1>1, <3>1, <4>1
    <3>3. \A a : a = chat[c].prompt \o Completion(text) =>
             Len(turns[n].tokens) <= Len(a) /\ \A i \in 1 .. Len(turns[n].tokens) - Trim : a[i] = turns[n].tokens[i]
      <4> SUFFICES ASSUME NEW a, a = chat[c].prompt \o Completion(text)
                   PROVE  Len(turns[n].tokens) <= Len(a) /\ \A i \in 1 .. Len(turns[n].tokens) - Trim : a[i] = turns[n].tokens[i]
        OBVIOUS
      <4>1. ~Mismatch(a)
        OBVIOUS
      <4> QED BY <3>1, <4>1, CommitGrows
    <3>4. Grow(Canonical(messages), all)
      BY <3>2, <3>3 DEF Grow
    <3>5. Grow(Canonical(messages), Continued(Canonical(h)) \o <<p>> \o Completion(text))
      BY <1>8, <3>4
    <3> HIDE DEF n
    <3> QED BY <1>1, <1>2, <1>3, <1>5, <3>5, SameHistory
  <2> QED BY <2>1, <2>2
<1> QED
  BY <1>3, <1>7, <1>9 DEF req

\* The turn is committed.
LEMMA CommittedKeeps ==
  ASSUME SessionIInv, NEW c \in Chats, NEW text \in Contents, Generated(c, text), Committed(c, text),
         ~closing, ~Moved(c), ~Mismatch(chat[c].prompt \o Completion(text))
  PROVE  SessionIInv'
<1> DEFINE n == Len(turns)
           all == chat[c].prompt \o Completion(text)
<1>1. /\ chat[c].pc = "proxied" /\ Taken(c)
      /\ chat' = [chat EXCEPT ![c] = Over("answered")]
      /\ replies' \in {replies, replies \cup {Reply(c, text)}}
      /\ UNCHANGED <<closing, handedOver, broken, job, client, received>>
  BY DEF Generated
<1>2. /\ chat' \in [Chats -> [pc : {"idle", "proxied", "rejected", "answered", "failed", "lost", "mismatch"},
                              request : Seq(Messages), prompt : Seq(TokenSet), expected : Nat]]
      /\ \A d \in Chats \ {c} : chat'[d] = chat[d]
      /\ chat'[c].pc = "answered"
  BY <1>1, ChatOver
<1>3. SessionTypeOK /\ n \in Nat /\ turns \in Seq(Turn) /\ messages \in Seq(Messages)
      /\ chat[c].request \in Seq(Messages) /\ text \in Messages /\ Len(messages) + 1 \in Nat
      /\ Len(chat[c].request) \in Nat
  BY EndsAreNumbers, ChatFields, LenProperties DEF SessionIInv, SessionTypeOK, Messages
<1>4. PICK t \in Turn :
            /\ t.tokens = all /\ t.end = Len(chat[c].request) + 1
            /\ t.record.chat = c /\ t.tokens = t.record.prompt \o t.record.output
            /\ turns' \in Seq(Turn) /\ Len(turns') = n + 1 /\ turns'[n + 1] = t
            /\ \A i \in 1 .. n : turns'[i] = turns[i]
  BY CommitAdds
<1>5. messages' \in Seq(Messages)
  <2> DEFINE new == SubSeq(chat[c].request, Len(messages) + 1, Len(chat[c].request))
  <2>1. messages' = messages \o new \o <<text>>
    BY DEF Committed
  <2>2. new \in Seq(Messages)
    <3>1. \A i \in (Len(messages) + 1) .. Len(chat[c].request) : chat[c].request[i] \in Messages
      BY <1>3, ElementOfSeq
    <3>2. Len(messages) + 1 \in Int /\ Len(chat[c].request) \in Int
      BY <1>3
    <3> QED BY <3>1, <3>2, SubSeqProperties
  <2> HIDE DEF new
  <2>3. messages \o new \in Seq(Messages) /\ <<text>> \in Seq(Messages)
    BY <1>3, <2>2, ConcatProperties
  <2> QED BY <2>1, <2>3, ConcatProperties
<1>6. RefsAccounted' /\ arrived' \subseteq Chats /\ objects' \subseteq Chats /\ undeleted' \subseteq Chats
  <2>1. \A i \in 1 .. (n + 1) : i = n + 1 \/ i \in 1 .. n
    BY <1>3
  <2>2. RefsOf(turns') = {turns'[i].record.chat : i \in 1 .. (n + 1)}
        /\ RefsOf(turns) = {turns[i].record.chat : i \in 1 .. n}
    BY <1>3, <1>4, RefsOfTurns
  <2>3. RefsOf(turns') \subseteq RefsOf(turns) \cup {c}
    BY <1>4, <2>1, <2>2
  <2> QED BY <1>1, <2>3, TakenIsAccounted
<1>7. SessionTypeOK'
  <2>1. Reply(c, text) \in Seq(Messages)
    BY <1>3, AppendProperties DEF Reply
  <2>2. turns' \in Seq(Turn) /\ replies \subseteq Seq(Messages) /\ replies' \subseteq Seq(Messages)
    BY <1>1, <1>4, <2>1 DEF SessionIInv, SessionTypeOK
  <2>3. arrived' \subseteq Chats /\ objects' \subseteq Chats /\ undeleted' \subseteq Chats
    BY <1>6
  <2> QED BY <1>1, <1>2, <1>5, <2>2, <2>3 DEF SessionIInv, SessionTypeOK
<1> HIDE DEF n
<1>8. OneTurnPerChat'
  <2>1. \A i \in 1 .. n : turns[i].record.chat \in Chats \ {c}
    BY <1>1, <1>3, TurnFields, OtherChats DEF SessionIInv, n
  <2>2. \A i \in 1 .. n : LET r == turns[i].record
                          IN  turns[i].tokens = r.prompt \o r.output /\ chat[r.chat].pc = "answered"
    BY DEF SessionIInv, OneTurnPerChat, n
  <2>3. \A i, j \in 1 .. n : turns[i].record.chat = turns[j].record.chat => i = j
    BY DEF SessionIInv, OneTurnPerChat, n
  <2>4. \A i \in 1 .. (n + 1) : i \in 1 .. n \/ i = n + 1
    BY <1>3
  <2>5. \A i \in 1 .. n : turns'[i].record = turns[i].record /\ turns'[i].tokens = turns[i].tokens
    BY <1>4
  <2>6. turns'[n + 1].record.chat = c
        /\ turns'[n + 1].tokens = turns'[n + 1].record.prompt \o turns'[n + 1].record.output
    BY <1>4
  <2>7. \A i \in 1 .. (n + 1) : LET r == turns'[i].record
                          IN  turns'[i].tokens = r.prompt \o r.output /\ chat'[r.chat].pc = "answered"
    <3> SUFFICES ASSUME NEW i \in 1 .. (n + 1)
                 PROVE  LET r == turns'[i].record
                        IN  turns'[i].tokens = r.prompt \o r.output /\ chat'[r.chat].pc = "answered"
      OBVIOUS
    <3>1. CASE i = n + 1
      BY <1>2, <2>6, <3>1
    <3>2. CASE i \in 1 .. n
      BY <1>2, <2>1, <2>2, <2>5, <3>2
    <3> QED BY <2>4, <3>1, <3>2
  <2>8. \A i, j \in 1 .. (n + 1) : turns'[i].record.chat = turns'[j].record.chat => i = j
    BY <2>1, <2>3, <2>4, <2>5, <2>6
  <2> QED BY <1>4, <2>7, <2>8 DEF OneTurnPerChat
<1>9. TokensGrow'
  <2> SUFFICES ASSUME NEW j \in 1 .. (n + 1), NEW k \in 1 .. (n + 1), j < k
               PROVE  /\ Len(turns'[j].tokens) <= Len(turns'[k].tokens)
                      /\ \A i \in 1 .. Len(turns'[j].tokens) - Trim : turns'[k].tokens[i] = turns'[j].tokens[i]
    BY <1>4 DEF TokensGrow
  <2>1. j \in 1 .. n /\ (k = n + 1 \/ k \in 1 .. n)
    BY <1>3
  <2>2. CASE k \in 1 .. n
    <3>1. turns'[j] = turns[j] /\ turns'[k] = turns[k]
      BY <1>4, <2>1, <2>2
    <3>2. /\ Len(turns[j].tokens) <= Len(turns[k].tokens)
          /\ \A i \in 1 .. Len(turns[j].tokens) - Trim : turns[k].tokens[i] = turns[j].tokens[i]
      BY <2>1, <2>2 DEF SessionIInv, TokensGrow, n
    <3> QED BY <3>1, <3>2
  <2>3. CASE k = n + 1
    <3>1. Len(turns[j].tokens) <= Len(all) /\ \A i \in 1 .. Len(turns[j].tokens) - Trim : all[i] = turns[j].tokens[i]
      <4>1. j \in 1 .. Len(turns)
        BY <2>1 DEF n
      <4> QED BY <4>1, CommitGrows
    <3> HIDE DEF all
    <3> QED BY <1>4, <2>1, <2>3, <3>1
  <2> QED BY <2>1, <2>2, <2>3
<1>10. Linear'
  <2> SUFFICES ASSUME ~Branches PROVE Linear'
    BY DEF Linear
  <2>1. PICK p \in Prompts :
            /\ messages' = messages \o <<p>> \o <<text>>
            /\ chat[c].prompt = Continued(Canonical(messages)) \o <<p>>
            /\ Len(chat[c].request) = 2 * n + 1
    BY <1>1, CommitIsLinear DEF n
  <2>2. /\ Exchanges(messages, n)
        /\ \A i \in 1 .. n : turns[i].end = 2 * i /\ turns[i].tokens = Canonical(SubSeq(messages, 1, 2 * i))
        /\ \A d \in Chats : chat[d].pc = "proxied" => Asks(chat[d])
    BY DEF SessionIInv, Linear, n
  <2>3. GoesOn(messages', messages, n, p, text)
    BY <1>3, <2>1, <2>2, OneMoreExchange
  <2>4. /\ messages' \in Seq(Messages) /\ Len(messages') = 2 * n + 2 /\ Exchanges(messages', n + 1)
        /\ \A i \in 1 .. (2 * n) : messages'[i] = messages[i]
    BY <2>3 DEF GoesOn
  <2>5. all = Canonical(messages')
    BY <1>3, <2>1, <2>2, CanonicalGrows
  <2>6. SubSeq(messages', 1, 2 * (n + 1)) = messages'
    <3>1. 2 * (n + 1) = Len(messages')
      BY <1>3, <2>4
    <3> QED BY <2>4, <3>1, SubSeqFull
  <2>7. \A i \in 1 .. n : SubSeq(messages', 1, 2 * i) = SubSeq(messages, 1, 2 * i)
    <3> SUFFICES ASSUME NEW i \in 1 .. n PROVE SubSeq(messages', 1, 2 * i) = SubSeq(messages, 1, 2 * i)
      OBVIOUS
    <3> DEFINE u == SubSeq(messages', 1, 2 * i)
               v == SubSeq(messages, 1, 2 * i)
    <3>1. Len(messages) = 2 * n
      BY <2>2 DEF Exchanges
    <3>2. 2 * i \in 0 .. Len(messages) /\ 2 * i \in 0 .. Len(messages')
      BY <1>3, <2>4, <3>1
    <3>3. u \in Seq(Messages) /\ Len(u) = 2 * i /\ \A j \in 1 .. (2 * i) : u[j] = messages'[j]
      BY <2>4, <3>2, Beginning
    <3>4. v \in Seq(Messages) /\ Len(v) = 2 * i /\ \A j \in 1 .. (2 * i) : v[j] = messages[j]
      BY <1>3, <3>2, Beginning
    <3> HIDE DEF u, v
    <3>5. \A j \in 1 .. (2 * i) : j \in 1 .. (2 * n)
      BY <1>3
    <3>6. \A j \in 1 .. (2 * i) : u[j] = v[j]
      BY <2>4, <3>3, <3>4, <3>5
    <3>7. u = v
      BY <3>3, <3>4, <3>6, SameSequence
    <3> QED BY <3>7 DEF u, v
  <2>8. \A i \in 1 .. (n + 1) : i \in 1 .. n \/ i = n + 1
    BY <1>3
  <2>9. \A i \in 1 .. (n + 1) : /\ turns'[i].end = 2 * i
                                /\ turns'[i].tokens = Canonical(SubSeq(messages', 1, 2 * i))
    <3> SUFFICES ASSUME NEW i \in 1 .. (n + 1)
                 PROVE  turns'[i].end = 2 * i /\ turns'[i].tokens = Canonical(SubSeq(messages', 1, 2 * i))
      OBVIOUS
    <3>1. CASE i \in 1 .. n
      BY <1>4, <2>2, <2>7, <3>1
    <3>2. CASE i = n + 1
      <4>1. turns'[i].tokens = Canonical(SubSeq(messages', 1, 2 * i))
        BY <1>4, <2>5, <2>6, <3>2
      <4>2. turns'[i].end = 2 * i
        BY <1>3, <1>4, <2>1, <3>2
      <4> QED BY <4>1, <4>2
    <3> QED BY <2>8, <3>1, <3>2
  <2>10. \A d \in Chats : chat'[d].pc = "proxied" => Asks(chat'[d])
    BY <1>2, <2>2
  <2> QED BY <1>4, <2>4, <2>9, <2>10 DEF Linear
<1> QED BY <1>6, <1>7, <1>8, <1>9, <1>10 DEF SessionIInv

\* The engine's answer comes in.
LEMMA GeneratedKeeps ==
  ASSUME SessionIInv, NEW c \in Chats, NEW text \in Contents, Generated(c, text)
  PROVE  SessionIInv'
<1> DEFINE fails == ~closing /\ ~Moved(c) /\ Mismatch(chat[c].prompt \o Completion(text))
<1>1. IF closing \/ Moved(c) \/ fails THEN UNCHANGED <<messages, turns>> ELSE Committed(c, text)
  BY DEF Generated
<1>2. CASE closing \/ Moved(c) \/ fails
  BY <1>1, <1>2, SkippedKeeps
<1>3. CASE ~(closing \/ Moved(c) \/ fails)
  BY <1>1, <1>3, CommittedKeeps
<1> QED BY <1>2, <1>3

-----------------------------------------------------------------------------
(* The session server. *)

\* No step of the session, its agent or its client breaks the invariant.
LEMMA SessionStepKeeps == ASSUME SessionIInv, [SessionNext]_sessionVars PROVE SessionIInv'
<1>1. CASE UNCHANGED sessionVars
  <2>1. /\ UNCHANGED <<messages, turns, chat>>
        /\ UNCHANGED <<closing, arrived, handedOver, broken, replies, job, client, received, objects, undeleted>>
    BY <1>1 DEF sessionVars
  <2>2. OneTurnPerChat' /\ TokensGrow' /\ Linear' /\ Unseen' = Unseen
    BY <2>1, NothingStirs
  <2>3. SessionTypeOK'
    BY <2>1 DEF SessionIInv, SessionTypeOK
  <2>4. RefsAccounted'
    BY <2>1, <2>2 DEF SessionIInv, RefsAccounted, Owned
  <2> QED BY <2>2, <2>3, <2>4 DEF SessionIInv
<1>2. ASSUME NEW c \in Chats, \E h \in Histories, p \in Prompts : Prepare(c, h, p) PROVE SessionIInv'
  BY <1>2, PrepareKeeps
<1>3. ASSUME NEW c \in Chats, \E text \in Contents : Generated(c, text) PROVE SessionIInv'
  BY <1>3, GeneratedKeeps
<1>4. ASSUME NEW c \in Chats, Aborted(c) \/ Lost(c) \/ Failed(c) PROVE SessionIInv'
  BY <1>4, AbortedKeeps, LostKeeps, FailedKeeps
<1>5. CASE Collect \/ ClientTimesOut \/ BeginDelete \/ EndDelete
  BY <1>5, CollectKeeps, ClientTimesOutKeeps, BeginDeleteKeeps, EndDeleteKeeps
<1>6. CASE \E n \in 0 .. Len(job) : Assembled(n)
  BY <1>6, AssembledKeeps
<1> QED
  BY <1>1, <1>2, <1>3, <1>4, <1>5, <1>6 DEF SessionNext

\* The invariant holds for any prompts, texts, chats and either trimming, with and
\* without branches (core.py, linear_trajectory.py, store_refs.py).
THEOREM SessionInvariant == SessionSpec => []SessionIInv
<1>1. SessionInit => SessionIInv
  BY SessionInitHolds
<1>2. SessionIInv /\ [SessionNext]_sessionVars => SessionIInv'
  BY SessionStepKeeps
<1> QED
  BY <1>1, <1>2, PTL DEF SessionSpec

\* Whatever happens to the turns, the client's calls and the deletions: once the session
\* is gone the output store holds what its client was given and, when its turns are over,
\* nothing else but what a deletion failed on and what no answer named (core.py:229-257,
\* 376-393, store_refs.py:24-57).
THEOREM TheStoreIsAccounted == SessionSpec => []StoreHoldsWhatWasGiven
<1>1. SessionIInv => StoreHoldsWhatWasGiven
  <2>1. ASSUME RefsAccounted PROVE NothingLeaks
    BY <2>1 DEF RefsAccounted, NothingLeaks, Owned
  <2>2. ASSUME RefsAccounted PROVE GivenRefsStay
    BY <2>2 DEF RefsAccounted, GivenRefsStay, Owned
  <2> QED BY <2>1, <2>2 DEF SessionIInv, StoreHoldsWhatWasGiven
<1> QED
  BY <1>1, SessionInvariant, PTL

\* The assembly of the training sample never fails its own assertions: the tokens a
\* turn that passes the check of its prefix adds only ever continue those before
\* (merge.py:61-111, linear_trajectory.py:236-254).
THEOREM RecordsStayAligned == SessionSpec => []RecordsAlign
<1>1. SessionIInv => RecordsAlign
  <2> SUFFICES ASSUME SessionIInv, NEW k \in 1 .. Len(turns)
               PROVE  LET r == turns[k].record
                          slack == IF k = Len(turns) THEN 0 ELSE Trim
                      IN  IsPrefix(r.prompt \o SubSeq(r.output, 1, Len(r.output) - slack), TokenIds)
    BY DEF RecordsAlign
  <2> DEFINE n == Len(turns)
             q == turns[k].record.prompt
             o == turns[k].record.output
             slack == IF k = n THEN 0 ELSE Trim
             T == turns[k].tokens
             L == turns[n].tokens
             m == Len(o) - slack
             e == SubSeq(o, 1, m)
             s == q \o e
  <2>1. SessionTypeOK /\ n \in Nat /\ n \in 1 .. n /\ turns # <<>>
    BY EndsAreNumbers, EmptySeq DEF SessionIInv
  <2>2. TokenIds = L
    BY <2>1, TokensOfTheLast
  <2>3. q \in Seq(TokenSet) /\ T \in Seq(TokenSet) /\ L \in Seq(TokenSet) /\ \E x \in Contents : o = Completion(x)
    BY <2>1, TurnFields
  <2>4. T = q \o o
    BY DEF SessionIInv, OneTurnPerChat
  <2>5. Len(T) <= Len(L) /\ \A i \in 1 .. Len(T) - slack : L[i] = T[i]
    <3>1. CASE k = n
      BY <2>3, <3>1, LenProperties
    <3>2. CASE k # n
      <4>1. k < n
        BY <2>1, <3>2
      <4> QED BY <2>1, <3>2, <4>1 DEF SessionIInv, TokensGrow
    <3> QED BY <3>1, <3>2
  <2>6. slack \in {0, 1}
    BY SessionAssumption
  <2>7. o \in Seq(TokenSet) /\ Len(o) = 2
    BY <2>3, CompletionTokens
  <2> HIDE DEF q, o, slack, T, L
  <2>8. m \in 0 .. Len(o) /\ m = Len(o) - slack /\ Len(q) \in Nat /\ Len(L) \in Nat
    BY <2>3, <2>6, <2>7, LenProperties
  <2> HIDE DEF m
  <2>9. e \in Seq(TokenSet) /\ Len(e) = m /\ \A i \in 1 .. m : e[i] = o[i]
    <3>1. m \in 0 .. Len(o) /\ o \in Seq(TokenSet)
      BY <2>7, <2>8
    <3> QED BY <3>1, Beginning
  <2> HIDE DEF e
  <2>10. /\ s \in Seq(TokenSet) /\ Len(s) = Len(q) + m
         /\ \A i \in 1 .. Len(q) + m : s[i] = IF i <= Len(q) THEN q[i] ELSE e[i - Len(q)]
    BY <2>3, <2>9, ConcatProperties
  <2> HIDE DEF s
  <2>11. /\ Len(T) = Len(q) + Len(o)
         /\ \A i \in 1 .. Len(q) + Len(o) : T[i] = IF i <= Len(q) THEN q[i] ELSE o[i - Len(q)]
    BY <2>3, <2>4, <2>7, ConcatProperties
  <2>12. \A i \in 1 .. Len(q) + m : s[i] = T[i]
    <3> SUFFICES ASSUME NEW i \in 1 .. Len(q) + m PROVE s[i] = T[i]
      OBVIOUS
    <3>1. i \in 1 .. Len(q) + Len(o)
      BY <2>7, <2>8
    <3>2. CASE i <= Len(q)
      <4>1. s[i] = q[i]
        BY <2>10, <3>2
      <4>2. T[i] = q[i]
        BY <2>11, <3>1, <3>2
      <4> QED BY <4>1, <4>2
    <3>3. CASE ~(i <= Len(q))
      <4>1. i - Len(q) \in 1 .. m
        BY <2>8, <3>3
      <4> QED BY <2>9, <2>10, <2>11, <3>1, <3>3, <4>1
    <3> QED BY <3>2, <3>3
  <2>13. \A i \in 1 .. Len(s) : s[i] = L[i]
    <3>1. Len(q) + m = Len(T) - slack
      BY <2>7, <2>8, <2>11, <2>6
    <3> QED BY <2>5, <2>10, <2>12, <3>1
  <2>14. Len(s) \in 0 .. Len(L) /\ Len(s) \in 0 .. Len(s)
    BY <2>5, <2>6, <2>7, <2>8, <2>10, <2>11
  <2>15. SubSeq(s, 1, Len(s)) = SubSeq(L, 1, Len(s))
    <3> DEFINE u == SubSeq(s, 1, Len(s))
               v == SubSeq(L, 1, Len(s))
    <3>1. u \in Seq(TokenSet) /\ Len(u) = Len(s) /\ \A i \in 1 .. Len(s) : u[i] = s[i]
      BY <2>10, <2>14, Beginning
    <3>2. v \in Seq(TokenSet) /\ Len(v) = Len(s) /\ \A i \in 1 .. Len(s) : v[i] = L[i]
      BY <2>3, <2>14, Beginning
    <3> HIDE DEF u, v
    <3>3. u = v
      BY <2>13, <3>1, <3>2, SameSequence
    <3> QED BY <3>3 DEF u, v
  <2>16. IsPrefix(s, L)
    BY <2>14, <2>15 DEF IsPrefix
  <2> QED
    BY <2>2, <2>16 DEF s, e, m, q, o, slack, n
<1> QED
  BY <1>1, SessionInvariant, PTL

\* An agent that only ever goes on from the session's own trajectory finds in every
\* checkpoint the tokens of its messages (core.py:411-492, linear_trajectory.py:236-254).
THEOREM TokensStayTrue == ASSUME ~Branches PROVE SessionSpec => []TokensTellTheHistory
<1>1. SessionIInv => TokensTellTheHistory
  <2> SUFFICES ASSUME SessionIInv PROVE TokensTellTheHistory
    OBVIOUS
  <2>1. /\ Exchanges(messages, Len(turns)) /\ Len(turns) \in Nat
        /\ \A k \in 1 .. Len(turns) : /\ turns[k].end = 2 * k
                                      /\ turns[k].tokens = Canonical(SubSeq(messages, 1, 2 * k))
    BY EndsAreNumbers DEF SessionIInv, Linear
  <2>2. \A k \in 1 .. Len(turns) : End(k) = 2 * k
    BY <2>1 DEF End
  <2>3. Len(messages) = End(Len(turns))
    <3>1. CASE Len(turns) = 0
      BY <2>1, <3>1 DEF Exchanges, End
    <3>2. CASE Len(turns) # 0
      BY <2>1, <2>2, <3>2 DEF Exchanges
    <3> QED BY <3>1, <3>2
  <2> QED
    BY <2>1, <2>2, <2>3 DEF TokensTellTheHistory
<1> QED
  BY <1>1, SessionInvariant, PTL
=============================================================================
