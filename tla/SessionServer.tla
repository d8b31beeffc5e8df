---------------------------- MODULE SessionServer ----------------------------
(***************************************************************************)
(* The session server (miles/rollout/session, v1): it keeps, for one        *)
(* session, the linear trajectory of an agent's chat turns with the exact   *)
(* tokens of each, and turns it into a training sample.                     *)
(*                                                                         *)
(* A chat turn is prepared under the session's lock, generated by the       *)
(* engine without it, and committed under it again; meanwhile the agent may *)
(* send other turns, retry an earlier one (which rolls the trajectory back  *)
(* by at most one turn), the rollout may collect the samples and the        *)
(* session may be deleted.  The output store holds one object per           *)
(* generation, which the session hands to its client or deletes.            *)
(*                                                                         *)
(* No section under session.lock awaits anything, so each is one step.      *)
(***************************************************************************)
EXTENDS Naturals, Sequences, SequencesExt, FiniteSets

CONSTANTS
    Chats,          \* chat requests; a chat names the object of its generation too
    Prompts,        \* messages an agent may append (user and tool messages)
    Contents,       \* texts the engine may generate
    Branches,       \* the agent may go on from any reply it got, not only from the
                    \* trajectory the session holds
    MaxTurns,       \* bound: prompts and replies of a request
    Trim            \* max_trim_tokens of the model family: 0 or 1

ASSUME SessionAssumption ==
    /\ Prompts \cap Contents = {} /\ "stop" \notin Prompts \cup Contents
    /\ Branches \in BOOLEAN /\ MaxTurns \in Nat \ {0} /\ Trim \in {0, 1}

VARIABLES
    messages,       \* the messages of the trajectory
    turns,          \* its checkpoints: message end, tokens and record of each turn
    closing,        \* DELETE has begun
    arrived,        \* store_refs.arrived
    handedOver,     \* store_refs.handed_over
    broken,         \* store_refs.contract_error
    chat,           \* the state of each chat request
    replies,        \* histories the agent may go on from when it branches
    job,            \* the snapshot the sample executor works on
    client,         \* the rollout's side of collect_samples and DELETE
    received,       \* refs in the /samples reply the client decoded
    objects,        \* external: the objects in the output store
    undeleted       \* history: the refs whose deletion failed, which is logged

sessionVars == <<messages, turns, closing, arrived, handedOver, broken, chat, replies, job,
                 client, received, objects, undeleted>>

Idle == [pc |-> "idle", request |-> <<>>, prompt |-> <<>>, expected |-> 0]

\* A chat that has ended.
Over(how) == [Idle EXCEPT !.pc = how]

SessionInit ==
    /\ messages = <<>> /\ turns = <<>> /\ closing = FALSE
    /\ arrived = {} /\ handedOver = {} /\ broken = FALSE
    /\ chat = [c \in Chats |-> Idle]
    /\ replies = {<<>>}
    /\ job = <<>> /\ client = "rollout" /\ received = {}
    /\ objects = {} /\ undeleted = {}

-----------------------------------------------------------------------------
(* Messages and tokens.  A prompt is one token; a generation is its text and *)
(* the stop token, which a family with Trim = 1 replaces by the delimiter    *)
(* the template writes before the next message.                              *)

Completion(text) == <<text, "stop">>
Tokens(msg) == IF msg \in Prompts THEN <<msg>> ELSE Completion(msg)
Continued(toks) == IF Trim = 1 /\ toks # <<>> THEN Front(toks) \o <<"delim">> ELSE toks

\* LinearTrajectory.token_ids and the message end of a checkpoint; 0 is the empty one
TokenIds == IF turns = <<>> THEN <<>> ELSE Last(turns).tokens
End(k) == IF k = 0 THEN 0 ELSE turns[k].end

\* messages[:end]; a slice ends where the list does.
Upto(k) == SubSeq(messages, 1, Min({End(k), Len(messages)}))

\* _render_token_ids: the tokens of the checkpoint are reused and the rest is
\* rendered; an assistant message among it is history the template delimits.
Rendered(k, request) ==
    LET base == IF k = 0 THEN <<>> ELSE turns[k].tokens
        suffix == SubSeq(request, End(k) + 1, Len(request))
        rendered(msg) == IF msg \in Prompts THEN <<msg>> ELSE Continued(Completion(msg))
    IN  Continued(base) \o FlattenSeq([i \in 1 .. Len(suffix) |-> rendered(suffix[i])])

-----------------------------------------------------------------------------
(* chat_completions, phase 1 *)

MatchLen(request) == Len(LongestCommonPrefix({messages, request}))

\* _find_rollback_checkpoint: the last generated checkpoint in the matching prefix.
Checkpoint(request) ==
    IF MatchLen(request) >= Len(messages) THEN Len(turns)
    ELSE Max({k \in 0 .. Len(turns) : End(k) <= MatchLen(request)})

\* A request is a history the agent knows with one more message.
Histories ==
    {h \in IF Branches THEN replies ELSE {Upto(k) : k \in 0 .. Len(turns)} : Len(h) < MaxTurns}

\* Fault: the messages of the discarded turn stay.
RollBackTurns(k) == turns' = SubSeq(turns, 1, k) /\ UNCHANGED messages

\* _rollback_to_checkpoint
RollBack(k) ==
    /\ turns' = SubSeq(turns, 1, k)
    /\ messages' = IF k = Len(turns) THEN messages ELSE Upto(k)

\* The turn is prepared: after the arguments and the prompt are made, the
\* trajectory is rolled back to the checkpoint; more than
\* MAX_ASSISTANT_ROLLBACK_STEPS is refused and changes nothing.
Prepare(c, h, p) ==
    LET request == Append(h, p)
        k == Checkpoint(request)
    IN
    /\ chat[c].pc = "idle" /\ ~closing
    /\ IF Len(turns) - k > 1
       THEN /\ chat' = [chat EXCEPT ![c] = Over("rejected")]
            /\ UNCHANGED <<messages, turns>>
       ELSE /\ RollBack(k)
            /\ chat' = [chat EXCEPT ![c] = [pc |-> "proxied", request |-> request,
                                            prompt |-> Rendered(k, request), expected |-> k]]
    /\ UNCHANGED <<closing, arrived, handedOver, broken, replies, job, client, received, objects, undeleted>>

-----------------------------------------------------------------------------
(* chat_completions, phases 2 and 3 *)

Reply(c, text) == Append(chat[c].request, text)

\* _delete_store_refs: objects of refs the store fails to delete stay in it.
Deleted(refs, stored) ==
    \E gone \in SUBSET refs :
        objects' = stored \ gone /\ undeleted' = undeleted \cup (refs \ gone)

\* _take_store_ref: once DELETE has begun the ref is deleted at once.
Taken(c) ==
    IF closing THEN Deleted({c}, objects \cup {c}) /\ UNCHANGED arrived
    ELSE arrived' = arrived \cup {c} /\ objects' = objects \cup {c} /\ UNCHANGED undeleted

\* session.num_assistant != expected_num_assistant
Moved(c) == Len(turns) # chat[c].expected

\* Fault: the new tokens are stored unchecked.
MismatchIgnored(all) == FALSE

\* assert_pretokenized_prefix: the stored tokens are a prefix of the new ones,
\* but for the trailing tokens the family may trim.
Mismatch(all) ==
    LET n == Len(TokenIds) - Trim
    IN  n > 0 /\ SubSeq(all, 1, IF n <= Len(all) THEN n ELSE Len(all)) # SubSeq(TokenIds, 1, n)

\* update_pretokenized_state and append_record
Committed(c, text) ==
    LET new == SubSeq(chat[c].request, Len(messages) + 1, Len(chat[c].request))
    IN  /\ messages' = messages \o new \o <<text>>
        /\ turns' = Append(turns,
            [end |-> Len(chat[c].request) + 1,
             tokens |-> chat[c].prompt \o Completion(text),
             record |-> [chat |-> c, prompt |-> chat[c].prompt, output |-> Completion(text)]])

\* The engine's answer comes in: the ref is taken, then the turn is committed
\* unless the session closes or has moved on; a prefix mismatch fails the turn.
Generated(c, text) ==
    LET all == chat[c].prompt \o Completion(text)
        fails == ~closing /\ ~Moved(c) /\ Mismatch(all)
    IN
    /\ chat[c].pc = "proxied"
    /\ Taken(c)
    /\ IF closing \/ Moved(c) \/ fails THEN UNCHANGED <<messages, turns>> ELSE Committed(c, text)
    /\ chat' = [chat EXCEPT ![c] = Over(IF fails THEN "mismatch" ELSE "answered")]
    /\ replies' = IF fails \/ ~Branches THEN replies ELSE replies \cup {Reply(c, text)}
    /\ UNCHANGED <<closing, handedOver, broken, job, client, received>>

\* The generation is aborted, or its completion cannot be used: it wrote its object,
\* the agent gets an error.
Aborted(c) ==
    /\ chat[c].pc = "proxied"
    /\ Taken(c)
    /\ chat' = [chat EXCEPT ![c] = Over("failed")]
    /\ UNCHANGED <<messages, turns, closing, handedOver, broken, replies, job, client, received>>

\* The answer does not come through, or cannot be read: whatever object the
\* generation wrote, the session has no ref of it.
Lost(c) ==
    /\ chat[c].pc = "proxied"
    /\ chat' = [chat EXCEPT ![c] = Over("lost")]
    /\ objects' \in {objects, objects \cup {c}}
    /\ UNCHANGED <<messages, turns, closing, arrived, handedOver, broken, replies, job, client, received, undeleted>>

\* The engine answers with another status or aborts the generation in its waiting
\* queue, without an object; or with a response that lacks its ref, which breaks
\* the store's contract for the session.
Failed(c) ==
    /\ chat[c].pc = "proxied"
    /\ chat' = [chat EXCEPT ![c] = Over("failed")]
    /\ broken' \in {broken, TRUE}
    /\ UNCHANGED <<messages, turns, closing, arrived, handedOver, replies, job, client, received, objects, undeleted>>

-----------------------------------------------------------------------------
(* collect_samples and delete_session, with the client that calls them *)

\* /samples takes a snapshot; a broken contract is an error reply, and a session
\* without records an empty one.
Collect ==
    /\ client = "rollout" /\ ~closing
    /\ job' = IF broken THEN <<>> ELSE turns
    /\ client' = CASE broken -> "failed"
                   [] ~broken /\ turns = <<>> -> "received"
                   [] OTHER -> "collecting"
    /\ UNCHANGED <<messages, turns, closing, arrived, handedOver, broken, chat, replies, received, objects, undeleted>>

RefsOf(ts) == {t.record.chat : t \in Range(ts)}

\* _collect_samples in the executor: the turns that fit max_seq_len are merged,
\* their refs are handed over, and the reply leaves.
Assembled(n) ==
    /\ job # <<>>
    /\ handedOver' = handedOver \cup RefsOf(SubSeq(job, 1, n))
    /\ received' = IF client = "collecting" THEN RefsOf(SubSeq(job, 1, n)) ELSE received
    /\ client' = IF client = "collecting" THEN "received" ELSE client
    /\ job' = <<>>
    /\ UNCHANGED <<messages, turns, closing, arrived, broken, chat, replies, objects, undeleted>>

\* The client gives up on /samples, which is not retried.
ClientTimesOut ==
    /\ client = "collecting"
    /\ client' = "failed"
    /\ UNCHANGED <<messages, turns, closing, arrived, handedOver, broken, chat, replies, job, received, objects, undeleted>>

\* Fault: DELETE deletes every ref the session saw.
KeptAll(ok) == arrived

\* SessionStoreRefs.kept_by_session
KeptBySession(ok) == IF ok THEN arrived \ handedOver ELSE arrived

\* DELETE up to the lock: new turns and samples are refused from here on.
BeginDelete ==
    /\ client \in {"received", "failed"} /\ ~closing
    /\ closing' = TRUE
    /\ UNCHANGED <<messages, turns, arrived, handedOver, broken, chat, replies, job, client, received, objects, undeleted>>

\* The rest of DELETE: the session is removed and its refs are deleted.
EndDelete ==
    /\ closing /\ client \in {"received", "failed"}
    /\ Deleted(KeptBySession(client = "received"), objects)
    /\ client' = "done"
    /\ UNCHANGED <<messages, turns, closing, arrived, handedOver, broken, chat, replies, job, received>>

SessionNext ==
    \/ \E c \in Chats :
        \/ \E h \in Histories, p \in Prompts : Prepare(c, h, p)
        \/ \E text \in Contents : Generated(c, text)
        \/ Aborted(c) \/ Lost(c) \/ Failed(c)
    \/ Collect \/ ClientTimesOut \/ BeginDelete \/ EndDelete
    \/ \E n \in 0 .. Len(job) : Assembled(n)

SessionSpec == SessionInit /\ [][SessionNext]_sessionVars

-----------------------------------------------------------------------------
\* Every variable has its type.
Messages == Prompts \cup Contents
TokenSet == Messages \cup {"stop", "delim"}
Turn == [end : Nat, tokens : Seq(TokenSet),
         record : [chat : Chats, prompt : Seq(TokenSet), output : {Completion(text) : text \in Contents}]]
SessionTypeOK ==
    /\ messages \in Seq(Messages) /\ turns \in Seq(Turn) /\ job \in Seq(Turn)
    /\ closing \in BOOLEAN /\ broken \in BOOLEAN
    /\ arrived \subseteq Chats /\ handedOver \subseteq Chats
    /\ received \subseteq Chats /\ objects \subseteq Chats /\ undeleted \subseteq Chats
    /\ chat \in [Chats -> [pc : {"idle", "proxied", "rejected", "answered", "failed", "lost", "mismatch"},
                          request : Seq(Messages), prompt : Seq(TokenSet), expected : Nat]]
    /\ replies \subseteq Seq(Messages)
    /\ client \in {"rollout", "collecting", "received", "failed", "done"}

\* What a whole history is tokenized to: every generation but the last has its
\* stop token replaced where the family trims it.
Canonical(msgs) ==
    FlattenSeq([i \in 1 .. Len(msgs) |->
        IF msgs[i] \in Contents /\ i < Len(msgs)
        THEN Continued(Completion(msgs[i])) ELSE Tokens(msgs[i])])

\* The tokens of every checkpoint are those of its messages and the last one covers
\* them all: no interleaving of turns, retries and rollbacks mixes the tokens of one
\* history with the messages of another (core.py:411-492, linear_trajectory.py:236-254).
TokensTellTheHistory ==
    /\ \A k \in 1 .. Len(turns) : turns[k].tokens = Canonical(SubSeq(messages, 1, End(k)))
    /\ Len(messages) = End(Len(turns))

\* The assembly of the training sample never fails its own assertions: each
\* record's output is found in the accumulated tokens right behind its prompt, up
\* to the tokens the family trims, and none of the last one's (merge.py:61-111).
RecordsAlign ==
    \A k \in 1 .. Len(turns) :
        LET r == turns[k].record
            slack == IF k = Len(turns) THEN 0 ELSE Trim
        IN  IsPrefix(r.prompt \o SubSeq(r.output, 1, Len(r.output) - slack), TokenIds)

\* Generations of which the session has no ref.
Unseen == {c \in Chats : chat[c].pc = "lost"}

\* Once the session is gone and its turns are over, what is left in the output store
\* is what the client was given, what a deletion failed on and reported, and what no
\* answer named: no ref that reached the session is forgotten (core.py:229-257,
\* 376-393, store_refs.py:24-57).
NothingLeaks ==
    (client = "done" /\ \A c \in Chats : chat[c].pc # "proxied") =>
        objects \subseteq received \cup undeleted \cup Unseen

\* What the client was given stays in the output store (store_refs.py:24-48).
GivenRefsStay == received \subseteq objects

\* The output store holds what the client was given, and beyond it nothing but what
\* could not be deleted or was never named.
StoreHoldsWhatWasGiven == NothingLeaks /\ GivenRefsStay

\* A turn that another one overtook is answered and not committed: the check of
\* num_assistant gates concurrent turns (core.py:6, 462-468).
OvertakenTurnsAreSkipped == \A c \in Chats : chat[c].pc # "mismatch"

-----------------------------------------------------------------------------
(* What the safety properties rest on. *)

\* The refs somebody answers for: the session, and then its client.
Owned == IF client = "done" THEN received ELSE arrived

\* The refs the client has are those the session handed over, which no other
\* collection adds to; what it deletes is the rest of what arrived.
RefsAccounted ==
    /\ RefsOf(turns) \subseteq arrived /\ RefsOf(job) \subseteq arrived /\ handedOver \subseteq arrived
    /\ received \subseteq arrived /\ \A c \in arrived : chat[c].pc \in {"answered", "failed", "mismatch"}
    /\ closing => client \in {"received", "failed", "done"}
    /\ client = "done" => closing
    /\ Owned \subseteq objects /\ objects \subseteq Owned \cup undeleted \cup Unseen
    /\ client \in {"rollout", "collecting"} => received = {} /\ handedOver = {}
    /\ client = "rollout" => job = <<>>
    /\ client = "failed" => received = {}
    /\ client = "received" => received = handedOver /\ job = <<>>

\* Each turn is of another chat that was answered, and its record tells its tokens.
OneTurnPerChat ==
    /\ \A k \in 1 .. Len(turns) :
          LET r == turns[k].record
          IN  turns[k].tokens = r.prompt \o r.output /\ chat[r.chat].pc = "answered"
    /\ \A j, k \in 1 .. Len(turns) : turns[j].record.chat = turns[k].record.chat => j = k

\* The tokens of a turn go on from those of every earlier one, up to what the
\* family trims.
TokensGrow ==
    \A j, k \in 1 .. Len(turns) : j < k =>
        /\ Len(turns[j].tokens) <= Len(turns[k].tokens)
        /\ \A i \in 1 .. Len(turns[j].tokens) - Trim : turns[k].tokens[i] = turns[j].tokens[i]

\* Without branches a history is n exchanges of a prompt and a reply, and a request
\* in flight is one with a further prompt.
Exchanges(h, n) == Len(h) = 2 * n /\ \A i \in 1 .. n : h[2 * i - 1] \in Prompts /\ h[2 * i] \in Contents
Asks(k) ==
    LET h == SubSeq(k.request, 1, 2 * k.expected)
    IN  /\ Exchanges(h, k.expected)
        /\ Len(k.request) = 2 * k.expected + 1 /\ k.request[2 * k.expected + 1] \in Prompts
        /\ k.prompt = Continued(Canonical(h)) \o <<k.request[2 * k.expected + 1]>>
Linear ==
    ~Branches =>
        /\ Exchanges(messages, Len(turns))
        /\ \A k \in 1 .. Len(turns) :
              turns[k].end = 2 * k /\ turns[k].tokens = Canonical(SubSeq(messages, 1, 2 * k))
        /\ \A c \in Chats : chat[c].pc = "proxied" => Asks(chat[c])

SessionIInv == SessionTypeOK /\ RefsAccounted /\ OneTurnPerChat /\ TokensGrow /\ Linear
=============================================================================
