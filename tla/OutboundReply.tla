--------------------------- MODULE OutboundReply ---------------------------
(***************************************************************************)
(* One reply request (one client_request_id) and everything that may act   *)
(* on it: the API replicas that run PersonalReplyService.send for it, the  *)
(* durable outbound_attempts row, the channel that delivers the message,   *)
(* the local Event of the delivered message, and the history poll that     *)
(* brings the same message back under the channel's own id.                *)
(*                                                                         *)
(* A replica runs at most one handler per request: send() registers the    *)
(* promise in sendingByClient before its first await, so later calls in    *)
(* the same process join it.  Each handler step below ends at an await.    *)
(***************************************************************************)
EXTENDS Naturals, Sequences

CONSTANTS Replicas,        \* API processes that share the store
          Threads,         \* conversations a request may name
          Bodies,          \* contents a request may carry
          None,            \* absent: no thread, no Event, no payload
          IdsMatchHistory, \* the receipt's message ids are the ids history uses
          Legacy           \* statuses an older release may have left behind

ASSUME IdsAssumption == IdsMatchHistory \in BOOLEAN
ASSUME LegacyAssumption == Legacy \subseteq {"failed", "pending", "accepted"}

VARIABLES row,        \* the outbound_attempts row, or NoAttempt
          handler,    \* the in-flight send of each replica
          delivered,  \* messages the channel has accepted for this request
          event,      \* the local outbound Event's message, or None
          nativeHead, \* the Event the channel's own message id resolves to
          poll        \* the history poll's ingest: "idle" or "commit"

vars == <<row, handler, delivered, event, nativeHead, poll>>

Message == [thread : Threads, body : Bodies]

(* A recovery payload holds the message and its external id: the request's *)
(* own id before the send, the channel's outbound id after acceptance.     *)
Payload == [message : Message, id : {"reply", "out"}]

ASSUME NoneIsNotData ==
    None \notin Threads /\ None \notin Message /\ None \notin Payload
ASSUME NoneIsNotAString == None # "reply" /\ None # "native"

Statuses == {"pending", "failed", "rejected", "accepted", "sent"}

Attempt == [thread : Threads, status : Statuses, recovery : Payload \cup {None},
            receipt : BOOLEAN, ids : BOOLEAN, event : BOOLEAN]

NoAttempt == [status |-> "none"]

Working == {"prior", "claim", "replay", "send", "reject", "accept",
            "ingest", "bind", "finish"}

(* Steps that only the handler holding the claim reaches. *)
Sending == {"send", "reject", "accept"}

(* Steps of storeDeliveredReply. *)
Storing == {"ingest", "bind", "finish"}

Handler == [pc : Working, thread : Threads \cup {None}, body : Bodies,
            recovery : Payload \cup {None}]

NoHandler == [pc |-> "idle"]

-----------------------------------------------------------------------------
(* The store. *)

(* A rejected attempt with no trace of a delivery. *)
Reclaimable(a) ==
    a.status = "rejected" /\ ~a.event /\ ~a.receipt /\ ~a.ids

(* Mutation: an attempt left pending may be claimed again. *)
Claims_pending(a, thread) ==
    \/ a = NoAttempt
    \/ a.status \in {"rejected", "pending"} /\ a.thread = thread

(* The upsert of claimOutboundAttempt changes a row. *)
Claims(a, thread) ==
    \/ a = NoAttempt
    \/ Reclaimable(a) /\ a.thread = thread

(* The row after a successful claim: an insert, or the upsert's DO UPDATE. *)
ClaimedRow(a, thread, recovery) ==
    IF a = NoAttempt
    THEN [thread |-> thread, status |-> "pending", recovery |-> recovery,
          receipt |-> FALSE, ids |-> FALSE, event |-> FALSE]
    ELSE [a EXCEPT !.status = "pending", !.recovery = recovery]

(* Mutation: an omitted recovery hash or receipt overwrites the stored one. *)
PutRow_overwrites(a, put) == put

(* Mutation: the stored recovery hash wins over a new one. *)
PutRow_keepsFirst(a, put) ==
    [put EXCEPT !.recovery = IF a.recovery = None THEN put.recovery ELSE a.recovery,
                !.receipt = put.receipt \/ a.receipt]

(* putOutboundAttempt over an existing row: COALESCE keeps the recovery    *)
(* hash and the receipt, the other columns are overwritten.                *)
PutRow(a, put) ==
    [put EXCEPT !.recovery = IF put.recovery = None THEN a.recovery ELSE put.recovery,
                !.receipt = put.receipt \/ a.receipt]

-----------------------------------------------------------------------------
(* The handler. *)

At(r, pc) == handler[r].pc = pc

Goto(r, pc) == handler' = [handler EXCEPT ![r].pc = pc]

End(r) == handler' = [handler EXCEPT ![r] = NoHandler]

(* send(): a request arrives at a replica with none in flight for the key. *)
(* A request may come without a thread.                                    *)
send(r, thread, body) ==
    /\ At(r, "idle")
    /\ handler' = [handler EXCEPT ![r] =
            [pc |-> "prior", thread |-> thread, body |-> body, recovery |-> None]]
    /\ UNCHANGED <<row, delivered, event, nativeHead, poll>>

(* What a prior attempt lets this caller do. *)
Mismatch(r) == handler[r].thread # None /\ row.thread # handler[r].thread

Recoverable(r) ==
    /\ row # NoAttempt /\ ~Mismatch(r)
    /\ row.status = "accepted" /\ row.recovery # None /\ row.receipt

FreeToSend(r) ==
    \/ row = NoAttempt
    \/ ~Mismatch(r) /\ Reclaimable(row)

(* Mutation: a request without a thread goes on to the send. *)
replayPriorAttempt_noThread(r) ==
    /\ At(r, "prior") \/ At(r, "replay")
    /\ IF FreeToSend(r) /\ At(r, "prior") THEN Goto(r, "claim") ELSE End(r)
    /\ UNCHANGED <<row, delivered, event, nativeHead, poll>>

(* Mutation: an accepted attempt is answered like a pending one. *)
replayPriorAttempt_uncertain(r) ==
    /\ At(r, "prior") \/ At(r, "replay")
    /\ IF FreeToSend(r) /\ At(r, "prior") /\ handler[r].thread # None
       THEN Goto(r, "claim")
       ELSE End(r)
    /\ UNCHANGED <<row, delivered, event, nativeHead, poll>>

(* replayPriorAttempt.  An accepted attempt is stored again from its       *)
(* recovery payload; with nothing to replay the first call goes on to      *)
(* sendOnce, which refuses a request without a thread, and the second one  *)
(* throws send_in_progress.  Every other case answers or throws.           *)
replayPriorAttempt(r) ==
    /\ At(r, "prior") \/ At(r, "replay")
    /\ IF Recoverable(r)
       THEN handler' = [handler EXCEPT ![r].pc = "ingest",
                                       ![r].thread = row.thread,
                                       ![r].recovery = row.recovery]
       ELSE IF FreeToSend(r) /\ At(r, "prior") /\ handler[r].thread # None
       THEN Goto(r, "claim")
       ELSE End(r)
    /\ UNCHANGED <<row, delivered, event, nativeHead, poll>>

MessageOf(r) == [thread |-> handler[r].thread, body |-> handler[r].body]

(* saveReplyRecovery writes the payload, then claimOutboundAttempt. *)
claimOutboundAttempt(r) ==
    /\ At(r, "claim")
    /\ IF Claims(row, handler[r].thread)
       THEN /\ row' = ClaimedRow(row, handler[r].thread,
                                 [message |-> MessageOf(r), id |-> "reply"])
            /\ Goto(r, "send")
       ELSE UNCHANGED row /\ Goto(r, "replay")
    /\ UNCHANGED <<delivered, event, nativeHead, poll>>

(* egress.send: the channel accepts the message.  The answer may still be  *)
(* lost: the handler then ends, at handlerEnds.                            *)
egressDelivers(r) ==
    /\ At(r, "send")
    /\ delivered' = Append(delivered, MessageOf(r))
    /\ Goto(r, "accept")
    /\ UNCHANGED <<row, event, nativeHead, poll>>

(* egress.send throws SendNotAcceptedError: no part was accepted. *)
egressRejects(r) ==
    /\ At(r, "send")
    /\ Goto(r, "reject")
    /\ UNCHANGED <<row, delivered, event, nativeHead, poll>>

putRejected(r) ==
    /\ At(r, "reject")
    /\ row' = PutRow(row, [thread |-> handler[r].thread, status |-> "rejected",
                           recovery |-> [message |-> MessageOf(r), id |-> "reply"],
                           receipt |-> FALSE, ids |-> FALSE, event |-> FALSE])
    /\ End(r)
    /\ UNCHANGED <<delivered, event, nativeHead, poll>>

putAccepted(r) ==
    /\ At(r, "accept")
    /\ LET payload == [message |-> MessageOf(r), id |-> "out"] IN
         /\ row' = PutRow(row, [thread |-> handler[r].thread, status |-> "accepted",
                                recovery |-> payload,
                                receipt |-> TRUE, ids |-> TRUE, event |-> FALSE])
         /\ handler' = [handler EXCEPT ![r].pc = "ingest", ![r].recovery = payload]
    /\ UNCHANGED <<delivered, event, nativeHead, poll>>

(* Mutation: the attempt is finished before its aliases are bound. *)
ingestReply_skipsBind(r) ==
    /\ At(r, "ingest")
    /\ event' = IF event = None THEN handler[r].recovery.message ELSE event
    /\ Goto(r, "finish")
    /\ UNCHANGED <<row, delivered, nativeHead, poll>>

(* storeDeliveredReply: ingest of the recovered batch.  A create that loses *)
(* the race for the source head is inspected again and answers the winner. *)
ingestReply(r) ==
    /\ At(r, "ingest")
    /\ event' = IF event = None THEN handler[r].recovery.message ELSE event
    /\ Goto(r, "bind")
    /\ UNCHANGED <<row, delivered, nativeHead, poll>>

(* bindSourceIdentityAliases is INSERT OR IGNORE on the source heads. *)
bindChannelAliases(r) ==
    /\ At(r, "bind")
    /\ nativeHead' = IF IdsMatchHistory /\ nativeHead = None THEN "reply" ELSE nativeHead
    /\ Goto(r, "finish")
    /\ UNCHANGED <<row, delivered, event, poll>>

putSent(r) ==
    /\ At(r, "finish")
    /\ row' = PutRow(row, [thread |-> handler[r].thread, status |-> "sent",
                           recovery |-> None, receipt |-> FALSE,
                           ids |-> TRUE, event |-> TRUE])
    /\ End(r)
    /\ UNCHANGED <<delivered, event, nativeHead, poll>>

(* The handler throws or its process stops: sendingByClient forgets it and *)
(* what it has written so far stays.                                       *)
handlerEnds(r) ==
    /\ ~At(r, "idle")
    /\ End(r)
    /\ UNCHANGED <<row, delivered, event, nativeHead, poll>>

-----------------------------------------------------------------------------
(* The history poll ingests the delivered message under its native id. *)

(* inspectRecord: a known id or an echo of the local outbound Event is a   *)
(* duplicate; otherwise the record will be created.                        *)
pollInspects ==
    /\ poll = "idle" /\ delivered # <<>>
    /\ nativeHead = None /\ event # delivered[1]
    /\ poll' = "commit"
    /\ UNCHANGED <<row, handler, delivered, event, nativeHead>>

(* Mutation: the create does not compare the head it expects. *)
pollCommits_noCompare ==
    /\ poll = "commit" /\ poll' = "idle"
    /\ nativeHead' = "native"
    /\ UNCHANGED <<row, handler, delivered, event>>

(* The create, unless the id has a head by now: then it is a duplicate. *)
pollCommits ==
    /\ poll = "commit" /\ poll' = "idle"
    /\ nativeHead' = IF nativeHead = None THEN "native" ELSE nativeHead
    /\ UNCHANGED <<row, handler, delivered, event>>

-----------------------------------------------------------------------------
(* An attempt of an older release: no recovery payload and no receipt.  The *)
(* message may have been delivered, and was if the attempt is accepted.    *)
LegacyInit ==
    \E m \in Message, s \in Legacy :
        /\ row = [thread |-> m.thread, status |-> s, recovery |-> None,
                  receipt |-> FALSE, ids |-> FALSE, event |-> FALSE]
        /\ \/ s # "accepted" /\ delivered = <<>>
           \/ delivered = <<m>>

Init ==
    /\ \/ row = NoAttempt /\ delivered = <<>>
       \/ LegacyInit
    /\ handler = [r \in Replicas |-> NoHandler]
    /\ event = None
    /\ nativeHead = None
    /\ poll = "idle"

handlerStep(r) ==
    \/ replayPriorAttempt(r) \/ claimOutboundAttempt(r)
    \/ putRejected(r) \/ putAccepted(r)
    \/ ingestReply(r) \/ bindChannelAliases(r) \/ putSent(r)

Next ==
    \/ \E r \in Replicas :
        \/ \E t \in Threads \cup {None}, b \in Bodies : send(r, t, b)
        \/ handlerStep(r)
        \/ egressDelivers(r) \/ egressRejects(r) \/ handlerEnds(r)
    \/ pollInspects \/ pollCommits

Spec == Init /\ [][Next]_vars

(* One replica is enough: there the client keeps retrying the request with *)
(* the conversation it was sent to, a handler goes on or ends, and neither *)
(* the read of an accepted attempt nor a step that stores it is            *)
(* interrupted every time it is tried.                                     *)
Retried == CHOOSE r \in Replicas : TRUE

retry(r) ==
    /\ row # NoAttempt
    /\ \E b \in Bodies : send(r, row.thread, b)

Fairness ==
    /\ SF_vars(retry(Retried))
    /\ WF_vars(handlerStep(Retried))
    /\ SF_vars(At(Retried, "prior") /\ Recoverable(Retried) /\ replayPriorAttempt(Retried))
    /\ SF_vars(ingestReply(Retried))
    /\ SF_vars(bindChannelAliases(Retried))
    /\ SF_vars(putSent(Retried))

FairSpec == Spec /\ Fairness

-----------------------------------------------------------------------------
(* Type invariant: a handler that stores a reply has its payload. *)
TypeOK ==
    /\ row \in Attempt \cup {NoAttempt}
    /\ handler \in [Replicas -> Handler \cup {NoHandler}]
    /\ \A r \in Replicas : handler[r].pc \in Storing => handler[r].recovery # None
    /\ delivered \in Seq(Message)
    /\ event \in Message \cup {None}
    /\ nativeHead \in {None, "reply", "native"}
    /\ poll \in {"idle", "commit"}

(* Whatever replicas, retries, lost answers, crashes and rejections there  *)
(* are, and whatever an older release left behind, the channel gets the    *)
(* message of one client_request_id at most once.  (sendOnce,              *)
(* replayPriorAttempt, claimOutboundAttempt.)                              *)
AtMostOnce == Len(delivered) =< 1

(* The durable record never lies about the channel: an attempt recorded as *)
(* rejected was not delivered; one with a receipt was, in the conversation *)
(* it names, and its recovery payload is the message the channel took,     *)
(* under its outbound id, whatever bodies other retries carried; and the   *)
(* local Event is that message.  (putOutboundAttempt, storeDeliveredReply.) *)
RecordMatchesChannel ==
    /\ row.status = "rejected" => delivered = <<>>
    /\ row # NoAttempt /\ row.receipt =>
          /\ row.recovery # None /\ row.recovery.id = "out"
          /\ delivered = <<row.recovery.message>>
          /\ row.thread = row.recovery.message.thread
    /\ event # None => delivered = <<event>>

(* A reply reported as sent has its Event, and where history uses the      *)
(* receipt's ids the native id resolves to an Event, so that replays and   *)
(* polls find it.  (storeDeliveredReply's order of writes.)                *)
SentIsComplete ==
    row.status = "sent" =>
        /\ event # None
        /\ IdsMatchHistory => nativeHead # None

(* Once a receipt is stored no later write of any replica loses it, opens  *)
(* the attempt again, or takes a sent attempt back.  (putOutboundAttempt.) *)
DeliveryIsRemembered ==
    [][row # NoAttempt /\ row.receipt =>
          /\ row'.receipt
          /\ row'.status \in IF row.status = "sent" THEN {"sent"} ELSE {"accepted", "sent"}]_row

(* After a reply is sent, no history poll stores its echo as a new Event,  *)
(* not even one whose inspection was made before the reply was stored.     *)
(* (bindChannelAliases before the sent status; the head compare of append.) *)
EchoIsNotStoredAgain ==
    [][row.status = "sent" /\ IdsMatchHistory => nativeHead' = nativeHead]_vars

(* A delivered reply whose receipt was stored is in the end completed      *)
(* locally by retries of the same key.  (replayPriorAttempt.)              *)
AcceptedIsFinished ==
    (row # NoAttempt /\ row.status = "accepted" /\ row.receipt) ~> row.status = "sent"
=============================================================================
