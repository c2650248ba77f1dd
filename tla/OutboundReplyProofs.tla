------------------------ MODULE OutboundReplyProofs ------------------------
(***************************************************************************)
(* Proofs for OutboundReply, for every set of replicas, conversations and  *)
(* contents.  The strengthening says who holds the claim and what the      *)
(* channel and the store know at each step of the holder:                  *)
(*   Claimed    one handler at a time is between its claim and its put,    *)
(*              and the row is then its pending attempt, with no evidence; *)
(*   Undelivered before the send answers, and whenever the row is free to  *)
(*              be claimed, the channel has nothing;                       *)
(*   Stored     a handler that stores works on the row's own payload.      *)
(***************************************************************************)
EXTENDS OutboundReply, TLAPS

(* The handler that claimed the attempt is alone, and its row is pending. *)
Claimed ==
    /\ \A r, q \in Replicas :
         handler[r].pc \in Sending /\ handler[q].pc \in Sending => r = q
    /\ \A r \in Replicas : handler[r].pc \in Sending =>
         /\ row # NoAttempt /\ row.status = "pending"
         /\ ~row.receipt /\ ~row.ids /\ ~row.event
         /\ row.thread = handler[r].thread

(* Nothing was delivered while the attempt can still be sent. *)
Undelivered ==
    /\ row = NoAttempt \/ row.status = "rejected" => delivered = <<>>
    /\ \A r \in Replicas :
         /\ handler[r].pc = "claim" => handler[r].thread \in Threads
         /\ handler[r].pc \in {"send", "reject"} => delivered = <<>>
         /\ handler[r].pc = "accept" => delivered = <<MessageOf(r)>>

(* A handler that stores the reply works on the row's own payload. *)
Stored ==
    /\ row # NoAttempt /\ row.receipt => row.status \in {"accepted", "sent"}
    /\ row.status = "sent" => row.receipt
    /\ \A r \in Replicas :
         /\ handler[r].pc \in Storing =>
              /\ row # NoAttempt /\ row.receipt
              /\ handler[r].recovery = row.recovery
              /\ handler[r].thread = row.thread
         /\ handler[r].pc \in {"bind", "finish"} => event # None
         /\ handler[r].pc = "finish" => (IdsMatchHistory => nativeHead # None)

IInv == /\ TypeOK
        /\ AtMostOnce
        /\ RecordMatchesChannel
        /\ SentIsComplete
        /\ Claimed
        /\ Undelivered
        /\ Stored

-----------------------------------------------------------------------------
(* The first accepted message of a request. *)
LEMMA FirstMessage ==
  ASSUME NEW s, NEW m \in Message, s = <<>>
  PROVE  Append(s, m) = <<m>> /\ Len(Append(s, m)) = 1 /\ Append(s, m) \in Seq(Message)
  OBVIOUS

(* A request's deliveries when there is none or one. *)
LEMMA NoneOrOne ==
  /\ <<>> \in Seq(Message) /\ Len(<<>>) = 0
  /\ \A m \in Message : <<m>> \in Seq(Message) /\ Len(<<m>>) = 1
  OBVIOUS

(* The strengthening holds initially, legacy attempts included. *)
LEMMA InitInv == Init => IInv
  <1> SUFFICES ASSUME Init PROVE IInv
    OBVIOUS
  <1> USE NoneIsNotData, LegacyAssumption
  <1>1. handler = [r \in Replicas |-> NoHandler] /\ \A r \in Replicas : handler[r].pc = "idle"
    BY DEF Init, NoHandler
  <1>2. /\ row \in Attempt \cup {NoAttempt}
        /\ delivered = <<>> \/ \E m \in Message : delivered = <<m>>
        /\ row = NoAttempt => delivered = <<>>
        /\ row # NoAttempt => ~row.receipt
        /\ row.status \in Legacy \cup {"none"}
    <2>1. CASE row = NoAttempt /\ delivered = <<>>
      BY <2>1 DEF NoAttempt
    <2>2. CASE LegacyInit
      <3>1. PICK m \in Message, s \in Legacy :
              /\ row = [thread |-> m.thread, status |-> s, recovery |-> None,
                        receipt |-> FALSE, ids |-> FALSE, event |-> FALSE]
              /\ delivered = <<>> \/ delivered = <<m>>
        BY <2>2 DEF LegacyInit
      <3>2. m.thread \in Threads /\ s \in Statuses /\ s # "none"
        BY DEF Message, Statuses
      <3>3. row \in Attempt /\ row # NoAttempt /\ ~row.receipt /\ row.status = s
        BY <3>1, <3>2 DEF Attempt, NoAttempt
      <3> QED BY <3>1, <3>3
    <2> QED BY <2>1, <2>2 DEF Init
  <1>3. TypeOK
    <2>1. delivered \in Seq(Message)
      BY <1>2, NoneOrOne
    <2>2. handler \in [Replicas -> Handler \cup {NoHandler}]
      BY <1>1
    <2> QED BY <1>1, <1>2, <2>1, <2>2 DEF Init, TypeOK, Storing
  <1>4. AtMostOnce
    <2>1. CASE Len(delivered) = 0
      BY <2>1 DEF AtMostOnce
    <2>2. CASE Len(delivered) = 1
      BY <2>2 DEF AtMostOnce
    <2> QED BY <1>2, <2>1, <2>2, NoneOrOne
  <1>5. RecordMatchesChannel /\ SentIsComplete
    BY <1>2 DEF Init, RecordMatchesChannel, SentIsComplete
  <1>6. Claimed /\ Undelivered /\ Stored
    BY <1>1, <1>2 DEF Claimed, Undelivered, Stored, Sending, Storing
  <1> QED BY <1>3, <1>4, <1>5, <1>6 DEF IInv

(* A step that only moves handlers between steps that promise nothing. *)
LEMMA QuietMove ==
  ASSUME IInv, NEW r \in Replicas, NEW h \in Handler \cup {NoHandler},
         handler' = [handler EXCEPT ![r] = h],
         h.pc \notin Sending \cup Storing,
         h.pc = "claim" => h.thread \in Threads,
         UNCHANGED <<row, delivered, event, nativeHead, poll>>
  PROVE  IInv'
  <1>1. /\ handler'[r] = h
        /\ \A q \in Replicas : q # r => handler'[q] = handler[q]
    BY DEF IInv, TypeOK
  <1>2. TypeOK'
    BY <1>1 DEF IInv, TypeOK
  <1>3. (AtMostOnce /\ RecordMatchesChannel /\ SentIsComplete)'
    BY DEF IInv, AtMostOnce, RecordMatchesChannel, SentIsComplete
  <1>4. (Claimed /\ Undelivered /\ Stored)'
    BY <1>1 DEF IInv, Claimed, Undelivered, Stored, Sending, Storing, MessageOf
  <1> QED BY <1>2, <1>3, <1>4 DEF IInv

(* A handler that ends promises nothing any more. *)
LEMMA EndInv ==
  ASSUME IInv, NEW r \in Replicas, End(r),
         UNCHANGED <<row, delivered, event, nativeHead, poll>>
  PROVE  IInv'
  BY QuietMove DEF End, NoHandler, Sending, Storing

-----------------------------------------------------------------------------
(* One lemma per action that disturbs the strengthening. *)

(* A request registers and reads nothing yet. *)
LEMMA SendInv ==
  ASSUME IInv, NEW r \in Replicas, NEW t \in Threads \cup {None}, NEW b \in Bodies,
         send(r, t, b)
  PROVE  IInv'
  <1> DEFINE h == [pc |-> "prior", thread |-> t, body |-> b, recovery |-> None]
  <1>1. h \in Handler
    BY DEF Handler, Working
  <1>2. h.pc \notin Sending \cup Storing /\ h.pc # "claim"
    BY DEF Sending, Storing
  <1>3. handler' = [handler EXCEPT ![r] = h]
    BY DEF send
  <1> HIDE DEF h
  <1> QED BY <1>1, <1>2, <1>3, QuietMove DEF send

(* A handler in work has its fields. *)
LEMMA HandlerFields ==
  ASSUME IInv, NEW r \in Replicas, handler[r].pc # "idle"
  PROVE  handler[r] \in Handler
  BY DEF IInv, TypeOK, NoHandler

(* Reading the prior attempt leads to the claim, the store or the end. *)
LEMMA ReplayInv ==
  ASSUME IInv, NEW r \in Replicas, replayPriorAttempt(r)
  PROVE  IInv'
  <1>0. /\ handler[r] \in Handler
        /\ UNCHANGED <<row, delivered, event, nativeHead, poll>>
    BY HandlerFields DEF replayPriorAttempt, At
  <1>1. CASE End(r)
    BY <1>0, <1>1, EndInv
  <1>2. CASE Goto(r, "claim") /\ handler[r].thread # None
    <2> DEFINE h == [handler[r] EXCEPT !.pc = "claim"]
    <2>1. h \in Handler /\ h.pc = "claim" /\ h.thread \in Threads
      BY <1>0, <1>2 DEF Handler, Working
    <2>2. handler' = [handler EXCEPT ![r] = h]
      BY <1>2 DEF Goto
    <2>3. h.pc \notin Sending \cup Storing
      BY <2>1 DEF Sending, Storing
    <2> HIDE DEF h
    <2> QED BY <1>0, <2>1, <2>2, <2>3, QuietMove
  <1>3. CASE /\ Recoverable(r)
             /\ handler' = [handler EXCEPT ![r].pc = "ingest",
                                           ![r].thread = row.thread,
                                           ![r].recovery = row.recovery]
    <2> DEFINE h == [handler[r] EXCEPT !.pc = "ingest", !.thread = row.thread,
                                       !.recovery = row.recovery]
    <2>0. row \in Attempt /\ row.receipt /\ row.recovery # None /\ row # NoAttempt
      BY <1>3 DEF Recoverable, IInv, TypeOK
    <2>1. /\ h \in Handler /\ h.pc = "ingest"
          /\ h.thread = row.thread /\ h.recovery = row.recovery
      BY <1>0, <2>0 DEF Handler, Working, Attempt
    <2>2. handler' = [handler EXCEPT ![r] = h]
      BY <1>3
    <2> HIDE DEF h
    <2>3. handler'[r] = h /\ \A q \in Replicas : q # r => handler'[q] = handler[q]
      BY <2>2 DEF IInv, TypeOK
    <2>4. TypeOK'
      BY <1>0, <2>0, <2>1, <2>2, <2>3 DEF IInv, TypeOK
    <2>5. (AtMostOnce /\ RecordMatchesChannel /\ SentIsComplete)'
      BY <1>0 DEF IInv, AtMostOnce, RecordMatchesChannel, SentIsComplete
    <2>6. (Claimed /\ Undelivered /\ Stored)'
      BY <1>0, <2>0, <2>1, <2>3
      DEF IInv, Claimed, Undelivered, Stored, Sending, Storing, MessageOf
    <2> QED BY <2>4, <2>5, <2>6 DEF IInv
  <1> QED BY <1>1, <1>2, <1>3 DEF replayPriorAttempt

(* Only a row without a delivery is claimed, and only by one handler. *)
LEMMA ClaimInv ==
  ASSUME IInv, NEW r \in Replicas, claimOutboundAttempt(r)
  PROVE  IInv'
  <1>0. /\ handler[r] \in Handler /\ handler[r].pc = "claim"
        /\ handler[r].thread \in Threads
        /\ UNCHANGED <<delivered, event, nativeHead, poll>>
    BY HandlerFields DEF claimOutboundAttempt, At, IInv, Undelivered
  <1>1. CASE UNCHANGED row /\ Goto(r, "replay")
    <2> DEFINE h == [handler[r] EXCEPT !.pc = "replay"]
    <2>1. h \in Handler /\ h.pc = "replay"
      BY <1>0 DEF Handler, Working
    <2>2. handler' = [handler EXCEPT ![r] = h]
      BY <1>1 DEF Goto
    <2>3. h.pc \notin Sending \cup Storing
      BY <2>1 DEF Sending, Storing
    <2> HIDE DEF h
    <2> QED BY <1>0, <1>1, <2>1, <2>2, <2>3, QuietMove
  <1>2. CASE /\ Claims(row, handler[r].thread)
             /\ row' = ClaimedRow(row, handler[r].thread,
                                  [message |-> MessageOf(r), id |-> "reply"])
             /\ Goto(r, "send")
    <2> DEFINE h == [handler[r] EXCEPT !.pc = "send"]
               p == [message |-> MessageOf(r), id |-> "reply"]
    <2>1. h \in Handler /\ h.pc = "send" /\ h.thread = handler[r].thread
      BY <1>0 DEF Handler, Working
    <2>2. handler' = [handler EXCEPT ![r] = h]
      BY <1>2 DEF Goto
    <2>3. p \in Payload
      BY <1>0 DEF Payload, MessageOf, Message, Handler
    <2>4. /\ row' \in Attempt /\ row'.status = "pending" /\ row' # NoAttempt
          /\ ~row'.receipt /\ ~row'.ids /\ ~row'.event
          /\ row'.thread = h.thread
      <3> HIDE DEF h, p
      <3>1. CASE row = NoAttempt
        BY <1>0, <1>2, <2>1, <2>3, <3>1 DEF ClaimedRow, Attempt, Statuses, NoAttempt, p
      <3>2. CASE row # NoAttempt
        <4>1. row \in Attempt /\ Reclaimable(row) /\ row.thread = handler[r].thread
          BY <1>2, <3>2 DEF Claims, IInv, TypeOK
        <4>2. row' = [row EXCEPT !.status = "pending", !.recovery = p]
          BY <1>2, <3>2 DEF ClaimedRow, p
        <4> QED BY <2>1, <2>3, <4>1, <4>2 DEF Attempt, Statuses, NoAttempt, Reclaimable
      <3> QED BY <3>1, <3>2
    <2>5. delivered = <<>> /\ (row = NoAttempt \/ row.status = "rejected")
      BY <1>2 DEF IInv, Undelivered, Claims, Reclaimable
    <2> HIDE DEF h, p
    <2>6. handler'[r] = h /\ \A q \in Replicas : q # r => handler'[q] = handler[q]
      BY <2>2 DEF IInv, TypeOK
    <2>7. TypeOK'
      BY <1>0, <2>1, <2>2, <2>4, <2>6 DEF IInv, TypeOK, Storing
    <2>8. (AtMostOnce /\ RecordMatchesChannel /\ SentIsComplete)'
      BY <1>0, <2>4, <2>5 DEF IInv, AtMostOnce, RecordMatchesChannel, SentIsComplete
    <2>9. /\ \A q \in Replicas : handler[q].pc \notin Sending
          /\ \A q \in Replicas : handler[q].pc \notin Storing
      BY <2>5 DEF IInv, Claimed, Stored, NoAttempt
    <2>10. (Claimed /\ Undelivered /\ Stored)'
      BY <1>0, <2>1, <2>4, <2>5, <2>6, <2>9
      DEF IInv, Claimed, Undelivered, Stored, Sending, Storing, MessageOf
    <2> QED BY <2>7, <2>8, <2>10 DEF IInv
  <1> QED BY <1>1, <1>2 DEF claimOutboundAttempt

(* The holder of the claim is the only one that can deliver. *)
LEMMA DeliverInv ==
  ASSUME IInv, NEW r \in Replicas, egressDelivers(r)
  PROVE  IInv'
  <1> DEFINE h == [handler[r] EXCEPT !.pc = "accept"]
  <1>0. /\ handler[r] \in Handler /\ handler[r].pc = "send" /\ delivered = <<>>
        /\ UNCHANGED <<row, event, nativeHead, poll>>
    BY HandlerFields DEF egressDelivers, At, IInv, Undelivered
  <1>1. /\ row \in Attempt /\ row # NoAttempt /\ row.status = "pending" /\ ~row.receipt
        /\ row.thread = handler[r].thread
        /\ \A q \in Replicas : q # r => handler[q].pc \notin Sending
        /\ \A q \in Replicas : handler[q].pc \notin Storing
        /\ event = None
    BY <1>0, NoneOrOne DEF IInv, TypeOK, Claimed, Stored, Sending, RecordMatchesChannel
  <1>2. MessageOf(r) \in Message
    BY <1>0, <1>1 DEF MessageOf, Message, Handler, Attempt
  <1>3. delivered' = <<MessageOf(r)>> /\ Len(delivered') = 1 /\ delivered' \in Seq(Message)
    BY <1>0, <1>2, FirstMessage DEF egressDelivers
  <1>4. /\ h \in Handler /\ h.pc = "accept"
        /\ h.thread = handler[r].thread /\ h.body = handler[r].body
    BY <1>0 DEF Handler, Working
  <1>5. handler' = [handler EXCEPT ![r] = h]
    BY DEF egressDelivers, Goto
  <1> HIDE DEF h
  <1>6. handler'[r] = h /\ \A q \in Replicas : q # r => handler'[q] = handler[q]
    BY <1>5 DEF IInv, TypeOK
  <1>7. MessageOf(r)' = MessageOf(r)
    BY <1>4, <1>6 DEF MessageOf
  <1>8. TypeOK'
    BY <1>0, <1>1, <1>3, <1>4, <1>5, <1>6 DEF IInv, TypeOK, Storing
  <1>9. (AtMostOnce /\ RecordMatchesChannel /\ SentIsComplete)'
    BY <1>0, <1>1, <1>3 DEF IInv, AtMostOnce, RecordMatchesChannel, SentIsComplete
  <1>10. (Claimed /\ Undelivered /\ Stored)'
    BY <1>0, <1>1, <1>3, <1>4, <1>6, <1>7
    DEF IInv, Claimed, Undelivered, Stored, Sending, Storing
  <1> QED BY <1>8, <1>9, <1>10 DEF IInv

(* A rejection is known to the handler before it is stored. *)
LEMMA RejectsInv ==
  ASSUME IInv, NEW r \in Replicas, egressRejects(r)
  PROVE  IInv'
  <1> DEFINE h == [handler[r] EXCEPT !.pc = "reject"]
  <1>0. /\ handler[r] \in Handler /\ handler[r].pc = "send"
        /\ UNCHANGED <<row, delivered, event, nativeHead, poll>>
    BY HandlerFields DEF egressRejects, At
  <1>4. h \in Handler /\ h.pc = "reject" /\ h.thread = handler[r].thread
    BY <1>0 DEF Handler, Working
  <1>5. handler' = [handler EXCEPT ![r] = h]
    BY DEF egressRejects, Goto
  <1> HIDE DEF h
  <1>6. handler'[r] = h /\ \A q \in Replicas : q # r => handler'[q] = handler[q]
    BY <1>5 DEF IInv, TypeOK
  <1>7. TypeOK'
    BY <1>0, <1>4, <1>5, <1>6 DEF IInv, TypeOK, Storing
  <1>8. (AtMostOnce /\ RecordMatchesChannel /\ SentIsComplete)'
    BY <1>0 DEF IInv, AtMostOnce, RecordMatchesChannel, SentIsComplete
  <1>9. (Claimed /\ Undelivered /\ Stored)'
    BY <1>0, <1>4, <1>6
    DEF IInv, Claimed, Undelivered, Stored, Sending, Storing, MessageOf
  <1> QED BY <1>7, <1>8, <1>9 DEF IInv

(* The attempt is free again, and nothing was delivered. *)
LEMMA PutRejectedInv ==
  ASSUME IInv, NEW r \in Replicas, putRejected(r)
  PROVE  IInv'
  <1> DEFINE p == [message |-> MessageOf(r), id |-> "reply"]
  <1>0. /\ handler[r] \in Handler /\ handler[r].pc = "reject" /\ delivered = <<>>
        /\ UNCHANGED <<delivered, event, nativeHead, poll>>
    BY HandlerFields DEF putRejected, At, IInv, Undelivered
  <1>1. /\ row \in Attempt /\ row # NoAttempt /\ ~row.receipt
        /\ row.thread = handler[r].thread
        /\ \A q \in Replicas : q # r => handler[q].pc \notin Sending
        /\ \A q \in Replicas : handler[q].pc \notin Storing
    BY <1>0 DEF IInv, TypeOK, Claimed, Stored, Sending
  <1>2. p \in Payload /\ handler[r].thread \in Threads
    BY <1>0, <1>1 DEF Payload, MessageOf, Message, Handler, Attempt
  <1>3. row' = PutRow(row, [thread |-> handler[r].thread, status |-> "rejected",
                            recovery |-> p,
                            receipt |-> FALSE, ids |-> FALSE, event |-> FALSE])
    BY DEF putRejected
  <1> HIDE DEF p
  <1>4. /\ row' \in Attempt /\ row' # NoAttempt /\ row'.status = "rejected"
        /\ ~row'.receipt
    BY <1>1, <1>2, <1>3, NoneIsNotData DEF PutRow, Attempt, NoAttempt, Statuses
  <1>5. /\ handler'[r] = NoHandler /\ handler'[r].pc = "idle"
        /\ \A q \in Replicas : q # r => handler'[q] = handler[q]
        /\ handler' \in [Replicas -> Handler \cup {NoHandler}]
    BY DEF putRejected, End, IInv, TypeOK, NoHandler
  <1>6. TypeOK'
    BY <1>0, <1>4, <1>5 DEF IInv, TypeOK, Storing
  <1>7. (AtMostOnce /\ RecordMatchesChannel /\ SentIsComplete)'
    BY <1>0, <1>4 DEF IInv, AtMostOnce, RecordMatchesChannel, SentIsComplete
  <1>8. (Claimed /\ Undelivered /\ Stored)'
    BY <1>0, <1>1, <1>4, <1>5
    DEF IInv, Claimed, Undelivered, Stored, Sending, Storing, MessageOf
  <1> QED BY <1>6, <1>7, <1>8 DEF IInv

(* The receipt is stored with the payload that was delivered. *)
LEMMA PutAcceptedInv ==
  ASSUME IInv, NEW r \in Replicas, putAccepted(r)
  PROVE  IInv'
  <1> DEFINE p == [message |-> MessageOf(r), id |-> "out"]
             h == [handler[r] EXCEPT !.pc = "ingest", !.recovery = p]
  <1>0. /\ handler[r] \in Handler /\ handler[r].pc = "accept"
        /\ delivered = <<MessageOf(r)>>
        /\ UNCHANGED <<delivered, event, nativeHead, poll>>
    BY HandlerFields DEF putAccepted, At, IInv, Undelivered
  <1>1. /\ row \in Attempt /\ row # NoAttempt /\ ~row.receipt
        /\ row.thread = handler[r].thread
        /\ \A q \in Replicas : q # r => handler[q].pc \notin Sending
        /\ \A q \in Replicas : handler[q].pc \notin Storing
    BY <1>0 DEF IInv, TypeOK, Claimed, Stored, Sending
  <1>2. /\ p \in Payload /\ p # None /\ p.id = "out" /\ p.message = MessageOf(r)
        /\ handler[r].thread \in Threads /\ MessageOf(r).thread = handler[r].thread
    BY <1>0, <1>1, NoneIsNotData DEF Payload, MessageOf, Message, Handler, Attempt
  <1>3. row' = PutRow(row, [thread |-> handler[r].thread, status |-> "accepted",
                            recovery |-> p,
                            receipt |-> TRUE, ids |-> TRUE, event |-> FALSE])
    BY DEF putAccepted
  <1>4. /\ h \in Handler /\ h.pc = "ingest" /\ h.recovery = p
        /\ h.thread = handler[r].thread
    BY <1>0, <1>2 DEF Handler, Working
  <1>5. handler' = [handler EXCEPT ![r] = h]
    BY DEF putAccepted
  <1> HIDE DEF p, h
  <1>6. /\ row' \in Attempt /\ row' # NoAttempt /\ row'.status = "accepted"
        /\ row'.receipt /\ row'.recovery = p /\ row'.thread = handler[r].thread
    BY <1>1, <1>2, <1>3 DEF PutRow, Attempt, NoAttempt, Statuses
  <1>7. handler'[r] = h /\ \A q \in Replicas : q # r => handler'[q] = handler[q]
    BY <1>5 DEF IInv, TypeOK
  <1>8. TypeOK'
    BY <1>0, <1>2, <1>4, <1>5, <1>6, <1>7 DEF IInv, TypeOK, Storing
  <1>9. (AtMostOnce /\ RecordMatchesChannel /\ SentIsComplete)'
    BY <1>0, <1>2, <1>6 DEF IInv, AtMostOnce, RecordMatchesChannel, SentIsComplete
  <1>10. (Claimed /\ Undelivered /\ Stored)'
    BY <1>0, <1>1, <1>4, <1>6, <1>7
    DEF IInv, Claimed, Undelivered, Stored, Sending, Storing, MessageOf
  <1> QED BY <1>8, <1>9, <1>10 DEF IInv

(* What a handler that stores knows of the row and of the channel. *)
LEMMA StoringFacts ==
  ASSUME IInv, NEW r \in Replicas, handler[r].pc \in Storing
  PROVE  /\ handler[r] \in Handler /\ handler[r].thread = row.thread
         /\ row \in Attempt /\ row # NoAttempt /\ row.receipt
         /\ row.status \in {"accepted", "sent"}
         /\ handler[r].recovery = row.recovery /\ row.recovery \in Payload
         /\ delivered = <<row.recovery.message>>
         /\ row.recovery.message \in Message /\ row.recovery.message # None
  <1>1. handler[r] \in Handler
    BY HandlerFields DEF Storing
  <1>2. /\ row # NoAttempt /\ row.receipt /\ row.status \in {"accepted", "sent"}
        /\ handler[r].recovery = row.recovery /\ handler[r].thread = row.thread
    BY DEF IInv, Stored
  <1>3. row \in Attempt /\ row.recovery \in Payload
        /\ delivered = <<row.recovery.message>>
    BY <1>2 DEF IInv, TypeOK, RecordMatchesChannel, Attempt
  <1>4. row.recovery.message \in Message /\ row.recovery.message # None
    BY <1>3, NoneIsNotData DEF Payload
  <1> QED BY <1>1, <1>2, <1>3, <1>4

(* The Event that is stored is the message that was delivered. *)
LEMMA IngestInv ==
  ASSUME IInv, NEW r \in Replicas, ingestReply(r)
  PROVE  IInv'
  <1> DEFINE h == [handler[r] EXCEPT !.pc = "bind"]
  <1>0. /\ handler[r].pc = "ingest" /\ handler[r].pc \in Storing
        /\ UNCHANGED <<row, delivered, nativeHead, poll>>
    BY DEF ingestReply, At, Storing
  <1>1. /\ handler[r] \in Handler /\ handler[r].recovery # None
        /\ event' # None /\ event' \in Message /\ delivered = <<event'>>
    BY <1>0, StoringFacts, NoneIsNotData
    DEF ingestReply, IInv, TypeOK, RecordMatchesChannel
  <1>2. /\ h \in Handler /\ h.pc = "bind" /\ h.recovery = handler[r].recovery
        /\ h.thread = handler[r].thread
    BY <1>1 DEF Handler, Working
  <1>3. handler' = [handler EXCEPT ![r] = h]
    BY DEF ingestReply, Goto
  <1> HIDE DEF h
  <1>4. handler'[r] = h /\ \A q \in Replicas : q # r => handler'[q] = handler[q]
    BY <1>3 DEF IInv, TypeOK
  <1>5. TypeOK'
    BY <1>0, <1>1, <1>2, <1>3, <1>4 DEF IInv, TypeOK, Storing
  <1>6. (AtMostOnce /\ RecordMatchesChannel /\ SentIsComplete)'
    BY <1>0, <1>1 DEF IInv, AtMostOnce, RecordMatchesChannel, SentIsComplete
  <1>7. (Claimed /\ Undelivered /\ Stored)'
    BY <1>0, <1>1, <1>2, <1>4
    DEF IInv, Claimed, Undelivered, Stored, Sending, Storing, MessageOf
  <1> QED BY <1>5, <1>6, <1>7 DEF IInv

(* The alias is written before the attempt is reported as sent. *)
LEMMA BindInv ==
  ASSUME IInv, NEW r \in Replicas, bindChannelAliases(r)
  PROVE  IInv'
  <1> DEFINE h == [handler[r] EXCEPT !.pc = "finish"]
  <1>0. /\ handler[r].pc = "bind" /\ handler[r].pc \in Storing
        /\ UNCHANGED <<row, delivered, event, poll>>
    BY DEF bindChannelAliases, At, Storing
  <1>1. /\ handler[r] \in Handler /\ handler[r].recovery # None /\ event # None
    BY <1>0, StoringFacts DEF IInv, TypeOK, Stored
  <1>2. /\ h \in Handler /\ h.pc = "finish" /\ h.recovery = handler[r].recovery
        /\ h.thread = handler[r].thread
    BY <1>1 DEF Handler, Working
  <1>3. handler' = [handler EXCEPT ![r] = h]
    BY DEF bindChannelAliases, Goto
  <1>4. /\ nativeHead' \in {None, "reply", "native"}
        /\ nativeHead # None => nativeHead' = nativeHead
        /\ IdsMatchHistory => nativeHead' # None
    BY NoneIsNotAString DEF bindChannelAliases, IInv, TypeOK
  <1> HIDE DEF h
  <1>5. handler'[r] = h /\ \A q \in Replicas : q # r => handler'[q] = handler[q]
    BY <1>3 DEF IInv, TypeOK
  <1>6. TypeOK'
    BY <1>0, <1>1, <1>2, <1>3, <1>4, <1>5 DEF IInv, TypeOK, Storing
  <1>7. (AtMostOnce /\ RecordMatchesChannel /\ SentIsComplete)'
    BY <1>0, <1>4 DEF IInv, AtMostOnce, RecordMatchesChannel, SentIsComplete
  <1>8. (Claimed /\ Undelivered /\ Stored)'
    BY <1>0, <1>1, <1>2, <1>4, <1>5
    DEF IInv, Claimed, Undelivered, Stored, Sending, Storing, MessageOf
  <1> QED BY <1>6, <1>7, <1>8 DEF IInv

(* The last put keeps the receipt and the payload. *)
LEMMA PutSentInv ==
  ASSUME IInv, NEW r \in Replicas, putSent(r)
  PROVE  IInv' /\ row'.receipt /\ row'.status = "sent"
  <1>0. /\ handler[r].pc = "finish" /\ handler[r].pc \in Storing
        /\ UNCHANGED <<delivered, event, nativeHead, poll>>
    BY DEF putSent, At, Storing
  <1>1. /\ handler[r] \in Handler /\ handler[r].thread = row.thread
        /\ row \in Attempt /\ row # NoAttempt /\ row.receipt
        /\ row.status \in {"accepted", "sent"}
        /\ event # None /\ (IdsMatchHistory => nativeHead # None)
    BY <1>0, StoringFacts DEF IInv, Stored
  <1>2. /\ row' \in Attempt /\ row' # NoAttempt /\ row'.status = "sent"
        /\ row'.receipt /\ row'.recovery = row.recovery /\ row'.thread = row.thread
    BY <1>1 DEF putSent, PutRow, Attempt, NoAttempt, Statuses
  <1>3. /\ handler'[r] = NoHandler /\ handler'[r].pc = "idle"
        /\ \A q \in Replicas : q # r => handler'[q] = handler[q]
        /\ handler' \in [Replicas -> Handler \cup {NoHandler}]
    BY DEF putSent, End, IInv, TypeOK, NoHandler
  <1>4. TypeOK'
    BY <1>0, <1>2, <1>3 DEF IInv, TypeOK, Storing
  <1>5. (AtMostOnce /\ RecordMatchesChannel /\ SentIsComplete)'
    BY <1>0, <1>1, <1>2 DEF IInv, AtMostOnce, RecordMatchesChannel, SentIsComplete
  <1>6. (Claimed /\ Undelivered /\ Stored)'
    BY <1>0, <1>1, <1>2, <1>3
    DEF IInv, Claimed, Undelivered, Stored, Sending, Storing, MessageOf
  <1> QED BY <1>2, <1>4, <1>5, <1>6 DEF IInv

(* The history poll touches only the native head, and never a bound one. *)
LEMMA PollInv ==
  ASSUME IInv, pollInspects \/ pollCommits
  PROVE  IInv' /\ (nativeHead # None => nativeHead' = nativeHead)
  <1>1. /\ UNCHANGED <<row, handler, delivered, event>>
        /\ nativeHead' \in {None, "reply", "native"} /\ poll' \in {"idle", "commit"}
        /\ nativeHead # None => nativeHead' = nativeHead
    BY DEF pollInspects, pollCommits, IInv, TypeOK
  <1>2. TypeOK'
    BY <1>1 DEF IInv, TypeOK
  <1>3. (AtMostOnce /\ RecordMatchesChannel /\ SentIsComplete)'
    BY <1>1 DEF IInv, AtMostOnce, RecordMatchesChannel, SentIsComplete
  <1>4. (Claimed /\ Undelivered /\ Stored)'
    BY <1>1 DEF IInv, Claimed, Undelivered, Stored, MessageOf
  <1> QED BY <1>1, <1>2, <1>3, <1>4 DEF IInv

(* Every step preserves the strengthening. *)
LEMMA NextInv == IInv /\ [Next]_vars => IInv'
  <1> SUFFICES ASSUME IInv, [Next]_vars PROVE IInv'
    OBVIOUS
  <1>1. CASE UNCHANGED vars
    BY <1>1 DEF vars, IInv, TypeOK, AtMostOnce, RecordMatchesChannel, SentIsComplete,
                Claimed, Undelivered, Stored, MessageOf
  <1>2. CASE pollInspects \/ pollCommits
    BY <1>2, PollInv
  <1>3. ASSUME NEW r \in Replicas,
               \/ \E t \in Threads \cup {None}, b \in Bodies : send(r, t, b)
               \/ handlerStep(r)
               \/ egressDelivers(r) \/ egressRejects(r) \/ handlerEnds(r)
        PROVE  IInv'
    <2>1. CASE \E t \in Threads \cup {None}, b \in Bodies : send(r, t, b)
      BY <2>1, SendInv
    <2>2. CASE handlerStep(r)
      BY <2>2, ReplayInv, ClaimInv, PutRejectedInv, PutAcceptedInv, IngestInv,
         BindInv, PutSentInv DEF handlerStep
    <2>3. CASE egressDelivers(r) \/ egressRejects(r)
      BY <2>3, DeliverInv, RejectsInv
    <2>4. CASE handlerEnds(r)
      BY <2>4, EndInv DEF handlerEnds
    <2> QED BY <1>3, <2>1, <2>2, <2>3, <2>4
  <1> QED BY <1>1, <1>2, <1>3 DEF Next

(* The strengthening is an invariant of the specification. *)
THEOREM Strengthened == Spec => []IInv
  BY InitInv, NextInv, PTL DEF Spec

(* The state of the store, the handlers and the poll is well formed. *)
THEOREM TypeCorrect == Spec => []TypeOK
  <1>1. IInv => TypeOK
    BY DEF IInv
  <1> QED BY <1>1, Strengthened, PTL

(* One client_request_id never reaches the channel twice, with any number  *)
(* of replicas, retries, lost answers, rejections and crashes.             *)
THEOREM SentAtMostOnce == Spec => []AtMostOnce
  <1>1. IInv => AtMostOnce
    BY DEF IInv
  <1> QED BY <1>1, Strengthened, PTL

(* The attempt row and the local Event never contradict the channel. *)
THEOREM RecordIsTrue == Spec => []RecordMatchesChannel
  <1>1. IInv => RecordMatchesChannel
    BY DEF IInv
  <1> QED BY <1>1, Strengthened, PTL

(* A reply reported as sent has its Event and its alias. *)
THEOREM SentHasEvent == Spec => []SentIsComplete
  <1>1. IInv => SentIsComplete
    BY DEF IInv
  <1> QED BY <1>1, Strengthened, PTL

(* No write loses a stored receipt or takes an attempt back.  A claim needs *)
(* a row without a receipt and the two first puts need the claim, so only  *)
(* the last put writes such a row.                                         *)
THEOREM ReceiptIsKept == Spec => DeliveryIsRemembered
  <1> DEFINE Kept == row # NoAttempt /\ row.receipt =>
        /\ row'.receipt
        /\ row'.status \in IF row.status = "sent" THEN {"sent"} ELSE {"accepted", "sent"}
  <1>1. ASSUME IInv, [Next]_vars PROVE [Kept]_row
    <2>1. SUFFICES ASSUME row' # row, row # NoAttempt, row.receipt
                   PROVE  row'.receipt /\ row'.status = "sent"
      OBVIOUS
    <2>2. \A q \in Replicas : handler[q].pc \notin Sending
      BY <1>1, <2>1 DEF IInv, Claimed
    <2>3. ASSUME NEW r \in Replicas, handlerStep(r) PROVE putSent(r)
      <3>1. ~putRejected(r) /\ ~putAccepted(r)
        BY <2>2 DEF putRejected, putAccepted, At, Sending
      <3>2. ~claimOutboundAttempt(r)
        BY <2>1 DEF claimOutboundAttempt, Claims, Reclaimable
      <3>3. ~replayPriorAttempt(r) /\ ~ingestReply(r) /\ ~bindChannelAliases(r)
        BY <2>1 DEF replayPriorAttempt, ingestReply, bindChannelAliases
      <3> QED BY <2>3, <3>1, <3>2, <3>3 DEF handlerStep
    <2>4. \E r \in Replicas : handlerStep(r)
      BY <1>1, <2>1 DEF Next, vars, send, egressDelivers, egressRejects, handlerEnds,
                        pollInspects, pollCommits
    <2> QED BY <1>1, <2>3, <2>4, PutSentInv
  <1> QED BY <1>1, Strengthened, PTL DEF Spec, DeliveryIsRemembered

(* Once a reply is sent its native id is bound, and a bound id is never    *)
(* given to another Event.                                                 *)
THEOREM SentHasOneEcho == Spec => EchoIsNotStoredAgain
  <1> DEFINE Kept == row.status = "sent" /\ IdsMatchHistory => nativeHead' = nativeHead
  <1>1. ASSUME IInv, [Next]_vars PROVE [Kept]_vars
    <2>1. SUFFICES ASSUME row.status = "sent", IdsMatchHistory
                   PROVE  nativeHead' = nativeHead
      OBVIOUS
    <2>2. nativeHead # None
      BY <1>1, <2>1 DEF IInv, SentIsComplete
    <2>3. CASE pollInspects \/ pollCommits
      BY <1>1, <2>2, <2>3, PollInv
    <2>4. ASSUME NEW r \in Replicas, bindChannelAliases(r) PROVE nativeHead' = nativeHead
      BY <2>2, <2>4 DEF bindChannelAliases
    <2> QED BY <1>1, <2>3, <2>4
      DEF Next, vars, handlerStep, send, replayPriorAttempt, claimOutboundAttempt,
          putRejected, putAccepted, ingestReply, putSent, egressDelivers,
          egressRejects, handlerEnds
  <1> QED BY <1>1, Strengthened, PTL DEF Spec, EchoIsNotStoredAgain
=============================================================================
