---------------------------- MODULE WorkDelivery ----------------------------
(***************************************************************************)
(* The write-back letter of one work item: the work_deliveries row, the    *)
(* supervisor that enqueues a finished job's result, the flush tick and    *)
(* the human retry that send it, the channel, and the human who dismisses  *)
(* or reruns the job or deletes its recipe.                                *)
(*                                                                         *)
(* putWorkDelivery is an upsert of the whole row with no version check, so *)
(* whoever writes last wins: every writer below reads a snapshot in one    *)
(* step and writes what it made of it in a later one, and each step ends   *)
(* at an await.  Clock times are abstracted to "has passed or not".        *)
(***************************************************************************)
EXTENDS Naturals

CONSTANTS MaxAttempts,    \* WORK_DELIVERY_MAX_ATTEMPTS: 3 in the code
          Payloads,       \* results a job may finish with; their idempotency keys
          Refusals,       \* whether egress.send may resolve with accepted: false
          Scenarios       \* bound: the attempts that may time out, and the human
                          \* requests and restarts, of a behaviour

ASSUME AttemptsAssumption == MaxAttempts \in Nat \ {0}
ASSUME RefusalsAssumption == Refusals \in BOOLEAN
ASSUME ScenariosAssumption == Scenarios \subseteq [timedOut : Nat, disturbances : Nat]

VARIABLES item,       \* the work item's status
          recipe,     \* whether its recipe exists
          row,        \* the work_deliveries row, or NoLetter
          att,        \* the flushOne call of each role
          completer,  \* applyHandle of the finished job
          dismisser,  \* dismissWorkItem
          delivered,  \* payloads the channel has accepted
          claims,     \* claims written for the letter, counted up to the limit
          left        \* the scenario, with the disturbances still to come

vars == <<item, recipe, row, att, completer, dismisser, delivered,
          claims, left>>

(* The tick runs one flush at a time; a human retry runs beside it; a send *)
(* that timed out keeps running in the background.                         *)
Roles == {"tick", "human", "late"}
Awaited == {"tick", "human"}

Letter == [status : {"queued", "write_back", "acked", "dead"},
           back : {"pending", "sent", "skipped", "failed"},
           attempts : Nat, payload : Payloads, receipt : BOOLEAN,
           due : BOOLEAN, leased : BOOLEAN]

NoLetter == [status |-> "none"]

(* Steps of writeBack, the part of flushOne that runs under the timeout.   *)
Sending == {"recipe", "check", "send", "got", "stamp", "ingest"}

(* Steps after the claim was written. *)
Claimed == Sending \cup {"ack", "fail", "timeout", "settle"}

Idle == [pc |-> "idle"]

(* What a flushOne call still holds: the letter it was given and whether   *)
(* its recipe was listed, the claimed letter's payload and receipt, the    *)
(* answer, the outcome, or the row it will write.                          *)
Attempt ==
    [pc : {"listed", "reclaimed"}, row : Letter, recipe : BOOLEAN]
    \cup [pc : {"ready", "stamp", "settle"}, row : Letter]
    \cup [pc : {"recipe", "check", "send"}, payload : Payloads, receipt : BOOLEAN]
    \cup [pc : {"got"}, accepted : BOOLEAN]
    \cup [pc : {"ingest", "fail", "timeout"}]
    \cup [pc : {"ack"}, out : {"sent", "skipped"}]

-----------------------------------------------------------------------------
(* The letter's transitions: packages/domain/src/work-delivery.ts.         *)

Fresh(p) == [status |-> "queued", back |-> "pending", attempts |-> 0,
             payload |-> p, receipt |-> FALSE, due |-> TRUE, leased |-> FALSE]

(* The payload decides the idempotency key: the same result leaves the     *)
(* letter as it was read, another one starts over under the same row.      *)
EnqueueWriteBack(existing, p) ==
    IF existing # NoLetter /\ existing.payload = p THEN existing ELSE Fresh(p)

(* channel_receipt, of which deliveryChannelReceipt sees only an accepted  *)
(* one.                                                                    *)
RecordReceipt(l, accepted) == [l EXCEPT !.receipt = accepted]

Acked(l, out) ==
    [l EXCEPT !.status = "acked", !.back = out, !.due = TRUE, !.leased = FALSE]

Abandoned(l) == Acked(l, "skipped")

ClaimSend(l) ==
    [l EXCEPT !.status = "write_back", !.back = "pending",
              !.attempts = @ + 1, !.due = TRUE, !.leased = TRUE]

(* Mutation: a letter is given up one failure early. *)
WriteBackFailed_early(l) ==
    LET n == IF l.attempts = 0 THEN 1 ELSE l.attempts
        dead == n + 1 >= MaxAttempts
    IN  [l EXCEPT !.status = IF dead THEN "dead" ELSE "write_back",
                  !.back = "failed", !.attempts = n,
                  !.due = dead, !.leased = FALSE]

WriteBackFailed(l) ==
    LET n == IF l.attempts = 0 THEN 1 ELSE l.attempts
        dead == n >= MaxAttempts
    IN  [l EXCEPT !.status = IF dead THEN "dead" ELSE "write_back",
                  !.back = "failed", !.attempts = n,
                  !.due = dead, !.leased = FALSE]

SendTimedOut(l) == [l EXCEPT !.attempts = IF @ = 0 THEN 0 ELSE @ - 1]

RetryNow(l) ==
    [l EXCEPT !.status = "queued", !.back = "pending",
              !.attempts = IF l.status = "dead" THEN 0 ELSE @,
              !.due = TRUE, !.leased = FALSE]

LeaseExpired(l) ==
    l.back # "failed" /\ l.status = "write_back" /\ ~l.leased

ReclaimLease(l) ==
    IF LeaseExpired(l)
    THEN [l EXCEPT !.status = "queued", !.back = "pending", !.leased = FALSE]
    ELSE l

ShouldFlush(l) ==
    LET current == ReclaimLease(l) IN
    /\ current.status \notin {"acked", "dead"}
    /\ IF current.back = "failed" THEN current.due ELSE current.status = "queued"

(* Mutation: a letter whose claim expired is not listed again. *)
ListedAsDue_noReclaim(l) ==
    /\ l # NoLetter
    /\ l.status \notin {"acked", "dead"}
    /\ l.status = "queued" \/ (l.back = "failed" /\ l.due)

(* The rows listDueWorkDeliveries returns. *)
ListedAsDue(l) ==
    /\ l # NoLetter
    /\ l.status \notin {"acked", "dead"}
    /\ \/ l.status = "queued"
       \/ l.back = "failed" /\ l.due
       \/ l.status = "write_back" /\ ~l.leased

-----------------------------------------------------------------------------
Init ==
    /\ item = "running"
    /\ recipe = TRUE
    /\ row = NoLetter
    /\ att = [a \in Roles |-> Idle]
    /\ completer = Idle
    /\ dismisser = Idle
    /\ delivered = {}
    /\ claims = 0
    /\ left \in Scenarios

Disturb ==
    /\ left.disturbances > 0
    /\ left' = [left EXCEPT !.disturbances = @ - 1]

-----------------------------------------------------------------------------
(* applyHandle on a completed job, with the recipe that refreshRuns read   *)
(* before it asked the executor: it reads the letter, checks that the item *)
(* was not dismissed, writes the letter, checks again and closes the item. *)
(* A recipe that wants no write-back closes an open letter instead.        *)

CompleteBegin ==
    /\ completer = Idle
    /\ item = "running"
    /\ recipe
    /\ completer' = [pc |-> "read"]
    /\ UNCHANGED <<item, recipe, row, att, dismisser, delivered, claims, left>>

CompleteRead(p, wants) ==
    /\ completer.pc = "read"
    /\ completer' =
         IF wants THEN [pc |-> "check", row |-> EnqueueWriteBack(row, p)]
         ELSE IF row # NoLetter /\ row.status # "acked"
              THEN [pc |-> "put", row |-> Abandoned(row)]
              ELSE [pc |-> "recheck"]
    /\ UNCHANGED <<item, recipe, row, att, dismisser, delivered, claims, left>>

CompleteCheck ==
    /\ completer.pc = "check"
    /\ completer' = IF item = "skipped" THEN Idle ELSE [completer EXCEPT !.pc = "put"]
    /\ UNCHANGED <<item, recipe, row, att, dismisser, delivered, claims, left>>

CompletePut ==
    /\ completer.pc = "put"
    /\ row' = completer.row
    /\ completer' = [pc |-> "recheck"]
    /\ UNCHANGED <<item, recipe, att, dismisser, delivered, claims, left>>

CompleteRecheck ==
    /\ completer.pc = "recheck"
    /\ completer' = IF item = "skipped" THEN Idle ELSE [pc |-> "close"]
    /\ UNCHANGED <<item, recipe, row, att, dismisser, delivered, claims, left>>

CompleteClose ==
    /\ completer.pc = "close"
    /\ item' = "done"
    /\ completer' = Idle
    /\ UNCHANGED <<recipe, row, att, dismisser, delivered, claims, left>>

-----------------------------------------------------------------------------
(* dismissWorkItem: the item first, its letter last. *)

DismissItem ==
    /\ dismisser = Idle
    /\ Disturb
    /\ item' = "skipped"
    /\ dismisser' = [pc |-> "read"]
    /\ UNCHANGED <<recipe, row, att, completer, delivered, claims>>

(* Mutation: the letter is closed whether or not there is one. *)
DismissRead_noLetter ==
    /\ dismisser.pc = "read"
    /\ dismisser' = IF row.status # "acked"
                    THEN [pc |-> "put", row |-> Abandoned(row)] ELSE Idle
    /\ UNCHANGED <<item, recipe, row, att, completer, delivered, claims, left>>

DismissRead ==
    /\ dismisser.pc = "read"
    /\ dismisser' = IF row # NoLetter /\ row.status # "acked"
                    THEN [pc |-> "put", row |-> Abandoned(row)] ELSE Idle
    /\ UNCHANGED <<item, recipe, row, att, completer, delivered, claims, left>>

DismissPut ==
    /\ dismisser.pc = "put"
    /\ row' = dismisser.row
    /\ dismisser' = Idle
    /\ UNCHANGED <<item, recipe, att, completer, delivered, claims, left>>

-----------------------------------------------------------------------------
(* deleteRecipe: the letters it leaves behind are not looked at. *)

DeleteRecipe ==
    /\ recipe
    /\ Disturb
    /\ recipe' = FALSE
    /\ UNCHANGED <<item, row, att, completer, dismisser, delivered, claims>>

-----------------------------------------------------------------------------
(* flushDeliveries: the tick lists the due letters and the recipes,        *)
(* returns an expired claim to the queue, closes the letter of a dismissed *)
(* item, passes over one whose recipe is gone and hands the rest to        *)
(* flushOne.                                                               *)

TickList ==
    /\ att["tick"] = Idle
    /\ ListedAsDue(row)
    /\ att' = [att EXCEPT !["tick"] = [pc |-> "listed", row |-> row, recipe |-> recipe]]
    /\ UNCHANGED <<item, recipe, row, completer, dismisser, delivered, claims, left>>

TickReclaim ==
    LET listed == att["tick"].row IN
    /\ att["tick"].pc = "listed"
    /\ row' = IF LeaseExpired(listed) THEN ReclaimLease(listed) ELSE row
    /\ att' = [att EXCEPT !["tick"] =
                 [pc |-> "reclaimed", row |-> ReclaimLease(listed), recipe |-> @.recipe]]
    /\ UNCHANGED <<item, recipe, completer, dismisser, delivered, claims, left>>

(* Mutation: the tick does not look whether the item was dismissed. *)
TickCheckItem_skipped ==
    LET listed == att["tick"].row IN
    /\ att["tick"].pc = "reclaimed"
    /\ row' = row
    /\ att' = [att EXCEPT !["tick"] =
                 IF item = "skipped" \/ ~att["tick"].recipe \/ ~ShouldFlush(listed)
                 THEN Idle ELSE [pc |-> "ready", row |-> listed]]
    /\ UNCHANGED <<item, recipe, completer, dismisser, delivered, claims, left>>

TickCheckItem ==
    LET listed == att["tick"].row IN
    /\ att["tick"].pc = "reclaimed"
    /\ row' = IF item = "skipped" THEN Abandoned(listed) ELSE row
    /\ att' = [att EXCEPT !["tick"] =
                 IF item = "skipped" \/ ~att["tick"].recipe \/ ~ShouldFlush(listed)
                 THEN Idle ELSE [pc |-> "ready", row |-> listed]]
    /\ UNCHANGED <<item, recipe, completer, dismisser, delivered, claims, left>>

(* runWorkItem on a finished item whose letter failed or is dead sends the *)
(* letter again, forced.                                                   *)
HumanRetry ==
    /\ att["human"] = Idle
    /\ recipe
    /\ Disturb
    /\ item = "done"
    /\ row # NoLetter
    /\ row.back = "failed" \/ row.status = "dead"
    /\ att' = [att EXCEPT !["human"] =
                 [pc |-> "ready", row |-> RetryNow(ReclaimLease(row))]]
    /\ UNCHANGED <<item, recipe, row, completer, dismisser, delivered, claims>>

(* runWorkItem on any other closed item starts the job again, and then     *)
(* flushes a letter that is due.                                           *)
HumanRerun ==
    /\ att["human"] = Idle
    /\ recipe
    /\ Disturb
    /\ item \in {"done", "skipped"}
    /\ ~(item = "done" /\ row # NoLetter /\ (row.back = "failed" \/ row.status = "dead"))
    /\ item' = "running"
    /\ att' = IF row # NoLetter /\ ShouldFlush(row)
              THEN [att EXCEPT !["human"] =
                      [pc |-> "ready", row |-> ReclaimLease(row)]]
              ELSE att
    /\ UNCHANGED <<recipe, row, completer, dismisser, delivered, claims>>

-----------------------------------------------------------------------------
(* flushOne. *)

At(a, attempt) == att' = [att EXCEPT ![a] = attempt]

Claim(a) ==
    LET claimed == ClaimSend(att[a].row) IN
    /\ att[a].pc = "ready"
    /\ row' = claimed
    /\ At(a, [pc |-> "recipe", payload |-> claimed.payload, receipt |-> claimed.receipt])
    /\ claims' = IF claims = MaxAttempts THEN claims ELSE claims + 1
    /\ UNCHANGED <<item, recipe, completer, dismisser, delivered, left>>

(* writeBack skips a recipe that was deleted or no longer writes back, and *)
(* then a dismissed item.                                                  *)
CheckRecipe(a) ==
    /\ att[a].pc = "recipe"
    /\ \/ At(a, [pc |-> "ack", out |-> "skipped"])
       \/ recipe /\ At(a, [att[a] EXCEPT !.pc = "check"])
    /\ UNCHANGED <<item, recipe, row, completer, dismisser, delivered, claims, left>>

CheckItem(a) ==
    /\ att[a].pc = "check"
    /\ At(a, IF item = "skipped" THEN [pc |-> "ack", out |-> "skipped"]
             ELSE [att[a] EXCEPT !.pc = "send"])
    /\ UNCHANGED <<item, recipe, row, completer, dismisser, delivered, claims, left>>

Answered(a, accepted) == At(a, [pc |-> "got", accepted |-> accepted])

(* The send fails before the channel has anything: no driver, no prompt    *)
(* that matches, or one that throws or refuses the answer.  A recorded     *)
(* receipt stands in for the send.  Otherwise the channel takes the text   *)
(* and says so, or takes it and the answer is lost.  An answer of          *)
(* egress.send that says accepted: false is not looked at, and goes the    *)
(* way of any other.                                                       *)
Send(a) ==
    /\ att[a].pc = "send"
    /\ \/ /\ At(a, [pc |-> "fail"])
          /\ UNCHANGED delivered
       \/ /\ att[a].receipt \/ Refusals
          /\ Answered(a, att[a].receipt)
          /\ UNCHANGED delivered
       \/ /\ ~att[a].receipt
          /\ Answered(a, TRUE) \/ At(a, [pc |-> "fail"])
          /\ delivered' = delivered \cup {att[a].payload}
    /\ UNCHANGED <<item, recipe, row, completer, dismisser, claims, left>>

(* onReceipt marks the letter as it now stands. *)
ReceiptRead(a) ==
    /\ att[a].pc = "got"
    /\ At(a, [pc |-> "stamp", row |-> RecordReceipt(row, att[a].accepted)])
    /\ UNCHANGED <<item, recipe, row, completer, dismisser, delivered, claims, left>>

ReceiptPut(a) ==
    /\ att[a].pc = "stamp"
    /\ row' = att[a].row
    /\ At(a, [pc |-> "ingest"])
    /\ UNCHANGED <<item, recipe, completer, dismisser, delivered, claims, left>>

(* The message sent through a driver is ingested as an Event, which may    *)
(* throw; the answer of a prompt is not, and is done.                      *)
Ingest(a) ==
    /\ att[a].pc = "ingest"
    /\ At(a, [pc |-> "ack", out |-> "sent"]) \/ At(a, [pc |-> "fail"])
    /\ UNCHANGED <<item, recipe, row, completer, dismisser, delivered, claims, left>>

(* Mutation: a send that is cut off counts as done. *)
Outcome_timeoutIsSent(a) ==
    /\ att[a].pc \in {"ack", "fail", "timeout"}
    /\ IF a = "late" THEN At(a, Idle)
       ELSE At(a, [pc |-> "settle",
                   row |-> CASE att[a].pc = "ack" -> Acked(row, att[a].out)
                             [] att[a].pc = "fail" -> WriteBackFailed(row)
                             [] att[a].pc = "timeout" -> Acked(row, "sent")])
    /\ UNCHANGED <<item, recipe, row, completer, dismisser, delivered, claims, left>>

(* The outcome is put on the letter as it now stands.  The outcome of a    *)
(* send nobody awaits any more is dropped.                                 *)
Outcome(a) ==
    /\ att[a].pc \in {"ack", "fail", "timeout"}
    /\ IF a = "late" THEN At(a, Idle)
       ELSE At(a, [pc |-> "settle",
                   row |-> CASE att[a].pc = "ack" -> Acked(row, att[a].out)
                             [] att[a].pc = "fail" -> WriteBackFailed(row)
                             [] att[a].pc = "timeout" -> SendTimedOut(row)])
    /\ UNCHANGED <<item, recipe, row, completer, dismisser, delivered, claims, left>>

Settle(a) ==
    /\ att[a].pc = "settle"
    /\ row' = att[a].row
    /\ At(a, Idle)
    /\ UNCHANGED <<item, recipe, completer, dismisser, delivered, claims, left>>

(* withTimeout rejects after 45s; the send itself goes on. *)
Timeout(a) ==
    /\ a \in Awaited
    /\ att[a].pc \in Sending
    /\ att["late"] = Idle
    /\ row.attempts <= left.timedOut
    /\ att' = [att EXCEPT !["late"] = att[a], ![a] = [pc |-> "timeout"]]
    /\ UNCHANGED <<item, recipe, row, completer, dismisser, delivered, claims, left>>

-----------------------------------------------------------------------------
(* The clock.  A claim lives 60s and its send is cut off after 45s, so it  *)
(* does not expire while flushOne still awaits the send.                   *)

RetryFallsDue ==
    /\ row # NoLetter /\ ~row.due
    /\ row' = [row EXCEPT !.due = TRUE]
    /\ UNCHANGED <<item, recipe, att, completer, dismisser, delivered, claims, left>>

LeaseRunsOut ==
    /\ row # NoLetter /\ row.leased
    /\ \A a \in Awaited : att[a].pc \notin Claimed
    /\ row' = [row EXCEPT !.leased = FALSE]
    /\ UNCHANGED <<item, recipe, att, completer, dismisser, delivered, claims, left>>

(* The process stops and starts again: every call is cut off where it is.  *)
Crash ==
    /\ Disturb
    /\ att' = [a \in Roles |-> Idle]
    /\ completer' = Idle /\ dismisser' = Idle
    /\ UNCHANGED <<item, recipe, row, delivered, claims>>

-----------------------------------------------------------------------------
Completer ==
    \/ CompleteBegin \/ \E p \in Payloads, wants \in BOOLEAN : CompleteRead(p, wants)
    \/ CompleteCheck \/ CompletePut \/ CompleteRecheck \/ CompleteClose

Dismisser == DismissRead \/ DismissPut

Tick == TickList \/ TickReclaim \/ TickCheckItem

FlushOne(a) ==
    \/ Claim(a) \/ CheckRecipe(a) \/ CheckItem(a) \/ Send(a) \/ ReceiptRead(a) \/ ReceiptPut(a)
    \/ Ingest(a) \/ Outcome(a) \/ Settle(a)

Next ==
    \/ Completer \/ DismissItem \/ Dismisser \/ Tick
    \/ HumanRetry \/ HumanRerun \/ DeleteRecipe
    \/ \E a \in Roles : FlushOne(a) \/ Timeout(a)
    \/ RetryFallsDue \/ LeaseRunsOut \/ Crash

Spec == Init /\ [][Next]_vars

(* The tick timer, the event loop and the clock go on; humans need not.    *)
Fairness ==
    /\ WF_vars(Tick) /\ WF_vars(Completer) /\ WF_vars(Dismisser)
    /\ \A a \in Roles : WF_vars(FlushOne(a))
    /\ WF_vars(RetryFallsDue) /\ WF_vars(LeaseRunsOut)

FairSpec == Spec /\ Fairness

-----------------------------------------------------------------------------
(* Type correctness. *)
TypeOK ==
    /\ item \in {"running", "done", "skipped"}
    /\ recipe \in BOOLEAN
    /\ row \in Letter \cup {NoLetter}
    /\ att \in [Roles -> Attempt \cup {Idle}]
    /\ completer \in [pc : {"idle", "read", "recheck", "close"}]
                      \cup [pc : {"check", "put"}, row : Letter]
    /\ dismisser \in {Idle, [pc |-> "read"]} \cup [pc : {"put"}, row : Letter]
    /\ delivered \subseteq Payloads
    /\ claims \in 0..MaxAttempts
    /\ left \in [timedOut : Nat, disturbances : Nat]

(* Where the channel refuses by failing, as every driver of the repository *)
(* does, a letter the ledger shows as sent carries a payload the channel   *)
(* really accepted, whatever retries, timeouts, late answers and restarts  *)
(* came between the send and the acknowledgement.                          *)
SentIsTruthful ==
    row.status = "acked" /\ row.back = "sent" => row.payload \in delivered

(* A dead letter was claimed and tried up to the limit, although every     *)
(* writer puts back attempts counts that may be stale.                     *)
DeadIsEarned == row.status = "dead" => claims = MaxAttempts

SendsTimeOut == \E a \in Roles : Timeout(a)

(* An enqueued letter is eventually acknowledged or dead: no claim, retry  *)
(* or late call leaves it waiting for good.  Two things do, and are        *)
(* excepted: sends that time out for ever, each of which gives its attempt *)
(* back (deliverySendTimedOut), and the deletion of the letter's recipe,   *)
(* after which the tick passes over it.                                    *)
LetterIsSettled ==
    <>[][~SendsTimeOut]_vars =>
        (row.status \in {"queued", "write_back"} ~> row.status \in {"acked", "dead"} \/ ~recipe)

(* Once a job stays dismissed, its letter ends closed: every attempt that  *)
(* was on its way when the human dismissed the job is over for good.       *)
DismissClosesTheLetter ==
    (<>[](item = "skipped")) => <>[](row.status \in {"none", "acked", "dead"})
=============================================================================
