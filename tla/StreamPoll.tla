----------------------------- MODULE StreamPoll -----------------------------
(***************************************************************************)
(* Polling one stream.  Background work, an opened chat, a scroll and a    *)
(* follow-up after a send all poll the same stream from the API process.   *)
(* Each queues on the process's stream lock (exclusiveStream), reads its   *)
(* cursor from connector_sync_state, and for every page takes the lease of *)
(* the connector_cursors row, asks the source, and commits the records     *)
(* with the next cursor (ConnectorRunner.poll).  Afterwards, off the lock, *)
(* the outcome is remembered by reading and rewriting connector_sync_state *)
(* (SyncEngine.rememberResult).  Every await is a step of its own: store   *)
(* writes go to a writer thread, so other polls run in between.            *)
(*                                                                         *)
(* The source is a conversation whose messages are numbered 1..tip, one    *)
(* message to a page.                                                      *)
(***************************************************************************)
EXTENDS SyncPhase, Naturals

CONSTANTS
    Pollers,    \* polls that may be under way at once
    Gone,       \* a lease owner nobody goes by any more: owners are random
    Jobs,       \* the kinds of poll this run starts
    MaxPages,   \* pages of the pollStream of a follow-up; the others ask for one
    FirstTip,   \* messages there at the start
    MaxTip,     \* bound: messages there at the end
    Policy,     \* the installation's history_policy
    Idles,      \* whether the stream declares an idle_ms
    Faults      \* what may go wrong

Positions == 1..MaxTip

ASSUME StreamPollConstants ==
    /\ None \notin Pollers /\ Gone \notin Pollers \cup {None}
    /\ Jobs \subseteq {"live", "history", "interactive", "focus", "scroll", "follow"}
    /\ MaxPages \in Nat \ {0}
    /\ MaxTip \in Nat /\ FirstTip \in 1..MaxTip
    /\ Cursor = [tail : Positions, head : Positions]
    /\ Policy \in Policies /\ Idles \in BOOLEAN
    /\ Faults \subseteq {"throttle", "throw", "store", "conflict", "crash", "reset", "disable"}

VARIABLES
    tip,        \* messages in the source
    committed,  \* messages stored as Events or quarantined
    enabled,    \* the installation's status
    lease,      \* the stream's connector_cursors row
    sync,       \* the stream's connector_sync_state row
    lock,       \* streamLocks: the last poll queued
    poller

vars == <<tip, committed, enabled, lease, sync, lock, poller>>

\* What distinguishes the callers of pollStream.
DueWork == {"live", "history", "interactive"}
SkipIfBusy == {"live", "history"}
Ahead == {"focus", "scroll"}
Preempts == {"interactive", "focus", "scroll"}
PagesOf(job) == IF job = "follow" THEN MaxPages ELSE 1
cursorKindFromPoll(job) ==
    IF job = "scroll" THEN "scroll" ELSE IF job = "history" THEN "history" ELSE "live"

Leased == {"poll", "ingest", "settle"}
PollerStep == {"free", "resolve", "queue", "lease", "get", "put", "touch"} \cup Leased
Page == [recs : SUBSET Positions, next : Cursor \cup {None}, more : BOOLEAN]
NoPage == [recs |-> {}, next |-> None, more |-> FALSE]
Poller == [pc : PollerStep, job : Jobs \cup {None}, after : Pollers \cup {None},
           seedable : BOOLEAN,                  \* priorState allows seeding history
           cursor : Cursor \cup {None},         \* what the next page is asked for
           page : 0..MaxPages, seen : SUBSET Cursor,
           got : Page, failed : BOOLEAN,        \* the page in hand
           out : Outcome, cur : SyncRow]        \* for rememberResult

Idle == [pc |-> "free", job |-> None, after |-> None, seedable |-> FALSE,
         cursor |-> None, page |-> 0, seen |-> {}, got |-> NoPage, failed |-> FALSE,
         out |-> NoOutcome, cur |-> NoRow]

TypeOK ==
    /\ tip \in Positions
    /\ committed \subseteq Positions
    /\ enabled \in BOOLEAN
    /\ lease \in [cursor : Cursor \cup {None}, owner : Pollers \cup {None, Gone}, fresh : BOOLEAN]
    /\ sync \in SyncRow
    /\ lock \in Pollers \cup {None}
    /\ poller \in [Pollers -> Poller]

Init ==
    /\ tip = FirstTip
    /\ committed = {}
    /\ enabled = TRUE
    /\ lease = [cursor |-> None, owner |-> None, fresh |-> FALSE]
    /\ sync = NoRow
    /\ lock = None
    /\ poller = [p \in Pollers |-> Idle]

kindOf(p) == cursorKindFromPoll(poller[p].job)

-----------------------------------------------------------------------------
(* The source: the first page of an unread conversation is its newest       *)
(* message; from then on a cursor holds the newest message handed out       *)
(* (tail) and the oldest (head), live pages move tail up and history pages  *)
(* move head down.  A newest-page refresh and a scroll move neither.        *)

HintOf(cursor) == [seeded |-> TRUE, pending |-> cursor.head > 1]

SourcePages(job, c) ==
    CASE c = None ->
           {[recs |-> {tip}, next |-> [tail |-> tip, head |-> tip], more |-> FALSE]}
      [] c # None /\ job = "focus" ->
           {[recs |-> {tip}, next |-> c, more |-> FALSE]}
      [] c # None /\ job = "scroll" ->
           {[recs |-> {i}, next |-> c, more |-> i > 1] : i \in 1..tip}
      [] c # None /\ job = "history" ->
           {IF c.head > 1
            THEN [recs |-> {c.head - 1}, next |-> [tail |-> c.tail, head |-> c.head - 1],
                  more |-> c.head > 2]
            ELSE [recs |-> {}, next |-> c, more |-> FALSE]}
      [] c # None /\ job \in {"live", "interactive", "follow"} ->
           {IF c.tail < tip
            THEN [recs |-> {c.tail + 1}, next |-> [tail |-> c.tail + 1, head |-> c.head],
                  more |-> c.tail + 1 < tip]
            ELSE [recs |-> {}, next |-> c, more |-> FALSE]}

-----------------------------------------------------------------------------
(* Starting a poll, and the stream lock *)

\* Where a caller is before it calls exclusiveStream.
Arriving(job) == IF job = "history" THEN "resolve" ELSE "free"

\* Mutation: the caller does not wait for the lock's holder.
start_noChain(p, job) ==
    /\ poller[p].pc = Arriving(job)
    /\ poller' = [poller EXCEPT ![p] = [Idle EXCEPT !.pc = "queue", !.job = job]]
    /\ lock' = p
    /\ UNCHANGED <<tip, committed, enabled, lease, sync>>

\* The caller reads the prior state and queues behind the lock's holder, or
\* jumps the queue; either way the lock is now its own.
start(p, job) ==
    /\ poller[p].pc = Arriving(job)
    /\ job \in SkipIfBusy => lock = None
    /\ poller' = [poller EXCEPT ![p] =
          [Idle EXCEPT !.pc = "queue", !.job = job,
                       !.after = IF job \in Ahead THEN None ELSE lock,
                       !.seedable = shouldSeedHistoryCursor(Policy, sync.phase, sync.history, TRUE)]]
    /\ lock' = p
    /\ UNCHANGED <<tip, committed, enabled, lease, sync>>

\* A history row is looked at first: one whose duty is over rewrites the
\* state it has read, the others go on to resolve their stream.
checkHistoryDuty(p) ==
    /\ "history" \in Jobs
    /\ poller[p].pc = "free"
    /\ \/ /\ messageDuty(sync.phase, Policy) = "history"
          /\ poller' = [poller EXCEPT ![p] = [Idle EXCEPT !.pc = "resolve", !.job = "history"]]
       \/ /\ messageDuty(sync.phase, Policy) # "history"
          /\ sync.phase # NoPhase
          /\ poller' = [poller EXCEPT ![p] = [Idle EXCEPT !.pc = "touch", !.cur = sync]]
    /\ UNCHANGED <<tip, committed, enabled, lease, sync, lock>>

\* The stream does not resolve, or is busy: the row is left for a retry.
historyDeferred(p) ==
    /\ poller[p].pc = "resolve"
    /\ poller' = [poller EXCEPT ![p] = Idle]
    /\ UNCHANGED <<tip, committed, enabled, lease, sync, lock>>

\* Whether a poll that ended with out is remembered.
Remembers(job, out) == job \in DueWork \/ (job = "focus" /\ out.next # None)

\* Mutation: the next in line is not woken.
EndPages_noWake(p, out) ==
    /\ poller' = [poller EXCEPT ![p] =
          IF Remembers(poller[p].job, out)
          THEN [Idle EXCEPT !.pc = "get", !.job = poller[p].job,
                            !.seedable = poller[p].seedable, !.out = out]
          ELSE Idle]
    /\ lock' = IF lock = p THEN None ELSE lock

\* The poll leaves the lock; the next in line may go.
EndPages(p, out) ==
    /\ poller' = [q \in Pollers |->
          IF q = p
          THEN IF Remembers(poller[p].job, out)
               THEN [Idle EXCEPT !.pc = "get", !.job = poller[p].job,
                                 !.seedable = poller[p].seedable, !.out = out]
               ELSE Idle
          ELSE IF poller[q].after = p THEN [poller[q] EXCEPT !.after = None]
          ELSE poller[q]]
    /\ lock' = IF lock = p THEN None ELSE lock

\* An exception drops the pages polled before it.
Throw(p) == EndPages(p, Failed)

\* The user has moved on to another chat.
abandon(p) ==
    /\ poller[p].job \in Ahead
    /\ \/ poller[p].pc = "queue" /\ EndPages(p, NoOutcome)
       \/ /\ poller[p].pc = "get"
          /\ poller' = [poller EXCEPT ![p] = Idle]
          /\ UNCHANGED lock
    /\ UNCHANGED <<tip, committed, enabled, lease, sync>>

pollStream_select(p) ==
    /\ poller[p].pc = "queue"
    /\ poller[p].after = None
    /\ poller' = [poller EXCEPT ![p].pc = "lease",
                                ![p].cursor = pollCursorValue(kindOf(p), sync)]
    /\ UNCHANGED <<tip, committed, enabled, lease, sync, lock>>

-----------------------------------------------------------------------------
(* ConnectorRunner.poll: one page under the lease *)

LeaseGranted(p) ==
    /\ enabled
    /\ poller[p].job \in Preempts \/ lease.owner = None \/ ~lease.fresh

\* Only the first page is asked for the cursor of the sync state.
acquireLease(p) ==
    /\ poller[p].pc = "lease"
    /\ \/ /\ LeaseGranted(p)
          /\ lease' = [lease EXCEPT !.owner = p, !.fresh = TRUE]
          /\ poller' = [poller EXCEPT ![p].pc = "poll",
                ![p].cursor = IF poller[p].page = 0 /\ @ # None THEN @ ELSE lease.cursor]
          /\ UNCHANGED lock
       \/ /\ ~LeaseGranted(p)
          /\ EndPages(p, poller[p].out)
          /\ UNCHANGED lease
    /\ UNCHANGED <<tip, committed, enabled, sync>>

releaseLease(p) ==
    lease' = IF lease.owner = p THEN [lease EXCEPT !.owner = None, !.fresh = FALSE] ELSE lease

throttled(p) ==
    /\ "throttle" \in Faults
    /\ poller[p].pc = "poll"
    /\ releaseLease(p)
    /\ EndPages(p, poller[p].out)
    /\ UNCHANGED <<tip, committed, enabled, sync>>

\* The source fails or times out, or a page with records cannot be stored:
\* the lease is given back (settled as a failed attempt in the second case).
pollThrows(p) ==
    /\ "throw" \in Faults
    /\ \/ poller[p].pc = "poll"
       \/ poller[p].pc \in {"ingest", "settle"} /\ poller[p].got.recs # {}
    /\ releaseLease(p)
    /\ Throw(p)
    /\ UNCHANGED <<tip, committed, enabled, sync>>

\* The store fails where nobody catches it: in acquireLease, in the commit
\* of an empty page, or in the release that follows another failure.  The
\* poll is over, and the lease keeps its owner until it runs out.
storeFails(p) ==
    /\ "store" \in Faults
    /\ poller[p].pc \in {"lease"} \cup Leased
    /\ lease' = [lease EXCEPT !.owner = IF @ = p THEN Gone ELSE @]
    /\ Throw(p)
    /\ UNCHANGED <<tip, committed, enabled, sync>>

pollSource(p) ==
    /\ poller[p].pc = "poll"
    /\ \E page \in SourcePages(poller[p].job, poller[p].cursor) :
          poller' = [poller EXCEPT ![p].pc = "ingest", ![p].got = page]
    /\ UNCHANGED <<tip, committed, enabled, lease, sync, lock>>

\* The page's part in the outcome, and whether the same call asks for more.
OutcomeAfter(p) ==
    LET got == poller[p].got
    IN  [next |-> got.next, hint |-> HintOf(got.next),
         more |-> poller[p].out.more \/ got.more, error |-> FALSE]

AsksForMore(p) ==
    LET got == poller[p].got
    IN  /\ poller[p].page + 1 < PagesOf(poller[p].job)
        /\ sameLaneContinues(kindOf(p), got.more, HintOf(got.next).pending)
        /\ got.next \notin poller[p].seen

PageDone(p, completed) ==
    IF completed /\ AsksForMore(p)
    THEN /\ poller' = [poller EXCEPT ![p] =
               [poller[p] EXCEPT !.pc = "lease", !.page = @ + 1,
                                 !.seen = @ \cup {poller[p].got.next},
                                 !.got = NoPage, !.failed = FALSE, !.out = OutcomeAfter(p)]]
         /\ UNCHANGED lock
    ELSE EndPages(p, OutcomeAfter(p))

\* Mutation: the lease stays with the settled attempt's owner.
settleAttempt_keepsLease(p, retryable) ==
    /\ lease.owner = p
    /\ lease' = [lease EXCEPT !.cursor = IF WritesLease(kindOf(p)) /\ ~retryable
                                         THEN poller[p].got.next ELSE @]

\* settleAttempt: only the owner of the lease, expired or not.
settleAttempt(p, retryable) ==
    /\ lease.owner = p
    /\ lease' = [cursor |-> IF WritesLease(kindOf(p)) /\ ~retryable
                            THEN poller[p].got.next ELSE lease.cursor,
                 owner |-> None, fresh |-> FALSE]

\* Mutation: a page that lost its lease is reported as completed.
commitSyncPage_lostIsDone(p) ==
    /\ poller[p].pc = "ingest"
    /\ \/ /\ settleAttempt(p, FALSE)
          /\ committed' = committed \cup poller[p].got.recs
       \/ /\ lease.owner # p
          /\ UNCHANGED <<committed, lease>>
    /\ PageDone(p, TRUE)
    /\ UNCHANGED <<tip, enabled, sync>>

\* The records and the cursor in one transaction.  A lost lease rolls both
\* back: no result for a page with records, an exception for an empty one.
commitSyncPage(p) ==
    /\ poller[p].pc = "ingest"
    /\ \/ /\ settleAttempt(p, FALSE)
          /\ committed' = committed \cup poller[p].got.recs
          /\ PageDone(p, TRUE)
       \/ /\ lease.owner # p
          /\ IF poller[p].got.recs = {} THEN Throw(p) ELSE EndPages(p, poller[p].out)
          /\ UNCHANGED <<committed, lease>>
    /\ UNCHANGED <<tip, enabled, sync>>

\* A page with revisions or tombstones, or one that met a conflict, is
\* stored record by record and settled afterwards.
ingestRecords(p) ==
    /\ poller[p].pc = "ingest"
    /\ poller[p].got.recs # {}
    /\ \E failed \in BOOLEAN :
          /\ failed => "conflict" \in Faults
          /\ committed' = IF failed THEN committed ELSE committed \cup poller[p].got.recs
          /\ poller' = [poller EXCEPT ![p].pc = "settle", ![p].failed = failed]
    /\ UNCHANGED <<tip, enabled, lease, sync, lock>>

settlePage(p) ==
    /\ poller[p].pc = "settle"
    /\ \/ /\ settleAttempt(p, poller[p].failed)
          /\ PageDone(p, ~poller[p].failed)
       \/ /\ lease.owner # p
          /\ EndPages(p, poller[p].out)
          /\ UNCHANGED lease
    /\ UNCHANGED <<tip, committed, enabled, sync>>

-----------------------------------------------------------------------------
(* SyncEngine.rememberResult *)

rememberGet(p) ==
    /\ poller[p].pc = "get"
    /\ poller' = [poller EXCEPT ![p].pc = "put", ![p].cur = sync]
    /\ UNCHANGED <<tip, committed, enabled, lease, sync, lock>>

Remembered(p) ==
    advanceSyncState(poller[p].cur, kindOf(p), poller[p].out,
                     poller[p].seedable /\ Pending(poller[p].out), Idles, Policy)

rememberPut(p) ==
    /\ poller[p].pc \in {"put", "touch"}
    /\ sync' = releaseHistoryPhase(
                  IF poller[p].pc = "put" THEN Remembered(p) ELSE poller[p].cur, Policy)
    /\ poller' = [poller EXCEPT ![p] = Idle]
    /\ UNCHANGED <<tip, committed, enabled, lease, lock>>

pollerStep(p) ==
    \/ pollStream_select(p) \/ acquireLease(p) \/ pollSource(p)
    \/ commitSyncPage(p) \/ ingestRecords(p) \/ settlePage(p)
    \/ rememberGet(p) \/ rememberPut(p)

-----------------------------------------------------------------------------
(* The world around *)

messageArrives ==
    /\ tip < MaxTip
    /\ tip' = tip + 1
    /\ UNCHANGED <<committed, enabled, lease, sync, lock, poller>>

leaseExpires ==
    /\ lease.fresh
    /\ lease' = [lease EXCEPT !.fresh = FALSE]
    /\ UNCHANGED <<tip, committed, enabled, sync, lock, poller>>

\* The command line's reset-cursor, from a process of its own.
resetCursor ==
    /\ "reset" \in Faults
    /\ ~lease.fresh
    /\ lease' = [cursor |-> None, owner |-> None, fresh |-> FALSE]
    /\ UNCHANGED <<tip, committed, enabled, sync, lock, poller>>

setInstallationStatus ==
    /\ "disable" \in Faults
    /\ enabled' = ~enabled
    /\ UNCHANGED <<tip, committed, lease, sync, lock, poller>>

\* The process dies and restarts; its random lease owners are nobody's now.
crash ==
    /\ "crash" \in Faults
    /\ \E p \in Pollers : poller[p].pc # "free"
    /\ poller' = [p \in Pollers |-> Idle]
    /\ lock' = None
    /\ lease' = [lease EXCEPT !.owner = IF @ = None THEN None ELSE Gone]
    /\ UNCHANGED <<tip, committed, enabled, sync>>

Next ==
    \/ \E p \in Pollers, job \in Jobs : start(p, job)
    \/ \E p \in Pollers :
          \/ pollerStep(p) \/ checkHistoryDuty(p) \/ historyDeferred(p) \/ abandon(p)
          \/ throttled(p) \/ pollThrows(p) \/ storeFails(p)
    \/ messageArrives \/ leaseExpires \/ resetCursor \/ setInstallationStatus \/ crash

Spec == Init /\ [][Next]_vars

OwesHistory == messageDuty(sync.phase, Policy) = "history"

\* The lane that putSyncState leaves a pending work row for.
owedStart(p, job) == start(p, job) /\ messageDuty(sync.phase, Policy) = job

\* putSyncState cancels the pending live row when it enqueues the history
\* row.  A live row that was claimed at that moment comes back once more, but
\* due only after its idle time, when a page of history has cancelled it.
StaleLiveRow ==
    \E p \in Pollers : start(p, "live") /\ messageDuty(sync.phase, Policy) # "live"

\* A poll that is under way goes on: the source answers, fails or times out.
PollsGoOn == \A p \in Pollers : WF_vars(pollerStep(p))

\* The background planes come back to the stream for the lane it owes
\* whenever they find it free, and stale live rows die out.
PlanesComeBack ==
    /\ \A job \in SkipIfBusy \cap Jobs : SF_vars(\E p \in Pollers : owedStart(p, job))
    /\ \A p \in Pollers : SF_vars(OwesHistory /\ checkHistoryDuty(p))
    /\ <>[][~StaleLiveRow]_vars

PollSpec == Spec /\ PollsGoOn
FairSpec == PollSpec /\ PlanesComeBack /\ WF_vars(leaseExpires)

-----------------------------------------------------------------------------
(* Properties *)

\* A cursor says that everything between its head and its tail is stored.
Covered(c) == c # None => c.head..c.tail \subseteq committed

\* No stored cursor runs ahead of the records: however polls preempt each
\* other, lose their lease, throw or die, the lease's cursor and both cursors
\* of the sync state cover only messages that were stored.
CursorsAreCovered == Covered(lease.cursor) /\ Covered(sync.live) /\ Covered(sync.history)

\* Every way out of ConnectorRunner.poll gives the lease back, be the page
\* stored, refused, throttled, given up or the last of several; only a store
\* that fails, or the end of the process, leaves the row leased to nobody.
LeaseIsGivenBack ==
    [][\A p \in Pollers :
          lease.owner = p /\ poller'[p].pc \notin Leased =>
              lease'.owner = None \/ storeFails(p) \/ crash]_vars

\* Without a caller that jumps the queue, the stream lock admits one poll at
\* a time.
OnePollAtATime ==
    \A p, q \in Pollers :
        {poller[p].pc, poller[q].pc} \subseteq Leased \cup {"lease"} => p = q

\* Under the backfill policy a stream that has been read counts as caught up
\* only after its history was walked to the first message.
BackfillIsOwed ==
    Policy = "backfill" /\ sync.phase \in CaughtUp /\ sync.live # None => 1 \in committed

\* Every message of the source is stored in the end.
EveryMessageIsStored == \A i \in Positions : i <= tip ~> i \in committed

\* Whoever queues on the stream lock gets its turn.
QueueIsServed == \A p \in Pollers : poller[p].pc = "queue" ~> poller[p].pc # "queue"

=============================================================================
