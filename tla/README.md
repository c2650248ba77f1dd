# Regenic in TLA+

Regenic is a personal message kernel: connectors poll channels, the kernel
ingests what they bring as Events into an authority store, arranges it into an
inbox, and sends replies back.  It runs as one API process (or several
replicas) beside a desktop application, over SQLite or PostgreSQL.  These
modules model the parts whose correctness depends on the order in which async
functions, store transactions, channels and crashes meet.

Paths below are relative to `src/`.

## Inventory

| Component | State it keeps | Operations | What is hard about it | What makes it correct |
|---|---|---|---|---|
| Sync work store, `packages/authority-store/src/sqlite/sync.ts` | `connector_sync_work` rows with leases, `sync_runs` | create, command, delete, enqueue, claim, settle | leases that expire under their holder; settles that come late | a row is counted once and only by its holder |
| Durable sync runs, `apps/api/src/personal-connector-sync-run.ts` | none of its own; async executors | start, pause, resume, cancel, delete, execute | commands between the executor's awaits; a crash | a run's result is its row's; a cancel is final; every run ends |
| Stream poll, `personal-connector-poll.ts`, `-live.ts`, `personal-connector.service.ts`, `packages/domain/src/connector-runner.ts`, `sync-engine.ts` | `streamLocks` in memory, `connector_cursors` (cursor and lease), `connector_sync_state` (phase and two cursors) | poll by background work, opened chat, scroll, follow-up | preemption of the lease, callers that jump the lock's queue, the state row read and rewritten off the lock | no cursor runs ahead of stored records; every message is fetched |
| Sync phase functions, `packages/domain/src/sync-phase.ts`, `sync-cursor-commit.ts`, `sync-history.ts`, `sync-outcome.ts` | none | outcome of a poll to the next state row | many cases of policy, phase, kind and hint | history is owed until it is walked |
| Outbound reply, `apps/api/src/personal-reply.service.ts`, `sqlite/events.ts` | `outbound_attempts`, `sendingByClient`, recovery blobs | send, replay, claim, reject, accept, store, alias | lost answers, replicas, crashes between writes, the echo in history polls | at most one delivery; a truthful record; one Event |
| Due-work plane, `personal-connector-due-work.ts` | claims of stream rows under one owner per process, a claim limit | plan, claim a batch, poll, settle | batch deadlines while polls run | no row is lost or polled twice for ever |
| Ingestion, `packages/domain/src/ingestion-service.ts`, `sqlite/events.ts` | `events`, `source_heads`, dispositions | create, revise, tombstone, replay, in batches | races for a head; two-step writes | one line of versions per identity, each judged by the one it replaces |
| Sync catalog, `packages/domain/src/sync-catalog.ts` | members, generation, completeness | apply a page, complete, drop streams | completion while polls are in flight | a complete catalog and the streams agree |
| Work orchestration, `apps/api/src/personal-work-dispatch.ts`, `-supervise.ts`, `personal-work.service.ts`, `packages/domain/src/work*.ts` | `work_items`, `work_runs`, starts in flight in memory | list, open, claim, start, supervise, dismiss, rerun | whole rows written back after awaits; starts whose answer is lost | one agent per item, none forgotten, a concurrency limit |
| Work delivery, `packages/domain/src/work-delivery.ts`, `personal-work-flush.ts`, `-channel.ts` | `work_deliveries` | enqueue, claim, send, receipt, settle, retry, abandon | timeouts of sends that go on; no version check on the row | bounded attempts, truthful status, every letter ends |
| Background leader, `apps/api/src/background-leader.ts` | a store lock | acquire, hold, lose | a leader that does not know it lost | one leader acts |
| Desktop store lock, `apps/desktop/src/main/store-lock.ts` | a lock file | take, take over, release | two processes taking over a stale lock | one owner of a data directory |
| Context projections, `sqlite/context-projection.ts`, `context-artifacts.ts`, `context-projection-coordinator.ts`, the workers of the API and of `apps/worker` | projection outbox, artifacts, checkpoints | enqueue, claim, renew, project, checkpoint, complete, fail, defer | requeue under a running worker, workers that lost their lease | no content is forgotten; checkpoints move forward |
| Connector plugins, HTTP API, inbox views, renderer, CLI, providers, indexes | | | I/O, parsing, views | outside these models |

How they interact: the background planes and `executeSyncRunDueWork` claim rows
of the work store and poll their streams; opened chats, scrolls and the
follow-up of a reply poll the same streams without a row; every poll ingests
and then rewrites the stream's state, whose write enqueues the row of the lane
owed next; a reply is ingested by the same service that ingests the poll which
brings it back.  The transaction that stores an Event enqueues its projection.
A finished agent run enqueues a letter in the same function that closes its
work item, and the flush tick sends it through a connector and ingests it.

## Modules

| Module | Models | Uses |
|---|---|---|
| `SyncWorkStore` | The rows and runs and each transaction on them | |
| `SyncRuns` | `startSyncRun`, the commands, `executeDurableSyncRun`, the background planes where they meet a run's row, crashes | extends `SyncWorkStore` |
| `SyncRunsProofs` | Its theorems | `SyncRuns`, `TLAPS` |
| `SyncPhase` | The pure functions between a poll's outcome and the next state row | |
| `StreamPoll` | Everything that polls one stream | extends `SyncPhase` |
| `StreamPollProofs` | Its theorems | `StreamPoll`, `TLAPS` |
| `OutboundReply` | One `client_request_id` | |
| `OutboundReplyProofs` | Its theorems | `OutboundReply`, `TLAPS` |
| `WorkRuns` | The items of one recipe and their agent runs | |
| `WorkRunsProofs` | Its theorems | `WorkRuns`, `TLAPS` |
| `WorkDelivery` | The write-back letter of one item | |
| `WorkDeliveryProofs` | Its theorems | `WorkDelivery`, `TLAPS` |
| `SourceRecord` | Abstract: what ingestion promises of a source record | |
| `Ingest` | `IngestionService.ingest` over `events` and `source_heads` | instances `SourceRecord` |
| `IngestProofs` | Its theorems, the refinement included | `Ingest`, `TLAPS` |
| `ContextProjection` | The projection outbox and its workers | |
| `ContextProjectionProofs` | Its theorems | `ContextProjection`, `TLAPS` |
| `MC...` | Instances for TLC: symmetry sets and constants | |

Definitions carry the names of the code; `PROJECT.json` maps each to its lines.
A name with a suffix (`Holds_anyone`) is a mutation, an edit of the definition
after it that a property must notice; no specification uses it.

**The grain of a step.** The store's transactions are atomic (`immediate`
transactions of SQLite).  An async function may be interrupted at every `await`
that reaches the store or the channel, so each stretch between two of them is
one action.  Time is not a number: a row `due` or a lease `fresh` is a Boolean
that a clock action flips at any moment, so every relation of timeouts to work
is covered, the unlikely ones too.

**SyncRuns.**  The row that `startSyncRun` enqueues is identified with its run,
since its stream key is made from the run's id.  `exec` holds the invocations
of `executeDurableSyncRun` (read, claim, execute, re-read, settle); what
`executeSyncRunDueWork` does is its outcome only, because it works on rows that
no run owns.  An executor that a crash killed stays `dead` with its claim.  The
number of executors bounds resumes (`ExecsLeft`).

**StreamPoll.**  The source is a conversation of messages `1..tip`, one to a
page.  A cursor is what a connector keeps in it: the newest and the oldest
message handed out, `tail` and `head`.  That is the connector's side, marked
external; the kernel treats a cursor as opaque.  Six kinds of caller differ as
in the code: which wait for the stream lock and which skip or jump it, which
preempt the lease, which rows they remember, whether the cursor of the lane
(first page) or of the lease (later pages) is used.  A page is committed
atomically (`commitSyncPage`) or record by record and settled afterwards
(`ingestRecords`, `settlePage`); a conflict fails the record.  A source that
fails and a page with records that cannot be stored give the lease back
(`pollThrows`); a store that fails where nothing catches it, as in the commit of
an empty page, leaves the row leased to an owner who is `Gone` until the lease
runs out (`storeFails`).  The follow-up
after a send repeats `pollStream` under one hold of the lock; here each
repetition queues anew.  The work rows are left out: background polls may start
whenever the lock is free.  That is more than the rows allow, which is sound
for the safety properties; the liveness run says below what it takes from them.
Media, webhooks and imports are left out.

**OutboundReply.**  `row` is the attempt, `handler[r]` the one send that replica
`r` has in flight for the key (`sendingByClient` coalesces the others),
`delivered` what the channel took, `event` the reply's local Event and
`nativeHead` the Event that the channel's own message id leads to.
`IdsMatchHistory` says whether the receipt's message ids are those that history
uses.  A step that throws, and a process that dies, are the same
(`handlerEnds`): what was written stays.  `Legacy` lets the initial state hold
an attempt of a release that stored no recovery payload.  The channel obeys its
contract: `SendNotAcceptedError` means nothing was accepted.

**WorkRuns.**  One recipe with its `max_concurrent`.  `putWorkItem` and
`putWorkRun` are upserts of whole rows, so a step that writes carries what an
earlier step read (`saved`, `was`, `listed`).  `starter[i]` is `startItem` of an
item, from the slot check through the claim, the session (`spawnSysout`,
`writeStdin`) or the one call of an HTTP executor, to the answer; `applier` is
`applyHandle`, of the supervisor's tick, of a wake, and of the start itself.
`session` is the agent's side, external: it may take its task although the call
failed.  `Scenarios` says which disturbances a behaviour has, each once.

**WorkDelivery.**  One row and everybody who writes it: the supervisor, the
dismissal, the flush tick, a human's forced retry, and a send that was cut off
and goes on (`late`).  Every one of them reads, awaits and writes.  `recipe` is
whether the job's recipe still exists: the supervisor reads it before it asks the
executor, the tick lists it with the letters and passes over a letter without
one, `writeBack` skips one.  A send through a driver and the answer of a prompt
are one `Send`; it may fail before the channel has anything, lose its answer, or,
with `Refusals`, resolve with `accepted: false`, which `sendText` does not look
at.  `receipt` is what `deliveryChannelReceipt` makes of the stored receipt: an
accepted one.  The timestamps of the row are Booleans: a retry is due or not, a
claim runs or not.  A claim lives 60 s and its send is cut off at 45 s, so a
claim does not run out while its holder still awaits the send.

**SourceRecord and Ingest.**  An Event's id is its place in `events`.  A
content is its words, the attachments that have their bytes and those that have
not, which is what the merge, the replay test and the conflict test look at.  A
caller inspects each record of its batch, against its own planned creates first
(`overlay`), then against the head; a planned create has its hash, but its
content reads as empty as long as no blob is stored for it (`Preview`).  Plain
creates are committed together, any other record by itself against the head it was judged by.  `SourceRecord` knows
only the current version of each record and says which changes are allowed,
judged at the moment of the change.  The refinement mapping reads `current` off
`events` and `head`.

**ContextProjection.**  A content is a version number that grows with
`repointContentHash`; a read of a conversation is the version it saw of each
Event.  Workers of the two applications differ in what a failure does to the
rest of their jobs; both are covered.  Leases run out at any moment.  Between
two reads of as many Events `putCheckpoint` compares `updated_at`, which a read
is stamped with after its queries; the model compares the reads.  In the one
process of a SQLite store that is the same.  With PostgreSQL
(`postgres/events.ts:345`) the stamps come after awaited queries and from the
clocks of several hosts, so an older read may bear the later time; the model and
its theorems do not speak of that case.

## Runs

| Run | Shows |
|---|---|
| `SyncRuns_safety` | Two runs, three executors, every command, deletion, expiry and crash: counters and results agree with the row (`RunAgreesWithRow`), a cancelled run's row is not held (`CancelledRunIsQuiet`), no early return leaks a claim (`ClaimIsNotLeaked`), a finished run keeps its result (`FinishedRunIsFrozen`) |
| `SyncRuns_ends` | Without a resume and a crash every run ends (`StartedRunEnds`) |
| `StreamPoll_safety` | History work, an opened chat, scrolls, follow-ups of two pages, throttling, errors of the source and of the store, crashes, `reset-cursor`, disabling: cursors cover only stored messages (`CursorsAreCovered`), and a poll that leaves gives its lease back unless the store fails it or the process ends (`LeaseIsGivenBack`) |
| `StreamPoll_fair` | Background work alone fetches every message, old and new (`EveryMessageIsStored`), and a stream counts as caught up only when its history was walked (`BackfillIsOwed`) |
| `StreamPoll_queue` | Three callers, polls that throw, the incremental policy: the lock excludes (`OnePollAtATime`) and serves (`QueueIsServed`) |
| `OutboundReply_attempts` | Two replicas, two threads, two bodies: at most one delivery (`AtMostOnce`), the record agrees with the channel (`RecordMatchesChannel`), sent means stored and aliased (`SentIsComplete`), a receipt is kept (`DeliveryIsRemembered`), no echo after sent (`EchoIsNotStoredAgain`), retries finish (`AcceptedIsFinished`) |
| `WorkDelivery_settles` | Sends that fail, lose their answer, or time out at any attempt and go on; or a dismissal, a retry, a rerun, a deleted recipe or a restart: a letter shown as sent was delivered (`SentIsTruthful`), a dead one had its attempts (`DeadIsEarned`), if timeouts stop every letter ends (`LetterIsSettled`), and that of a dismissed job is closed (`DismissClosesTheLetter`) |
| `WorkRuns_slots` | Unless a human dismissed it, no item has two agents at work (`OneAgentPerItem`), an agent at work has a run that is active or was cancelled (`AgentIsOnTheLedger`), an automatic start finds a free slot (`StartsWithinCap`) |
| `WorkRuns_reaped` | Violated: `OccupiedItemHasARun` |
| `Ingest_log` | Versions form one line (`HistoryIsLinear`), a head is arranged or about to be (`HeadIsArranged`), and `Ingest` implements `SourceRecord` (`SourceIsHonoured`) |
| `Ingest_tombstone` | Violated: `TombstoneOutlivesCreate` |
| `ContextProjection_outbox` | A succeeded job's content is in the checkpoint (`SucceededIsProjected`), a checkpoint has its summary (`CheckpointIsBacked`) and never moves back (`CheckpointMovesForward`), every Event is projected (`EveryEventIsProjected`) |

### Disagreements between documents and code

Two are runs of their own:

* **A finished job may stay on the board** (`WorkRuns_reaped`).  Two passes hold
  an answer for one run; the one that saw `waiting_human` writes the item after
  the other has reaped the run.  The item is occupied, has no active run, and
  nothing looks at it again, although RFC 0009 says that the kernel reaps the
  job.  A crash between the run's write and the item's has the same end.
* **A message deleted before it arrived may show** (`Ingest_tombstone`).  The
  create is stored live and tombstoned in a second transaction; the document
  says it is persisted already tombstoned.

Others come up when an assumption of a passing run is dropped:

* *A resume may strand its run* (`SyncRuns_ends` with `"resume"` among the
  commands).  Pause while an executor works; it re-reads the run as paused;
  resume before it settles.  The executor of the resume finds the row still held
  and returns; the first one settles it for a retry that nobody makes.
* *A crash strands a run* (`SyncRuns_ends` with `MayCrash`).  Nothing starts
  executors after a restart, and the planes claim only rows without a run;
  `docs/en/SYNC_SCALABILITY_ACCEPTANCE.md:52` expects the lease to be reclaimed.
* *A conflicting record may be skipped* (`StreamPoll_safety` with `"conflict"`
  among the faults: `CursorsAreCovered`).  The cursor of the lease stays, the
  cursor in the sync state moves (`sync-outcome.ts:89`), and the next poll uses
  the latter.
* *A first error ends the backfill* (`StreamPoll_fair` with `"throw"`:
  `BackfillIsOwed`).  It stores the phase `live` (`sync-phase.ts:164`), from
  which no hint leads to `history`.
* *A store failure leaves a lease behind* (`StreamPoll_safety`,
  `LeaseIsGivenBack` without its exception for `storeFails`).  The commit of an
  empty page is outside any `try` (`connector-runner.ts:224`), so an error there
  leaves the stream leased, for all but callers that preempt, until the lease
  runs out.
* *A refused result may show as sent* (`WorkDelivery_settles` with `Refusals`:
  `SentIsTruthful`).  `sendText` (`personal-work-channel.ts:176`) does not look at
  `receipt.accepted`, as the reply path does (`personal-reply.service.ts:276`), so
  a send that resolves with `accepted: false` is ingested and acknowledged.
  `docs/en/rfcs/0009-work-orchestration.md:196` says that `acked` and `dead` mean
  whether the channel got the result.  The connectors of this repository resolve
  with `accepted: true` or throw; their contract allows both.  The stored receipt
  keeps its `accepted`, so a retry after a refusal does send again.
* *A letter may never end* (`LetterIsSettled` without its exceptions).  The tick
  passes over the letter of a deleted recipe on every round
  (`personal-work-flush.ts:56`); a send that times out gives its attempt back
  (`work-delivery.ts:200`), so one that always does is repeated for ever.
* *An echo may become a second Event.*  `findEchoedOutbound` compares with local
  outbound Events only; a history poll that stores the message between its
  delivery and the local ingest makes two.
* *A rerun's letter may be shown as sent for the result of before*
  (`WorkDelivery_settles` with two payloads: `SentIsTruthful`).  The old send's
  receipt is put on the row that already holds the new payload.

### Bounds

Two runs suffice for the store (rows meet only through their run) and three
executors let one be taken over while another starts.  Two polls race for the
lease and the state row, three are needed for a queue with someone in the
middle.  In the safety run two messages give a page of history and a page of
news; four in the liveness run give a history of several pages.  Follow-ups ask
for two pages (`MaxPages`), as in the code; all other polls for one.  Two
replicas are a holder of the claim and a rival; the proofs cover any number.

In `WorkDelivery` failures and lost answers are free.  A scenario (`Scenarios`)
is what comes on top: either every attempt may time out, any number of times, or
there is one human request or restart.  Both at once, with one attempt, were
checked by hand for safety (5.3 million states), and the theorems hold for any
scenario.  Two attempts are one that is retried and one that is the last; the
code has three.

`WorkRuns` has two items for one slot, two run ids, and one scenario of
disturbances at a time.  `Ingest` takes three batches (`MaxBatches`) by two
callers: one to build a record, two to race on it; its contents are words with an
attachment that is there, not there, or none, and other words.
`ContextProjection` has two Events of one conversation, one repointed once, and
one fault; by hand it was also run with two faults (697,823 states) and, for
safety only, with three Events in two conversations (1,781,700 states), with the
same result.

The runs do not check for deadlock where the system may rest: all runs finished,
nothing left to poll, every letter settled, every job projected.

### Fairness

`SyncRuns`: an async function that awaits only the store continues, a request
that began is carried through, the clock advances.  Nothing makes a user act.
`StreamPoll_queue`: a poll under way goes on; the code bounds the source by a
timeout.  `StreamPoll_fair` adds that the planes come back for the lane that is
owed whenever they find the stream free (`putSyncState` leaves a pending row of
exactly that lane; strong fairness, since the lock is taken in between), and
that stale live rows die out: the put that switches to history cancels a pending
live row, and one that was claimed at that moment comes back due after its idle
time.  Without the last assumption a live poll could race every history poll's
write of the state for ever.  The run has no crash for the same reason: polls
that found the lease of a dead process still held write the stream as unseeded,
and such late writes could race those of the history lane for ever.
`OutboundReply`: the client retries, and no step that stores an accepted attempt
is interrupted every time it is tried; one replica of that kind is enough.
`WorkDelivery`: the flush timer, the event loop and the clock go on; humans need
not.  `LetterIsSettled` supposes that timeouts stop at some time.
`ContextProjection`: the workers' timers come back, what they began goes on, and
the leases of jobs that nobody works on run out; failures, stalls and crashes are
bounded by `MaxFaults`.

## Proofs

`SyncRunsProofs` proves for any number of runs and executors
`TypeCorrect`, `RunsAgree`, `CancelHolds`, `NoLeak` and `FrozenResult`.  The
inductive invariant `IInv` adds to the properties which row belongs to which
run and how far `startSyncRun` is (`RowsAndRuns`: without it a settle could
count a row for a run that was deleted, or an enqueue could count twice), and
that an executor at work has a run.  One lemma per action; claims and settles
share `ClaimFacts`, `SettleFacts` and what they keep of the runs.

`OutboundReplyProofs` proves for any replicas, threads and bodies
`TypeCorrect`, `SentAtMostOnce`, `RecordIsTrue`, `SentHasEvent`,
`ReceiptIsKept` and `SentHasOneEcho`.  The strengthening says that at most one
handler is between the claim and the receipt, and only while the row is
pending and nothing was delivered before its send; that whoever stores holds
the recovery payload of the delivered message; and that a sent attempt's Event
and alias exist.

`ContextProjectionProofs` proves for any Events, conversations and workers
`TypeCorrect`, `SettledIsProjected`, `BackedCheckpoint` and `ForwardCheckpoint`.
The properties are not inductive: a settled job is projected only because the
worker that settles it read the present content.  The strengthening says so
(`Fresh`: whoever still holds a job has read, or will read, its Event as it now
is, since a repoint takes the job away from its holder), that all reads of a
conversation, the checkpoint's included, lie on one line (`OneLine`, which makes
"not older" decide between two workers), that a worker's group is of one
conversation (`GroupInv`), and that a worker about to write a checkpoint has
stored its summary (`SummaryFirst`).

`IngestProofs` proves for any identities, contents, callers and batches
`TypeCorrect`, `LinearHistory`, `ArrangedHead` and the refinement `Refinement`
(`Spec => SourceIsHonoured`).  Linearity alone is not inductive: a write would
have to know that the head it replaces has no successor.  `IInv` adds that
parents are older Events of the same identity and a head is one of its own
(`Log`), and that a caller about to persist holds exactly what `inspectRecord`
decides by the Event it expects to be current (`Judged`).  The table only grows,
so that judgement stays true of the Event expected; the compare-and-set lets the
write through only while that Event is current.  The refinement is proved action
by action: a create, a revision or a tombstone that is committed is a step of
`SourceRecord`, every other step a stutter.

`WorkRunsProofs` proves for any items, runs, passes and limits, and any
combination of disturbances, `TypeCorrect`, `LedgerShowsAgents`
(`AgentIsOnTheLedger`), `OneAgent` (`OneAgentPerItem`) and the action property
`WithinCap` (`StartsWithinCap`).  Run rows are rewritten from stale reads, so the
strengthening follows the reads: nobody writes an end that the session has not
reached (`Passes`), a start that may still reach the executor has a row that is
active or cancelled (`Starters`), a run id not used yet has no session
(`Unused`), and until a human dismisses, no other session of the item holds the
task when one is about to be given it (`Undismissed`, `Alone`).  `WithinCap`
counts items, hence the assumption that they are finitely many.

`WorkDeliveryProofs` proves for any payloads, limit and scenario
`TypeCorrect`, `DeadWasTried` (`DeadIsEarned`) and
`ReceiptWasDelivered`: a recorded receipt has some message behind it, also when
the channel refuses by its answer.  Every writer puts back a whole row that may be
stale, so `IInv` speaks of all rows that are stored or carried (`Earned`); claims
and deliveries are never taken back, so a row that was earned stays earned however
late it is written.  Where the channel refuses only by failing (`~Refusals`),
`SentWasDelivered` says the same of a letter shown as sent.  `ReceiptIsTrue`
(`ReceiptIsTruthful`) and `SentIsTrue` (`SentIsTruthful`, again with `~Refusals`)
name the payload, and are proved for a job that always has the same result; for
two results, and for `SentIsTruthful` with refusals, they are false, as told
under the disagreements.

`StreamPollProofs` proves for any number of polls, pages and messages
`TypeCorrect` and `NoLeaseLeaks` without a condition, and three theorems with
the condition that the code needs.  `NoLeaseLeaks` is the action property
`LeaseIsGivenBack`; the invariant it rests on, `LeaseIsNotLeaked`, says that only
a poll in the middle of a page owns the lease.

* `CursorsStayCovered` when no record conflicts.  A cursor travels from the lease
  or the state row to the poll, from the page to the outcome, and through a
  second read of the state row back into it; `Carried` says that wherever it is,
  the messages it spans are stored, or are in the page being ingested.
* `LockExcludes` when nobody is an opened chat or a scroll, the two that jump the
  line.  The lock is a chain of promises, each waiter behind the one before it.
  `Line` says that those in line can be numbered in the order of the chain, and
  spares an induction along it.
* `BackfillIsKept` when moreover no poll throws, fails in the store, conflicts or
  has its cursor reset: whoever is in the middle of a page has the lease (`Keeps`), and an
  outcome says of history what its cursor says (`Reports`).  A poll that throws
  does end the backfill, as told under the disagreements.

These last four invariants were checked by TLC before they were proved, mostly on
more than the bounds of the runs: `WorkDelivery` with two payloads, `StreamPoll` with three polls for the line.

The assumptions are the named ones of the modules: what the constants are, that
`None` is none of the data, and that items are finitely many.  TLC evaluates
them in every run.

Every invariant and every action property of the passing runs is stated by a
theorem.  Only model-checked is liveness, for which TLAPS has no fairness
argument: `StartedRunEnds`, `EveryMessageIsStored`, `QueueIsServed`,
`AcceptedIsFinished`, `LetterIsSettled`, `DismissClosesTheLetter`,
`EveryEventIsProjected`; and the two disagreements that are runs, which are
counterexamples and need no proof.

## Plan

Proofs: the safety halves that the liveness properties rest on, where they say
something of their own.  Candidates are that a row which is owed stays claimable
(`StreamPoll`), that a letter of a dismissed job is closed or has a writer that
will close it (`WorkDelivery`), and that a projected Event's checkpoint is not
older than any read that settled a job of its conversation
(`ContextProjection`).

Models, should the project grow: `DueWork` (batches over `SyncWorkStore`, the
shared owner, deadlines that settle rows under running polls, the claim limit),
`BackgroundLeader` and `StoreLock` (one leader, one owner of a directory),
`SyncCatalog`.

## Not modelled

The parts just named.  The PostgreSQL store, which implements the transactions
of the SQLite store that the models follow.  The lexical index, embeddings,
digests and retrieval, which can be rebuilt and hold no protocol.  Connector
plugins, except for what the kernel expects of them.  Request parsing, inbox
views, the renderer and the CLI: most of the repository's lines, and sequential
code over the state modelled here.  Within the modelled parts: webhooks, imports
and media in `StreamPoll`; quarantine of unavailable content and patches of list
surfaces in `Ingest`; answers of a human to a waiting agent, reaping by inbox
observation and starts by other replicas in `WorkRuns`.
