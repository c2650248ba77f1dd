---------------------------- MODULE SyncWorkStore ----------------------------
(***************************************************************************)
(* The two tables of the authority store that schedule connector polling:  *)
(* connector_sync_work (one row per unit of polling work, leased to an     *)
(* owner while it runs) and sync_runs (a user-visible run that groups      *)
(* rows).  Each operator is one immediate transaction of                   *)
(* packages/authority-store/src/sqlite/sync.ts.                            *)
(*                                                                         *)
(* Time is abstract.  A row is "due" once its next_due_at has passed and a *)
(* lease is "fresh" until its lease_expires_at has passed; ComesDue and    *)
(* LeaseExpires are the clock.                                             *)
(***************************************************************************)
EXTENDS Naturals, FiniteSets

CONSTANTS
    Works,      \* identities (installation, stream_key, lane, generation)
    Runs,       \* sync run ids
    Owners,     \* lease_owner strings
    None        \* SQL NULL

ASSUME NoneIsNull == None \notin Runs \cup Owners

VARIABLES
    work,       \* connector_sync_work
    run         \* sync_runs

storeVars == <<work, run>>

OpenStatus == {"pending", "running"}
WorkStatus == OpenStatus \cup {"succeeded", "failed", "cancelled"}
ActiveStatus == {"queued", "running"}
TerminalStatus == {"succeeded", "failed", "cancelled"}
RunStatus == ActiveStatus \cup {"paused"} \cup TerminalStatus

\* "absent": not inserted.  A run id is a random uuid, so a deleted one is
\* never used again.
WorkRow == [status : WorkStatus \cup {"absent"}, run : Runs \cup {None},
            due : BOOLEAN, owner : Owners \cup {None}, fresh : BOOLEAN]
RunRow == [status : RunStatus \cup {"absent", "deleted"},
           total : Nat, completed : Nat, failed : Nat]

NoWork == [status |-> "absent", run |-> None, due |-> FALSE,
           owner |-> None, fresh |-> FALSE]
NoRun == [status |-> "absent", total |-> 0, completed |-> 0, failed |-> 0]

StoreTypeOK ==
    /\ work \in [Works -> WorkRow]
    /\ run \in [Runs -> RunRow]

StoreInit ==
    /\ work = [w \in Works |-> NoWork]
    /\ run = [r \in Runs |-> NoRun]

\* The forms a row takes: waiting, leased, and (by cancel or delete) taken
\* away from its owner or from its run.
PendingRow(r, due) ==
    [status |-> "pending", run |-> r, due |-> due, owner |-> None, fresh |-> FALSE]
LeasedRow(row, owner) ==
    [status |-> "running", run |-> row.run, due |-> row.due, owner |-> owner, fresh |-> TRUE]
CancelledRow(row) ==
    [status |-> "cancelled", run |-> row.run, due |-> row.due, owner |-> None, fresh |-> FALSE]
UnassignedRow(row) ==
    [status |-> row.status, run |-> None, due |-> row.due, owner |-> row.owner, fresh |-> row.fresh]

RunExists(r) == run[r].status \in RunStatus
RunWith(row, status) ==
    [status |-> status, total |-> row.total, completed |-> row.completed, failed |-> row.failed]
OpenWorkOf(r, rows) == {w \in Works : rows[w].run = r /\ rows[w].status \in OpenStatus}

-----------------------------------------------------------------------------
(* sync_runs *)

createSyncRun(r) ==
    /\ run[r].status = "absent"
    /\ run' = [run EXCEPT ![r].status = "queued"]
    /\ UNCHANGED work

\* Mutation: a cancel applies to finished runs too.
CommandedStatus_cancelAny(status, command) ==
    CASE command = "pause" /\ status \in ActiveStatus -> "paused"
      [] command = "resume" /\ status = "paused" -> "queued"
      [] command = "cancel" -> "cancelled"
      [] OTHER -> status

\* The status a command leaves the run in; a command that does not apply to
\* the current status changes nothing.
CommandedStatus(status, command) ==
    CASE command = "pause" /\ status \in ActiveStatus -> "paused"
      [] command = "resume" /\ status = "paused" -> "queued"
      [] command = "cancel" /\ status \in ActiveStatus \cup {"paused"} -> "cancelled"
      [] OTHER -> status

\* Mutation: the rows of a cancelled run are left as they are.
CancelledWork_none(r) == work

\* Cancelling takes the run's open rows away from whoever holds them.
CancelledWork(r) ==
    [w \in Works |-> IF w \in OpenWorkOf(r, work)
                     THEN CancelledRow(work[w]) ELSE work[w]]

commandSyncRun(r, command) ==
    /\ RunExists(r)
    /\ LET next == CommandedStatus(run[r].status, command)
       IN  /\ run' = [run EXCEPT ![r].status = next]
           /\ work' = IF next = "cancelled" /\ run[r].status # "cancelled"
                      THEN CancelledWork(r) ELSE work

\* Deleting a finished run leaves its rows behind, unassigned.
deleteSyncRun(r) ==
    /\ run[r].status \in TerminalStatus
    /\ run' = [run EXCEPT ![r].status = "deleted"]
    /\ work' = [w \in Works |-> IF work[w].run = r
                                THEN UnassignedRow(work[w]) ELSE work[w]]

-----------------------------------------------------------------------------
(* connector_sync_work *)

\* Inserting for a run that is not there throws.
EnqueueThrows(w, r) ==
    work[w].status = "absent" /\ r # None /\ ~RunExists(r)

\* A known identity is re-armed in place unless it is running; a new one is
\* inserted and counted by its run.
enqueueSyncWork(w, r, due) ==
    /\ ~EnqueueThrows(w, r)
    /\ CASE work[w].status = "absent" ->
              /\ work' = [work EXCEPT ![w] = PendingRow(r, due)]
              /\ run' = IF r = None THEN run
                        ELSE [run EXCEPT ![r].total = @ + 1]
         [] work[w].status = "running" -> UNCHANGED storeVars
         [] OTHER ->
              /\ work' = [work EXCEPT ![w] =
                     PendingRow(IF r = None THEN @.run ELSE r, due)]
              /\ UNCHANGED run

\* What claimSyncWork's query selects, before its LIMIT.
Claimable(w) ==
    /\ \/ work[w].status = "pending" /\ work[w].due
       \/ work[w].status = "running" /\ ~work[w].fresh
    /\ work[w].run # None => run[work[w].run].status \in ActiveStatus

\* Lease the rows of claimed to owner; a queued run starts running.
claimSyncWork(owner, claimed) ==
    /\ claimed # {}
    /\ \A w \in claimed : Claimable(w)
    /\ work' = [w \in Works |-> IF w \in claimed
                                THEN LeasedRow(work[w], owner) ELSE work[w]]
    /\ run' = [r \in Runs |->
                 IF run[r].status = "queued" /\ \E w \in claimed : work[w].run = r
                 THEN RunWith(run[r], "running")
                 ELSE run[r]]

\* Mutation: the row is settled whoever holds it, whatever its status.
Holds_anyone(owner, w) == work[w].status # "absent"

\* settleSyncWork returns null unless owner still holds the row.  The lease's
\* expiry is not looked at.
Holds(owner, w) == work[w].status = "running" /\ work[w].owner = owner

SettledWork(w, outcome, due) ==
    [work EXCEPT ![w] =
        [status |-> IF outcome = "retry" THEN "pending" ELSE outcome,
         run |-> @.run, due |-> due, owner |-> None, fresh |-> FALSE]]

\* The run's counters after a terminal outcome, unless it was cancelled.
CountedRun(row, outcome) ==
    IF row.status = "cancelled" THEN row
    ELSE [status |-> row.status, total |-> row.total,
          completed |-> row.completed + (IF outcome = "succeeded" THEN 1 ELSE 0),
          failed |-> row.failed + (IF outcome = "failed" THEN 1 ELSE 0)]

\* Mutation: the poll result's word for success.
FinishedRun_completed(row) ==
    IF row.status \in {"paused", "cancelled"} THEN row
    ELSE RunWith(row, IF row.failed > 0 THEN "failed" ELSE "completed")

\* The run's status once none of its rows is open.
FinishedRun(row) ==
    IF row.status \in {"paused", "cancelled"} THEN row
    ELSE RunWith(row, IF row.failed > 0 THEN "failed" ELSE "succeeded")

settleSyncWork(owner, w, outcome, due) ==
    IF ~Holds(owner, w) THEN UNCHANGED storeVars
    ELSE /\ work' = SettledWork(w, outcome, due)
         /\ LET r == work[w].run
            IN  IF r = None \/ outcome = "retry" THEN UNCHANGED run
                ELSE run' = [run EXCEPT ![r] =
                         IF OpenWorkOf(r, SettledWork(w, outcome, due)) = {}
                         THEN FinishedRun(CountedRun(@, outcome))
                         ELSE CountedRun(@, outcome)]

-----------------------------------------------------------------------------
(* The clock *)

ComesDue(w) ==
    /\ work[w].status = "pending"
    /\ ~work[w].due
    /\ work' = [work EXCEPT ![w].due = TRUE]
    /\ UNCHANGED run

LeaseExpires(w) ==
    /\ work[w].fresh
    /\ work' = [work EXCEPT ![w].fresh = FALSE]
    /\ UNCHANGED run

=============================================================================
