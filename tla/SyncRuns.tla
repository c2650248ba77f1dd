------------------------------ MODULE SyncRuns ------------------------------
(***************************************************************************)
(* The durable sync runs of apps/api/src/personal-connector-sync-run.ts.   *)
(* A user starts a run, which enqueues one "kick" row assigned to it, and  *)
(* pauses, resumes, cancels or deletes it.  Starting and resuming spawn an *)
(* executor (executeDurableSyncRun), an async function of the API process  *)
(* that claims the kick row under an owner of its own, does the work, and  *)
(* settles the row from what it reads of the run afterwards.  Every await  *)
(* is a step of its own.  The process may die at any time.                 *)
(*                                                                         *)
(* What the executor does in between (executeSyncRunDueWork polls rows     *)
(* that no run owns) is here only its outcome.                             *)
(***************************************************************************)
EXTENDS SyncWorkStore

CONSTANTS
    Execs,      \* executor invocations; each draws its own random owner
    Daemon,     \* the owner of the background planes (state.dueWorkOwner)
    Commands,   \* the commands the user gives, of "pause" "resume" "cancel"
    MayDelete,  \* whether the user deletes runs
    MayCrash    \* whether the process dies

\* The kick row of run r is row r: its stream key is made from the run's id.
ASSUME SyncRunsConstants ==
    /\ Works = Runs
    /\ Owners = Execs \cup {Daemon}
    /\ Daemon \notin Execs
    /\ None \notin Execs
    /\ Commands \subseteq {"pause", "resume", "cancel"}
    /\ MayDelete \in BOOLEAN /\ MayCrash \in BOOLEAN

VARIABLES
    start,      \* where startSyncRun is for each run
    exec        \* the executor invocations

vars == <<work, run, start, exec>>

Outcomes == {"succeeded", "failed", "retry"}
StartStep == {"idle", "created", "done"}
ExecStep == {"free", "read", "claim", "execute", "reread", "settle", "done", "dead"}
Exec == [pc : ExecStep, run : Runs \cup {None}, outcome : Outcomes]

\* Between the claim and the settle the executor acts as the row's holder.
Holding == {"execute", "reread", "settle"}

TypeOK ==
    /\ StoreTypeOK
    /\ start \in [Runs -> StartStep]
    /\ exec \in [Execs -> Exec]

Init ==
    /\ StoreInit
    /\ start = [r \in Runs |-> "idle"]
    /\ exec = [e \in Execs |-> [pc |-> "free", run |-> None, outcome |-> "succeeded"]]

-----------------------------------------------------------------------------
(* The user's requests *)

Spawn(e, r) ==
    /\ exec[e].pc = "free"
    /\ exec' = [exec EXCEPT ![e] = [pc |-> "read", run |-> r, outcome |-> "succeeded"]]

startSyncRun_create(r) ==
    /\ start[r] = "idle"
    /\ createSyncRun(r)
    /\ start' = [start EXCEPT ![r] = "created"]
    /\ UNCHANGED exec

\* The run is listed from now on, so a command may come before the enqueue.
startSyncRun_enqueue(r, e) ==
    /\ start[r] = "created"
    /\ enqueueSyncWork(r, r, TRUE)
    /\ Spawn(e, r)
    /\ start' = [start EXCEPT ![r] = "done"]

startSyncRun_throw(r) ==
    /\ start[r] = "created"
    /\ EnqueueThrows(r, r)
    /\ start' = [start EXCEPT ![r] = "done"]
    /\ UNCHANGED <<work, run, exec>>

userCommand(r, command) ==
    /\ command \in Commands \ {"resume"}
    /\ commandSyncRun(r, command)
    /\ UNCHANGED <<start, exec>>

\* The model's bound on resumes: an executor is kept for every run to start.
ExecsLeft ==
    Cardinality({e \in Execs : exec[e].pc = "free"})
        > Cardinality({r \in Runs : start[r] # "done"})

\* Resuming spawns an executor whatever the command did.
userResume(r, e) ==
    /\ "resume" \in Commands
    /\ ExecsLeft
    /\ commandSyncRun(r, "resume")
    /\ Spawn(e, r)
    /\ UNCHANGED start

userDelete(r) ==
    /\ MayDelete
    /\ deleteSyncRun(r)
    /\ UNCHANGED <<start, exec>>

-----------------------------------------------------------------------------
(* executeDurableSyncRun *)

Goto(e, pc) == exec' = [exec EXCEPT ![e].pc = pc]

execRead(e) ==
    /\ exec[e].pc = "read"
    /\ Goto(e, IF run[exec[e].run].status \in ActiveStatus THEN "claim" ELSE "done")
    /\ UNCHANGED <<work, run, start>>

execClaim(e) ==
    /\ exec[e].pc = "claim"
    /\ LET r == exec[e].run
       IN  \/ /\ claimSyncWork(e, {r})
              /\ Goto(e, "execute")
           \/ /\ ~Claimable(r)
              /\ Goto(e, "done")
              /\ UNCHANGED storeVars
    /\ UNCHANGED start

\* Mutation: a run whose work threw is kept for a retry.
execExecute_retries(e) ==
    /\ exec[e].pc = "execute"
    /\ \E outcome \in {"succeeded", "retry"} :
          exec' = [exec EXCEPT ![e].pc = "reread", ![e].outcome = outcome]
    /\ UNCHANGED <<work, run, start>>

\* executeSyncRunDueWork returns or throws.
execExecute(e) ==
    /\ exec[e].pc = "execute"
    /\ \E outcome \in {"succeeded", "failed"} :
          exec' = [exec EXCEPT ![e].pc = "reread", ![e].outcome = outcome]
    /\ UNCHANGED <<work, run, start>>

\* Mutation: a paused run's executor returns without settling.
execReread_pausedReturns(e) ==
    /\ exec[e].pc = "reread"
    /\ Goto(e, IF run[exec[e].run].status \in {"cancelled", "paused"} THEN "done" ELSE "settle")
    /\ UNCHANGED <<work, run, start>>

execReread(e) ==
    /\ exec[e].pc = "reread"
    /\ LET latest == run[exec[e].run].status
       IN  exec' = [exec EXCEPT
             ![e].pc = IF latest = "cancelled" THEN "done" ELSE "settle",
             ![e].outcome = IF latest = "paused" THEN "retry" ELSE @]
    /\ UNCHANGED <<work, run, start>>

execSettle(e) ==
    /\ exec[e].pc = "settle"
    /\ settleSyncWork(e, exec[e].run, exec[e].outcome, TRUE)
    /\ Goto(e, "done")
    /\ UNCHANGED start

execStep(e) ==
    execRead(e) \/ execClaim(e) \/ execExecute(e) \/ execReread(e) \/ execSettle(e)

-----------------------------------------------------------------------------
(* The background planes claim only rows that no run owns.  A kick row is   *)
(* no conversation: they settle it for retry, or, in the history lane (an  *)
(* archive run's kick row) with no history owed, as succeeded.             *)

daemonClaim(w) ==
    /\ work[w].run = None
    /\ claimSyncWork(Daemon, {w})
    /\ UNCHANGED <<start, exec>>

daemonSettle(w) ==
    /\ Holds(Daemon, w)
    /\ \E outcome \in {"retry", "succeeded"}, due \in BOOLEAN :
          settleSyncWork(Daemon, w, outcome, due)
    /\ UNCHANGED <<start, exec>>

clock(w) ==
    /\ ComesDue(w) \/ LeaseExpires(w)
    /\ UNCHANGED <<start, exec>>

\* The process dies and restarts: rows and runs stay, nothing in flight does,
\* and no start-up step looks for runs to continue.
crash ==
    /\ MayCrash
    /\ \/ \E r \in Runs : start[r] = "created"
       \/ \E e \in Execs : exec[e].pc \notin {"free", "done", "dead"}
    /\ start' = [r \in Runs |-> IF start[r] = "created" THEN "done" ELSE start[r]]
    /\ exec' = [e \in Execs |-> IF exec[e].pc \in {"free", "done"} THEN exec[e]
                                ELSE [exec[e] EXCEPT !.pc = "dead"]]
    /\ UNCHANGED <<work, run>>

Next ==
    \/ \E r \in Runs : startSyncRun_create(r) \/ startSyncRun_throw(r) \/ userDelete(r)
    \/ \E r \in Runs, e \in Execs : startSyncRun_enqueue(r, e) \/ userResume(r, e)
    \/ \E r \in Runs, c \in Commands : userCommand(r, c)
    \/ \E e \in Execs : execStep(e)
    \/ \E w \in Works : daemonClaim(w) \/ daemonSettle(w) \/ clock(w)
    \/ crash

Spec == Init /\ [][Next]_vars

\* An async function that is not awaiting anyone runs on; a request that has
\* begun is carried through; the clock advances.  Nothing makes the user act.
Fairness ==
    /\ \A e \in Execs : WF_vars(execStep(e))
    /\ \A r \in Runs : WF_vars(startSyncRun_throw(r) \/ \E e \in Execs : startSyncRun_enqueue(r, e))
    /\ \A w \in Works : WF_vars(clock(w)) /\ WF_vars(daemonClaim(w)) /\ WF_vars(daemonSettle(w))

FairSpec == Spec /\ Fairness

-----------------------------------------------------------------------------
(* Properties *)

\* The counters and the final status the user sees are those of the kick row:
\* it is counted once, as what it was settled to, however many executors
\* claimed it, and a run never ends with a status its row does not have.
RunAgreesWithRow ==
    \A r \in Runs : RunExists(r) =>
        /\ run[r].total = IF work[r].status = "absent" THEN 0 ELSE 1
        /\ run[r].completed = IF work[r].status = "succeeded" THEN 1 ELSE 0
        /\ run[r].failed = IF work[r].status = "failed" THEN 1 ELSE 0
        /\ run[r].status \in {"succeeded", "failed"} => work[r].status = run[r].status

\* A cancelled run's kick row is never running: no executor that read the run
\* before the cancel can revive it, and no lease outlives the cancel.
CancelledRunIsQuiet ==
    \A r \in Runs : run[r].status = "cancelled" =>
        /\ work[r].status # "running"
        /\ work[r].owner = None

\* A running row belongs to an executor of its run that still means to settle
\* it (or died doing so): no early return of executeDurableSyncRun leaks the
\* claim.
ClaimIsNotLeaked ==
    \A r \in Runs, e \in Execs : Holds(e, r) =>
        exec[e].run = r /\ exec[e].pc \in Holding \cup {"dead"}

\* What makes the properties above inductive: which row is whose, and where
\* startSyncRun is.
RowsAndRuns ==
    \A r \in Runs :
        /\ work[r].run \in {r, None}
        /\ work[r].run = r => RunExists(r)
        /\ RunExists(r) /\ work[r].status # "absent" => work[r].run = r
        /\ work[r].status # "running" => work[r].owner = None
        /\ start[r] \in {"idle", "created"} => work[r].status = "absent"
        /\ start[r] = "idle" => run[r] = NoRun
        /\ start[r] # "idle" => run[r].status # "absent"

ExecsHaveRuns ==
    \A e \in Execs : exec[e].pc # "free" => exec[e].run \in Runs

IInv ==
    /\ TypeOK
    /\ RowsAndRuns
    /\ ExecsHaveRuns
    /\ RunAgreesWithRow
    /\ CancelledRunIsQuiet
    /\ ClaimIsNotLeaked

\* A finished run stays finished with the result it finished with, until it
\* is deleted: an executor whose lease was taken over, or whose run was
\* cancelled under it, settles nothing.
FrozenStep ==
    \A r \in Runs : run[r].status \in TerminalStatus =>
        /\ run'[r].status \in {run[r].status, "deleted"}
        /\ run'[r].completed = run[r].completed
        /\ run'[r].failed = run[r].failed

FinishedRunIsFrozen == [][FrozenStep]_vars

\* A run that nobody pauses ends: it is executed by the executor its start
\* spawned, or cancelled.
StartedRunEnds ==
    \A r \in Runs : run[r].status \in ActiveStatus ~> run[r].status \notin ActiveStatus

=============================================================================
