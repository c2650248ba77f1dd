--------------------------- MODULE SyncRunsProofs ---------------------------
(* Proofs about SyncRuns, for any number of runs and executors. *)
EXTENDS SyncRuns, TLAPS

\* The invariant holds before any run exists.
LEMMA InitInv == Init => IInv
  BY NoneIsNull, SyncRunsConstants
  DEF Init, IInv, TypeOK, StoreTypeOK, StoreInit, WorkRow, RunRow, NoWork, NoRun,
      StartStep, Exec, ExecStep, Outcomes, RowsAndRuns, ExecsHaveRuns,
      RunAgreesWithRow, CancelledRunIsQuiet, ClaimIsNotLeaked, Holds, RunExists,
      RunStatus, ActiveStatus, TerminalStatus

\* startSyncRun: the new run has no row yet, so nothing can disagree with it.
LEMMA CreateInv ==
  ASSUME IInv, NEW r \in Runs, startSyncRun_create(r)
  PROVE  IInv'
  <1> USE NoneIsNull, SyncRunsConstants
  <1> USE DEF startSyncRun_create, createSyncRun
  <1>1. TypeOK'
    BY DEF IInv, TypeOK, StoreTypeOK, RunRow, StartStep, RunStatus, ActiveStatus
  <1>2. RowsAndRuns' /\ RunAgreesWithRow' /\ CancelledRunIsQuiet'
    BY DEF IInv, TypeOK, StoreTypeOK, RunRow, RowsAndRuns, RunAgreesWithRow,
           CancelledRunIsQuiet, RunExists, NoRun, RunStatus, ActiveStatus
  <1>3. ExecsHaveRuns' /\ ClaimIsNotLeaked'
    BY DEF IInv, ExecsHaveRuns, ClaimIsNotLeaked, Holds
  <1> QED BY <1>1, <1>2, <1>3 DEF IInv

\* startSyncRun: the kick row is the new run's only row.
LEMMA EnqueueInv ==
  ASSUME IInv, NEW r \in Runs, NEW e \in Execs, startSyncRun_enqueue(r, e)
  PROVE  IInv'
  <1> USE NoneIsNull, SyncRunsConstants
  <1> USE DEF startSyncRun_enqueue, Spawn
  <1>0. work[r].status = "absent" /\ RunExists(r)
    BY DEF IInv, RowsAndRuns, enqueueSyncWork, EnqueueThrows
  <1>1. /\ work' = [work EXCEPT ![r] = PendingRow(r, TRUE)]
        /\ run' = [run EXCEPT ![r].total = @ + 1]
    BY <1>0 DEF enqueueSyncWork
  <1>2. TypeOK'
    BY <1>1 DEF IInv, TypeOK, StoreTypeOK, WorkRow, RunRow, PendingRow, WorkStatus,
                OpenStatus, StartStep, Exec, ExecStep, Outcomes
  <1>3. RowsAndRuns' /\ RunAgreesWithRow' /\ CancelledRunIsQuiet'
    BY <1>0, <1>1
    DEF IInv, TypeOK, StoreTypeOK, WorkRow, RunRow, PendingRow, NoRun, RowsAndRuns,
        RunAgreesWithRow, CancelledRunIsQuiet, RunExists, RunStatus, ActiveStatus,
        TerminalStatus
  <1>4. ExecsHaveRuns' /\ ClaimIsNotLeaked'
    BY <1>0, <1>1
    DEF IInv, TypeOK, StoreTypeOK, WorkRow, PendingRow, ExecsHaveRuns,
        ClaimIsNotLeaked, Holds, Holding, Exec
  <1> QED BY <1>2, <1>3, <1>4 DEF IInv

\* startSyncRun: an enqueue of a deleted run leaves the store alone.
LEMMA ThrowInv ==
  ASSUME IInv, NEW r \in Runs, startSyncRun_throw(r)
  PROVE  IInv'
  BY DEF startSyncRun_throw, IInv, TypeOK, StoreTypeOK, StartStep, RowsAndRuns,
         ExecsHaveRuns, RunAgreesWithRow, CancelledRunIsQuiet, ClaimIsNotLeaked,
         Holds, RunExists, EnqueueThrows, NoRun

\* Pause, resume and cancel, whether or not they apply to the run's status.
LEMMA CommandFacts ==
  ASSUME IInv, NEW r \in Runs, NEW c \in {"pause", "resume", "cancel"},
         commandSyncRun(r, c), UNCHANGED start
  PROVE  /\ StoreTypeOK' /\ RowsAndRuns' /\ RunAgreesWithRow' /\ CancelledRunIsQuiet'
         /\ \A x \in Execs, w \in Runs : Holds(x, w)' => Holds(x, w)
  <1> USE NoneIsNull, SyncRunsConstants
  <1> DEFINE next == CommandedStatus(run[r].status, c)
  <1>1. /\ run' = [run EXCEPT ![r].status = next]
        /\ run[r].status \in RunStatus
    BY DEF commandSyncRun, RunExists
  <1>2. /\ next \in RunStatus
        /\ next \in {"succeeded", "failed"} => run[r].status = next
    BY <1>1 DEF CommandedStatus, RunStatus, ActiveStatus, TerminalStatus
  <1>3. CASE next = "cancelled" /\ run[r].status # "cancelled"
    <2> HIDE DEF next
    <2>1. work' = CancelledWork(r)
      BY <1>3 DEF commandSyncRun, next
    <2>2. \A w \in Runs :
            /\ work'[w].run = work[w].run
            /\ \/ work'[w] = work[w] /\ (w = r => work[w].run = None \/ work[w].status \notin OpenStatus)
               \/ w = r /\ work[w].status \in OpenStatus
                        /\ work'[w].status = "cancelled" /\ work'[w].owner = None
      <3> TAKE w \in Runs
      <3>1. CASE w \in OpenWorkOf(r, work)
        <4>1. work'[w] = CancelledRow(work[w])
          BY <2>1, <3>1 DEF CancelledWork
        <4> QED BY <4>1, <3>1 DEF CancelledRow, OpenWorkOf, IInv, RowsAndRuns
      <3>2. CASE w \notin OpenWorkOf(r, work)
        <4>1. work'[w] = work[w]
          BY <2>1, <3>2 DEF CancelledWork
        <4> QED BY <4>1, <3>2 DEF OpenWorkOf, IInv, RowsAndRuns
      <3> QED BY <3>1, <3>2
    <2>3. StoreTypeOK'
      <3>1. work' \in [Works -> WorkRow]
        BY <2>1 DEF CancelledWork, CancelledRow, IInv, TypeOK, StoreTypeOK, WorkRow, WorkStatus
      <3> QED BY <3>1, <1>1, <1>2 DEF IInv, TypeOK, StoreTypeOK, RunRow
    <2>4. RowsAndRuns'
      BY <1>1, <1>2, <1>3, <2>2
      DEF IInv, TypeOK, StoreTypeOK, WorkRow, RunRow, RowsAndRuns, RunExists, NoRun,
          RunStatus, ActiveStatus, TerminalStatus, OpenStatus
    <2>5. RunAgreesWithRow' /\ CancelledRunIsQuiet'
      BY <1>1, <1>2, <1>3, <2>2
      DEF IInv, TypeOK, StoreTypeOK, WorkRow, RunRow, RowsAndRuns, RunExists,
          RunAgreesWithRow, CancelledRunIsQuiet, OpenStatus, RunStatus, TerminalStatus
    <2>6. \A x \in Execs, w \in Runs : Holds(x, w)' => Holds(x, w)
      BY <2>2 DEF Holds
    <2> QED BY <2>3, <2>4, <2>5, <2>6
  <1>4. CASE ~(next = "cancelled" /\ run[r].status # "cancelled")
    <2> HIDE DEF next
    <2>1. work' = work
      BY <1>4 DEF commandSyncRun, next
    <2>2. StoreTypeOK'
      BY <1>1, <1>2, <2>1 DEF IInv, TypeOK, StoreTypeOK, RunRow
    <2>3. RowsAndRuns' /\ RunAgreesWithRow' /\ CancelledRunIsQuiet'
      BY <1>1, <1>2, <1>4, <2>1
      DEF IInv, TypeOK, StoreTypeOK, RunRow, RowsAndRuns, RunExists, NoRun,
          RunAgreesWithRow, CancelledRunIsQuiet, RunStatus, ActiveStatus, TerminalStatus
    <2> QED BY <2>1, <2>2, <2>3 DEF Holds
  <1> QED BY <1>3, <1>4

\* commandSyncRun: the run's status and its rows' change together.
LEMMA CommandInv ==
  ASSUME IInv, NEW r \in Runs, NEW c \in Commands, userCommand(r, c)
  PROVE  IInv'
  <1>1. /\ StoreTypeOK' /\ RowsAndRuns' /\ RunAgreesWithRow' /\ CancelledRunIsQuiet'
        /\ \A x \in Execs, w \in Runs : Holds(x, w)' => Holds(x, w)
    BY CommandFacts, SyncRunsConstants DEF userCommand
  <1> QED BY <1>1 DEF userCommand, IInv, TypeOK, ExecsHaveRuns, ClaimIsNotLeaked

\* Spawning an executor for a run disturbs nothing else.
LEMMA SpawnInv ==
  ASSUME TypeOK, ClaimIsNotLeaked, ExecsHaveRuns,
         NEW r \in Runs, NEW e \in Execs, Spawn(e, r)
  PROVE  /\ exec' \in [Execs -> Exec]
         /\ \A x \in Execs : exec'[x].pc # "free" => exec'[x].run \in Runs
         /\ \A x \in Execs, w \in Runs : Holds(x, w) =>
               exec'[x].run = w /\ exec'[x].pc \in Holding \cup {"dead"}
  BY DEF Spawn, TypeOK, Exec, ExecStep, Outcomes, ClaimIsNotLeaked, ExecsHaveRuns, Holding

\* commandSyncRun: the executor that resume starts holds nothing yet.
LEMMA ResumeInv ==
  ASSUME IInv, NEW r \in Runs, NEW e \in Execs, userResume(r, e)
  PROVE  IInv'
  <1>1. /\ StoreTypeOK' /\ RowsAndRuns' /\ RunAgreesWithRow' /\ CancelledRunIsQuiet'
        /\ \A x \in Execs, w \in Runs : Holds(x, w)' => Holds(x, w)
    BY CommandFacts DEF userResume
  <1>2. /\ exec' \in [Execs -> Exec]
        /\ \A x \in Execs : exec'[x].pc # "free" => exec'[x].run \in Runs
        /\ \A x \in Execs, w \in Runs : Holds(x, w) =>
              exec'[x].run = w /\ exec'[x].pc \in Holding \cup {"dead"}
    BY SpawnInv DEF userResume, IInv
  <1> QED BY <1>1, <1>2 DEF userResume, IInv, TypeOK, ExecsHaveRuns, ClaimIsNotLeaked

\* deleteSyncRun: the run goes with its rows; its number is not used again.
LEMMA DeleteInv ==
  ASSUME IInv, NEW r \in Runs, userDelete(r)
  PROVE  IInv'
  <1> USE NoneIsNull, SyncRunsConstants
  <1> USE DEF userDelete, deleteSyncRun
  <1>1. \A w \in Runs : work'[w] = IF w = r THEN UnassignedRow(work[w]) ELSE work[w]
    <2>1. \A w \in Runs : work[w] \in WorkRow
      BY DEF IInv, TypeOK, StoreTypeOK
    <2>2. \A w \in Runs : work[w].run = None => work[w] = UnassignedRow(work[w])
      BY <2>1 DEF WorkRow, UnassignedRow
    <2> QED BY <2>1, <2>2 DEF IInv, RowsAndRuns
  <1>2. TypeOK'
    <2>1. work' \in [Works -> WorkRow]
      BY DEF UnassignedRow, IInv, TypeOK, StoreTypeOK, WorkRow
    <2> QED BY <2>1 DEF IInv, TypeOK, StoreTypeOK, RunRow
  <1>3. RowsAndRuns' /\ RunAgreesWithRow' /\ CancelledRunIsQuiet'
    BY <1>1
    DEF UnassignedRow, IInv, TypeOK, StoreTypeOK, WorkRow, RunRow, RowsAndRuns, RunExists, NoRun,
        RunAgreesWithRow, CancelledRunIsQuiet, RunStatus, ActiveStatus, TerminalStatus
  <1>4. ExecsHaveRuns' /\ ClaimIsNotLeaked'
    BY <1>1 DEF UnassignedRow, IInv, TypeOK, StoreTypeOK, WorkRow, ExecsHaveRuns, ClaimIsNotLeaked, Holds
  <1> QED BY <1>2, <1>3, <1>4 DEF IInv

\* Claiming row w, field by field.
LEMMA ClaimFacts ==
  ASSUME IInv, NEW w \in Runs, NEW o \in Owners, claimSyncWork(o, {w})
  PROVE  /\ work' \in [Works -> WorkRow]
         /\ run' \in [Runs -> RunRow]
         /\ Claimable(w)
         /\ work'[w].status = "running" /\ work'[w].owner = o /\ work'[w].run = work[w].run
         /\ \A v \in Runs \ {w} : work'[v] = work[v]
         /\ \A r \in Runs :
                \/ run'[r] = run[r]
                \/ run[r].status = "queued" /\ run'[r] = RunWith(run[r], "running")
  <1> USE NoneIsNull, SyncRunsConstants DEF claimSyncWork
  <1>0. work \in [Works -> WorkRow] /\ run \in [Runs -> RunRow]
    BY DEF IInv, TypeOK, StoreTypeOK
  <1>1. work' \in [Works -> WorkRow]
    BY <1>0 DEF LeasedRow, WorkRow, WorkStatus, OpenStatus
  <1>2. run' \in [Runs -> RunRow]
    BY <1>0 DEF RunWith, RunRow, RunStatus, ActiveStatus
  <1>3. work'[w] = LeasedRow(work[w], o) /\ \A v \in Runs \ {w} : work'[v] = work[v]
    BY <1>0
  <1>4. \A r \in Runs :
            \/ run'[r] = run[r]
            \/ run[r].status = "queued" /\ run'[r] = RunWith(run[r], "running")
    BY <1>0
  <1> QED BY <1>1, <1>2, <1>3, <1>4 DEF LeasedRow

\* A claim keeps what relates rows to runs.
LEMMA ClaimKeepsRuns ==
  ASSUME IInv, NEW w \in Runs, NEW o \in Owners, claimSyncWork(o, {w}), UNCHANGED start
  PROVE  RowsAndRuns' /\ RunAgreesWithRow' /\ CancelledRunIsQuiet'
  <1> USE NoneIsNull, SyncRunsConstants
  <1>0. /\ Claimable(w)
        /\ work'[w].status = "running" /\ work'[w].run = work[w].run
        /\ \A v \in Runs \ {w} : work'[v] = work[v]
        /\ \A r \in Runs :
               \/ run'[r] = run[r]
               \/ run[r].status = "queued" /\ run'[r] = RunWith(run[r], "running")
    BY ClaimFacts
  <1>1. \A r \in Runs : /\ run[r].status = "absent" <=> run'[r].status = "absent"
                        /\ RunExists(r) <=> RunExists(r)'
                        /\ run'[r].status \in TerminalStatus => run'[r] = run[r]
                        /\ run'[r].total = run[r].total
                        /\ run'[r].completed = run[r].completed
                        /\ run'[r].failed = run[r].failed
    <2> TAKE r \in Runs
    <2>1. CASE run'[r] = run[r]
      BY <2>1 DEF RunExists
    <2>2. CASE run[r].status = "queued" /\ run'[r] = RunWith(run[r], "running")
      BY <2>2 DEF RunWith, RunExists, RunStatus, ActiveStatus, TerminalStatus
    <2> QED BY <1>0, <2>1, <2>2
  <1>2. /\ work[w].status \in OpenStatus
        /\ run[w].status # "cancelled"
        /\ RunExists(w) => run[w].status \in ActiveStatus
    BY <1>0 DEF Claimable, IInv, RowsAndRuns, RunExists, OpenStatus, RunStatus, ActiveStatus,
           TerminalStatus
  <1>3. RowsAndRuns'
    BY <1>0, <1>1, <1>2 DEF IInv, RowsAndRuns, OpenStatus, NoRun
  <1>4. RunAgreesWithRow'
    BY <1>0, <1>1, <1>2 DEF IInv, RunAgreesWithRow, OpenStatus, TerminalStatus
  <1>5. CancelledRunIsQuiet'
    BY <1>0, <1>1, <1>2 DEF IInv, CancelledRunIsQuiet, TerminalStatus
  <1> QED BY <1>3, <1>4, <1>5

\* Settling row w while o holds it, field by field.
LEMMA SettleFacts ==
  ASSUME IInv, NEW w \in Runs, NEW o \in Owners, NEW outcome \in Outcomes,
         NEW due \in BOOLEAN, Holds(o, w), settleSyncWork(o, w, outcome, due)
  PROVE  /\ work' \in [Works -> WorkRow]
         /\ run' \in [Runs -> RunRow]
         /\ work'[w].status = (IF outcome = "retry" THEN "pending" ELSE outcome)
         /\ work'[w].owner = None /\ work'[w].run = work[w].run
         /\ \A v \in Runs \ {w} : work'[v] = work[v] /\ run'[v] = run[v]
         /\ work[w].run = None \/ outcome = "retry" => run'[w] = run[w]
         /\ work[w].run # None /\ outcome # "retry" =>
               run'[w] \in {CountedRun(run[w], outcome),
                            FinishedRun(CountedRun(run[w], outcome))}
  <1> USE NoneIsNull, SyncRunsConstants
  <1>0. work \in [Works -> WorkRow] /\ run \in [Runs -> RunRow] /\ work[w].run \in {w, None}
    BY DEF IInv, TypeOK, StoreTypeOK, RowsAndRuns
  <1>1. work' = SettledWork(w, outcome, due)
    BY DEF settleSyncWork
  <1>2. /\ work' \in [Works -> WorkRow]
        /\ work'[w].status = (IF outcome = "retry" THEN "pending" ELSE outcome)
        /\ work'[w].owner = None /\ work'[w].run = work[w].run
        /\ \A v \in Runs \ {w} : work'[v] = work[v]
    BY <1>0, <1>1 DEF SettledWork, WorkRow, WorkStatus, OpenStatus, Outcomes
  <1>3. CASE work[w].run = None \/ outcome = "retry"
    <2>1. run' = run
      BY <1>3 DEF settleSyncWork
    <2> QED BY <1>0, <1>2, <1>3, <2>1
  <1>4. CASE work[w].run = w /\ outcome # "retry"
    <2> DEFINE counted == CountedRun(run[w], outcome)
    <2>1. run' = [run EXCEPT ![w] = IF OpenWorkOf(w, SettledWork(w, outcome, due)) = {}
                                    THEN FinishedRun(counted) ELSE counted]
      BY <1>4 DEF settleSyncWork
    <2>2. counted \in RunRow /\ FinishedRun(counted) \in RunRow
      BY <1>0 DEF CountedRun, FinishedRun, RunWith, RunRow, RunStatus, TerminalStatus
    <2> HIDE DEF counted
    <2>3. run' \in [Runs -> RunRow] /\ run'[w] \in {counted, FinishedRun(counted)}
          /\ \A v \in Runs \ {w} : run'[v] = run[v]
      BY <1>0, <2>1, <2>2
    <2> QED BY <1>2, <1>4, <2>3 DEF counted
  <1> QED BY <1>0, <1>3, <1>4

\* A settle keeps what relates rows to runs.
LEMMA SettleKeepsRuns ==
  ASSUME IInv, NEW w \in Runs, NEW o \in Owners, NEW outcome \in Outcomes,
         NEW due \in BOOLEAN, Holds(o, w), settleSyncWork(o, w, outcome, due), UNCHANGED start
  PROVE  RowsAndRuns' /\ RunAgreesWithRow' /\ CancelledRunIsQuiet'
  <1> USE NoneIsNull, SyncRunsConstants, SettleFacts
  <1>1. /\ run[w] \in RunRow
        /\ work[w].status = "running"
        /\ run[w].status # "cancelled"
        /\ RunExists(w) => /\ run[w].status \notin TerminalStatus
                           /\ run[w].completed = 0 /\ run[w].failed = 0 /\ run[w].total = 1
        /\ work[w].run = None => ~RunExists(w)
        /\ work[w].run # None => work[w].run = w /\ RunExists(w)
    BY DEF Holds, IInv, TypeOK, StoreTypeOK, RowsAndRuns, RunAgreesWithRow,
           CancelledRunIsQuiet, TerminalStatus
  <1>2. /\ run'[w].status = "absent" <=> run[w].status = "absent"
        /\ RunExists(w)' <=> RunExists(w)
        /\ run'[w].status # "cancelled"
        /\ RunExists(w) =>
              /\ run'[w].total = 1
              /\ run'[w].completed = IF outcome = "succeeded" THEN 1 ELSE 0
              /\ run'[w].failed = IF outcome = "failed" THEN 1 ELSE 0
              /\ run'[w].status \in TerminalStatus => run'[w].status = outcome
    <2>1. CASE work[w].run = None \/ outcome = "retry"
      BY <1>1, <2>1 DEF RunExists, Outcomes, TerminalStatus
    <2>2. CASE work[w].run # None /\ outcome # "retry"
      BY <1>1, <2>2 DEF CountedRun, FinishedRun, RunWith, RunExists, RunRow, Outcomes,
                        RunStatus, ActiveStatus, TerminalStatus
    <2> QED BY <2>1, <2>2
  <1>3. RowsAndRuns'
    BY <1>1, <1>2 DEF IInv, RowsAndRuns, RunExists, Outcomes, NoRun, RunStatus
  <1>4. RunAgreesWithRow'
    BY <1>1, <1>2 DEF IInv, RunAgreesWithRow, RunExists, Outcomes, TerminalStatus
  <1>5. CancelledRunIsQuiet'
    BY <1>1, <1>2 DEF IInv, CancelledRunIsQuiet
  <1> QED BY <1>3, <1>4, <1>5

\* executeDurableSyncRun: a claim marks the row and the run in one step.
LEMMA ExecClaimInv ==
  ASSUME IInv, NEW e \in Execs, execClaim(e)
  PROVE  IInv'
  <1> USE NoneIsNull, SyncRunsConstants
  <1> DEFINE r == exec[e].run
  <1>0. r \in Runs /\ exec[e].pc = "claim" /\ e \in Owners
    BY DEF execClaim, IInv, ExecsHaveRuns
  <1>1. CASE claimSyncWork(e, {r}) /\ Goto(e, "execute")
    <2> HIDE DEF r
    <2>1. RowsAndRuns' /\ RunAgreesWithRow' /\ CancelledRunIsQuiet'
      BY <1>0, <1>1, ClaimKeepsRuns DEF execClaim
    <2>2. /\ work' \in [Works -> WorkRow] /\ run' \in [Runs -> RunRow]
          /\ work'[r].owner = e
          /\ \A v \in Runs \ {r} : work'[v] = work[v]
      BY <1>0, <1>1, ClaimFacts
    <2>3. TypeOK'
      BY <1>1, <2>2 DEF execClaim, Goto, IInv, TypeOK, StoreTypeOK, Exec, ExecStep
    <2>4. ExecsHaveRuns' /\ ClaimIsNotLeaked'
      BY <1>0, <1>1, <2>2
      DEF r, Goto, IInv, TypeOK, Exec, ExecsHaveRuns, ClaimIsNotLeaked, Holds, Holding
    <2> QED BY <2>1, <2>3, <2>4 DEF IInv
  <1>2. CASE Goto(e, "done") /\ UNCHANGED storeVars
    BY <1>0, <1>2
    DEF execClaim, Goto, storeVars, IInv, TypeOK, StoreTypeOK, Exec, ExecStep, RowsAndRuns,
        ExecsHaveRuns, RunAgreesWithRow, CancelledRunIsQuiet, ClaimIsNotLeaked, Holds,
        Holding, RunExists
  <1> QED BY <1>1, <1>2 DEF execClaim

\* executeDurableSyncRun: each way to settle keeps the counts and the status in step.
LEMMA ExecSettleInv ==
  ASSUME IInv, NEW e \in Execs, execSettle(e)
  PROVE  IInv'
  <1> USE NoneIsNull, SyncRunsConstants
  <1> DEFINE r == exec[e].run
             outcome == exec[e].outcome
  <1>0. /\ r \in Runs /\ e \in Owners /\ outcome \in Outcomes
        /\ settleSyncWork(e, r, outcome, TRUE)
        /\ exec' = [exec EXCEPT ![e].pc = "done"] /\ UNCHANGED start
    BY DEF execSettle, Goto, IInv, TypeOK, Exec, ExecsHaveRuns
  <1>1. exec' \in [Execs -> Exec] /\ ExecsHaveRuns'
    BY <1>0 DEF IInv, TypeOK, Exec, ExecStep, ExecsHaveRuns
  <1>2. CASE Holds(e, r)
    <2> HIDE DEF r, outcome
    <2>1. RowsAndRuns' /\ RunAgreesWithRow' /\ CancelledRunIsQuiet'
      BY <1>0, <1>2, SettleKeepsRuns
    <2>2. /\ work' \in [Works -> WorkRow] /\ run' \in [Runs -> RunRow]
          /\ work'[r].owner = None
          /\ \A v \in Runs \ {r} : work'[v] = work[v]
      BY <1>0, <1>2, SettleFacts
    <2>3. ClaimIsNotLeaked'
      BY <1>0, <1>2, <2>2 DEF r, IInv, TypeOK, Exec, ClaimIsNotLeaked, Holds
    <2> QED BY <1>0, <1>1, <2>1, <2>2, <2>3 DEF IInv, TypeOK, StoreTypeOK
  <1>3. CASE ~Holds(e, r)
    <2>1. UNCHANGED storeVars
      BY <1>0, <1>3 DEF settleSyncWork
    <2>2. ClaimIsNotLeaked'
      BY <1>0, <1>3, <2>1 DEF storeVars, IInv, TypeOK, Exec, ClaimIsNotLeaked, Holds
    <2> QED
      BY <1>0, <1>1, <2>1, <2>2
      DEF storeVars, IInv, TypeOK, StoreTypeOK, RowsAndRuns, RunAgreesWithRow,
          CancelledRunIsQuiet, RunExists
  <1> QED BY <1>2, <1>3

\* The steps of an executor that only read.
LEMMA ExecReadInv ==
  ASSUME IInv, NEW e \in Execs, execRead(e) \/ execExecute(e) \/ execReread(e)
  PROVE  IInv'
  <1> USE NoneIsNull, SyncRunsConstants
  <1>1. UNCHANGED <<work, run, start>>
    BY DEF execRead, execExecute, execReread
  <1>2. exec' \in [Execs -> Exec] /\ ExecsHaveRuns'
    BY DEF execRead, execExecute, execReread, Goto, IInv, TypeOK, Exec, ExecStep, Outcomes,
           ExecsHaveRuns
  <1>3. ClaimIsNotLeaked'
    <2>1. CASE execRead(e) \/ execExecute(e)
      BY <1>1, <2>1
      DEF execRead, execExecute, Goto, IInv, TypeOK, Exec, ClaimIsNotLeaked, Holds, Holding
    <2>2. CASE execReread(e)
      BY <1>1, <2>2
      DEF execReread, IInv, TypeOK, Exec, ClaimIsNotLeaked, CancelledRunIsQuiet, Holds, Holding
    <2> QED BY <2>1, <2>2
  <1> QED
    BY <1>1, <1>2, <1>3
    DEF IInv, TypeOK, StoreTypeOK, RowsAndRuns, RunAgreesWithRow, CancelledRunIsQuiet, RunExists

\* The background planes claim and settle rows like an executor does.
LEMMA DaemonInv ==
  ASSUME IInv, NEW w \in Works, daemonClaim(w) \/ daemonSettle(w)
  PROVE  IInv'
  <1> USE NoneIsNull, SyncRunsConstants
  <1>0. Daemon \in Owners /\ w \in Runs /\ UNCHANGED <<start, exec>>
    BY DEF daemonClaim, daemonSettle
  <1>1. CASE daemonClaim(w)
    <2>1. RowsAndRuns' /\ RunAgreesWithRow' /\ CancelledRunIsQuiet'
      BY <1>0, <1>1, ClaimKeepsRuns DEF daemonClaim
    <2>2. /\ work' \in [Works -> WorkRow] /\ run' \in [Runs -> RunRow]
          /\ work'[w].owner = Daemon
          /\ \A v \in Runs \ {w} : work'[v] = work[v]
      BY <1>0, <1>1, ClaimFacts DEF daemonClaim
    <2>3. ExecsHaveRuns' /\ ClaimIsNotLeaked'
      BY <1>0, <2>2 DEF IInv, ExecsHaveRuns, ClaimIsNotLeaked, Holds
    <2> QED BY <1>0, <2>1, <2>2, <2>3 DEF IInv, TypeOK, StoreTypeOK
  <1>2. CASE daemonSettle(w)
    <2>0. PICK outcome \in Outcomes, due \in BOOLEAN :
            settleSyncWork(Daemon, w, outcome, due)
      BY <1>2 DEF daemonSettle, Outcomes
    <2>1. RowsAndRuns' /\ RunAgreesWithRow' /\ CancelledRunIsQuiet'
      BY <1>0, <1>2, <2>0, SettleKeepsRuns DEF daemonSettle
    <2>2. /\ work' \in [Works -> WorkRow] /\ run' \in [Runs -> RunRow]
          /\ work'[w].owner = None
          /\ \A v \in Runs \ {w} : work'[v] = work[v]
      BY <1>0, <1>2, <2>0, SettleFacts DEF daemonSettle
    <2>3. ExecsHaveRuns' /\ ClaimIsNotLeaked'
      BY <1>0, <2>2 DEF IInv, ExecsHaveRuns, ClaimIsNotLeaked, Holds
    <2> QED BY <1>0, <2>1, <2>2, <2>3 DEF IInv, TypeOK, StoreTypeOK
  <1> QED BY <1>1, <1>2

\* A claim that expires changes no status.
LEMMA ClockInv ==
  ASSUME IInv, NEW w \in Works, clock(w)
  PROVE  IInv'
  <1> USE NoneIsNull, SyncRunsConstants
  <1>1. /\ UNCHANGED <<run, start, exec>>
        /\ work' \in [Works -> WorkRow]
        /\ \A v \in Runs : /\ work'[v].status = work[v].status
                           /\ work'[v].run = work[v].run
                           /\ work'[v].owner = work[v].owner
    <2>0. work \in [Works -> WorkRow] /\ UNCHANGED <<run, start, exec>>
      BY DEF IInv, TypeOK, StoreTypeOK, clock, ComesDue, LeaseExpires
    <2>1. \/ work' = [work EXCEPT ![w].due = TRUE]
          \/ work' = [work EXCEPT ![w].fresh = FALSE]
      BY DEF clock, ComesDue, LeaseExpires
    <2>2. work' \in [Works -> WorkRow]
      <3>1. work[w] \in WorkRow
        BY <2>0
      <3>2. /\ [work[w] EXCEPT !.due = TRUE] \in WorkRow
            /\ [work[w] EXCEPT !.fresh = FALSE] \in WorkRow
        BY <3>1, Zenon DEF WorkRow
      <3> QED BY <2>0, <2>1, <3>2
    <2>3. \A v \in Runs : /\ work'[v].status = work[v].status
                          /\ work'[v].run = work[v].run
                          /\ work'[v].owner = work[v].owner
      BY <2>0, <2>1 DEF WorkRow
    <2> QED BY <2>0, <2>2, <2>3
  <1> QED
    BY <1>1
    DEF IInv, TypeOK, StoreTypeOK, RowsAndRuns, ExecsHaveRuns, RunAgreesWithRow,
        CancelledRunIsQuiet, ClaimIsNotLeaked, Holds, RunExists

\* A restart forgets the executors, not the rows.
LEMMA CrashInv ==
  ASSUME IInv, crash
  PROVE  IInv'
  <1>0. TypeOK'
    <2>1. start' \in [Runs -> StartStep]
      BY DEF crash, IInv, TypeOK, StartStep
    <2>2. \A e \in Execs : exec[e] \in Exec /\ [exec[e] EXCEPT !.pc = "dead"] \in Exec
      BY DEF IInv, TypeOK, Exec, ExecStep
    <2>3. exec' \in [Execs -> Exec]
      BY <2>2 DEF crash
    <2> QED BY <2>1, <2>3 DEF crash, IInv, TypeOK, StoreTypeOK
  <1>1. RowsAndRuns' /\ RunAgreesWithRow' /\ CancelledRunIsQuiet'
    BY DEF crash, IInv, TypeOK, StartStep, RowsAndRuns, RunAgreesWithRow,
           CancelledRunIsQuiet, RunExists
  <1>2. ExecsHaveRuns' /\ ClaimIsNotLeaked'
    BY DEF crash, IInv, TypeOK, Exec, ExecsHaveRuns, ClaimIsNotLeaked, Holds, Holding
  <1> QED BY <1>0, <1>1, <1>2 DEF IInv

-----------------------------------------------------------------------------

\* Every step keeps the invariant: one case per action.
LEMMA NextInv == IInv /\ [Next]_vars => IInv'
  <1> SUFFICES ASSUME IInv, [Next]_vars PROVE IInv'
    OBVIOUS
  <1>1. ASSUME NEW r \in Runs, startSyncRun_create(r) \/ startSyncRun_throw(r) \/ userDelete(r)
        PROVE  IInv'
    BY <1>1, CreateInv, ThrowInv, DeleteInv
  <1>2. ASSUME NEW r \in Runs, NEW e \in Execs, startSyncRun_enqueue(r, e)
        PROVE  IInv'
    BY <1>2, EnqueueInv
  <1>3. ASSUME NEW r \in Runs, NEW e \in Execs, userResume(r, e)
        PROVE  IInv'
    BY <1>3, ResumeInv
  <1>4. ASSUME NEW r \in Runs, NEW c \in Commands, userCommand(r, c)
        PROVE  IInv'
    BY <1>4, CommandInv
  <1>5. ASSUME NEW e \in Execs, execStep(e)
        PROVE  IInv'
    BY <1>5, ExecReadInv, ExecClaimInv, ExecSettleInv DEF execStep
  <1>6. ASSUME NEW w \in Works, daemonClaim(w) \/ daemonSettle(w) \/ clock(w)
        PROVE  IInv'
    BY <1>6, DaemonInv, ClockInv
  <1>7. CASE UNCHANGED vars
    BY <1>7
    DEF vars, IInv, TypeOK, StoreTypeOK, RowsAndRuns, ExecsHaveRuns, RunAgreesWithRow,
        CancelledRunIsQuiet, ClaimIsNotLeaked, Holds, RunExists
  <1> QED
    BY <1>1, <1>2, <1>3, <1>4, <1>5, <1>6, <1>7, CrashInv DEF Next

\* The invariant holds in every reachable state.
LEMMA Invariance == Spec => []IInv
  BY InitInv, NextInv, PTL DEF Spec

\* The tables and the executors keep their types.
THEOREM TypeCorrect == Spec => []TypeOK
  <1>1. IInv => TypeOK
    BY DEF IInv
  <1> QED BY <1>1, Invariance, PTL

\* What the user sees of a run (counters, final status) is what its kick row
\* was settled to, once, whatever executors, commands and crashes interleave.
THEOREM RunsAgree == Spec => []RunAgreesWithRow
  <1>1. IInv => RunAgreesWithRow
    BY DEF IInv
  <1> QED BY <1>1, Invariance, PTL

\* Cancelling a run takes its row away for good.
THEOREM CancelHolds == Spec => []CancelledRunIsQuiet
  <1>1. IInv => CancelledRunIsQuiet
    BY DEF IInv
  <1> QED BY <1>1, Invariance, PTL

\* No early return of an executor leaks its claim.
THEOREM NoLeak == Spec => []ClaimIsNotLeaked
  <1>1. IInv => ClaimIsNotLeaked
    BY DEF IInv
  <1> QED BY <1>1, Invariance, PTL

\* No step changes a run that has finished, one case per action.
LEMMA NextIsFrozen == IInv /\ [Next]_vars => [FrozenStep]_vars
  <1> SUFFICES ASSUME IInv, Next PROVE FrozenStep
    BY DEF vars
  <1> USE NoneIsNull, SyncRunsConstants
  <1>0. run \in [Runs -> RunRow]
    BY DEF IInv, TypeOK, StoreTypeOK
  <1>1. ASSUME run' = run PROVE FrozenStep
    BY <1>1 DEF FrozenStep
  <1>2. ASSUME NEW r \in Runs, createSyncRun(r) PROVE FrozenStep
    BY <1>0, <1>2 DEF createSyncRun, FrozenStep, RunRow, TerminalStatus
  <1>3. ASSUME NEW r \in Runs, deleteSyncRun(r) PROVE FrozenStep
    BY <1>0, <1>3 DEF deleteSyncRun, FrozenStep, RunRow, TerminalStatus
  <1>4. ASSUME NEW r \in Runs, NEW c \in {"pause", "resume", "cancel"}, commandSyncRun(r, c)
        PROVE  FrozenStep
    <2>1. run[r].status \in TerminalStatus => CommandedStatus(run[r].status, c) = run[r].status
      BY DEF CommandedStatus, TerminalStatus, ActiveStatus
    <2>2. run' = [run EXCEPT ![r].status = CommandedStatus(run[r].status, c)]
      BY <1>4 DEF commandSyncRun
    <2> QED BY <1>0, <2>1, <2>2 DEF FrozenStep, RunRow
  <1>5. ASSUME NEW r \in Runs, NEW e \in Execs, startSyncRun_enqueue(r, e) PROVE FrozenStep
    <2>1. run' = [run EXCEPT ![r].total = @ + 1]
      BY <1>5 DEF startSyncRun_enqueue, enqueueSyncWork, IInv, RowsAndRuns
    <2> QED BY <1>0, <2>1 DEF FrozenStep, RunRow
  <1>6. ASSUME NEW w \in Runs, NEW o \in Owners, claimSyncWork(o, {w}) PROVE FrozenStep
    <2>1. \A r \in Runs :
            \/ run'[r] = run[r]
            \/ run[r].status = "queued" /\ run'[r] = RunWith(run[r], "running")
      BY <1>6, ClaimFacts
    <2> QED BY <2>1 DEF FrozenStep, TerminalStatus
  <1>7. ASSUME NEW w \in Runs, NEW o \in Owners, NEW outcome \in Outcomes,
               NEW due \in BOOLEAN, settleSyncWork(o, w, outcome, due)
        PROVE  FrozenStep
    <2>1. CASE ~Holds(o, w)
      BY <1>1, <1>7, <2>1 DEF settleSyncWork, storeVars
    <2>2. CASE Holds(o, w)
      <3>1. /\ \A v \in Runs \ {w} : run'[v] = run[v]
            /\ work[w].run = None => run'[w] = run[w]
        BY <1>7, <2>2, SettleFacts
      <3>2. run[w].status \in TerminalStatus => work[w].run = None
        BY <2>2 DEF Holds, IInv, RowsAndRuns, RunAgreesWithRow, CancelledRunIsQuiet,
                    RunExists, RunStatus, TerminalStatus
      <3> QED BY <3>1, <3>2 DEF FrozenStep
    <2> QED BY <2>1, <2>2
  <1>8. ASSUME NEW e \in Execs, execStep(e) PROVE FrozenStep
    <2>1. CASE execRead(e) \/ execExecute(e) \/ execReread(e)
      BY <1>1, <2>1 DEF execRead, execExecute, execReread
    <2>2. CASE execClaim(e)
      <3>1. exec[e].run \in Runs /\ e \in Owners
        BY <2>2 DEF execClaim, IInv, ExecsHaveRuns
      <3> QED BY <1>1, <1>6, <2>2, <3>1 DEF execClaim, storeVars
    <2>3. CASE execSettle(e)
      <3>1. exec[e].run \in Runs /\ e \in Owners /\ exec[e].outcome \in Outcomes
        BY <2>3 DEF execSettle, IInv, ExecsHaveRuns, TypeOK, Exec
      <3> QED BY <1>7, <2>3, <3>1 DEF execSettle
    <2> QED BY <1>8, <2>1, <2>2, <2>3 DEF execStep
  <1>9. ASSUME NEW w \in Works, daemonClaim(w) \/ daemonSettle(w) \/ clock(w) PROVE FrozenStep
    <2>1. CASE daemonClaim(w)
      BY <1>6, <2>1 DEF daemonClaim
    <2>2. CASE daemonSettle(w)
      BY <1>7, <2>2 DEF daemonSettle, Outcomes
    <2>3. CASE clock(w)
      BY <1>1, <2>3 DEF clock, ComesDue, LeaseExpires
    <2> QED BY <1>9, <2>1, <2>2, <2>3
  <1> QED
    BY <1>1, <1>2, <1>3, <1>4, <1>5, <1>8, <1>9
    DEF Next, startSyncRun_create, startSyncRun_throw, userDelete, userResume, userCommand, crash

\* A finished run keeps its result until it is deleted.
THEOREM FrozenResult == Spec => FinishedRunIsFrozen
  BY Invariance, NextIsFrozen, PTL DEF Spec, FinishedRunIsFrozen

=============================================================================
