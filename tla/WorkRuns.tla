------------------------------ MODULE WorkRuns ------------------------------
(***************************************************************************)
(* Work items and the agent runs that carry them out: the dispatch tick    *)
(* that opens and starts items up to the recipe's max_concurrent, the      *)
(* start protocol that records how far a start got, the executor that      *)
(* holds the agent's session, the supervisor that reaps finished runs, and *)
(* the human who dismisses an item or runs it again.                       *)
(*                                                                         *)
(* putWorkItem and putWorkRun are upserts of whole rows; a writer that     *)
(* read a row some awaits ago writes back what it read then.  Each step    *)
(* ends at an await.  The result's letter is WorkDelivery's concern.       *)
(***************************************************************************)
EXTENDS Naturals, FiniteSets

CONSTANTS Items,         \* work items of one recipe
          Runs,          \* run ids, each used once
          Refreshers,    \* concurrent supervisor passes: "tick", "wake"
          MaxConcurrent, \* the recipe's max_concurrent
          MaxFailures,   \* PUSH_RETRY_MAX_ATTEMPTS: 3 in the code
          Scenarios,     \* bound: which of "crash", "dismiss", "rerun", "prompt"
                         \* happen in one behaviour, each at most once
          None           \* no item, no run

ASSUME ItemsAssumption == IsFiniteSet(Items)
ASSUME CapAssumption == MaxConcurrent \in Nat \ {0}
ASSUME FailuresAssumption == MaxFailures \in Nat
ASSUME ScenariosAssumption ==
    Scenarios \subseteq SUBSET {"crash", "dismiss", "rerun", "prompt"}
ASSUME RefreshersAssumption == Refreshers \subseteq {"tick", "wake"}
ASSUME NoneIsNotData == None \notin Items /\ None \notin Runs

VARIABLES item,       \* status of each work_items row
          run,        \* the work_runs rows
          session,    \* the executor's session of each run
          listed,     \* the dispatch tick's listing: items and their status then
          starter,    \* startItem of each item
          applier,    \* applyHandle of each supervisor pass and each start
          dismisser,  \* the run dismissWorkItem of each item is about to cancel
          faults      \* the faults that have happened

vars == <<item, run, session, listed, starter, applier, dismisser, faults>>

ItemStatus == {"open", "running", "waiting_human", "done", "failed", "skipped"}
RunStatus == {"running", "waiting_human", "completed", "failed", "cancelled"}
Active == {"running", "waiting_human"}

Run == [item : Items, status : RunStatus,
        start : {"none", "pending", "submitted", "uncertain"}]

NoRun == [item |-> None]

(* A session is given its task and ends one way or the other; one that     *)
(* holds no task yet does nothing.                                         *)
Session == {"none", "tasked", "completed", "failed"}

Idle == [pc |-> "idle"]

(* A supervisor pass applies the handle it polled, and the start of an     *)
(* item the handle the executor returned.                                  *)
Appliers == Refreshers \cup Items

-----------------------------------------------------------------------------
(* The store. *)

RunsOf(i) == {r \in Runs : run[r].item = i}

ActiveRuns(i) == {r \in RunsOf(i) : run[r].status \in Active}

FailedRunCount(i) == Cardinality({r \in RunsOf(i) : run[r].status = "failed"})

Occupied == {i \in Items : item[i] \in Active}

(* Mutation: the claim does not count the occupied slots. *)
Claimable_uncapped(i, capped) ==
    /\ item[i] = "open"
    /\ ActiveRuns(i) = {}

(* The transaction of claimWorkRunStart takes the item. *)
Claimable(i, capped) ==
    /\ item[i] = "open"
    /\ ActiveRuns(i) = {}
    /\ capped => Cardinality(Occupied) < MaxConcurrent

(* cancelWorkRun: whatever the run was, it is cancelled. *)
Cancelled(i) == [item |-> i, status |-> "cancelled", start |-> "none"]

NeedsStartConfirmation(w) == w.start \in {"pending", "uncertain"}

-----------------------------------------------------------------------------
Init ==
    /\ item = [i \in Items |-> "open"]
    /\ run = [r \in Runs |-> NoRun]
    /\ session = [r \in Runs |-> "none"]
    /\ listed = [i \in Items |-> "none"]
    /\ starter = [i \in Items |-> Idle]
    /\ applier = [f \in Appliers |-> Idle]
    /\ dismisser = [i \in Items |-> None]
    /\ faults = {}

Fault(kind) ==
    /\ kind \notin faults
    /\ \E scenario \in Scenarios : faults \cup {kind} \subseteq scenario
    /\ faults' = faults \cup {kind}

-----------------------------------------------------------------------------
(* The dispatch tick: fillOpenSlots lists the open and failed items, then  *)
(* handles them one after the other, so a listed status may be old.        *)

DispatchList ==
    /\ \A i \in Items : listed[i] = "none"
    /\ \E i \in Items : item[i] \in {"open", "failed"}
    /\ listed' = [i \in Items |-> IF item[i] \in {"open", "failed"} THEN item[i] ELSE "none"]
    /\ UNCHANGED <<item, run, session, starter, applier, dismisser, faults>>

(* No start of the item is in flight in this process. *)
Unstarted(i) == starter[i] = Idle /\ applier[i] = Idle

(* retryOrResume: a failed item whose retry is due is opened again from    *)
(* the listed row; an open one starts if no run is active.  The wait       *)
(* before a retry has passed or the tick comes again.                      *)
RetryOrResume(i) ==
    /\ listed[i] # "none"
    /\ LET retries == FailedRunCount(i) < MaxFailures
           begins == \/ listed[i] = "failed" /\ retries
                     \/ listed[i] = "open" /\ ActiveRuns(i) = {} /\ retries
       IN  /\ item' = IF listed[i] = "failed" /\ retries
                      THEN [item EXCEPT ![i] = "open"] ELSE item
           /\ starter' = IF begins /\ Unstarted(i)
                         THEN [starter EXCEPT ![i] = [pc |-> "acquire"]]
                         ELSE starter
    /\ listed' = [listed EXCEPT ![i] = "none"]
    /\ UNCHANGED <<run, session, applier, dismisser, faults>>

-----------------------------------------------------------------------------
(* startItem. *)

Starting ==
    {i \in Items : starter[i].pc \notin {"idle", "acquire"} \/ applier[i] # Idle}

At(i, s) == starter' = [starter EXCEPT ![i] = s]

(* acquireStart: an automatic start needs a free slot, counting the items  *)
(* whose start is in flight in this process.                               *)
AcquireStart(i) ==
    /\ starter[i].pc = "acquire"
    /\ IF Cardinality((Occupied \cup Starting) \ {i}) < MaxConcurrent
       THEN At(i, [pc |-> "claim", manual |-> FALSE])
       ELSE At(i, Idle)
    /\ UNCHANGED <<item, run, session, listed, applier, dismisser, faults>>

(* claimWorkRunStart: the item turns running and the run is recorded as    *)
(* pending in one transaction, before the executor hears of it.            *)
ClaimWorkRunStart(i) ==
    /\ starter[i].pc = "claim"
    /\ \/ /\ Claimable(i, ~starter[i].manual)
          /\ \E r \in Runs :
               /\ run[r] = NoRun
               /\ run' = [run EXCEPT ![r] = [item |-> i, status |-> "running",
                                             start |-> "pending"]]
               /\ At(i, [pc |-> "spawn", run |-> r])
          /\ item' = [item EXCEPT ![i] = "running"]
       \/ /\ ~Claimable(i, ~starter[i].manual)
          /\ At(i, Idle)
          /\ UNCHANGED <<item, run>>
    /\ UNCHANGED <<session, listed, applier, dismisser, faults>>

(* The guard of startContext: the start was not abandoned meanwhile. *)
Current(i) ==
    /\ item[i] # "skipped"
    /\ run[starter[i].run].status \in Active

(* spawnSysout opens a session, after which the saved run is read under    *)
(* the same guard.  It may fail with nothing opened: definitely (no        *)
(* connector can send) or not.                                             *)
SpawnSysout(i) ==
    LET r == starter[i].run IN
    /\ starter[i].pc = "spawn"
    /\ \/ Current(i) /\ At(i, [pc |-> "putSpawned", run |-> r, saved |-> run[r]])
       \/ Current(i) /\ At(i, [pc |-> "error", run |-> r, definite |-> TRUE])
       \/ At(i, [pc |-> "error", run |-> r, definite |-> FALSE])
    /\ UNCHANGED <<item, run, session, listed, applier, dismisser, faults>>

(* An HTTP executor takes the task in the one call; its answer may be lost.*)
PostRun(i) ==
    LET r == starter[i].run IN
    /\ starter[i].pc = "spawn"
    /\ \/ session' = [session EXCEPT ![r] = "tasked"]
       \/ UNCHANGED session
    /\ \/ session'[r] = "tasked" /\ At(i, [pc |-> "started", run |-> r])
       \/ At(i, [pc |-> "error", run |-> r, definite |-> FALSE])
    /\ UNCHANGED <<item, run, listed, applier, dismisser, faults>>

(* The run is written back with what is now known of its session. *)
PutSpawned(i) ==
    LET r == starter[i].run IN
    /\ starter[i].pc = "putSpawned"
    /\ run' = [run EXCEPT ![r] = starter[i].saved]
    /\ At(i, [pc |-> "stdin", run |-> r])
    /\ UNCHANGED <<item, session, listed, applier, dismisser, faults>>

(* writeStdin hands over the task, and the saved run is read again; the    *)
(* call may fail before or after it reached the session.                   *)
WriteStdin(i) ==
    LET r == starter[i].run IN
    /\ starter[i].pc = "stdin"
    /\ \/ /\ Current(i)
          /\ session' = [session EXCEPT ![r] = "tasked"]
          /\ \/ At(i, [pc |-> "putSubmitted", run |-> r, saved |-> run[r]])
             \/ At(i, [pc |-> "error", run |-> r, definite |-> FALSE])
       \/ /\ At(i, [pc |-> "error", run |-> r, definite |-> FALSE])
          /\ UNCHANGED session
    /\ UNCHANGED <<item, run, listed, applier, dismisser, faults>>

PutSubmitted(i) ==
    LET r == starter[i].run IN
    /\ starter[i].pc = "putSubmitted"
    /\ run' = [run EXCEPT ![r] = [starter[i].saved EXCEPT !.start = "submitted"]]
    /\ At(i, [pc |-> "started", run |-> r])
    /\ UNCHANGED <<item, session, listed, applier, dismisser, faults>>

(* The executor returned: unless the run was cancelled or already reaped,  *)
(* it is acknowledged and its handle applied to the item as claimed.       *)
StartReturned(i) ==
    LET r == starter[i].run
        settled == run[r].status = "cancelled" \/ run[r].start = "none"
    IN
    /\ starter[i].pc = "started"
    /\ run' = IF settled THEN run ELSE [run EXCEPT ![r].start = "submitted"]
    /\ applier' = IF settled THEN applier
                  ELSE [applier EXCEPT ![i] = [pc |-> "status", item |-> i,
                                               was |-> "running", run |-> r]]
    /\ At(i, Idle)
    /\ UNCHANGED <<item, session, listed, dismisser, faults>>

(* Mutation: a start that cannot be confirmed counts as failed. *)
StartFailed_assumed(i) ==
    LET r == starter[i].run
        saved == run[r]
    IN
    /\ starter[i].pc = "error"
    /\ IF saved.start = "pending" /\ item[i] # "skipped"
       THEN /\ run' = [run EXCEPT ![r].status = "failed", ![r].start = "none"]
            /\ At(i, [pc |-> "putItem", status |-> "failed"])
       ELSE UNCHANGED run /\ At(i, Idle)
    /\ UNCHANGED <<item, session, listed, applier, dismisser, faults>>

(* The start threw.  Only a start that definitely reached nothing failed;  *)
(* any other that is still pending waits for a human to look.              *)
StartFailed(i) ==
    LET r == starter[i].run
        saved == run[r]
    IN
    /\ starter[i].pc = "error"
    /\ IF starter[i].definite /\ saved.start = "pending" /\ item[i] # "skipped"
       THEN /\ run' = [run EXCEPT ![r].status = "failed", ![r].start = "none"]
            /\ At(i, [pc |-> "putItem", status |-> "failed"])
       ELSE IF saved.start = "pending" /\ saved.status # "cancelled" /\ item[i] # "skipped"
       THEN /\ run' = [run EXCEPT ![r].status = "waiting_human", ![r].start = "uncertain"]
            /\ At(i, [pc |-> "putItem", status |-> "waiting_human"])
       ELSE UNCHANGED run /\ At(i, Idle)
    /\ UNCHANGED <<item, session, listed, applier, dismisser, faults>>

PutStartFailed(i) ==
    /\ starter[i].pc = "putItem"
    /\ item' = [item EXCEPT ![i] = starter[i].status]
    /\ At(i, Idle)
    /\ UNCHANGED <<run, session, listed, applier, dismisser, faults>>

-----------------------------------------------------------------------------
(* The agent, external: it finishes its task well or badly. *)
AgentEnds(r) ==
    /\ session[r] = "tasked"
    /\ \E end \in {"completed", "failed"} : session' = [session EXCEPT ![r] = end]
    /\ UNCHANGED <<item, run, listed, starter, applier, dismisser, faults>>

-----------------------------------------------------------------------------
(* refreshOne and applyHandle. *)

RefreshTo(f, s) == applier' = [applier EXCEPT ![f] = s]

(* The tick lists occupied items; the wake takes any active one. *)
RefreshRead(f, i) ==
    /\ applier[f] = Idle
    /\ item[i] \in Active \/ (f = "wake" /\ item[i] = "open")
    /\ \E r \in ActiveRuns(i) :
         /\ ~NeedsStartConfirmation(run[r])
         /\ RefreshTo(f, [pc |-> "status", item |-> i, was |-> item[i], run |-> r])
    /\ UNCHANGED <<item, run, session, listed, starter, dismisser, faults>>

(* abandonIfSkipped: a dismissed item's run is written back as cancelled.  *)
AbandonIfSkipped(f) ==
    LET p == applier[f] IN
    /\ item[p.item] = "skipped"
    /\ run' = [run EXCEPT ![p.run] = Cancelled(p.item)]
    /\ RefreshTo(f, Idle)

(* executor.status: a session that has not ended runs or, once in a while, *)
(* waits for a human.                                                      *)
Answer(r, h) ==
    \/ session[r] \in {"completed", "failed"} /\ h = session[r] /\ UNCHANGED faults
    \/ session[r] \in {"none", "tasked"} /\ h = "running" /\ UNCHANGED faults
    \/ session[r] = "tasked" /\ h = "waiting_human" /\ Fault("prompt")

(* The executor answers for the session, and the item is looked at, ...    *)
RefreshStatus(f) ==
    LET p == applier[f] IN
    /\ p.pc = "status"
    /\ \/ AbandonIfSkipped(f) /\ UNCHANGED faults
       \/ /\ item[p.item] # "skipped"
          /\ \E h \in RunStatus :
               /\ Answer(p.run, h)
               /\ RefreshTo(f, [pc |-> "putRun", item |-> p.item, was |-> p.was,
                                run |-> p.run, status |-> h])
          /\ UNCHANGED run
    /\ UNCHANGED <<item, session, listed, starter, dismisser>>

(* ... the run is written as read with the answered status, ...            *)
ApplyRun(f) ==
    LET p == applier[f] IN
    /\ p.pc = "putRun"
    /\ run' = [run EXCEPT ![p.run] = [item |-> p.item, status |-> p.status, start |-> "none"]]
    /\ RefreshTo(f, [p EXCEPT !.pc = "recheck"])
    /\ UNCHANGED <<item, session, listed, starter, dismisser, faults>>

(* ... the item is looked at again, ...                                    *)
ApplyRecheck(f) ==
    LET p == applier[f] IN
    /\ p.pc = "recheck"
    /\ \/ AbandonIfSkipped(f)
       \/ /\ item[p.item] # "skipped"
          /\ RefreshTo(f, [p EXCEPT !.pc = "putItem"])
          /\ UNCHANGED run
    /\ UNCHANGED <<item, session, listed, starter, dismisser, faults>>

(* Mutation: the item takes the run's word for its status. *)
WorkStatusFromRun_same(s) == s

(* ... and written as it was read before, with the status of its run.      *)
WorkStatusFromRun(s) == IF s = "completed" THEN "done" ELSE s

ApplyItem(f) ==
    LET p == applier[f]
        status == WorkStatusFromRun(p.status)
    IN
    /\ p.pc = "putItem"
    /\ item' = IF p.was # status THEN [item EXCEPT ![p.item] = status] ELSE item
    /\ RefreshTo(f, Idle)
    /\ UNCHANGED <<run, session, listed, starter, dismisser, faults>>

-----------------------------------------------------------------------------
(* dismissWorkItem writes the item, then finds its active run, asks the    *)
(* executor to cancel it and writes it.  cancel is best-effort: the        *)
(* session may ignore it and go on.                                        *)
DismissItem(i) ==
    /\ Fault("dismiss")
    /\ item' = [item EXCEPT ![i] = "skipped"]
    /\ \/ ActiveRuns(i) = {} /\ UNCHANGED dismisser
       \/ \E r \in ActiveRuns(i) : dismisser' = [dismisser EXCEPT ![i] = r]
    /\ UNCHANGED <<run, session, listed, starter, applier>>

DismissRun(i) ==
    /\ dismisser[i] # None
    /\ run' = [run EXCEPT ![dismisser[i]] = Cancelled(i)]
    /\ dismisser' = [dismisser EXCEPT ![i] = None]
    /\ UNCHANGED <<item, session, listed, starter, applier, faults>>

(* Mutation: any active run is cancelled and the item started again. *)
RunWorkItem_restarts(i) ==
    /\ Fault("rerun")
    /\ run' = [r \in Runs |-> IF r \in ActiveRuns(i) THEN Cancelled(i) ELSE run[r]]
    /\ item' = [item EXCEPT ![i] = "open"]
    /\ starter' = IF starter[i].pc \in {"idle", "acquire"} /\ applier[i] = Idle
                  THEN [starter EXCEPT ![i] = [pc |-> "claim", manual |-> TRUE]]
                  ELSE starter
    /\ UNCHANGED <<session, listed, applier, dismisser>>

(* runWorkItem on an item with no run to refresh opens it and starts it,   *)
(* uncapped; a run left over from a dismissal is cancelled first.  A run   *)
(* whose start awaits confirmation refuses the request.                    *)
RunWorkItem(i) ==
    /\ Fault("rerun")
    /\ \A r \in ActiveRuns(i) : item[i] = "skipped" /\ ~NeedsStartConfirmation(run[r])
    /\ run' = [r \in Runs |-> IF r \in ActiveRuns(i) THEN Cancelled(i) ELSE run[r]]
    /\ item' = [item EXCEPT ![i] = "open"]
    /\ starter' = IF starter[i].pc \in {"idle", "acquire"} /\ applier[i] = Idle
                  THEN [starter EXCEPT ![i] = [pc |-> "claim", manual |-> TRUE]]
                  ELSE starter
    /\ UNCHANGED <<session, listed, applier, dismisser>>

(* The process stops and starts again. *)
Crash ==
    /\ Fault("crash")
    /\ listed' = [i \in Items |-> "none"]
    /\ starter' = [i \in Items |-> Idle]
    /\ applier' = [f \in Appliers |-> Idle]
    /\ dismisser' = [i \in Items |-> None]
    /\ UNCHANGED <<item, run, session>>

-----------------------------------------------------------------------------
Start(i) ==
    \/ AcquireStart(i) \/ ClaimWorkRunStart(i) \/ SpawnSysout(i) \/ PostRun(i)
    \/ PutSpawned(i) \/ WriteStdin(i) \/ PutSubmitted(i)
    \/ StartReturned(i) \/ StartFailed(i) \/ PutStartFailed(i)

Apply(f) == RefreshStatus(f) \/ ApplyRun(f) \/ ApplyRecheck(f) \/ ApplyItem(f)

Next ==
    \/ DispatchList
    \/ \E i \in Items :
         RetryOrResume(i) \/ Start(i) \/ DismissItem(i) \/ DismissRun(i) \/ RunWorkItem(i)
    \/ \E r \in Runs : AgentEnds(r)
    \/ \E f \in Refreshers, i \in Items : RefreshRead(f, i)
    \/ \E f \in Appliers : Apply(f)
    \/ Crash

Spec == Init /\ [][Next]_vars

-----------------------------------------------------------------------------
(* Type correctness. *)
TypeOK ==
    /\ item \in [Items -> ItemStatus]
    /\ run \in [Runs -> Run \cup {NoRun}]
    /\ session \in [Runs -> Session]
    /\ listed \in [Items -> {"none", "open", "failed"}]
    /\ starter \in [Items -> {Idle} \cup [pc : {"acquire"}] \cup [pc : {"claim"}, manual : BOOLEAN]
                     \cup [pc : {"spawn", "stdin", "started"}, run : Runs]
                     \cup [pc : {"putSpawned", "putSubmitted"}, run : Runs, saved : Run]
                     \cup [pc : {"error"}, run : Runs, definite : BOOLEAN]
                     \cup [pc : {"putItem"}, status : {"failed", "waiting_human"}]]
    /\ applier \in [Appliers -> {Idle} \cup
                       [pc : {"status"}, item : Items, was : Active \cup {"open"}, run : Runs]
                       \cup [pc : {"putRun", "recheck", "putItem"}, item : Items,
                             was : Active \cup {"open"}, run : Runs, status : RunStatus]]
    /\ dismisser \in [Items -> Runs \cup {None}]
    /\ faults \subseteq {"crash", "dismiss", "rerun", "prompt"}

(* Unless a human dismisses the item, no two agents ever work on it at     *)
(* once: a start whose answer was lost, a restart, a stale supervisor, the *)
(* retries of the tick and a human asking for a run never lead to a second *)
(* session while the first still holds the task.                           *)
OneAgentPerItem ==
    "dismiss" \notin faults =>
      \A r, s \in Runs :
        r # s /\ run[r].item = run[s].item => ~(session[r] = "tasked" /\ session[s] = "tasked")

(* An automatic start never takes a slot beyond max_concurrent, although   *)
(* the slots were counted in memory some awaits before the claim and       *)
(* human starts and late status writes occupy slots in between.            *)
StartsWithinCap ==
    [][\A i \in Items :
         /\ starter[i].pc = "claim" /\ starter'[i].pc = "spawn"
         => starter[i].manual \/ Cardinality(Occupied') <= MaxConcurrent]_vars

(* Whenever a session holds the task, the ledger shows it: its run is      *)
(* active, or a human cancelled it, or it was already judged by its        *)
(* session's own end.                                                      *)
AgentIsOnTheLedger ==
    \A r \in Runs : session[r] = "tasked" => run[r].status \in Active \cup {"cancelled"}

(* No slot leaks: an item that occupies one has an active run for the      *)
(* supervisor to reap, or somebody is about to write it, although run and  *)
(* item are two rows written one after the other and from stale reads.  A  *)
(* process that stops, or a dismissal, between the two writes is exempt.   *)
OccupiedItemHasARun ==
    faults \cap {"crash", "dismiss"} = {} =>
      \A i \in Occupied :
        \/ ActiveRuns(i) # {}
        \/ starter[i].pc = "putItem"
        \/ \E f \in Appliers : applier[f] # Idle /\ applier[f].item = i
=============================================================================
