--------------------------- MODULE WorkRunsProofs ---------------------------
(***************************************************************************)
(* For any items, runs, supervisor passes and limits, and any combination  *)
(* of a crash, a dismissal, a rerun and a prompt: a session that holds the *)
(* task is on the ledger, two agents never work on one item unless a human *)
(* dismissed one, and an automatic start stays within max_concurrent.      *)
(*                                                                         *)
(* A run's row is written from stale reads by its starter, by supervisor   *)
(* passes, by a dismissal and by a rerun.  The argument is that nobody     *)
(* writes an end the session has not reached (Passes), that a start which  *)
(* may still reach the executor has an active or cancelled row (Starters), *)
(* and that the claim needs an item without active runs, so that a session *)
(* is given its task only while no other of its item holds one (Alone).    *)
(***************************************************************************)
EXTENDS WorkRuns, FiniteSetTheorems, TLAPS

\* Where a start holds a run, and where the executor was not yet given the
\* task.
Held == {"spawn", "putSpawned", "stdin", "putSubmitted", "started", "error"}
Before == {"spawn", "putSpawned", "stdin"}

\* The start x of item i, with the runs rs and the sessions ss.
Sound(i, x, rs, ss) ==
    /\ x.pc \in Held => rs[x.run].item = i
    /\ x.pc \in Before => ss[x.run] = "none" /\ rs[x.run].status \in Active \cup {"cancelled"}
    /\ x.pc \in {"putSpawned", "putSubmitted"} => x.saved.item = i /\ x.saved.status \in Active
    /\ x.pc = "error" /\ x.definite => ss[x.run] = "none"

Starters == \A i \in Items : Sound(i, starter[i], run, session)

\* A supervisor pass x knows an end only from the session.
Judges(x, rs, ss) ==
    /\ x.pc # "idle" => rs[x.run].item = x.item
    /\ x.pc \in {"putRun", "recheck", "putItem"} =>
         /\ x.status # "cancelled"
         /\ x.status \in {"completed", "failed"} => ss[x.run] = x.status

Passes == \A f \in Appliers : Judges(applier[f], run, session)

Dismissals == \A i \in Items : dismisser[i] # None => run[dismisser[i]].item = i

\* A run id that is not used yet has no session.
Unused == \A r \in Runs : run[r] = NoRun => session[r] = "none"

\* No other session of the item holds the task.
Alone(i, x, rs, ss) ==
    x.pc \in Before => \A q \in Runs : q # x.run /\ rs[q].item = i => ss[q] # "tasked"

Undismissed ==
    "dismiss" \notin faults =>
        /\ \A i \in Items : /\ item[i] # "skipped" /\ dismisser[i] = None
                            /\ Alone(i, starter[i], run, session)
        /\ \A r \in Runs : run[r] # NoRun => run[r].status # "cancelled"

IInv ==
    /\ TypeOK /\ Starters /\ Passes /\ Dismissals /\ Unused
    /\ Undismissed /\ AgentIsOnTheLedger /\ OneAgentPerItem

-----------------------------------------------------------------------------
(* Types *)

StarterType ==
    {Idle} \cup [pc : {"acquire"}] \cup [pc : {"claim"}, manual : BOOLEAN]
      \cup [pc : {"spawn", "stdin", "started"}, run : Runs]
      \cup [pc : {"putSpawned", "putSubmitted"}, run : Runs, saved : Run]
      \cup [pc : {"error"}, run : Runs, definite : BOOLEAN]
      \cup [pc : {"putItem"}, status : {"failed", "waiting_human"}]

ApplierType ==
    {Idle} \cup [pc : {"status"}, item : Items, was : Active \cup {"open"}, run : Runs]
      \cup [pc : {"putRun", "recheck", "putItem"}, item : Items,
            was : Active \cup {"open"}, run : Runs, status : RunStatus]

\* What a start holds, by where it is.
LEMMA StarterFacts ==
    ASSUME NEW x \in StarterType
    PROVE  /\ x.pc \in Held => x.run \in Runs
           /\ x.pc \in {"putSpawned", "putSubmitted"} => x.saved \in Run
           /\ x.pc = "error" => x.definite \in BOOLEAN
           /\ x.pc = "putItem" => x.status \in {"failed", "waiting_human"}
           /\ x.pc = "claim" => x.manual \in BOOLEAN
  BY DEF StarterType, Held, Idle

\* What a supervisor pass holds.
LEMMA ApplierFacts ==
    ASSUME NEW x \in ApplierType
    PROVE  /\ x # Idle => x.run \in Runs /\ x.item \in Items /\ x.was \in Active \cup {"open"}
           /\ x # Idle <=> x.pc # "idle"
           /\ x.pc \in {"putRun", "recheck", "putItem"} => x.status \in RunStatus
  BY DEF ApplierType, Idle

LEMMA RunFacts ==
    ASSUME NEW x \in Run
    PROVE  x # NoRun /\ x.item \in Items /\ x.status \in RunStatus
  BY NoneIsNotData DEF Run, NoRun

\* The type invariant, function by function.
LEMMA Types ==
    ASSUME TypeOK
    PROVE  /\ item \in [Items -> ItemStatus] /\ run \in [Runs -> Run \cup {NoRun}]
           /\ session \in [Runs -> Session] /\ listed \in [Items -> {"none", "open", "failed"}]
           /\ starter \in [Items -> StarterType] /\ applier \in [Appliers -> ApplierType]
           /\ dismisser \in [Items -> Runs \cup {None}]
           /\ faults \subseteq {"crash", "dismiss", "rerun", "prompt"}
           /\ \A r \in Runs : run[r].item \in Items <=> run[r] \in Run
           /\ \A r \in Runs : run[r] = NoRun <=> run[r] \notin Run
<1>1. \A r \in Runs : run[r] \in Run \cup {NoRun}
  BY DEF TypeOK
<1>2. NoRun \notin Run /\ NoRun.item \notin Items
  BY NoneIsNotData DEF NoRun, Run
<1>3. \A r \in Runs : run[r].item \in Items <=> run[r] \in Run
  BY <1>1, <1>2, RunFacts
<1>4. \A r \in Runs : run[r] = NoRun <=> run[r] \notin Run
  BY <1>1, <1>2
<1> QED
  BY <1>3, <1>4 DEF TypeOK, StarterType, ApplierType

-----------------------------------------------------------------------------
(* One step *)

\* A row that is written keeps its item, and says ended only of a session
\* that has ended or of a start that will not reach the executor.
RunStep(r) ==
    \/ run'[r] = run[r]
    \/ /\ run'[r] \in Run
       /\ run[r] = NoRun \/ run'[r].item = run[r].item
       /\ \/ run'[r].status \in Active
          \/ run'[r].status = "cancelled" /\ "dismiss" \in faults
          \/ run[r] # NoRun /\ run'[r].status # "cancelled" /\ session[r] \in {"completed", "failed"}
          \/ /\ run[r] # NoRun /\ run'[r].status # "cancelled" /\ session[r] = "none"
             /\ session' = session
             /\ \A i \in Items : starter'[i].pc \in Before => starter'[i].run # r

\* A session is given its task by the start that holds its run, once.
SessionStep(r) ==
    \/ session'[r] = session[r]
    \/ session[r] = "tasked" /\ session'[r] \in {"completed", "failed"}
    \/ /\ session[r] = "none" /\ session'[r] = "tasked" /\ run' = run
       /\ \E i \in Items :
            /\ starter[i].pc \in Before /\ starter[i].run = r
            /\ starter'[i].pc \notin Before
            /\ starter'[i].pc = "error" => ~starter'[i].definite

LEMMA StartersKept ==
    ASSUME IInv, TypeOK', \A r \in Runs : RunStep(r), \A r \in Runs : SessionStep(r),
           NEW i \in Items, starter'[i] = starter[i]
    PROVE  Sound(i, starter'[i], run', session')
<1> DEFINE x == starter[i]
<1>0. x \in StarterType /\ Sound(i, x, run, session) /\ TypeOK
  BY Types DEF IInv, Starters
<1> HIDE DEF x
<1>1. ASSUME x.pc \in Held PROVE x.run \in Runs /\ run[x.run].item = i /\ run'[x.run].item = i
  <2>1. x.run \in Runs /\ run[x.run].item = i
    BY <1>0, <1>1, StarterFacts DEF Sound
  <2>2. run[x.run] \in Run /\ run[x.run] # NoRun
    BY <1>0, <2>1, Types
  <2>3. run'[x.run].item = run[x.run].item
    BY <2>1, <2>2 DEF RunStep
  <2> QED
    BY <2>1, <2>3
<1>2. ASSUME x.pc \in Before \/ (x.pc = "error" /\ x.definite)
      PROVE  session'[x.run] = "none"
  <2>1. x.pc \in Held /\ session[x.run] = "none"
    BY <1>0, <1>2 DEF Sound, Before, Held
  <2>2. x.run \in Runs /\ run[x.run].item = i
    BY <1>1, <2>1
  <2>3. ASSUME NEW j \in Items, starter[j].pc \in Before, starter[j].run = x.run,
               starter'[j].pc \notin Before,
               starter'[j].pc = "error" => ~starter'[j].definite
        PROVE  FALSE
    <3>1. run[x.run].item = j
      <4>1. Sound(j, starter[j], run, session) /\ starter[j].pc \in Held
        BY <2>3 DEF IInv, Starters, Before, Held
      <4> QED
        BY <2>3, <4>1 DEF Sound
    <3>2. starter'[j] = x
      BY <2>2, <3>1 DEF x
    <3>3. x.pc \notin Before /\ x.pc # "error"
      BY <1>2, <2>3, <3>2 DEF Before
    <3> QED
      BY <1>2, <3>3
  <2> QED
    BY <2>1, <2>2, <2>3 DEF SessionStep
<1>3. ASSUME x.pc \in Before PROVE run'[x.run].status \in Active \cup {"cancelled"}
  <2>1. x.pc \in Held /\ session[x.run] = "none" /\ run[x.run].status \in Active \cup {"cancelled"}
    BY <1>0, <1>3 DEF Sound, Before, Held
  <2>2. x.run \in Runs /\ starter'[i].pc \in Before /\ starter'[i].run = x.run
    BY <1>1, <1>3, <2>1 DEF x
  <2> QED
    BY <2>1, <2>2 DEF RunStep
<1>4. x.pc \in {"putSpawned", "putSubmitted"} => x.saved.item = i /\ x.saved.status \in Active
  BY <1>0 DEF Sound
<1>5. starter'[i] = x
  BY DEF x
<1> QED
  BY <1>1, <1>2, <1>3, <1>4, <1>5 DEF Sound

LEMMA PassKept ==
    ASSUME IInv, TypeOK', \A r \in Runs : RunStep(r), \A r \in Runs : SessionStep(r),
           NEW f \in Appliers, applier'[f] = applier[f]
    PROVE  Judges(applier'[f], run', session')
<1> DEFINE x == applier[f]
<1>0. x \in ApplierType /\ Judges(x, run, session) /\ TypeOK
  BY Types DEF IInv, Passes
<1> HIDE DEF x
<1>1. ASSUME x.pc # "idle" PROVE run'[x.run].item = x.item
  <2>1. x.run \in Runs /\ run[x.run].item = x.item /\ x.item \in Items
    BY <1>0, <1>1, ApplierFacts DEF Judges
  <2>2. run[x.run] # NoRun
    BY <1>0, <2>1, Types
  <2> QED
    BY <2>1, <2>2 DEF RunStep
<1>2. ASSUME x.pc \in {"putRun", "recheck", "putItem"}, x.status \in {"completed", "failed"}
      PROVE  session'[x.run] = x.status
  <2>1. session[x.run] = x.status /\ x.run \in Runs
    BY <1>0, <1>2, ApplierFacts DEF Judges
  <2> QED
    BY <1>2, <2>1 DEF SessionStep
<1> QED
  BY <1>0, <1>1, <1>2 DEF Judges, x

\* A session that is given its task now is its item's only one.
LEMMA NewlyTasked ==
    ASSUME IInv, NEW r \in Runs, SessionStep(r), session'[r] = "tasked", session[r] # "tasked"
    PROVE  /\ run' = run /\ run[r].item \in Items /\ run[r].status \in Active \cup {"cancelled"}
           /\ session[r] = "none"
           /\ starter[run[r].item].pc \in Before /\ starter[run[r].item].run = r
           /\ starter'[run[r].item].pc \notin Before
<1>1. session[r] = "none" /\ run' = run
  BY DEF SessionStep
<1>2. PICK i \in Items : /\ starter[i].pc \in Before /\ starter[i].run = r
                         /\ starter'[i].pc \notin Before
  BY DEF SessionStep
<1>3. Sound(i, starter[i], run, session) /\ starter[i].pc \in Held
  BY <1>2 DEF IInv, Starters, Before, Held
<1>4. run[r].item = i /\ run[r].status \in Active \cup {"cancelled"}
  BY <1>2, <1>3 DEF Sound
<1> QED
  BY <1>1, <1>2, <1>4

LEMMA AloneKept ==
    ASSUME IInv, \A r \in Runs : RunStep(r), \A r \in Runs : SessionStep(r),
           "dismiss" \notin faults, NEW i \in Items, starter'[i] = starter[i]
    PROVE  Alone(i, starter'[i], run', session')
<1> SUFFICES ASSUME starter[i].pc \in Before, NEW q \in Runs, q # starter[i].run, run'[q].item = i,
                    session'[q] = "tasked"
             PROVE  FALSE
  BY DEF Alone
<1>1. TypeOK /\ Alone(i, starter[i], run, session)
  BY DEF IInv, Undismissed
<1>2. CASE session[q] = "tasked"
  <2>1. run[q] # NoRun
    BY <1>2 DEF IInv, Unused
  <2>2. run[q].item = i
    BY <2>1 DEF RunStep
  <2> QED
    BY <1>1, <1>2, <2>2 DEF Alone
<1>3. CASE session[q] # "tasked"
  <2>1. run' = run /\ starter[run[q].item].run = q
    BY <1>3, NewlyTasked
  <2> QED
    BY <2>1
<1> QED
  BY <1>2, <1>3

LEMMA StepKept ==
    ASSUME IInv, TypeOK', \A r \in Runs : RunStep(r), \A r \in Runs : SessionStep(r),
           faults \subseteq faults',
           \A i \in Items :
             \/ starter'[i] = starter[i]
             \/ /\ Sound(i, starter'[i], run', session')
                /\ "dismiss" \notin faults => Alone(i, starter'[i], run', session'),
           \A f \in Appliers : applier'[f] = applier[f] \/ Judges(applier'[f], run', session'),
           \A i \in Items : dismisser'[i] \in {None, dismisser[i]}
                            \/ (run[dismisser'[i]].item = i /\ "dismiss" \in faults'),
           \A i \in Items : item'[i] = "skipped" => item[i] = "skipped" \/ "dismiss" \in faults'
    PROVE  IInv'
<1>0. TypeOK
  BY DEF IInv
<1>1. Starters'
  BY StartersKept DEF Starters
<1>2. Passes'
  BY PassKept DEF Passes
<1>3. ASSUME NEW r \in Runs, run[r].item \in Items PROVE run'[r].item = run[r].item
  BY <1>0, <1>3, Types DEF RunStep
<1>4. Dismissals'
  <2> SUFFICES ASSUME NEW i \in Items, dismisser'[i] # None PROVE run'[dismisser'[i]].item = i
    BY DEF Dismissals
  <2>1. run[dismisser'[i]].item = i
    BY DEF IInv, Dismissals
  <2>2. dismisser'[i] \in Runs
    BY Types DEF TypeOK
  <2> QED
    BY <1>3, <2>1, <2>2
<1>5. Unused'
  <2> SUFFICES ASSUME NEW r \in Runs, run'[r] = NoRun PROVE session'[r] = "none"
    BY DEF Unused
  <2>1. run[r] = NoRun
    BY RunFacts DEF RunStep
  <2>2. session[r] = "none" /\ run[r].item \notin Items
    BY <1>0, <2>1, Types DEF IInv, Unused
  <2>3. session'[r] # "tasked"
    BY <2>2, NewlyTasked
  <2> QED
    BY <2>2, <2>3 DEF SessionStep
<1>6. AgentIsOnTheLedger'
  <2> SUFFICES ASSUME NEW r \in Runs, session'[r] = "tasked"
               PROVE  run'[r].status \in Active \cup {"cancelled"}
    BY DEF AgentIsOnTheLedger
  <2>1. CASE session[r] = "tasked"
    <3>1. run[r].status \in Active \cup {"cancelled"}
      BY <2>1 DEF IInv, AgentIsOnTheLedger
    <3> QED
      BY <2>1, <3>1 DEF RunStep
  <2>2. CASE session[r] # "tasked"
    BY <2>2, NewlyTasked
  <2> QED
    BY <2>1, <2>2
<1>7. Undismissed'
  <2> SUFFICES ASSUME "dismiss" \notin faults'
               PROVE  /\ \A i \in Items : /\ item'[i] # "skipped" /\ dismisser'[i] = None
                                          /\ Alone(i, starter'[i], run', session')
                      /\ \A r \in Runs : run'[r] # NoRun => run'[r].status # "cancelled"
    BY DEF Undismissed
  <2>1. "dismiss" \notin faults
    OBVIOUS
  <2>2. ASSUME NEW i \in Items PROVE item'[i] # "skipped" /\ dismisser'[i] = None
    BY <2>1 DEF IInv, Undismissed
  <2>3. ASSUME NEW i \in Items PROVE Alone(i, starter'[i], run', session')
    BY <2>1, AloneKept
  <2>4. ASSUME NEW r \in Runs, run'[r] # NoRun PROVE run'[r].status # "cancelled"
    BY <2>1, <2>4 DEF IInv, Undismissed, RunStep, Active
  <2> QED
    BY <2>2, <2>3, <2>4
<1>8. OneAgentPerItem'
  <2> SUFFICES ASSUME "dismiss" \notin faults', NEW r \in Runs, NEW s \in Runs, r # s,
                      run'[r].item = run'[s].item, session'[r] = "tasked", session'[s] = "tasked"
               PROVE  FALSE
    BY DEF OneAgentPerItem
  <2>1. "dismiss" \notin faults
    OBVIOUS
  <2>2. ASSUME NEW q \in Runs, session[q] = "tasked"
        PROVE  run[q].item \in Items /\ run'[q].item = run[q].item
    <3>1. run[q] # NoRun
      BY <2>2 DEF IInv, Unused
    <3> QED
      BY <1>0, <1>3, <3>1, Types
  <2>3. CASE session[r] = "tasked" /\ session[s] = "tasked"
    BY <2>1, <2>2, <2>3 DEF IInv, OneAgentPerItem
  <2>4. ASSUME NEW q \in Runs, NEW p \in Runs, q # p, run'[q].item = run'[p].item,
               session'[q] = "tasked", session'[p] = "tasked", session[q] # "tasked"
        PROVE  FALSE
    <3>1. /\ run' = run /\ run[q].item \in Items
          /\ starter[run[q].item].pc \in Before /\ starter[run[q].item].run = q
      BY <2>4, NewlyTasked
    <3>2. session[p] # "tasked"
      BY <2>1, <2>4, <3>1 DEF IInv, Undismissed, Alone
    <3>3. starter[run[p].item].run = p
      BY <2>4, <3>2, NewlyTasked
    <3> QED
      BY <2>4, <3>1, <3>3
  <2> QED
    BY <2>3, <2>4
<1> QED
  BY <1>1, <1>2, <1>4, <1>5, <1>6, <1>7, <1>8 DEF IInv

-----------------------------------------------------------------------------
(* The actions *)

\* A start that holds no run.
LEMMA Holdless ==
    ASSUME NEW i, NEW x, NEW rs, NEW ss, x.pc \in {"idle", "acquire", "claim", "putItem"}
    PROVE  Sound(i, x, rs, ss) /\ Alone(i, x, rs, ss)
  BY DEF Sound, Alone, Held, Before

LEMMA RunsStay == ASSUME run' = run, NEW r \in Runs PROVE RunStep(r)
  BY DEF RunStep

LEMMA SessionsStay == ASSUME session' = session, NEW r \in Runs PROVE SessionStep(r)
  BY DEF SessionStep

\* One start moves to x.
LEMMA StarterMoves ==
    ASSUME TypeOK, NEW i \in Items, NEW x \in StarterType, At(i, x)
    PROVE  /\ starter' \in [Items -> StarterType] /\ starter'[i] = x
           /\ \A j \in Items : j # i => starter'[j] = starter[j]
  BY Types DEF At

\* One pass moves to x.
LEMMA ApplierMoves ==
    ASSUME TypeOK, NEW f \in Appliers, NEW x \in ApplierType, RefreshTo(f, x)
    PROVE  /\ applier' \in [Appliers -> ApplierType] /\ applier'[f] = x
           /\ \A g \in Appliers : g # f => applier'[g] = applier[g]
  BY Types DEF RefreshTo

\* TypeOK from its parts.
LEMMA TypesBack ==
    ASSUME item' \in [Items -> ItemStatus], run' \in [Runs -> Run \cup {NoRun}],
           session' \in [Runs -> Session], listed' \in [Items -> {"none", "open", "failed"}],
           starter' \in [Items -> StarterType], applier' \in [Appliers -> ApplierType],
           dismisser' \in [Items -> Runs \cup {None}],
           faults' \subseteq {"crash", "dismiss", "rerun", "prompt"}
    PROVE  TypeOK'
  BY DEF TypeOK, StarterType, ApplierType

LEMMA FaultFacts ==
    ASSUME TypeOK, NEW kind, Fault(kind)
    PROVE  /\ faults \subseteq faults' /\ kind \in faults'
           /\ faults' \subseteq {"crash", "dismiss", "rerun", "prompt"}
<1>1. PICK scenario \in Scenarios : faults \cup {kind} \subseteq scenario
  BY DEF Fault
<1>2. scenario \subseteq {"crash", "dismiss", "rerun", "prompt"}
  BY ScenariosAssumption
<1> QED
  BY <1>1, <1>2 DEF Fault

LEMMA DispatchListInv ==
    ASSUME IInv, DispatchList
    PROVE  IInv'
<1>0. TypeOK /\ UNCHANGED <<item, run, session, starter, applier, dismisser, faults>>
  BY DEF IInv, DispatchList
<1>1. TypeOK'
  <2>1. listed' \in [Items -> {"none", "open", "failed"}]
    BY <1>0 DEF DispatchList
  <2> QED
    BY <1>0, <2>1, Types, TypesBack
<1> QED
  BY <1>0, <1>1, RunsStay, SessionsStay, StepKept

LEMMA RetryOrResumeInv ==
    ASSUME IInv, NEW i \in Items, RetryOrResume(i)
    PROVE  IInv'
<1>0. TypeOK /\ UNCHANGED <<run, session, applier, dismisser, faults>>
  BY DEF IInv, RetryOrResume
<1>1. /\ item' = item \/ item' = [item EXCEPT ![i] = "open"]
      /\ starter' = starter \/ starter' = [starter EXCEPT ![i] = [pc |-> "acquire"]]
      /\ listed' = [listed EXCEPT ![i] = "none"]
  BY DEF RetryOrResume
<1> DEFINE x == [pc |-> "acquire"]
<1>2. x \in StarterType /\ x.pc = "acquire"
  BY DEF StarterType
<1> HIDE DEF x
<1>3. starter' = starter \/ At(i, x)
  BY <1>1 DEF At, x
<1>4. /\ starter' \in [Items -> StarterType]
      /\ \A j \in Items : starter'[j] = starter[j] \/ starter'[j] = x
  BY <1>0, <1>2, <1>3, StarterMoves, Types
<1>5. item' \in [Items -> ItemStatus] /\ listed' \in [Items -> {"none", "open", "failed"}]
      /\ \A j \in Items : item'[j] = "skipped" => item[j] = "skipped"
  BY <1>0, <1>1, Types DEF ItemStatus
<1>6. TypeOK'
  BY <1>0, <1>4, <1>5, Types, TypesBack
<1> QED
  BY <1>0, <1>2, <1>4, <1>5, <1>6, Holdless, RunsStay, SessionsStay, StepKept

\* A step of a start that writes no row and gives no task.
LEMMA StarterOnly ==
    ASSUME IInv, NEW i \in Items, NEW x \in StarterType, At(i, x),
           Sound(i, x, run, session), "dismiss" \notin faults => Alone(i, x, run, session),
           UNCHANGED <<item, run, session, listed, applier, dismisser, faults>>
    PROVE  IInv'
<1>0. TypeOK
  BY DEF IInv
<1>1. /\ starter' \in [Items -> StarterType]
      /\ \A j \in Items : starter'[j] = starter[j] \/ (j = i /\ starter'[j] = x)
  BY <1>0, StarterMoves
<1>2. TypeOK'
  BY <1>0, <1>1, Types, TypesBack
<1> QED
  BY <1>1, <1>2, RunsStay, SessionsStay, StepKept

LEMMA AcquireStartInv ==
    ASSUME IInv, NEW i \in Items, AcquireStart(i)
    PROVE  IInv'
<1>1. CASE At(i, [pc |-> "claim", manual |-> FALSE])
  <2> DEFINE x == [pc |-> "claim", manual |-> FALSE]
  <2>1. x \in StarterType /\ x.pc = "claim" /\ At(i, x)
    BY <1>1 DEF StarterType
  <2> HIDE DEF x
  <2> QED
    BY <2>1, Holdless, StarterOnly DEF AcquireStart
<1>2. CASE At(i, Idle)
  <2>1. Idle \in StarterType /\ Idle.pc = "idle"
    BY DEF StarterType, Idle
  <2> QED
    BY <1>2, <2>1, Holdless, StarterOnly DEF AcquireStart
<1> QED
  BY <1>1, <1>2 DEF AcquireStart

LEMMA ClaimInv ==
    ASSUME IInv, NEW i \in Items, ClaimWorkRunStart(i)
    PROVE  IInv'
<1>0. TypeOK /\ UNCHANGED <<session, listed, applier, dismisser, faults>>
  BY DEF IInv, ClaimWorkRunStart
<1>1. CASE ~Claimable(i, ~starter[i].manual)
  <2>1. Idle \in StarterType /\ Idle.pc = "idle"
    BY DEF StarterType, Idle
  <2> QED
    BY <1>0, <1>1, <2>1, Holdless, StarterOnly DEF ClaimWorkRunStart
<1>2. CASE Claimable(i, ~starter[i].manual)
  <2>1. PICK r \in Runs :
          /\ run[r] = NoRun
          /\ run' = [run EXCEPT ![r] = [item |-> i, status |-> "running", start |-> "pending"]]
          /\ At(i, [pc |-> "spawn", run |-> r])
    BY <1>2 DEF ClaimWorkRunStart
  <2>2. item' = [item EXCEPT ![i] = "running"] /\ ActiveRuns(i) = {}
    BY <1>2 DEF ClaimWorkRunStart, Claimable
  <2> DEFINE x == [pc |-> "spawn", run |-> r]
             w == [item |-> i, status |-> "running", start |-> "pending"]
  <2>3. x \in StarterType /\ x.pc = "spawn" /\ x.run = r /\ At(i, x)
    BY <2>1 DEF StarterType
  <2>4. w \in Run /\ w.status = "running" /\ w.item = i /\ run' = [run EXCEPT ![r] = w]
    BY <2>1 DEF Run, RunStatus
  <2> HIDE DEF x, w
  <2>5. /\ starter' \in [Items -> StarterType] /\ starter'[i] = x
        /\ \A j \in Items : j # i => starter'[j] = starter[j]
    BY <1>0, <2>3, StarterMoves
  <2>6. /\ run' \in [Runs -> Run \cup {NoRun}] /\ run'[r] = w
        /\ \A q \in Runs : q # r => run'[q] = run[q]
    BY <1>0, <2>4, Types
  <2>7. item' \in [Items -> ItemStatus] /\ \A j \in Items : item'[j] = "skipped" => item[j] = "skipped"
    BY <1>0, <2>2, Types DEF ItemStatus
  <2>8. TypeOK'
    BY <1>0, <2>5, <2>6, <2>7, Types, TypesBack
  <2>9. \A q \in Runs : RunStep(q)
    BY <2>1, <2>4, <2>6 DEF RunStep, Active
  <2>10. Sound(i, x, run', session')
    BY <1>0, <2>1, <2>3, <2>4, <2>6 DEF Sound, Held, Before, Active, IInv, Unused
  <2>11. "dismiss" \notin faults => Alone(i, x, run', session')
    <3> SUFFICES ASSUME "dismiss" \notin faults, NEW q \in Runs, q # r, run'[q].item = i,
                        session[q] = "tasked"
                 PROVE  FALSE
      BY <1>0, <2>3 DEF Alone
    <3>1. run[q].item = i
      BY <2>6
    <3>2. run[q] # NoRun
      BY <1>0, <3>1, Types
    <3>3. run[q].status \in Active
      BY <3>2 DEF IInv, AgentIsOnTheLedger, Undismissed
    <3> QED
      BY <2>2, <3>1, <3>3 DEF ActiveRuns, RunsOf
  <2> QED
    BY <1>0, <2>5, <2>7, <2>8, <2>9, <2>10, <2>11, SessionsStay, StepKept
<1> QED
  BY <1>1, <1>2

\* What a start in flight knows of its run.
LEMMA HeldFacts ==
    ASSUME IInv, NEW i \in Items, starter[i].pc \in Held
    PROVE  /\ starter[i].run \in Runs /\ run[starter[i].run].item = i
           /\ run[starter[i].run] \in Run /\ run[starter[i].run] # NoRun
           /\ starter[i] \in StarterType
           /\ Sound(i, starter[i], run, session)
           /\ "dismiss" \notin faults => Alone(i, starter[i], run, session)
<1>1. TypeOK /\ Sound(i, starter[i], run, session) /\ starter[i] \in StarterType
  BY Types DEF IInv, Starters
<1>2. starter[i].run \in Runs /\ run[starter[i].run].item = i
  BY <1>1, StarterFacts DEF Sound
<1>3. run[starter[i].run] \in Run /\ run[starter[i].run] # NoRun
  BY <1>1, <1>2, Types
<1> QED
  BY <1>1, <1>2, <1>3 DEF IInv, Undismissed

LEMMA SpawnSysoutInv ==
    ASSUME IInv, NEW i \in Items, SpawnSysout(i)
    PROVE  IInv'
<1> DEFINE r == starter[i].run
           w == run[r]
<1>0. starter[i].pc = "spawn" /\ starter[i].pc \in Held /\ starter[i].pc \in Before
  BY DEF SpawnSysout, Held, Before
<1>1. /\ r \in Runs /\ w.item = i /\ w \in Run /\ session[r] = "none"
      /\ w.status \in Active \cup {"cancelled"}
      /\ "dismiss" \notin faults => \A q \in Runs : q # r /\ run[q].item = i => session[q] # "tasked"
  BY <1>0, HeldFacts DEF Sound, Alone
<1>2. CASE Current(i) /\ At(i, [pc |-> "putSpawned", run |-> r, saved |-> w])
  <2> DEFINE x == [pc |-> "putSpawned", run |-> r, saved |-> w]
  <2>1. x \in StarterType /\ x.pc = "putSpawned" /\ x.run = r /\ x.saved = w /\ At(i, x)
    BY <1>1, <1>2 DEF StarterType
  <2>2. w.status \in Active
    BY <1>2 DEF Current
  <2> HIDE DEF x
  <2>3. Sound(i, x, run, session) /\ ("dismiss" \notin faults => Alone(i, x, run, session))
    BY <1>1, <2>1, <2>2 DEF Sound, Alone, Held, Before
  <2> QED
    BY <2>1, <2>3, StarterOnly DEF SpawnSysout
<1>3. ASSUME NEW b \in BOOLEAN, At(i, [pc |-> "error", run |-> r, definite |-> b])
      PROVE  IInv'
  <2> DEFINE x == [pc |-> "error", run |-> r, definite |-> b]
  <2>1. x \in StarterType /\ x.pc = "error" /\ x.run = r /\ At(i, x)
    BY <1>1, <1>3 DEF StarterType
  <2> HIDE DEF x
  <2>2. Sound(i, x, run, session) /\ Alone(i, x, run, session)
    BY <1>1, <2>1 DEF Sound, Alone, Held, Before
  <2> QED
    BY <2>1, <2>2, StarterOnly DEF SpawnSysout
<1> QED
  BY <1>2, <1>3 DEF SpawnSysout

\* The executor is given the task, or nothing happens but that the start
\* moves on to x.
LEMMA TaskStep ==
    ASSUME IInv, NEW i \in Items, starter[i].pc \in Before, NEW x \in StarterType, At(i, x),
           session' = session \/ session' = [session EXCEPT ![starter[i].run] = "tasked"],
           x.pc \in {"putSubmitted", "started", "error"}, x.run = starter[i].run,
           x.pc = "error" => ~x.definite,
           x.pc = "putSubmitted" => x.saved.item = i /\ x.saved.status \in Active,
           UNCHANGED <<item, run, listed, applier, dismisser, faults>>
    PROVE  IInv'
<1> DEFINE r == starter[i].run
<1>0. TypeOK
  BY DEF IInv
<1>1. /\ r \in Runs /\ run[r].item = i /\ session[r] = "none"
  BY HeldFacts DEF Sound, Held, Before
<1>2. /\ starter' \in [Items -> StarterType] /\ starter'[i] = x
      /\ \A j \in Items : j # i => starter'[j] = starter[j]
  BY <1>0, StarterMoves
<1>3. session' \in [Runs -> Session] /\ (session'[r] = session[r] \/ session'[r] = "tasked")
      /\ \A q \in Runs : q # r => session'[q] = session[q]
  BY <1>0, <1>1, Types DEF Session
<1>4. TypeOK'
  BY <1>0, <1>2, <1>3, Types, TypesBack
<1>5. \A q \in Runs : SessionStep(q)
  <2>1. SessionStep(r)
    BY <1>1, <1>2, <1>3 DEF SessionStep, Before
  <2>2. ASSUME NEW q \in Runs, q # r PROVE SessionStep(q)
    BY <1>3, <2>2 DEF SessionStep
  <2> QED
    BY <2>1, <2>2
<1>6. Sound(i, x, run', session') /\ Alone(i, x, run', session')
  BY <1>1 DEF Sound, Alone, Held, Before
<1> QED
  BY <1>2, <1>4, <1>5, <1>6, RunsStay, StepKept

LEMMA PostRunInv ==
    ASSUME IInv, NEW i \in Items, PostRun(i)
    PROVE  IInv'
<1> DEFINE r == starter[i].run
<1>0. starter[i].pc \in Before /\ starter[i].pc \in Held
  BY DEF PostRun, Held, Before
<1>1. r \in Runs
  BY <1>0, HeldFacts
<1>2. /\ session' = session \/ session' = [session EXCEPT ![r] = "tasked"]
      /\ UNCHANGED <<item, run, listed, applier, dismisser, faults>>
  BY DEF PostRun
<1>3. CASE At(i, [pc |-> "started", run |-> r])
  <2> DEFINE x == [pc |-> "started", run |-> r]
  <2>1. x \in StarterType /\ x.pc = "started" /\ x.run = r /\ At(i, x)
    BY <1>1, <1>3 DEF StarterType
  <2> HIDE DEF x
  <2> QED
    BY <1>0, <1>2, <2>1, TaskStep
<1>4. CASE At(i, [pc |-> "error", run |-> r, definite |-> FALSE])
  <2> DEFINE x == [pc |-> "error", run |-> r, definite |-> FALSE]
  <2>1. x \in StarterType /\ x.pc = "error" /\ x.run = r /\ ~x.definite /\ At(i, x)
    BY <1>1, <1>4 DEF StarterType
  <2> HIDE DEF x
  <2> QED
    BY <1>0, <1>2, <2>1, TaskStep
<1> QED
  BY <1>3, <1>4 DEF PostRun

LEMMA WriteStdinInv ==
    ASSUME IInv, NEW i \in Items, WriteStdin(i)
    PROVE  IInv'
<1> DEFINE r == starter[i].run
           w == run[r]
<1>0. starter[i].pc \in Before /\ starter[i].pc \in Held
  BY DEF WriteStdin, Held, Before
<1>1. r \in Runs /\ w \in Run /\ w.item = i
  BY <1>0, HeldFacts
<1>2. /\ session' = session \/ session' = [session EXCEPT ![r] = "tasked"]
      /\ UNCHANGED <<item, run, listed, applier, dismisser, faults>>
  BY DEF WriteStdin
<1>3. CASE Current(i) /\ At(i, [pc |-> "putSubmitted", run |-> r, saved |-> w])
  <2> DEFINE x == [pc |-> "putSubmitted", run |-> r, saved |-> w]
  <2>1. x \in StarterType /\ x.pc = "putSubmitted" /\ x.run = r /\ x.saved = w /\ At(i, x)
    BY <1>1, <1>3 DEF StarterType
  <2>2. w.status \in Active
    BY <1>3 DEF Current
  <2> HIDE DEF x
  <2> QED
    BY <1>0, <1>1, <1>2, <2>1, <2>2, TaskStep
<1>4. CASE At(i, [pc |-> "error", run |-> r, definite |-> FALSE])
  <2> DEFINE x == [pc |-> "error", run |-> r, definite |-> FALSE]
  <2>1. x \in StarterType /\ x.pc = "error" /\ x.run = r /\ ~x.definite /\ At(i, x)
    BY <1>1, <1>4 DEF StarterType
  <2> HIDE DEF x
  <2> QED
    BY <1>0, <1>2, <2>1, TaskStep
<1> QED
  BY <1>3, <1>4 DEF WriteStdin

\* A start writes the row of its run and moves on to x.
LEMMA PutStep ==
    ASSUME IInv, NEW i \in Items, starter[i].pc \in Held, NEW x \in StarterType, At(i, x),
           NEW w \in Run, w.item = i, run' = [run EXCEPT ![starter[i].run] = w],
           \/ w.status \in Active
           \/ /\ w.status # "cancelled" /\ session[starter[i].run] = "none"
              /\ x.pc \notin Before,
           Sound(i, x, run', session), "dismiss" \notin faults => Alone(i, x, run', session),
           UNCHANGED <<item, session, listed, applier, dismisser, faults>>
    PROVE  IInv'
<1> DEFINE r == starter[i].run
<1>0. TypeOK /\ r \in Runs /\ run[r].item = i /\ run[r] # NoRun
  BY HeldFacts DEF IInv
<1>1. /\ starter' \in [Items -> StarterType] /\ starter'[i] = x
      /\ \A j \in Items : j # i => starter'[j] = starter[j]
  BY <1>0, StarterMoves
<1>2. /\ run' \in [Runs -> Run \cup {NoRun}] /\ run'[r] = w
      /\ \A q \in Runs : q # r => run'[q] = run[q]
  BY <1>0, Types
<1>3. TypeOK'
  BY <1>0, <1>1, <1>2, Types, TypesBack
<1>4. RunStep(r)
  <2>1. CASE w.status \in Active
    BY <1>0, <1>2, <2>1 DEF RunStep
  <2>2. CASE w.status # "cancelled" /\ session[r] = "none" /\ x.pc \notin Before
    <3>1. ASSUME NEW j \in Items, starter'[j].pc \in Before PROVE starter'[j].run # r
      <4>1. j # i /\ starter'[j] = starter[j]
        BY <1>1, <2>2, <3>1
      <4>2. starter[j].pc \in Held
        BY <3>1, <4>1 DEF Before, Held
      <4>3. run[starter[j].run].item = j
        BY <4>2, HeldFacts
      <4> QED
        BY <1>0, <4>1, <4>3
    <3> QED
      BY <1>0, <1>2, <2>2, <3>1 DEF RunStep
  <2> QED
    BY <2>1, <2>2
<1>5. \A q \in Runs : RunStep(q)
  BY <1>2, <1>4 DEF RunStep
<1> QED
  BY <1>1, <1>3, <1>5, SessionsStay, StepKept

LEMMA PutSpawnedInv ==
    ASSUME IInv, NEW i \in Items, PutSpawned(i)
    PROVE  IInv'
<1> DEFINE r == starter[i].run
           w == starter[i].saved
           x == [pc |-> "stdin", run |-> r]
<1>0. starter[i].pc = "putSpawned" /\ starter[i].pc \in Before /\ starter[i].pc \in Held
  BY DEF PutSpawned, Held, Before
<1>1. /\ r \in Runs /\ run[r] \in Run /\ session[r] = "none" /\ TypeOK
      /\ w \in Run /\ w.item = i /\ w.status \in Active
      /\ "dismiss" \notin faults => \A q \in Runs : q # r /\ run[q].item = i => session[q] # "tasked"
  BY <1>0, HeldFacts, StarterFacts DEF Sound, Alone, IInv
<1>2. run' = [run EXCEPT ![r] = w] /\ At(i, x)
  BY DEF PutSpawned
<1>3. x \in StarterType /\ x.pc = "stdin" /\ x.run = r
  BY <1>1 DEF StarterType
<1> HIDE DEF x
<1>4. run'[r] = w /\ \A q \in Runs : q # r => run'[q] = run[q]
  BY <1>1, <1>2, Types
<1>5. Sound(i, x, run', session) /\ ("dismiss" \notin faults => Alone(i, x, run', session))
  BY <1>1, <1>3, <1>4 DEF Sound, Alone, Held, Before
<1> QED
  BY <1>0, <1>1, <1>2, <1>3, <1>5, PutStep DEF PutSpawned

\* The row of a run with another start state.
LEMMA RestartedRun ==
    ASSUME NEW w \in Run, NEW s \in {"none", "pending", "submitted", "uncertain"}
    PROVE  /\ [w EXCEPT !.start = s] \in Run
           /\ [w EXCEPT !.start = s].item = w.item /\ [w EXCEPT !.start = s].status = w.status
  BY DEF Run

LEMMA PutSubmittedInv ==
    ASSUME IInv, NEW i \in Items, PutSubmitted(i)
    PROVE  IInv'
<1> DEFINE r == starter[i].run
           w == [starter[i].saved EXCEPT !.start = "submitted"]
           x == [pc |-> "started", run |-> r]
<1>0. starter[i].pc = "putSubmitted" /\ starter[i].pc \in Held
  BY DEF PutSubmitted, Held
<1>1. /\ r \in Runs /\ TypeOK /\ starter[i].saved \in Run
      /\ starter[i].saved.item = i /\ starter[i].saved.status \in Active
  BY <1>0, HeldFacts, StarterFacts DEF Sound, IInv
<1>2. w \in Run /\ w.item = i /\ w.status \in Active
  BY <1>1, RestartedRun
<1>3. run' = [run EXCEPT ![r] = w] /\ At(i, x)
  BY DEF PutSubmitted
<1>4. x \in StarterType /\ x.pc = "started" /\ x.run = r
  BY <1>1 DEF StarterType
<1> HIDE DEF x, w
<1>5. run'[r] = w
  BY <1>1, <1>3, Types
<1>6. Sound(i, x, run', session) /\ Alone(i, x, run', session)
  BY <1>2, <1>4, <1>5 DEF Sound, Alone, Held, Before
<1> QED
  BY <1>0, <1>2, <1>3, <1>4, <1>6, PutStep DEF PutSubmitted

LEMMA StartReturnedInv ==
    ASSUME IInv, NEW i \in Items, StartReturned(i)
    PROVE  IInv'
<1> DEFINE r == starter[i].run
           settled == run[r].status = "cancelled" \/ run[r].start = "none"
           w == [run[r] EXCEPT !.start = "submitted"]
           y == [pc |-> "status", item |-> i, was |-> "running", run |-> r]
<1>0. TypeOK /\ starter[i].pc = "started" /\ starter[i].pc \in Held
      /\ UNCHANGED <<item, session, listed, dismisser, faults>>
  BY DEF StartReturned, Held, IInv
<1>1. r \in Runs /\ run[r] \in Run /\ run[r].item = i /\ i \in Appliers
  BY <1>0, HeldFacts DEF Appliers
<1>2. Idle \in StarterType /\ Idle.pc = "idle" /\ At(i, Idle)
  BY DEF StarterType, Idle, StartReturned
<1>3. CASE settled
  <2>1. run' = run /\ applier' = applier
    BY <1>3 DEF StartReturned
  <2> QED
    BY <1>0, <1>2, <2>1, Holdless, StarterOnly
<1>4. CASE ~settled
  <2>1. run' = [run EXCEPT ![r].start = "submitted"] /\ RefreshTo(i, y)
    BY <1>4 DEF StartReturned, RefreshTo
  <2>2. w \in Run /\ w.item = i /\ w.status = run[r].status
    BY <1>1, RestartedRun
  <2>3. y \in ApplierType /\ y.pc = "status" /\ y.run = r /\ y.item = i
    BY <1>1 DEF ApplierType, Active
  <2>4. run' = [run EXCEPT ![r] = w]
    BY <2>1
  <2> HIDE DEF w, y
  <2>5. /\ run' \in [Runs -> Run \cup {NoRun}] /\ run'[r] = w
        /\ \A q \in Runs : q # r => run'[q] = run[q]
    BY <1>0, <1>1, <2>2, <2>4, Types
  <2>6. /\ starter' \in [Items -> StarterType] /\ starter'[i] = Idle
        /\ \A j \in Items : j # i => starter'[j] = starter[j]
    BY <1>0, <1>2, StarterMoves
  <2>7. /\ applier' \in [Appliers -> ApplierType] /\ applier'[i] = y
        /\ \A g \in Appliers : g # i => applier'[g] = applier[g]
    BY <1>0, <1>1, <2>1, <2>3, ApplierMoves
  <2>8. TypeOK'
    BY <1>0, <2>5, <2>6, <2>7, Types, TypesBack
  <2>9. Judges(y, run', session')
    BY <2>2, <2>3, <2>5 DEF Judges
  <2>10. RunStep(r)
    <3>1. run[r].status \in Active \cup {"completed", "failed"} /\ run[r] # NoRun
      BY <1>1, <1>4, RunFacts DEF RunStatus, Active
    <3>2. CASE run[r].status \in Active
      BY <1>1, <2>2, <2>5, <3>2 DEF RunStep
    <3>3. CASE run[r].status \in {"completed", "failed"}
      <4>1. session[r] # "tasked"
        BY <1>1, <3>3 DEF IInv, AgentIsOnTheLedger, Active
      <4>2. session[r] \in {"none", "completed", "failed"}
        BY <1>0, <1>1, <4>1, Types DEF Session
      <4>3. ASSUME NEW j \in Items, starter'[j].pc \in Before PROVE starter'[j].run # r
        <5>1. j # i /\ starter'[j] = starter[j]
          BY <1>2, <2>6, <4>3 DEF Before
        <5>2. starter[j].pc \in Held
          BY <4>3, <5>1 DEF Before, Held
        <5>3. run[starter[j].run].item = j
          BY <5>2, HeldFacts
        <5> QED
          BY <1>1, <5>1, <5>3
      <4> QED
        BY <1>0, <1>1, <2>2, <2>5, <3>1, <3>3, <4>2, <4>3 DEF RunStep
    <3> QED
      BY <3>1, <3>2, <3>3
  <2>11. \A q \in Runs : RunStep(q)
    BY <2>5, <2>10 DEF RunStep
  <2>12. \A j \in Items : \/ starter'[j] = starter[j]
                          \/ Sound(j, starter'[j], run', session') /\ Alone(j, starter'[j], run', session')
    BY <1>2, <2>6, Holdless
  <2> QED
    BY <1>0, <2>7, <2>8, <2>9, <2>11, <2>12, SessionsStay, StepKept
<1> QED
  BY <1>3, <1>4

LEMMA StartFailedInv ==
    ASSUME IInv, NEW i \in Items, StartFailed(i)
    PROVE  IInv'
<1> DEFINE r == starter[i].run
<1>0. TypeOK /\ starter[i].pc = "error" /\ starter[i].pc \in Held
      /\ UNCHANGED <<item, session, listed, applier, dismisser, faults>>
  BY DEF StartFailed, Held, IInv
<1>1. /\ r \in Runs /\ run[r] \in Run /\ run[r].item = i
      /\ starter[i].definite => session[r] = "none"
  BY <1>0, HeldFacts DEF Sound
<1>2. ASSUME NEW st \in {"failed", "waiting_human"}, NEW s \in {"none", "uncertain"},
             run' = [run EXCEPT ![r].status = st, ![r].start = s],
             At(i, [pc |-> "putItem", status |-> st]),
             st = "failed" => session[r] = "none"
      PROVE  IInv'
  <2> DEFINE w == [item |-> i, status |-> st, start |-> s]
             x == [pc |-> "putItem", status |-> st]
  <2>1. w \in Run /\ w.item = i /\ w.status = st
    BY DEF Run, RunStatus
  <2>2. [[run[r] EXCEPT !.status = st] EXCEPT !.start = s] = w
    <3> DEFINE z == [run[r] EXCEPT !.status = st]
    <3>1. z = [item |-> i, status |-> st, start |-> run[r].start]
      BY <1>1 DEF Run
    <3> HIDE DEF z
    <3>2. [z EXCEPT !.start = s] = w
      BY <3>1
    <3> QED
      BY <3>2 DEF z
  <2>3. run' = [run EXCEPT ![r] = [[run[r] EXCEPT !.status = st] EXCEPT !.start = s]]
    BY <1>0, <1>1, <1>2, Types
  <2> HIDE DEF w
  <2>4. run' = [run EXCEPT ![r] = w]
    BY <2>2, <2>3
  <2>5. x \in StarterType /\ x.pc = "putItem" /\ At(i, x)
    BY <1>2 DEF StarterType
  <2> HIDE DEF x
  <2>6. Sound(i, x, run', session) /\ Alone(i, x, run', session)
    BY <2>5, Holdless
  <2>7. \/ w.status \in Active
        \/ w.status # "cancelled" /\ session[r] = "none" /\ x.pc \notin Before
    BY <1>2, <2>1, <2>5 DEF Active, Before
  <2> QED
    BY <1>0, <2>1, <2>4, <2>5, <2>6, <2>7, PutStep
<1>3. CASE run' = run /\ At(i, Idle)
  <2>1. Idle \in StarterType /\ Idle.pc = "idle"
    BY DEF StarterType, Idle
  <2> QED
    BY <1>0, <1>3, <2>1, Holdless, StarterOnly
<1> QED
  BY <1>1, <1>2, <1>3 DEF StartFailed

LEMMA PutStartFailedInv ==
    ASSUME IInv, NEW i \in Items, PutStartFailed(i)
    PROVE  IInv'
<1>0. TypeOK /\ UNCHANGED <<run, session, listed, applier, dismisser, faults>>
      /\ item' = [item EXCEPT ![i] = starter[i].status] /\ starter[i].pc = "putItem" /\ At(i, Idle)
  BY DEF IInv, PutStartFailed
<1>1. starter[i].status \in {"failed", "waiting_human"}
  BY <1>0, Types, StarterFacts
<1>2. Idle \in StarterType /\ Idle.pc = "idle"
  BY DEF StarterType, Idle
<1>3. /\ starter' \in [Items -> StarterType] /\ starter'[i] = Idle
      /\ \A j \in Items : j # i => starter'[j] = starter[j]
  BY <1>0, <1>2, StarterMoves
<1>4. item' \in [Items -> ItemStatus] /\ \A j \in Items : item'[j] = "skipped" => item[j] = "skipped"
  BY <1>0, <1>1, Types DEF ItemStatus
<1>5. TypeOK'
  BY <1>0, <1>3, <1>4, Types, TypesBack
<1>6. \A j \in Items : \/ starter'[j] = starter[j]
                       \/ Sound(j, starter'[j], run', session') /\ Alone(j, starter'[j], run', session')
  BY <1>2, <1>3, Holdless
<1> QED
  BY <1>0, <1>4, <1>5, <1>6, RunsStay, SessionsStay, StepKept

LEMMA AgentEndsInv ==
    ASSUME IInv, NEW r \in Runs, AgentEnds(r)
    PROVE  IInv'
<1>0. TypeOK /\ UNCHANGED <<item, run, listed, starter, applier, dismisser, faults>>
      /\ session[r] = "tasked"
  BY DEF IInv, AgentEnds
<1>1. PICK end \in {"completed", "failed"} : session' = [session EXCEPT ![r] = end]
  BY DEF AgentEnds
<1>2. session' \in [Runs -> Session] /\ session'[r] = end
      /\ \A q \in Runs : q # r => session'[q] = session[q]
  BY <1>0, <1>1, Types DEF Session
<1>3. TypeOK'
  BY <1>0, <1>2, Types, TypesBack
<1>4. \A q \in Runs : SessionStep(q)
  BY <1>0, <1>2 DEF SessionStep
<1> QED
  BY <1>0, <1>3, <1>4, RunsStay, StepKept

\* A pass moves on to x and writes at most one row.
LEMMA PassStep ==
    ASSUME IInv, NEW f \in Appliers, NEW x \in ApplierType, RefreshTo(f, x),
           run' \in [Runs -> Run \cup {NoRun}], \A q \in Runs : RunStep(q),
           Judges(x, run', session),
           faults \subseteq faults', faults' \subseteq {"crash", "dismiss", "rerun", "prompt"},
           UNCHANGED <<item, session, listed, starter, dismisser>>
    PROVE  IInv'
<1>0. TypeOK
  BY DEF IInv
<1>1. /\ applier' \in [Appliers -> ApplierType] /\ applier'[f] = x
      /\ \A g \in Appliers : g # f => applier'[g] = applier[g]
  BY <1>0, ApplierMoves
<1>2. TypeOK'
  BY <1>0, <1>1, Types, TypesBack
<1> QED
  BY <1>1, <1>2, SessionsStay, StepKept

LEMMA IdlePass ==
    ASSUME NEW rs, NEW ss
    PROVE  Idle \in ApplierType /\ Judges(Idle, rs, ss)
  BY DEF ApplierType, Idle, Judges

\* What a pass under way knows.
LEMMA PassFacts ==
    ASSUME IInv, NEW f \in Appliers, applier[f].pc # "idle"
    PROVE  /\ applier[f] \in ApplierType /\ Judges(applier[f], run, session)
           /\ applier[f].run \in Runs /\ applier[f].item \in Items
           /\ run[applier[f].run].item = applier[f].item
           /\ run[applier[f].run] \in Run /\ run[applier[f].run] # NoRun
           /\ applier[f].was \in Active \cup {"open"}
<1>1. TypeOK /\ applier[f] \in ApplierType /\ Judges(applier[f], run, session)
  BY Types DEF IInv, Passes
<1>2. applier[f].run \in Runs /\ applier[f].item \in Items /\ applier[f].was \in Active \cup {"open"}
      /\ run[applier[f].run].item = applier[f].item
  BY <1>1, ApplierFacts DEF Judges
<1> QED
  BY <1>1, <1>2, Types

\* A written row, when it was not an unused one.
LEMMA WrittenRun ==
    ASSUME TypeOK, NEW r \in Runs, NEW w \in Run, run' = [run EXCEPT ![r] = w],
           run[r] # NoRun, w.item = run[r].item,
           \/ w.status \in Active
           \/ w.status = "cancelled" /\ "dismiss" \in faults
           \/ w.status # "cancelled" /\ session[r] \in {"completed", "failed"}
    PROVE  /\ run' \in [Runs -> Run \cup {NoRun}] /\ run'[r] = w
           /\ \A q \in Runs : q # r => run'[q] = run[q]
           /\ \A q \in Runs : RunStep(q)
<1>1. /\ run' \in [Runs -> Run \cup {NoRun}] /\ run'[r] = w
      /\ \A q \in Runs : q # r => run'[q] = run[q]
  BY Types
<1> QED
  BY <1>1 DEF RunStep

LEMMA CancelledFacts ==
    ASSUME NEW i \in Items
    PROVE  Cancelled(i) \in Run /\ Cancelled(i).item = i /\ Cancelled(i).status = "cancelled"
  BY DEF Cancelled, Run, RunStatus

LEMMA AbandonStep ==
    ASSUME IInv, NEW f \in Appliers, applier[f].pc # "idle", AbandonIfSkipped(f),
           UNCHANGED <<item, session, listed, starter, dismisser, faults>>
    PROVE  IInv'
<1> DEFINE p == applier[f]
<1>0. /\ TypeOK /\ p.run \in Runs /\ p.item \in Items /\ run[p.run].item = p.item
      /\ run[p.run] # NoRun /\ faults \subseteq {"crash", "dismiss", "rerun", "prompt"}
  BY PassFacts, Types DEF IInv
<1>1. "dismiss" \in faults
  BY <1>0 DEF AbandonIfSkipped, IInv, Undismissed
<1>2. Cancelled(p.item) \in Run /\ Cancelled(p.item).item = p.item
      /\ Cancelled(p.item).status = "cancelled"
  BY <1>0, CancelledFacts
<1>3. run' \in [Runs -> Run \cup {NoRun}] /\ \A q \in Runs : RunStep(q)
  BY <1>0, <1>1, <1>2, WrittenRun DEF AbandonIfSkipped
<1> QED
  BY <1>0, <1>3, IdlePass, PassStep DEF AbandonIfSkipped

LEMMA RefreshReadInv ==
    ASSUME IInv, NEW f \in Refreshers, NEW i \in Items, RefreshRead(f, i)
    PROVE  IInv'
<1>0. TypeOK /\ f \in Appliers /\ faults \subseteq {"crash", "dismiss", "rerun", "prompt"}
      /\ run \in [Runs -> Run \cup {NoRun}]
  BY Types DEF IInv, Appliers
<1>1. PICK r \in ActiveRuns(i) :
        RefreshTo(f, [pc |-> "status", item |-> i, was |-> item[i], run |-> r])
  BY DEF RefreshRead
<1>2. r \in Runs /\ run[r].item = i /\ item[i] \in Active \cup {"open"}
  BY DEF ActiveRuns, RunsOf, RefreshRead
<1> DEFINE x == [pc |-> "status", item |-> i, was |-> item[i], run |-> r]
<1>3. x \in ApplierType /\ RefreshTo(f, x) /\ x.pc = "status" /\ x.run = r /\ x.item = i
  BY <1>1, <1>2 DEF ApplierType
<1> HIDE DEF x
<1>4. Judges(x, run', session)
  BY <1>2, <1>3 DEF Judges, RefreshRead
<1> QED
  BY <1>0, <1>3, <1>4, RunsStay, PassStep DEF RefreshRead

LEMMA RefreshStatusInv ==
    ASSUME IInv, NEW f \in Appliers, RefreshStatus(f)
    PROVE  IInv'
<1> DEFINE p == applier[f]
<1>0. TypeOK /\ p.pc = "status" /\ p.pc # "idle" /\ run \in [Runs -> Run \cup {NoRun}]
      /\ faults \subseteq {"crash", "dismiss", "rerun", "prompt"}
  BY Types DEF IInv, RefreshStatus
<1>1. CASE AbandonIfSkipped(f) /\ faults' = faults
  BY <1>0, <1>1, AbandonStep DEF RefreshStatus
<1>2. ASSUME NEW h \in RunStatus, Answer(p.run, h), run' = run,
             RefreshTo(f, [pc |-> "putRun", item |-> p.item, was |-> p.was,
                           run |-> p.run, status |-> h])
      PROVE  IInv'
  <2> DEFINE x == [pc |-> "putRun", item |-> p.item, was |-> p.was, run |-> p.run, status |-> h]
  <2>1. p.run \in Runs /\ p.item \in Items /\ run[p.run].item = p.item /\ p.was \in Active \cup {"open"}
    BY <1>0, PassFacts
  <2>2. x \in ApplierType /\ RefreshTo(f, x) /\ x.pc = "putRun" /\ x.run = p.run
        /\ x.item = p.item /\ x.status = h
    BY <1>2, <2>1 DEF ApplierType
  <2>3. h # "cancelled" /\ (h \in {"completed", "failed"} => session[p.run] = h)
    BY <1>2 DEF Answer
  <2>4. faults \subseteq faults' /\ faults' \subseteq {"crash", "dismiss", "rerun", "prompt"}
    BY <1>0, <1>2, FaultFacts DEF Answer
  <2> HIDE DEF x
  <2>5. Judges(x, run', session)
    BY <1>2, <2>1, <2>2, <2>3 DEF Judges
  <2> QED
    BY <1>0, <1>2, <2>2, <2>4, <2>5, RunsStay, PassStep DEF RefreshStatus
<1> QED
  BY <1>1, <1>2 DEF RefreshStatus

\* The next place of a pass that keeps what it holds.
LEMMA PassGoesOn ==
    ASSUME NEW x \in ApplierType, x.pc \in {"putRun", "recheck", "putItem"},
           NEW where \in {"recheck", "putItem"}
    PROVE  /\ [x EXCEPT !.pc = where] \in ApplierType
           /\ [x EXCEPT !.pc = where].pc = where /\ [x EXCEPT !.pc = where].run = x.run
           /\ [x EXCEPT !.pc = where].item = x.item /\ [x EXCEPT !.pc = where].status = x.status
<1>1. x \in [pc : {"putRun", "recheck", "putItem"}, item : Items,
             was : Active \cup {"open"}, run : Runs, status : RunStatus]
  BY DEF ApplierType, Idle
<1>2. [x EXCEPT !.pc = where] \in [pc : {"putRun", "recheck", "putItem"}, item : Items,
             was : Active \cup {"open"}, run : Runs, status : RunStatus]
  BY <1>1
<1> QED
  BY <1>1, <1>2 DEF ApplierType

LEMMA ApplyRunInv ==
    ASSUME IInv, NEW f \in Appliers, ApplyRun(f)
    PROVE  IInv'
<1> DEFINE p == applier[f]
           w == [item |-> p.item, status |-> p.status, start |-> "none"]
           x == [p EXCEPT !.pc = "recheck"]
<1>0. TypeOK /\ p.pc = "putRun" /\ p.pc # "idle"
      /\ faults \subseteq {"crash", "dismiss", "rerun", "prompt"}
  BY Types DEF IInv, ApplyRun
<1>1. /\ p \in ApplierType /\ p.run \in Runs /\ p.item \in Items /\ run[p.run].item = p.item
      /\ run[p.run] # NoRun /\ p.status \in RunStatus /\ p.status # "cancelled"
      /\ p.status \in {"completed", "failed"} => session[p.run] = p.status
  BY <1>0, PassFacts, ApplierFacts DEF Judges
<1>2. w \in Run /\ w.item = p.item /\ w.status = p.status /\ run' = [run EXCEPT ![p.run] = w]
  BY <1>1 DEF Run, ApplyRun
<1>3. x \in ApplierType /\ x.pc = "recheck" /\ x.run = p.run /\ x.item = p.item
      /\ x.status = p.status /\ RefreshTo(f, x)
  BY <1>0, <1>1, PassGoesOn DEF ApplyRun
<1> HIDE DEF w, x, p
<1>4. w.status \in Active \/ (w.status # "cancelled" /\ session[p.run] \in {"completed", "failed"})
  BY <1>1, <1>2 DEF RunStatus, Active
<1>5. /\ run' \in [Runs -> Run \cup {NoRun}] /\ run'[p.run] = w /\ \A q \in Runs : RunStep(q)
  BY <1>0, <1>1, <1>2, <1>4, WrittenRun
<1>6. Judges(x, run', session)
  BY <1>1, <1>2, <1>3, <1>5 DEF Judges
<1> QED
  BY <1>0, <1>3, <1>5, <1>6, PassStep DEF ApplyRun

LEMMA ApplyRecheckInv ==
    ASSUME IInv, NEW f \in Appliers, ApplyRecheck(f)
    PROVE  IInv'
<1> DEFINE p == applier[f]
           x == [p EXCEPT !.pc = "putItem"]
<1>0. TypeOK /\ p.pc = "recheck" /\ p.pc # "idle" /\ run \in [Runs -> Run \cup {NoRun}]
      /\ faults \subseteq {"crash", "dismiss", "rerun", "prompt"}
  BY Types DEF IInv, ApplyRecheck
<1>1. CASE AbandonIfSkipped(f)
  BY <1>0, <1>1, AbandonStep DEF ApplyRecheck
<1>2. CASE RefreshTo(f, x) /\ run' = run
  <2>1. p \in ApplierType /\ Judges(p, run, session)
    BY <1>0, PassFacts
  <2>2. x \in ApplierType /\ x.pc = "putItem" /\ x.run = p.run /\ x.item = p.item
        /\ x.status = p.status
    BY <1>0, <2>1, PassGoesOn
  <2> HIDE DEF x
  <2>3. Judges(x, run', session)
    BY <1>0, <1>2, <2>1, <2>2 DEF Judges
  <2> QED
    BY <1>0, <1>2, <2>2, <2>3, RunsStay, PassStep DEF ApplyRecheck
<1> QED
  BY <1>1, <1>2 DEF ApplyRecheck

LEMMA ApplyItemInv ==
    ASSUME IInv, NEW f \in Appliers, ApplyItem(f)
    PROVE  IInv'
<1> DEFINE p == applier[f]
           st == WorkStatusFromRun(p.status)
<1>0. TypeOK /\ p.pc = "putItem" /\ p.pc # "idle" /\ RefreshTo(f, Idle)
      /\ UNCHANGED <<run, session, listed, starter, dismisser, faults>>
      /\ (item' = item \/ item' = [item EXCEPT ![p.item] = st])
  BY DEF IInv, ApplyItem
<1>1. p.item \in Items /\ p.status \in RunStatus /\ p.status # "cancelled"
  BY <1>0, PassFacts, ApplierFacts DEF Judges
<1>2. st \in ItemStatus /\ st # "skipped"
  BY <1>1 DEF WorkStatusFromRun, RunStatus, ItemStatus
<1> HIDE DEF st
<1>3. item' \in [Items -> ItemStatus] /\ \A j \in Items : item'[j] = "skipped" => item[j] = "skipped"
  BY <1>0, <1>1, <1>2, Types
<1>4. /\ applier' \in [Appliers -> ApplierType] /\ applier'[f] = Idle
      /\ \A g \in Appliers : g # f => applier'[g] = applier[g]
  BY <1>0, IdlePass, ApplierMoves
<1>5. TypeOK'
  BY <1>0, <1>3, <1>4, Types, TypesBack
<1>6. \A g \in Appliers : applier'[g] = applier[g] \/ Judges(applier'[g], run', session')
  BY <1>4, IdlePass
<1> QED
  BY <1>0, <1>3, <1>5, <1>6, RunsStay, SessionsStay, StepKept

LEMMA DismissItemInv ==
    ASSUME IInv, NEW i \in Items, DismissItem(i)
    PROVE  IInv'
<1>0. TypeOK /\ UNCHANGED <<run, session, listed, starter, applier>>
      /\ item' = [item EXCEPT ![i] = "skipped"]
  BY DEF IInv, DismissItem
<1>1. /\ faults \subseteq faults' /\ "dismiss" \in faults'
      /\ faults' \subseteq {"crash", "dismiss", "rerun", "prompt"}
  BY <1>0, FaultFacts DEF DismissItem
<1>2. /\ dismisser' \in [Items -> Runs \cup {None}]
      /\ \A j \in Items : dismisser'[j] = dismisser[j] \/ run[dismisser'[j]].item = j
  <2>1. CASE dismisser' = dismisser
    BY <1>0, <2>1, Types
  <2>2. ASSUME NEW r \in ActiveRuns(i), dismisser' = [dismisser EXCEPT ![i] = r]
        PROVE  <1>2!1 /\ <1>2!2
    <3>1. r \in Runs /\ run[r].item = i
      BY DEF ActiveRuns, RunsOf
    <3> QED
      BY <1>0, <2>2, <3>1, Types
  <2> QED
    BY <2>1, <2>2 DEF DismissItem
<1>3. item' \in [Items -> ItemStatus]
  BY <1>0, Types DEF ItemStatus
<1>4. TypeOK'
  BY <1>0, <1>1, <1>2, <1>3, Types, TypesBack
<1> QED
  BY <1>0, <1>1, <1>2, <1>4, RunsStay, SessionsStay, StepKept

LEMMA DismissRunInv ==
    ASSUME IInv, NEW i \in Items, DismissRun(i)
    PROVE  IInv'
<1> DEFINE r == dismisser[i]
<1>0. TypeOK /\ UNCHANGED <<item, session, listed, starter, applier, faults>>
      /\ r # None /\ run' = [run EXCEPT ![r] = Cancelled(i)]
      /\ dismisser' = [dismisser EXCEPT ![i] = None]
  BY DEF IInv, DismissRun
<1>1. "dismiss" \in faults
  BY <1>0 DEF IInv, Undismissed
<1>2. r \in Runs /\ run[r].item = i /\ run[r] # NoRun
  <2>1. r \in Runs /\ run[r].item = i
    BY <1>0, Types DEF IInv, Dismissals
  <2> QED
    BY <1>0, <2>1, Types
<1>3. run' \in [Runs -> Run \cup {NoRun}] /\ \A q \in Runs : RunStep(q)
  BY <1>0, <1>1, <1>2, CancelledFacts, WrittenRun
<1>4. dismisser' \in [Items -> Runs \cup {None}]
      /\ \A j \in Items : dismisser'[j] \in {None, dismisser[j]}
  BY <1>0, Types
<1>5. TypeOK'
  BY <1>0, <1>3, <1>4, Types, TypesBack
<1> QED
  BY <1>0, <1>3, <1>4, <1>5, SessionsStay, StepKept

LEMMA RunWorkItemInv ==
    ASSUME IInv, NEW i \in Items, RunWorkItem(i)
    PROVE  IInv'
<1> DEFINE x == [pc |-> "claim", manual |-> TRUE]
<1>0. /\ TypeOK /\ UNCHANGED <<session, listed, applier, dismisser>>
      /\ item' = [item EXCEPT ![i] = "open"]
      /\ starter' = starter \/ At(i, x)
      /\ run' = [r \in Runs |-> IF r \in ActiveRuns(i) THEN Cancelled(i) ELSE run[r]]
  BY DEF IInv, RunWorkItem, At
<1>1. faults \subseteq faults' /\ faults' \subseteq {"crash", "dismiss", "rerun", "prompt"}
  BY <1>0, FaultFacts DEF RunWorkItem
<1>2. ASSUME NEW r \in ActiveRuns(i) PROVE "dismiss" \in faults /\ r \in Runs /\ run[r].item = i
  BY DEF RunWorkItem, IInv, Undismissed, ActiveRuns, RunsOf
<1>3. run' \in [Runs -> Run \cup {NoRun}]
  BY <1>0, CancelledFacts, Types
<1>4. ASSUME NEW r \in Runs PROVE RunStep(r)
  <2>1. CASE r \in ActiveRuns(i)
    <3>1. run'[r] = Cancelled(i) /\ run[r].item = i /\ "dismiss" \in faults
      BY <1>0, <1>2, <2>1
    <3> QED
      BY <3>1, CancelledFacts DEF RunStep
  <2>2. CASE r \notin ActiveRuns(i)
    BY <1>0, <2>2 DEF RunStep
  <2> QED
    BY <2>1, <2>2
<1>5. x \in StarterType /\ x.pc = "claim"
  BY DEF StarterType
<1> HIDE DEF x
<1>6. /\ starter' \in [Items -> StarterType]
      /\ \A j \in Items : starter'[j] = starter[j] \/ starter'[j] = x
  BY <1>0, <1>5, StarterMoves, Types
<1>7. item' \in [Items -> ItemStatus] /\ \A j \in Items : item'[j] = "skipped" => item[j] = "skipped"
  BY <1>0, Types DEF ItemStatus
<1>8. TypeOK'
  BY <1>0, <1>1, <1>3, <1>6, <1>7, Types, TypesBack
<1> QED
  BY <1>0, <1>1, <1>4, <1>5, <1>6, <1>7, <1>8, Holdless, SessionsStay, StepKept

LEMMA CrashInv ==
    ASSUME IInv, Crash
    PROVE  IInv'
<1>0. TypeOK /\ UNCHANGED <<item, run, session>>
  BY DEF IInv, Crash
<1>1. faults \subseteq faults' /\ faults' \subseteq {"crash", "dismiss", "rerun", "prompt"}
  BY <1>0, FaultFacts DEF Crash
<1>2. Idle \in StarterType /\ Idle.pc = "idle"
  BY DEF StarterType, Idle
<1>3. /\ starter' \in [Items -> StarterType] /\ applier' \in [Appliers -> ApplierType]
      /\ dismisser' \in [Items -> Runs \cup {None}] /\ listed' \in [Items -> {"none", "open", "failed"}]
      /\ \A i \in Items : starter'[i] = Idle /\ dismisser'[i] = None
      /\ \A f \in Appliers : applier'[f] = Idle
  BY <1>2, IdlePass DEF Crash
<1>4. TypeOK'
  BY <1>0, <1>1, <1>3, Types, TypesBack
<1> QED
  BY <1>0, <1>1, <1>2, <1>3, <1>4, Holdless, IdlePass, RunsStay, SessionsStay, StepKept

-----------------------------------------------------------------------------
(* The specification *)

LEMMA InitInv == Init => IInv
<1> SUFFICES ASSUME Init PROVE IInv
  OBVIOUS
<1>1. Idle \in StarterType /\ Idle \in ApplierType /\ Idle.pc = "idle"
  BY DEF StarterType, ApplierType, Idle
<1>2. TypeOK
  BY <1>1 DEF Init, TypeOK, StarterType, ApplierType, ItemStatus, Session
<1>3. Starters /\ \A i \in Items : Alone(i, starter[i], run, session)
  BY <1>1, Holdless DEF Init, Starters
<1>4. Passes
  BY IdlePass DEF Init, Passes
<1>5. Dismissals /\ Unused /\ AgentIsOnTheLedger /\ OneAgentPerItem
  BY DEF Init, Dismissals, Unused, AgentIsOnTheLedger, OneAgentPerItem
<1>6. Undismissed
  BY <1>3 DEF Init, Undismissed
<1> QED
  BY <1>2, <1>3, <1>4, <1>5, <1>6 DEF IInv

LEMMA NextInv == IInv /\ [Next]_vars => IInv'
<1> SUFFICES ASSUME IInv, [Next]_vars PROVE IInv'
  OBVIOUS
<1>1. CASE DispatchList
  BY <1>1, DispatchListInv
<1>2. ASSUME NEW i \in Items, RetryOrResume(i) PROVE IInv'
  BY <1>2, RetryOrResumeInv
<1>3. ASSUME NEW i \in Items, Start(i) PROVE IInv'
  BY <1>3, AcquireStartInv, ClaimInv, SpawnSysoutInv, PostRunInv, PutSpawnedInv, WriteStdinInv,
     PutSubmittedInv, StartReturnedInv, StartFailedInv, PutStartFailedInv DEF Start
<1>4. ASSUME NEW i \in Items, DismissItem(i) \/ DismissRun(i) \/ RunWorkItem(i) PROVE IInv'
  BY <1>4, DismissItemInv, DismissRunInv, RunWorkItemInv
<1>5. ASSUME NEW r \in Runs, AgentEnds(r) PROVE IInv'
  BY <1>5, AgentEndsInv
<1>6. ASSUME NEW f \in Refreshers, NEW i \in Items, RefreshRead(f, i) PROVE IInv'
  BY <1>6, RefreshReadInv
<1>7. ASSUME NEW f \in Appliers, Apply(f) PROVE IInv'
  BY <1>7, RefreshStatusInv, ApplyRunInv, ApplyRecheckInv, ApplyItemInv DEF Apply
<1>8. CASE Crash
  BY <1>8, CrashInv
<1>9. CASE UNCHANGED vars
  BY <1>9 DEF vars, IInv, TypeOK, Starters, Passes, Dismissals, Unused, Undismissed,
     AgentIsOnTheLedger, OneAgentPerItem
<1> QED
  BY <1>1, <1>2, <1>3, <1>4, <1>5, <1>6, <1>7, <1>8, <1>9 DEF Next

\* The inductive invariant holds throughout: whatever crash, dismissal, rerun
\* and prompt happen, rows written from stale reads never say ended of a
\* session that still holds its task.
THEOREM Strengthened == Spec => []IInv
  BY InitInv, NextInv, PTL DEF Spec

\* The types of the store's rows and of what starts, supervisor passes and
\* dismissals carry hold throughout.
THEOREM TypeCorrect == Spec => []TypeOK
<1>1. IInv => TypeOK
  BY DEF IInv
<1> QED
  BY <1>1, Strengthened, PTL

\* A session that holds the task is on the ledger: its run is active or a
\* human cancelled it, although startItem, applyHandle and dismissWorkItem
\* all write the whole row from what they read some awaits ago.
THEOREM LedgerShowsAgents == Spec => []AgentIsOnTheLedger
<1>1. IInv => AgentIsOnTheLedger
  BY DEF IInv
<1> QED
  BY <1>1, Strengthened, PTL

\* Unless a human dismissed an item, no two sessions hold the task of one
\* item, for any number of items, runs and supervisor passes: claimWorkRunStart
\* takes only an item without active runs, and a run stays active as long as
\* its session may still be given or hold the task.
THEOREM OneAgent == Spec => []OneAgentPerItem
<1>1. IInv => OneAgentPerItem
  BY DEF IInv
<1> QED
  BY <1>1, Strengthened, PTL

-----------------------------------------------------------------------------
(* The cap *)

\* Only the claim takes a start from "claim" to "spawn".
LEMMA OnlyTheClaim ==
    ASSUME TypeOK, Next, NEW i \in Items, starter[i].pc = "claim", starter'[i].pc = "spawn"
    PROVE  ClaimWorkRunStart(i)
<1>0. starter \in [Items -> StarterType] /\ starter' # starter
  BY Types
<1>1. ASSUME NEW j \in Items, NEW x, At(j, x) PROVE j = i /\ starter'[i] = x
  BY <1>0, <1>1 DEF At
<1>2. ASSUME NEW j \in Items, RetryOrResume(j) PROVE FALSE
  <2>1. starter' = starter \/ At(j, [pc |-> "acquire"])
    BY <1>2 DEF RetryOrResume, At
  <2> QED
    BY <1>0, <1>1, <2>1
<1>3. ASSUME NEW j \in Items, RunWorkItem(j) PROVE FALSE
  <2>1. starter' = starter \/ At(j, [pc |-> "claim", manual |-> TRUE])
    BY <1>3 DEF RunWorkItem, At
  <2> QED
    BY <1>0, <1>1, <2>1
<1>4. ASSUME NEW j \in Items, Start(j) PROVE ClaimWorkRunStart(i)
  <2>1. \E x : At(j, x)
    BY <1>4 DEF Start, AcquireStart, ClaimWorkRunStart, SpawnSysout, PostRun, PutSpawned,
       WriteStdin, PutSubmitted, StartReturned, StartFailed, PutStartFailed
  <2>2. j = i
    BY <1>1, <2>1
  <2> QED
    BY <1>4, <2>2 DEF Start, AcquireStart, SpawnSysout, PostRun, PutSpawned,
       WriteStdin, PutSubmitted, StartReturned, StartFailed, PutStartFailed
<1>5. ASSUME Crash PROVE FALSE
  BY <1>5 DEF Crash, Idle
<1> QED
  BY <1>0, <1>2, <1>3, <1>4, <1>5 DEF Next, DispatchList, DismissItem, DismissRun, AgentEnds,
     RefreshRead, Apply, RefreshStatus, ApplyRun, ApplyRecheck, ApplyItem

LEMMA ClaimKeepsCap ==
    ASSUME TypeOK, NEW i \in Items, ClaimWorkRunStart(i), starter'[i].pc = "spawn",
           starter[i].manual = FALSE
    PROVE  Cardinality(Occupied') <= MaxConcurrent
<1>1. Claimable(i, TRUE) /\ item' = [item EXCEPT ![i] = "running"]
  <2>1. CASE Claimable(i, ~starter[i].manual) /\ item' = [item EXCEPT ![i] = "running"]
    BY <2>1
  <2>2. CASE At(i, Idle)
    BY <2>2, Types DEF At, Idle
  <2> QED
    BY <2>1, <2>2 DEF ClaimWorkRunStart
<1>2. i \notin Occupied /\ Occupied' = Occupied \cup {i}
  BY <1>1, Types DEF Claimable, Occupied, Active
<1>3. IsFiniteSet(Occupied)
  <2>1. Occupied \subseteq Items
    BY DEF Occupied
  <2> QED
    BY <2>1, ItemsAssumption, FS_Subset
<1>4. Cardinality(Occupied') = Cardinality(Occupied) + 1
  BY <1>2, <1>3, FS_AddElement
<1>5. Cardinality(Occupied) \in Nat /\ Cardinality(Occupied) < MaxConcurrent
  BY <1>1, <1>3, FS_CardinalityType DEF Claimable
<1> QED
  BY <1>4, <1>5, CapAssumption

\* An automatic start never takes a slot beyond max_concurrent, for any
\* number of items and any limit: claimWorkRunStart counts the occupied items
\* in the transaction that takes the item, so what acquireStart counted some
\* awaits before cannot matter.
THEOREM WithinCap == Spec => StartsWithinCap
<1> DEFINE Step == \A i \in Items :
                     /\ starter[i].pc = "claim" /\ starter'[i].pc = "spawn"
                     => starter[i].manual \/ Cardinality(Occupied') <= MaxConcurrent
<1>1. TypeOK /\ [Next]_vars => [Step]_vars
  <2> SUFFICES ASSUME TypeOK, Next, NEW i \in Items, starter[i].pc = "claim",
                      starter'[i].pc = "spawn", ~starter[i].manual
               PROVE  Cardinality(Occupied') <= MaxConcurrent
    OBVIOUS
  <2>1. starter[i].manual = FALSE
    BY Types, StarterFacts
  <2> QED
    BY <2>1, OnlyTheClaim, ClaimKeepsCap
<1> QED
  BY <1>1, TypeCorrect, PTL DEF Spec, StartsWithinCap

=============================================================================
