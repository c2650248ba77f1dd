------------------------- MODULE WorkDeliveryProofs -------------------------
(***************************************************************************)
(* For any number of results, attempts, human requests, timeouts and       *)
(* restarts: a dead letter was claimed as often as the limit says, a       *)
(* recorded receipt has a message behind it, and so has a letter shown as  *)
(* sent unless the channel refuses by an answer nobody looks at.           *)
(*                                                                         *)
(* Every writer puts back a whole row that may be stale.  The invariant    *)
(* therefore speaks of every row that is stored or carried: what it counts *)
(* was claimed, and its receipt was delivered (Earned).  Claims and        *)
(* deliveries are never taken back, so a row that was earned once stays    *)
(* so, however late it is written.                                         *)
(***************************************************************************)
EXTENDS WorkDelivery, TLAPS

\* What a row says has happened, after n claims and the deliveries d.
Earned(l, n, d) ==
    /\ l.attempts <= n \/ n = MaxAttempts
    /\ l.status = "dead" => n = MaxAttempts
    /\ l.receipt => d # {}
    /\ l.back = "sent" => d # {} \/ Refusals

Carrying == {"listed", "reclaimed", "ready", "stamp", "settle"}

\* What a call of flushOne carries and has behind it.
Flushing(x, n, d) ==
    /\ x.pc \in Carrying => Earned(x.row, n, d)
    /\ x.pc \in Claimed => n >= 1
    /\ x.pc \in {"recipe", "check", "send"} /\ x.receipt => d # {}
    /\ x.pc = "got" /\ x.accepted => d # {}
    /\ x.pc \in {"got", "stamp", "ingest"} => d # {} \/ Refusals
    /\ x.pc = "ack" /\ x.out = "sent" => d # {} \/ Refusals

StoredRow == row # NoLetter => Earned(row, claims, delivered)

Flushers ==
    \A a \in Roles :
        /\ Flushing(att[a], claims, delivered)
        /\ att[a] # Idle => row # NoLetter

Completing(x, n, d) == x.pc \in {"check", "put"} => Earned(x.row, n, d)

Dismissing(x, n, d) == x.pc = "put" => Earned(x.row, n, d)

IInv ==
    /\ TypeOK /\ StoredRow /\ Flushers
    /\ Completing(completer, claims, delivered)
    /\ Dismissing(dismisser, claims, delivered)

\* A letter shown as sent has a message behind it.
SentIsBacked == row.status = "acked" /\ row.back = "sent" => delivered # {}

\* A recorded receipt has a message behind it.
ReceiptIsBacked == row # NoLetter /\ row.receipt => delivered # {}

\* A recorded receipt, which keeps every later attempt from sending the
\* letter, is of a payload the channel accepted: a refusal, a lost answer and
\* a late write never make one.
ReceiptIsTruthful == row # NoLetter /\ row.receipt => row.payload \in delivered

Completers == [pc : {"idle", "read", "recheck", "close"}] \cup [pc : {"check", "put"}, row : Letter]

Dismissers == {Idle, [pc |-> "read"]} \cup [pc : {"put"}, row : Letter]

Scenario == [timedOut : Nat, disturbances : Nat]

-----------------------------------------------------------------------------
(* Letters *)

\* A stored letter is told from none.
LEMMA LetterIsLetter == ASSUME NEW l \in Letter PROVE l # NoLetter
  BY DEF Letter, NoLetter

\* The fields of a letter.
LEMMA Fields ==
    ASSUME NEW l \in Letter
    PROVE  /\ l.attempts \in Nat /\ l.receipt \in BOOLEAN /\ l.payload \in Payloads
           /\ l.status \in {"queued", "write_back", "acked", "dead"}
           /\ l.back \in {"pending", "sent", "skipped", "failed"}
  BY DEF Letter

\* A letter and its changed fields.
LEMMA ReceiptFacts ==
    ASSUME NEW l \in Letter, NEW n \in 0..MaxAttempts, NEW d, Earned(l, n, d),
           NEW accepted \in BOOLEAN, accepted => d # {}
    PROVE  RecordReceipt(l, accepted) \in Letter /\ Earned(RecordReceipt(l, accepted), n, d)
  BY DEF RecordReceipt, Letter, Earned

LEMMA AckedFacts ==
    ASSUME NEW l \in Letter, NEW n \in 0..MaxAttempts, NEW d, Earned(l, n, d),
           NEW out \in {"sent", "skipped"}, out = "sent" => d # {} \/ Refusals
    PROVE  /\ Acked(l, out) \in Letter /\ Earned(Acked(l, out), n, d)
           /\ Acked(l, out).status = "acked" /\ Acked(l, out).back = out
  BY DEF Acked, Letter, Earned

LEMMA AbandonedFacts ==
    ASSUME NEW l \in Letter, NEW n \in 0..MaxAttempts, NEW d, Earned(l, n, d)
    PROVE  Abandoned(l) \in Letter /\ Earned(Abandoned(l), n, d)
  BY AckedFacts DEF Abandoned

LEMMA FreshFacts ==
    ASSUME NEW p \in Payloads, NEW n \in 0..MaxAttempts, NEW d
    PROVE  Fresh(p) \in Letter /\ Earned(Fresh(p), n, d)
<1>1. Fresh(p) \in Letter
  BY DEF Fresh, Letter
<1>2. Fresh(p).attempts = 0 /\ Fresh(p).status = "queued" /\ Fresh(p).receipt = FALSE
      /\ Fresh(p).back = "pending"
  BY DEF Fresh
<1> QED
  BY <1>1, <1>2, AttemptsAssumption DEF Earned

\* claimSend counts one attempt more, and the claim is counted with it.
LEMMA ClaimFacts ==
    ASSUME NEW l \in Letter, NEW n \in 0..MaxAttempts, NEW m \in 0..MaxAttempts, NEW d,
           Earned(l, n, d), m = IF n = MaxAttempts THEN n ELSE n + 1
    PROVE  /\ ClaimSend(l) \in Letter /\ Earned(ClaimSend(l), m, d)
           /\ ClaimSend(l).payload = l.payload /\ ClaimSend(l).receipt = l.receipt
<1> DEFINE t == l.attempts + 1
<1>1. t \in Nat /\ (t <= m \/ m = MaxAttempts)
  BY Fields, AttemptsAssumption DEF Earned
<1>2. ClaimSend(l) = [l EXCEPT !.status = "write_back", !.back = "pending",
                               !.attempts = t, !.due = TRUE, !.leased = TRUE]
  BY DEF ClaimSend
<1> HIDE DEF t
<1>3. /\ ClaimSend(l) \in Letter /\ ClaimSend(l).attempts = t
      /\ ClaimSend(l).status = "write_back" /\ ClaimSend(l).back = "pending"
      /\ ClaimSend(l).payload = l.payload /\ ClaimSend(l).receipt = l.receipt
  BY <1>1, <1>2 DEF Letter
<1> QED
  BY <1>1, <1>3 DEF Earned

\* writeBackFailed gives up only at the limit, and then so many claims were
\* written.
LEMMA FailedFacts ==
    ASSUME NEW l \in Letter, NEW n \in 0..MaxAttempts, NEW d, Earned(l, n, d), n >= 1
    PROVE  WriteBackFailed(l) \in Letter /\ Earned(WriteBackFailed(l), n, d)
<1> DEFINE t == IF l.attempts = 0 THEN 1 ELSE l.attempts
<1>1. t \in Nat /\ (t <= n \/ n = MaxAttempts)
  BY Fields, AttemptsAssumption DEF Earned
<1>2. t >= MaxAttempts => n = MaxAttempts
  BY <1>1, AttemptsAssumption
<1>3. WriteBackFailed(l) =
        [l EXCEPT !.status = IF t >= MaxAttempts THEN "dead" ELSE "write_back",
                  !.back = "failed", !.attempts = t, !.due = (t >= MaxAttempts), !.leased = FALSE]
  BY DEF WriteBackFailed
<1>4. (t >= MaxAttempts) \in BOOLEAN
  OBVIOUS
<1> HIDE DEF t
<1>5. /\ WriteBackFailed(l) \in Letter /\ WriteBackFailed(l).attempts = t
      /\ WriteBackFailed(l).status = IF t >= MaxAttempts THEN "dead" ELSE "write_back"
      /\ WriteBackFailed(l).back = "failed" /\ WriteBackFailed(l).receipt = l.receipt
  BY <1>1, <1>3, <1>4 DEF Letter
<1> QED
  BY <1>1, <1>2, <1>5 DEF Earned

LEMMA TimedOutFacts ==
    ASSUME NEW l \in Letter, NEW n \in 0..MaxAttempts, NEW d, Earned(l, n, d)
    PROVE  SendTimedOut(l) \in Letter /\ Earned(SendTimedOut(l), n, d)
<1> DEFINE t == IF l.attempts = 0 THEN 0 ELSE l.attempts - 1
<1>1. t \in Nat /\ (t <= n \/ n = MaxAttempts)
  BY Fields, AttemptsAssumption DEF Earned
<1>2. SendTimedOut(l) = [l EXCEPT !.attempts = t]
  BY DEF SendTimedOut
<1> HIDE DEF t
<1>3. /\ SendTimedOut(l) \in Letter /\ SendTimedOut(l).attempts = t
      /\ SendTimedOut(l).status = l.status /\ SendTimedOut(l).back = l.back
      /\ SendTimedOut(l).receipt = l.receipt
  BY <1>1, <1>2 DEF Letter
<1> QED
  BY <1>1, <1>3 DEF Earned

LEMMA ReclaimFacts ==
    ASSUME NEW l \in Letter, NEW n \in 0..MaxAttempts, NEW d, Earned(l, n, d)
    PROVE  ReclaimLease(l) \in Letter /\ Earned(ReclaimLease(l), n, d)
  BY DEF ReclaimLease, Letter, Earned

LEMMA RetryFacts ==
    ASSUME NEW l \in Letter, NEW n \in 0..MaxAttempts, NEW d, Earned(l, n, d)
    PROVE  RetryNow(l) \in Letter /\ Earned(RetryNow(l), n, d)
<1> DEFINE t == IF l.status = "dead" THEN 0 ELSE l.attempts
<1>1. t \in Nat /\ (t <= n \/ n = MaxAttempts)
  BY Fields, AttemptsAssumption DEF Earned
<1>2. RetryNow(l) = [l EXCEPT !.status = "queued", !.back = "pending", !.attempts = t,
                              !.due = TRUE, !.leased = FALSE]
  BY DEF RetryNow
<1> HIDE DEF t
<1>3. /\ RetryNow(l) \in Letter /\ RetryNow(l).attempts = t
      /\ RetryNow(l).status = "queued" /\ RetryNow(l).back = "pending"
      /\ RetryNow(l).receipt = l.receipt
  BY <1>1, <1>2 DEF Letter
<1> QED
  BY <1>1, <1>3 DEF Earned

LEMMA EnqueueFacts ==
    ASSUME NEW l \in Letter \cup {NoLetter}, NEW p \in Payloads, NEW n \in 0..MaxAttempts, NEW d,
           l # NoLetter => Earned(l, n, d)
    PROVE  EnqueueWriteBack(l, p) \in Letter /\ Earned(EnqueueWriteBack(l, p), n, d)
  BY FreshFacts DEF EnqueueWriteBack

\* What was earned stays earned.
LEMMA EarnedKept ==
    ASSUME NEW l \in Letter, NEW n \in 0..MaxAttempts, NEW m \in 0..MaxAttempts, n <= m,
           NEW d, NEW e, d \subseteq e, Earned(l, n, d)
    PROVE  Earned(l, m, e)
<1>1. n = MaxAttempts => m = MaxAttempts
  BY AttemptsAssumption
<1>2. l.attempts <= n => l.attempts <= m
  BY Fields, AttemptsAssumption
<1> QED
  BY <1>1, <1>2 DEF Earned

-----------------------------------------------------------------------------
(* Steps *)

\* What a call holds, by where it is.
LEMMA AttemptFacts ==
    ASSUME NEW x \in Attempt \cup {Idle}
    PROVE  /\ x.pc \in Carrying => x.row \in Letter
           /\ x.pc \in {"recipe", "check", "send"} =>
                x.payload \in Payloads /\ x.receipt \in BOOLEAN
           /\ x.pc = "got" => x.accepted \in BOOLEAN
           /\ x.pc = "ack" => x.out \in {"sent", "skipped"}
           /\ x.pc # "idle" => x # Idle
           /\ x # Idle => x.pc # "idle"
  BY DEF Attempt, Idle, Carrying

\* A call that carries on, with more claims and deliveries behind it.
LEMMA FlushingKept ==
    ASSUME NEW x \in Attempt \cup {Idle}, NEW n \in 0..MaxAttempts, NEW m \in 0..MaxAttempts, n <= m,
           NEW d, NEW e, d \subseteq e, Flushing(x, n, d)
    PROVE  Flushing(x, m, e)
<1>1. x.pc \in Carrying => Earned(x.row, m, e)
  BY AttemptFacts, EarnedKept DEF Flushing
<1>2. n >= 1 => m >= 1
  BY AttemptsAssumption
<1>3. d # {} => e # {}
  OBVIOUS
<1> QED
  BY <1>1, <1>2, <1>3 DEF Flushing

LEMMA StepKept ==
    ASSUME IInv,
           claims' \in 0..MaxAttempts, claims <= claims',
           delivered \subseteq delivered', delivered' \subseteq Payloads,
           item' \in {"running", "done", "skipped"}, recipe' \in BOOLEAN,
           left' \in Scenario,
           row' = row \/ (row' \in Letter /\ Earned(row', claims', delivered')),
           att' \in [Roles -> Attempt \cup {Idle}],
           \A a \in Roles : att'[a] = att[a]
                            \/ (Flushing(att'[a], claims', delivered') /\ row # NoLetter),
           completer' = completer
             \/ (completer' \in Completers /\ Completing(completer', claims', delivered')),
           dismisser' = dismisser
             \/ (dismisser' \in Dismissers /\ Dismissing(dismisser', claims', delivered'))
    PROVE  IInv'
<1>1. TypeOK /\ StoredRow /\ Flushers /\ claims \in 0..MaxAttempts
      /\ Completing(completer, claims, delivered) /\ Dismissing(dismisser, claims, delivered)
  BY DEF IInv, TypeOK
<1>2. TypeOK'
  BY <1>1 DEF TypeOK, Completers, Dismissers, Scenario
<1>3. StoredRow'
  BY <1>1, EarnedKept DEF StoredRow, TypeOK
<1>4. row # NoLetter => row' # NoLetter
  BY LetterIsLetter
<1>5. ASSUME NEW a \in Roles
      PROVE  Flushing(att'[a], claims', delivered') /\ (att'[a] # Idle => row' # NoLetter)
  <2>1. CASE att'[a] = att[a]
    <3>1. att[a] \in Attempt \cup {Idle} /\ Flushing(att[a], claims, delivered)
          /\ (att[a] # Idle => row # NoLetter)
      BY <1>1 DEF TypeOK, Flushers
    <3> QED
      BY <1>1, <1>4, <2>1, <3>1, FlushingKept
  <2>2. CASE Flushing(att'[a], claims', delivered') /\ row # NoLetter
    BY <1>4, <2>2
  <2> QED
    BY <2>1, <2>2
<1>6. Completing(completer, claims, delivered)'
  <2>1. CASE completer' = completer
    <3>1. completer.pc \in {"check", "put"} => completer.row \in Letter
      BY <1>1 DEF TypeOK
    <3> QED
      BY <1>1, <2>1, <3>1, EarnedKept DEF Completing
  <2> QED
    BY <2>1
<1>7. Dismissing(dismisser, claims, delivered)'
  <2>1. CASE dismisser' = dismisser
    <3>1. dismisser.pc = "put" => dismisser.row \in Letter
      BY <1>1 DEF TypeOK, Idle
    <3> QED
      BY <1>1, <2>1, <3>1, EarnedKept DEF Dismissing
  <2> QED
    BY <2>1
<1> QED
  BY <1>2, <1>3, <1>5, <1>6, <1>7 DEF IInv, Flushers

\* A call of flushOne goes on to x, and nothing else changes but the row.
LEMMA FlushStep ==
    ASSUME IInv, NEW a \in Roles, NEW x \in Attempt \cup {Idle}, At(a, x), att[a] # Idle,
           claims' \in 0..MaxAttempts, claims <= claims',
           delivered \subseteq delivered', delivered' \subseteq Payloads,
           Flushing(x, claims', delivered'),
           row' = row \/ (row' \in Letter /\ Earned(row', claims', delivered')),
           UNCHANGED <<item, recipe, completer, dismisser, left>>
    PROVE  IInv'
<1>1. att \in [Roles -> Attempt \cup {Idle}] /\ row # NoLetter
      /\ item \in {"running", "done", "skipped"} /\ recipe \in BOOLEAN
      /\ left \in Scenario
  BY DEF IInv, Flushers, TypeOK, Scenario
<1>2. att' \in [Roles -> Attempt \cup {Idle}] /\ att'[a] = x
      /\ \A b \in Roles : b # a => att'[b] = att[b]
  BY <1>1 DEF At
<1>3. \A b \in Roles : att'[b] = att[b] \/ (Flushing(att'[b], claims', delivered') /\ row # NoLetter)
  BY <1>1, <1>2
<1> QED
  BY <1>1, <1>2, <1>3, StepKept

\* The invariant in the words StepKept uses.
LEMMA Now ==
    ASSUME IInv
    PROVE  /\ claims \in 0..MaxAttempts /\ claims <= claims /\ delivered \subseteq Payloads
           /\ item \in {"running", "done", "skipped"} /\ recipe \in BOOLEAN
           /\ left \in Scenario
           /\ row \in Letter \cup {NoLetter}
           /\ row # NoLetter => row \in Letter /\ Earned(row, claims, delivered)
           /\ att \in [Roles -> Attempt \cup {Idle}]
           /\ \A a \in Roles :
                /\ att[a] \in Attempt \cup {Idle} /\ Flushing(att[a], claims, delivered)
                /\ att[a] # Idle => row # NoLetter
                /\ att[a].pc \in Carrying => att[a].row \in Letter /\ Earned(att[a].row, claims, delivered)
           /\ completer.pc \in {"check", "put"} =>
                completer.row \in Letter /\ Earned(completer.row, claims, delivered)
           /\ dismisser.pc = "put" =>
                dismisser.row \in Letter /\ Earned(dismisser.row, claims, delivered)
<1>1. TypeOK /\ StoredRow /\ Flushers
      /\ Completing(completer, claims, delivered) /\ Dismissing(dismisser, claims, delivered)
  BY DEF IInv
<1>2. claims \in 0..MaxAttempts /\ claims <= claims
  BY <1>1, AttemptsAssumption DEF TypeOK
<1>3. ASSUME NEW a \in Roles
      PROVE  /\ att[a] \in Attempt \cup {Idle} /\ Flushing(att[a], claims, delivered)
             /\ att[a] # Idle => row # NoLetter
             /\ att[a].pc \in Carrying => att[a].row \in Letter /\ Earned(att[a].row, claims, delivered)
  <2>1. att[a] \in Attempt \cup {Idle}
    BY <1>1 DEF TypeOK
  <2> QED
    BY <1>1, <2>1, AttemptFacts DEF Flushers, Flushing
<1>4. completer.pc \in {"check", "put"} =>
        completer.row \in Letter /\ Earned(completer.row, claims, delivered)
  BY <1>1 DEF TypeOK, Completing
<1>5. dismisser.pc = "put" =>
        dismisser.row \in Letter /\ Earned(dismisser.row, claims, delivered)
  BY <1>1 DEF TypeOK, Dismissing, Idle
<1> QED
  BY <1>1, <1>2, <1>3, <1>4, <1>5 DEF TypeOK, StoredRow, Scenario

LEMMA DisturbType ==
    ASSUME IInv, Disturb
    PROVE  left' \in Scenario
  BY Now DEF Disturb, Scenario

LEMMA CompleterInv ==
    ASSUME IInv, Completer
    PROVE  IInv'
<1>1. ASSUME NEW p \in Payloads, NEW wants \in BOOLEAN, CompleteRead(p, wants) PROVE IInv'
  <2>1. CASE wants
    <3> DEFINE l == EnqueueWriteBack(row, p)
    <3>1. l \in Letter /\ Earned(l, claims, delivered)
      BY Now, EnqueueFacts
    <3>2. completer' = [pc |-> "check", row |-> l]
      BY <1>1, <2>1 DEF CompleteRead
    <3> HIDE DEF l
    <3>3. completer' \in Completers /\ Completing(completer', claims', delivered')
      BY <1>1, <3>1, <3>2 DEF Completers, Completing, CompleteRead
    <3> QED
      BY <1>1, <3>3, Now, StepKept DEF CompleteRead
  <2>2. CASE ~wants /\ row # NoLetter /\ row.status # "acked"
    <3> DEFINE l == Abandoned(row)
    <3>1. l \in Letter /\ Earned(l, claims, delivered)
      BY <2>2, Now, AbandonedFacts
    <3>2. completer' = [pc |-> "put", row |-> l]
      BY <1>1, <2>2 DEF CompleteRead
    <3> HIDE DEF l
    <3>3. completer' \in Completers /\ Completing(completer', claims', delivered')
      BY <1>1, <3>1, <3>2 DEF Completers, Completing, CompleteRead
    <3> QED
      BY <1>1, <3>3, Now, StepKept DEF CompleteRead
  <2>3. CASE ~wants /\ ~(row # NoLetter /\ row.status # "acked")
    <3>1. completer' \in Completers /\ Completing(completer', claims', delivered')
      BY <1>1, <2>3 DEF Completers, Completing, CompleteRead
    <3> QED
      BY <1>1, <3>1, Now, StepKept DEF CompleteRead
  <2> QED
    BY <2>1, <2>2, <2>3
<1>2. CASE CompleteCheck
  <2>1. completer.row \in Letter /\ Earned(completer.row, claims, delivered)
    BY <1>2, Now DEF CompleteCheck
  <2>2. completer \in [pc : {"check", "put"}, row : Letter]
    BY <1>2 DEF CompleteCheck, IInv, TypeOK
  <2>3. completer' \in Completers /\ Completing(completer', claims', delivered')
    BY <1>2, <2>1, <2>2 DEF CompleteCheck, Completers, Completing, Idle
  <2> QED
    BY <1>2, <2>3, Now, StepKept DEF CompleteCheck
<1>3. CASE CompletePut
  <2>1. row' \in Letter /\ Earned(row', claims', delivered')
    BY <1>3, Now DEF CompletePut
  <2>2. completer' \in Completers /\ Completing(completer', claims', delivered')
    BY <1>3 DEF CompletePut, Completers, Completing
  <2> QED
    BY <1>3, <2>1, <2>2, Now, StepKept DEF CompletePut
<1>4. CASE CompleteRecheck
  <2>1. completer' \in Completers /\ Completing(completer', claims', delivered')
    BY <1>4 DEF CompleteRecheck, Completers, Completing, Idle
  <2> QED
    BY <1>4, <2>1, Now, StepKept DEF CompleteRecheck
<1>5. CASE CompleteClose
  <2>1. completer' \in Completers /\ Completing(completer', claims', delivered')
    BY <1>5 DEF CompleteClose, Completers, Completing, Idle
  <2> QED
    BY <1>5, <2>1, Now, StepKept DEF CompleteClose
<1>6. CASE CompleteBegin
  <2>1. completer' \in Completers /\ Completing(completer', claims', delivered')
    BY <1>6 DEF CompleteBegin, Completers, Completing
  <2> QED
    BY <1>6, <2>1, Now, StepKept DEF CompleteBegin
<1> QED
  BY <1>1, <1>2, <1>3, <1>4, <1>5, <1>6 DEF Completer

LEMMA DismisserInv ==
    ASSUME IInv, DismissItem \/ Dismisser
    PROVE  IInv'
<1>1. CASE DismissItem
  <2>1. dismisser' \in Dismissers /\ Dismissing(dismisser', claims', delivered')
    BY <1>1 DEF DismissItem, Dismissers, Dismissing
  <2> QED
    BY <1>1, <2>1, DisturbType, Now, StepKept DEF DismissItem
<1>2. CASE DismissRead
  <2>1. CASE row # NoLetter /\ row.status # "acked"
    <3> DEFINE l == Abandoned(row)
    <3>1. l \in Letter /\ Earned(l, claims, delivered)
      BY <2>1, Now, AbandonedFacts
    <3>2. dismisser' = [pc |-> "put", row |-> l]
      BY <1>2, <2>1 DEF DismissRead
    <3> HIDE DEF l
    <3>3. dismisser' \in Dismissers /\ Dismissing(dismisser', claims', delivered')
      BY <1>2, <3>1, <3>2 DEF Dismissers, Dismissing, DismissRead
    <3> QED
      BY <1>2, <3>3, Now, StepKept DEF DismissRead
  <2>2. CASE ~(row # NoLetter /\ row.status # "acked")
    <3>1. dismisser' \in Dismissers /\ Dismissing(dismisser', claims', delivered')
      BY <1>2, <2>2 DEF Dismissers, Dismissing, DismissRead, Idle
    <3> QED
      BY <1>2, <3>1, Now, StepKept DEF DismissRead
  <2> QED
    BY <2>1, <2>2
<1>3. CASE DismissPut
  <2>1. row' \in Letter /\ Earned(row', claims', delivered')
    BY <1>3, Now DEF DismissPut
  <2>2. dismisser' \in Dismissers /\ Dismissing(dismisser', claims', delivered')
    BY <1>3 DEF DismissPut, Dismissers, Dismissing, Idle
  <2> QED
    BY <1>3, <2>1, <2>2, Now, StepKept DEF DismissPut
<1> QED
  BY <1>1, <1>2, <1>3 DEF Dismisser

\* A call carries a row.
LEMMA CarryFacts ==
    ASSUME NEW l \in Letter, NEW n \in 0..MaxAttempts, NEW d, Earned(l, n, d)
    PROVE  /\ [pc |-> "ready", row |-> l] \in Attempt \cup {Idle}
           /\ Flushing([pc |-> "ready", row |-> l], n, d)
  BY DEF Attempt, Flushing, Carrying, Claimed, Sending

LEMMA ListedFacts ==
    ASSUME NEW l \in Letter, NEW n \in 0..MaxAttempts, NEW d, Earned(l, n, d),
           NEW where \in {"listed", "reclaimed"}, NEW known \in BOOLEAN
    PROVE  /\ [pc |-> where, row |-> l, recipe |-> known] \in Attempt \cup {Idle}
           /\ Flushing([pc |-> where, row |-> l, recipe |-> known], n, d)
  BY DEF Attempt, Flushing, Carrying, Claimed, Sending

\* The call of a role becomes x and the row may change.
LEMMA RoleStep ==
    ASSUME IInv, NEW a \in Roles, NEW x \in Attempt \cup {Idle}, att' = [att EXCEPT ![a] = x],
           row # NoLetter, Flushing(x, claims, delivered),
           row' = row \/ (row' \in Letter /\ Earned(row', claims, delivered)),
           item' \in {"running", "done", "skipped"}, left' \in Scenario,
           UNCHANGED <<recipe, completer, dismisser, delivered, claims>>
    PROVE  IInv'
<1>1. att' \in [Roles -> Attempt \cup {Idle}] /\ att'[a] = x
      /\ \A b \in Roles : b # a => att'[b] = att[b]
  BY Now
<1>2. \A b \in Roles : att'[b] = att[b] \/ (Flushing(att'[b], claims', delivered') /\ row # NoLetter)
  BY <1>1
<1>3. row' = row \/ (row' \in Letter /\ Earned(row', claims', delivered'))
  OBVIOUS
<1>4. claims' \in 0..MaxAttempts /\ claims <= claims' /\ delivered \subseteq delivered'
      /\ delivered' \subseteq Payloads
  BY Now
<1>5. recipe' \in BOOLEAN
  BY Now
<1> QED
  BY <1>1, <1>2, <1>3, <1>4, <1>5, StepKept

LEMMA IdleFacts ==
    ASSUME NEW n, NEW d
    PROVE  Idle \in Attempt \cup {Idle} /\ Flushing(Idle, n, d)
  BY DEF Flushing, Idle, Carrying, Claimed, Sending

LEMMA TickInv ==
    ASSUME IInv, Tick
    PROVE  IInv'
<1> DEFINE l == att["tick"].row
<1>0. "tick" \in Roles /\ att \in [Roles -> Attempt \cup {Idle}]
  BY Now DEF Roles
<1>1. CASE TickList
  <2>1. row \in Letter /\ Earned(row, claims, delivered) /\ row # NoLetter
    BY <1>1, Now DEF TickList, ListedAsDue
  <2> DEFINE x == [pc |-> "listed", row |-> row, recipe |-> recipe]
  <2>2. x \in Attempt \cup {Idle} /\ Flushing(x, claims, delivered) /\ att' = [att EXCEPT !["tick"] = x]
    BY <1>1, <2>1, ListedFacts, Now DEF TickList
  <2> HIDE DEF x
  <2> QED
    BY <1>0, <1>1, <2>1, <2>2, Now, RoleStep DEF TickList
<1>2. CASE TickReclaim
  <2>1. att["tick"].pc = "listed" /\ att["tick"] # Idle
    BY <1>2 DEF TickReclaim, Idle
  <2>2. l \in Letter /\ Earned(l, claims, delivered) /\ row # NoLetter
    BY <1>0, <2>1, Now DEF Carrying
  <2> DEFINE m == ReclaimLease(l)
             x == [pc |-> "reclaimed", row |-> m, recipe |-> att["tick"].recipe]
  <2>3. m \in Letter /\ Earned(m, claims, delivered)
    BY <2>2, Now, ReclaimFacts
  <2>4. row' = row \/ row' = m
    BY <1>2 DEF TickReclaim
  <2>5. att["tick"].recipe \in BOOLEAN
    BY <1>0, <2>1 DEF Attempt, Idle
  <2>6. att' = [att EXCEPT !["tick"] = x]
    BY <1>0, <1>2 DEF TickReclaim
  <2> HIDE DEF m
  <2>7. x \in Attempt \cup {Idle} /\ Flushing(x, claims, delivered)
    BY <2>3, <2>5, ListedFacts, Now
  <2> HIDE DEF x
  <2> QED
    BY <1>0, <1>2, <2>2, <2>3, <2>4, <2>6, <2>7, Now, RoleStep DEF TickReclaim
<1>3. CASE TickCheckItem
  <2>1. att["tick"].pc = "reclaimed" /\ att["tick"] # Idle
    BY <1>3 DEF TickCheckItem, Idle
  <2>2. l \in Letter /\ Earned(l, claims, delivered) /\ row # NoLetter
    BY <1>0, <2>1, Now DEF Carrying
  <2>3. Abandoned(l) \in Letter /\ Earned(Abandoned(l), claims, delivered)
    BY <2>2, Now, AbandonedFacts
  <2>4. row' = row \/ row' = Abandoned(l)
    BY <1>3 DEF TickCheckItem
  <2> DEFINE x == [pc |-> "ready", row |-> l]
  <2>6. x \in Attempt \cup {Idle} /\ Flushing(x, claims, delivered)
    BY <2>2, CarryFacts, Now
  <2>8. att' = [att EXCEPT !["tick"] = Idle] \/ att' = [att EXCEPT !["tick"] = x]
    BY <1>3 DEF TickCheckItem
  <2> HIDE DEF x
  <2>9. Idle \in Attempt \cup {Idle} /\ Flushing(Idle, claims, delivered)
    BY IdleFacts
  <2>10. row' = row \/ (row' \in Letter /\ Earned(row', claims, delivered))
    BY <2>3, <2>4
  <2> QED
    BY <1>0, <1>3, <2>2, <2>6, <2>8, <2>9, <2>10, Now, RoleStep DEF TickCheckItem
<1> QED
  BY <1>1, <1>2, <1>3 DEF Tick

LEMMA RecipeInv ==
    ASSUME IInv, DeleteRecipe
    PROVE  IInv'
<1>1. \A a \in Roles : att'[a] = att[a]
  BY DEF DeleteRecipe
<1>2. recipe' \in BOOLEAN /\ left' \in Scenario
  BY DisturbType DEF DeleteRecipe
<1> QED
  BY <1>1, <1>2, Now, StepKept DEF DeleteRecipe

LEMMA HumanInv ==
    ASSUME IInv, HumanRetry \/ HumanRerun
    PROVE  IInv'
<1>0. "human" \in Roles
  BY DEF Roles
<1> DEFINE m == ReclaimLease(row)
<1>1. row # NoLetter => m \in Letter /\ Earned(m, claims, delivered)
  BY Now, ReclaimFacts
<1>2. CASE HumanRetry
  <2> DEFINE t == RetryNow(m)
             x == [pc |-> "ready", row |-> t]
  <2>1. row # NoLetter /\ att' = [att EXCEPT !["human"] = x]
    BY <1>2 DEF HumanRetry
  <2> HIDE DEF m
  <2>2. t \in Letter /\ Earned(t, claims, delivered)
    BY <1>1, <2>1, Now, RetryFacts
  <2> HIDE DEF t
  <2>3. x \in Attempt \cup {Idle} /\ Flushing(x, claims, delivered)
    BY <2>2, CarryFacts, Now
  <2> HIDE DEF x
  <2> QED
    BY <1>0, <1>2, <2>1, <2>3, Now, DisturbType, RoleStep DEF HumanRetry
<1>3. CASE HumanRerun
  <2> DEFINE x == [pc |-> "ready", row |-> m]
  <2>1. att' = att \/ (row # NoLetter /\ att' = [att EXCEPT !["human"] = x])
    BY <1>3 DEF HumanRerun
  <2> HIDE DEF m
  <2>2. row # NoLetter => x \in Attempt \cup {Idle} /\ Flushing(x, claims, delivered)
    BY <1>1, CarryFacts, Now
  <2> HIDE DEF x
  <2>3. item' \in {"running", "done", "skipped"} /\ left' \in Scenario
    BY <1>3, DisturbType DEF HumanRerun
  <2>4. CASE att' = att
    <3>1. att' \in [Roles -> Attempt \cup {Idle}] /\ \A a \in Roles : att'[a] = att[a]
      BY <2>4, Now
    <3> QED
      BY <1>3, <2>3, <3>1, Now, StepKept DEF HumanRerun
  <2>5. CASE row # NoLetter /\ att' = [att EXCEPT !["human"] = x]
    BY <1>0, <1>3, <2>2, <2>3, <2>5, RoleStep DEF HumanRerun
  <2> QED
    BY <2>1, <2>4, <2>5
<1> QED
  BY <1>2, <1>3

LEMMA ClaimInv ==
    ASSUME IInv, NEW a \in Roles, Claim(a)
    PROVE  IInv'
<1> DEFINE l == att[a].row
           c == ClaimSend(l)
           x == [pc |-> "recipe", payload |-> c.payload, receipt |-> c.receipt]
<1>1. att[a].pc = "ready" /\ att[a] # Idle
  BY DEF Claim, Idle
<1>2. l \in Letter /\ Earned(l, claims, delivered)
  BY <1>1, Now DEF Carrying
<1>3. claims' = IF claims = MaxAttempts THEN claims ELSE claims + 1
  BY DEF Claim
<1>4. claims' \in 0..MaxAttempts /\ claims <= claims' /\ claims' >= 1
  BY <1>3, Now, AttemptsAssumption
<1>5. c \in Letter /\ Earned(c, claims', delivered) /\ c.payload = l.payload /\ c.receipt = l.receipt
  BY <1>2, <1>3, <1>4, Now, ClaimFacts
<1>6. row' = c /\ At(a, x) /\ UNCHANGED <<item, recipe, completer, dismisser, delivered, left>>
  BY DEF Claim
<1> HIDE DEF c
<1>7. c.payload \in Payloads /\ c.receipt \in BOOLEAN
  BY <1>5, Fields
<1>8. x \in Attempt \cup {Idle}
  BY <1>7 DEF Attempt
<1>9. Flushing(x, claims', delivered')
  BY <1>4, <1>5, <1>6 DEF Flushing, Carrying, Earned
<1> HIDE DEF x, l
<1>10. row' \in Letter /\ Earned(row', claims', delivered')
  BY <1>5, <1>6
<1> QED
  BY <1>1, <1>4, <1>6, <1>8, <1>9, <1>10, Now, FlushStep

\* writeBack gives up before it sends, or takes one step towards it.
LEMMA CheckInv ==
    ASSUME IInv, NEW a \in Roles, CheckRecipe(a) \/ CheckItem(a)
    PROVE  IInv'
<1> DEFINE Before == [pc : {"recipe", "check", "send"}, payload : Payloads, receipt : BOOLEAN]
<1>1. /\ att[a].pc \in {"recipe", "check"} /\ att[a] # Idle
      /\ UNCHANGED <<item, recipe, row, completer, dismisser, delivered, claims, left>>
  BY DEF CheckRecipe, CheckItem, Idle
<1>2. att[a] \in Before /\ Flushing(att[a], claims, delivered)
  BY <1>1, Now DEF Attempt, Idle
<1>3. CASE At(a, [pc |-> "ack", out |-> "skipped"])
  <2> DEFINE x == [pc |-> "ack", out |-> "skipped"]
  <2>1. x \in Attempt \cup {Idle} /\ Flushing(x, claims', delivered')
    BY <1>1, <1>2 DEF Attempt, Flushing, Carrying, Claimed, Sending
  <2> HIDE DEF x
  <2> QED
    BY <1>1, <1>3, <2>1, Now, FlushStep DEF x
<1>4. ASSUME NEW where \in {"check", "send"}, At(a, [att[a] EXCEPT !.pc = where])
      PROVE  IInv'
  <2> DEFINE x == [att[a] EXCEPT !.pc = where]
  <2>1. x \in Before /\ x.pc = where /\ x.receipt = att[a].receipt
    BY <1>2
  <2>2. At(a, x)
    BY <1>4
  <2> HIDE DEF x
  <2>3. x \in Attempt \cup {Idle} /\ Flushing(x, claims', delivered')
    BY <1>1, <1>2, <2>1 DEF Attempt, Flushing, Carrying, Claimed, Sending
  <2> QED
    BY <1>1, <2>2, <2>3, Now, FlushStep
<1> QED
  BY <1>3, <1>4 DEF CheckRecipe, CheckItem

LEMMA SendInv ==
    ASSUME IInv, NEW a \in Roles, Send(a)
    PROVE  IInv'
<1>1. att[a].pc = "send" /\ att[a] # Idle
  BY DEF Send, Idle
<1>2. Flushing(att[a], claims, delivered) /\ att[a].payload \in Payloads
      /\ att[a].receipt \in BOOLEAN
  BY <1>1, Now, AttemptFacts
<1>3. claims >= 1 /\ (att[a].receipt => delivered # {})
  BY <1>1, <1>2 DEF Flushing, Claimed, Sending
<1>4. delivered \subseteq delivered' /\ delivered' \subseteq Payloads /\ claims' = claims
  BY <1>2, Now DEF Send
<1>5. CASE At(a, [pc |-> "fail"])
  <2> DEFINE x == [pc |-> "fail"]
  <2>1. x \in Attempt \cup {Idle} /\ Flushing(x, claims', delivered') /\ At(a, x)
    BY <1>3, <1>4, <1>5 DEF Attempt, Flushing, Carrying, Claimed, Sending
  <2> HIDE DEF x
  <2> QED
    BY <1>1, <1>4, <2>1, Now, FlushStep DEF Send
<1>6. ASSUME NEW accepted \in BOOLEAN, Answered(a, accepted),
             accepted => delivered' # {}, accepted \/ Refusals
      PROVE  IInv'
  <2> DEFINE x == [pc |-> "got", accepted |-> accepted]
  <2>1. x \in Attempt \cup {Idle} /\ Flushing(x, claims', delivered')
    BY <1>3, <1>4, <1>6 DEF Attempt, Flushing, Carrying, Claimed, Sending
  <2>2. At(a, x)
    BY <1>6 DEF Answered
  <2> HIDE DEF x
  <2> QED
    BY <1>1, <1>4, <2>1, <2>2, Now, FlushStep DEF Send
<1>7. \/ At(a, [pc |-> "fail"])
      \/ Answered(a, att[a].receipt) /\ delivered' = delivered /\ (att[a].receipt \/ Refusals)
      \/ Answered(a, TRUE) /\ delivered' # {}
  BY DEF Send
<1> QED
  BY <1>2, <1>3, <1>5, <1>6, <1>7

LEMMA ReceiptInv ==
    ASSUME IInv, NEW a \in Roles, ReceiptRead(a) \/ ReceiptPut(a)
    PROVE  IInv'
<1>1. att[a].pc \in {"got", "stamp"} /\ att[a] # Idle
  BY DEF ReceiptRead, ReceiptPut, Idle
<1>2. (delivered # {} \/ Refusals) /\ claims >= 1 /\ row # NoLetter
  BY <1>1, Now DEF Flushing, Claimed, Sending
<1>3. CASE ReceiptRead(a)
  <2> DEFINE l == RecordReceipt(row, att[a].accepted)
             x == [pc |-> "stamp", row |-> l]
  <2>1. att[a].accepted \in BOOLEAN /\ (att[a].accepted => delivered # {})
    BY <1>3, Now, AttemptFacts DEF ReceiptRead, Flushing
  <2>2. l \in Letter /\ Earned(l, claims, delivered)
    BY <1>2, <2>1, Now, ReceiptFacts
  <2>3. At(a, x)
    BY <1>3 DEF ReceiptRead
  <2> HIDE DEF l
  <2>4. x \in Attempt \cup {Idle} /\ Flushing(x, claims, delivered)
    BY <1>2, <2>2 DEF Attempt, Flushing, Carrying, Claimed, Sending
  <2> HIDE DEF x
  <2> QED
    BY <1>1, <1>3, <2>3, <2>4, Now, FlushStep DEF ReceiptRead
<1>4. CASE ReceiptPut(a)
  <2> DEFINE x == [pc |-> "ingest"]
  <2>1. x \in Attempt \cup {Idle} /\ Flushing(x, claims, delivered) /\ At(a, x)
    BY <1>2, <1>4 DEF Attempt, Flushing, Carrying, Claimed, Sending, ReceiptPut
  <2> HIDE DEF x
  <2>2. row' \in Letter /\ Earned(row', claims, delivered)
    BY <1>4, Now DEF ReceiptPut, Carrying
  <2> QED
    BY <1>1, <1>4, <2>1, <2>2, Now, FlushStep DEF ReceiptPut
<1> QED
  BY <1>3, <1>4

LEMMA IngestInv ==
    ASSUME IInv, NEW a \in Roles, Ingest(a)
    PROVE  IInv'
<1>1. att[a].pc = "ingest" /\ att[a] # Idle
  BY DEF Ingest, Idle
<1>2. (delivered # {} \/ Refusals) /\ claims >= 1
  BY <1>1, Now DEF Flushing, Claimed, Sending
<1>3. ASSUME NEW x \in {[pc |-> "ack", out |-> "sent"], [pc |-> "fail"]}, At(a, x)
      PROVE  IInv'
  <2>1. x \in Attempt \cup {Idle} /\ Flushing(x, claims, delivered)
    BY <1>2, <1>3 DEF Attempt, Flushing, Carrying, Claimed, Sending
  <2> QED
    BY <1>1, <1>3, <2>1, Now, FlushStep DEF Ingest
<1> QED
  BY <1>3 DEF Ingest

LEMMA OutcomeInv ==
    ASSUME IInv, NEW a \in Roles, Outcome(a)
    PROVE  IInv'
<1>1. att[a].pc \in {"ack", "fail", "timeout"} /\ att[a] # Idle
  BY DEF Outcome, Idle
<1>2. /\ claims >= 1 /\ row \in Letter /\ Earned(row, claims, delivered)
      /\ att[a].pc = "ack" => att[a].out \in {"sent", "skipped"}
      /\ att[a].pc = "ack" /\ att[a].out = "sent" => delivered # {} \/ Refusals
  BY <1>1, Now, AttemptFacts DEF Flushing, Claimed
<1>3. CASE a = "late"
  BY <1>1, <1>3, IdleFacts, Now, FlushStep DEF Outcome
<1>4. ASSUME NEW l \in Letter, Earned(l, claims, delivered), At(a, [pc |-> "settle", row |-> l])
      PROVE  IInv'
  <2> DEFINE x == [pc |-> "settle", row |-> l]
  <2>1. x \in Attempt \cup {Idle} /\ Flushing(x, claims, delivered) /\ At(a, x)
    BY <1>2, <1>4 DEF Attempt, Flushing, Carrying, Claimed, Sending
  <2> HIDE DEF x
  <2> QED
    BY <1>1, <2>1, Now, FlushStep DEF Outcome
<1>5. CASE a # "late" /\ att[a].pc = "ack"
  <2> DEFINE l == Acked(row, att[a].out)
  <2>1. l \in Letter /\ Earned(l, claims, delivered)
    BY <1>2, <1>5, Now, AckedFacts
  <2>2. At(a, [pc |-> "settle", row |-> l])
    BY <1>5 DEF Outcome
  <2> HIDE DEF l
  <2> QED
    BY <1>4, <2>1, <2>2
<1>6. CASE a # "late" /\ att[a].pc = "fail"
  <2> DEFINE l == WriteBackFailed(row)
  <2>1. l \in Letter /\ Earned(l, claims, delivered)
    BY <1>2, <1>6, Now, FailedFacts
  <2>2. At(a, [pc |-> "settle", row |-> l])
    BY <1>6 DEF Outcome
  <2> HIDE DEF l
  <2> QED
    BY <1>4, <2>1, <2>2
<1>7. CASE a # "late" /\ att[a].pc = "timeout"
  <2> DEFINE l == SendTimedOut(row)
  <2>1. l \in Letter /\ Earned(l, claims, delivered)
    BY <1>2, <1>7, Now, TimedOutFacts
  <2>2. At(a, [pc |-> "settle", row |-> l])
    BY <1>7 DEF Outcome
  <2> HIDE DEF l
  <2> QED
    BY <1>4, <2>1, <2>2
<1> QED
  BY <1>1, <1>3, <1>5, <1>6, <1>7

LEMMA SettleInv ==
    ASSUME IInv, NEW a \in Roles, Settle(a)
    PROVE  IInv'
<1>1. att[a].pc = "settle" /\ att[a] # Idle
  BY DEF Settle, Idle
<1>2. row' \in Letter /\ Earned(row', claims, delivered)
  BY <1>1, Now DEF Settle, Carrying
<1> QED
  BY <1>1, <1>2, IdleFacts, Now, FlushStep DEF Settle

LEMMA TimeoutInv ==
    ASSUME IInv, NEW a \in Roles, Timeout(a)
    PROVE  IInv'
<1> DEFINE x == [pc |-> "timeout"]
<1>1. att[a].pc \in Sending /\ att[a] # Idle /\ a # "late" /\ "late" \in Roles
  BY DEF Timeout, Idle, Sending, Awaited, Roles
<1>2. claims >= 1 /\ row # NoLetter
  BY <1>1, Now DEF Flushing, Claimed
<1>3. x \in Attempt \cup {Idle} /\ Flushing(x, claims, delivered)
  BY <1>2 DEF Attempt, Flushing, Carrying, Claimed, Sending
<1>4. att' = [att EXCEPT !["late"] = att[a], ![a] = x]
  BY DEF Timeout
<1> HIDE DEF x
<1>5. att' \in [Roles -> Attempt \cup {Idle}] /\ att'[a] = x /\ att'["late"] = att[a]
      /\ \A b \in Roles : b # a /\ b # "late" => att'[b] = att[b]
  BY <1>1, <1>3, <1>4, Now
<1>6. \A b \in Roles : att'[b] = att[b] \/ (Flushing(att'[b], claims', delivered') /\ row # NoLetter)
  BY <1>2, <1>3, <1>5, Now DEF Timeout
<1> QED
  BY <1>5, <1>6, Now, StepKept DEF Timeout

LEMMA ClockInv ==
    ASSUME IInv, RetryFallsDue \/ LeaseRunsOut
    PROVE  IInv'
<1>1. row # NoLetter
  BY DEF RetryFallsDue, LeaseRunsOut
<1>2. row \in Letter /\ Earned(row, claims, delivered)
  BY <1>1, Now
<1>3. row' = [row EXCEPT !.due = TRUE] \/ row' = [row EXCEPT !.leased = FALSE]
  BY DEF RetryFallsDue, LeaseRunsOut
<1>4. row' \in Letter /\ row'.attempts = row.attempts /\ row'.status = row.status
      /\ row'.receipt = row.receipt /\ row'.back = row.back
  BY <1>2, <1>3 DEF Letter
<1>5. Earned(row', claims, delivered)
  BY <1>2, <1>4 DEF Earned
<1> QED
  BY <1>4, <1>5, Now, StepKept DEF RetryFallsDue, LeaseRunsOut

LEMMA CrashInv ==
    ASSUME IInv, Crash
    PROVE  IInv'
<1>1. att' \in [Roles -> Attempt \cup {Idle}] /\ \A a \in Roles : att'[a] = Idle
  BY DEF Crash
<1>2. TypeOK'
  <2>1. completer' \in Completers /\ dismisser' \in Dismissers
    BY DEF Crash, Idle, Completers, Dismissers
  <2> QED
    BY <1>1, <2>1, Now, DisturbType DEF Crash, TypeOK, Completers, Dismissers, Scenario
<1>3. StoredRow'
  BY Now DEF Crash, StoredRow
<1>4. Flushers'
  BY <1>1, IdleFacts DEF Flushers
<1>5. Completing(completer, claims, delivered)' /\ Dismissing(dismisser, claims, delivered)'
  BY DEF Crash, Completing, Dismissing, Idle
<1> QED
  BY <1>2, <1>3, <1>4, <1>5 DEF IInv

-----------------------------------------------------------------------------
LEMMA InitInv == Init => IInv
<1> SUFFICES ASSUME Init PROVE IInv
  OBVIOUS
<1>1. TypeOK
  <2>1. att \in [Roles -> Attempt \cup {Idle}]
    BY DEF Init
  <2>2. completer \in Completers /\ dismisser \in Dismissers
    BY DEF Init, Idle, Completers, Dismissers
  <2> QED
    BY <2>1, <2>2, AttemptsAssumption, ScenariosAssumption
       DEF Init, TypeOK, Completers, Dismissers
<1>2. StoredRow
  BY DEF Init, StoredRow
<1>3. Flushers
  BY IdleFacts DEF Init, Flushers
<1>4. Completing(completer, claims, delivered) /\ Dismissing(dismisser, claims, delivered)
  BY DEF Init, Completing, Dismissing, Idle
<1> QED
  BY <1>1, <1>2, <1>3, <1>4 DEF IInv

LEMMA NextInv == IInv /\ [Next]_vars => IInv'
<1>1. ASSUME IInv, NEW a \in Roles, FlushOne(a) PROVE IInv'
  BY <1>1, ClaimInv, CheckInv, SendInv, ReceiptInv, IngestInv, OutcomeInv, SettleInv DEF FlushOne
<1>2. ASSUME IInv, UNCHANGED vars PROVE IInv'
  BY <1>2 DEF IInv, vars, TypeOK, StoredRow, Flushers
<1>3. ASSUME IInv, Next PROVE IInv'
  BY <1>1, <1>3, CompleterInv, DismisserInv, TickInv, HumanInv, RecipeInv, TimeoutInv, ClockInv, CrashInv DEF Next
<1> QED
  BY <1>2, <1>3

(* Every stored or carried letter has earned what it says, always. *)
THEOREM Strengthened == Spec => []IInv
  BY InitInv, NextInv, PTL DEF Spec

(* Every writer puts back a whole letter, and every call carries what its  *)
(* step needs: onReceipt and the outcome never meet a missing row.         *)
THEOREM TypeCorrect == Spec => []TypeOK
<1>1. IInv => TypeOK
  BY DEF IInv
<1> QED
  BY <1>1, Strengthened, PTL

(* A letter is given up only after as many claims as the limit, for every  *)
(* limit, although the tick, the human retry and the late answer write     *)
(* back attempt counts they read before the others wrote.                  *)
THEOREM DeadWasTried == Spec => []DeadIsEarned
<1>1. IInv => DeadIsEarned
  BY LetterIsLetter, AttemptsAssumption DEF IInv, StoredRow, DeadIsEarned, Earned, NoLetter
<1> QED
  BY <1>1, Strengthened, PTL

(* A recorded receipt, which keeps every later attempt from sending, has a *)
(* message behind it: neither a refusal nor a restart nor a late call      *)
(* makes one up.                                                           *)
THEOREM ReceiptWasDelivered == Spec => []ReceiptIsBacked
<1>1. IInv => ReceiptIsBacked
  BY DEF IInv, StoredRow, ReceiptIsBacked, Earned
<1> QED
  BY <1>1, Strengthened, PTL

(* For a job that always finishes with the same result, that message is    *)
(* the letter's.  With two results a late receipt of the first may be put  *)
(* on the second.                                                          *)
THEOREM ReceiptIsTrue ==
    ASSUME \A p, q \in Payloads : p = q
    PROVE  Spec => []ReceiptIsTruthful
<1>1. IInv => ReceiptIsTruthful
  <2> SUFFICES ASSUME IInv, row # NoLetter, row.receipt PROVE row.payload \in delivered
    BY DEF ReceiptIsTruthful
  <2>1. row \in Letter /\ delivered # {} /\ delivered \subseteq Payloads
    BY Now DEF Earned
  <2>2. row.payload \in Payloads
    BY <2>1, Fields
  <2> QED
    BY <2>1, <2>2
<1> QED
  BY <1>1, Strengthened, PTL

(* Where every refusal of the channel is thrown, as in the drivers of the  *)
(* repository, a letter shown as sent has a message behind it.  An answer  *)
(* that resolves with accepted: false would be shown as sent too.          *)
THEOREM SentWasDelivered ==
    ASSUME ~Refusals
    PROVE  Spec => []SentIsBacked
<1>1. IInv => SentIsBacked
  BY DEF IInv, StoredRow, SentIsBacked, Earned, NoLetter
<1> QED
  BY <1>1, Strengthened, PTL

(* And for a job that always finishes with the same result, that message   *)
(* is the letter's.                                                        *)
THEOREM SentIsTrue ==
    ASSUME ~Refusals, \A p, q \in Payloads : p = q
    PROVE  Spec => []SentIsTruthful
<1>1. IInv => SentIsTruthful
  <2> SUFFICES ASSUME IInv, row.status = "acked", row.back = "sent" PROVE row.payload \in delivered
    BY DEF SentIsTruthful
  <2>1. row # NoLetter
    BY DEF NoLetter
  <2>2. row \in Letter /\ delivered # {} /\ delivered \subseteq Payloads
    BY <2>1, Now DEF Earned
  <2>3. row.payload \in Payloads
    BY <2>2, Fields
  <2> QED
    BY <2>2, <2>3
<1> QED
  BY <1>1, Strengthened, PTL

=============================================================================
