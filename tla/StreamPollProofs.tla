-------------------------- MODULE StreamPollProofs --------------------------
(***************************************************************************)
(* For any number of polls, pages and messages: a poll gives its lease     *)
(* back, unless the store fails; stored cursors cover only stored          *)
(* messages, unless a record conflicts; the stream lock admits one poll at *)
(* a time when nobody jumps the queue; and a backfill is not given up when *)
(* moreover no poll throws.                                                *)
(*                                                                         *)
(* A cursor travels: from the lease or the state row to the poll, from the *)
(* page to the outcome, and through a second read of the state row back    *)
(* into it.  The invariant follows it (Sound, Report).  For the lock it    *)
(* says that those in line can be numbered so that each waits for the one  *)
(* before it (InOrder).                                                    *)
(***************************************************************************)
EXTENDS StreamPoll, TLAPS

\* The messages from the cursor's head to its tail are among s.
Spans(c, s) == c # None => c.head..c.tail \subseteq s

\* What a poll x carries while the messages s are stored.
Sound(x, s) ==
    /\ Spans(x.cursor, s) /\ Spans(x.out.next, s)
    /\ Spans(x.cur.live, s) /\ Spans(x.cur.history, s)
    /\ x.pc = "ingest" => Spans(x.got.next, s \cup x.got.recs)
    /\ x.pc = "settle" => Spans(x.got.next, s)

Carried == \A p \in Pollers : Sound(poller[p], committed)

\* Who has queued on the stream lock and not left it.
Inside == {"queue", "lease"} \cup Leased

\* Whoever is inside has a job, and a page in hand has a cursor.
Working(x) ==
    /\ x.pc \in Inside => x.job \in Jobs
    /\ x.pc \in {"ingest", "settle"} => x.got.next # None

Workers == \A p \in Pollers : Working(poller[p])

InLine == {p \in Pollers : poller[p].pc \in Inside}

\* The numbers order the line: each waits for the one just before it, the
\* first for nobody, and the lock is the last one's.
InOrder(number) ==
    /\ \A p, q \in InLine : number[p] = number[q] => p = q
    /\ \A p \in Pollers : poller[p].after # None =>
         /\ poller[p].pc = "queue" /\ poller[p].after \in InLine
         /\ number[poller[p].after] < number[p]
         /\ \A q \in InLine : number[q] < number[p] => number[q] <= number[poller[p].after]
    /\ \A p, q \in InLine : poller[p].after = None => number[p] <= number[q]
    /\ lock # None => lock \in InLine /\ \A q \in InLine : number[q] <= number[lock]
    /\ lock = None => InLine = {}

Line == \E number \in [Pollers -> Nat] : InOrder(number)

\* Whoever has the lease is in the middle of a page.
LeaseIsNotLeaked == \A p \in Pollers : lease.owner = p => poller[p].pc \in Leased

\* And the other way round.
Keeps == \A p \in Pollers : poller[p].pc \in Leased => lease.owner = p

\* A row that counts as caught up was walked to the first message.
Earned(row, s) == row.phase \in CaughtUp => 1 \in s

\* The outcome is no error, and what it says of history is its cursor's.
Report(x, s) ==
    /\ x.out.error = FALSE
    /\ x.out.hint # None => x.out.next # None /\ x.out.hint = HintOf(x.out.next)
    /\ Earned(x.cur, s)

Reports == Earned(sync, committed) /\ \A p \in Pollers : Report(poller[p], committed)

\* The circumstances of the theorems.
NoConflicts == "conflict" \notin Faults
NobodyJumps == Jobs \cap Ahead = {}
Undisturbed ==
    Policy = "backfill" /\ NobodyJumps /\ Faults \cap {"throw", "store", "conflict", "reset"} = {}

IInv ==
    /\ TypeOK /\ Workers /\ LeaseIsNotLeaked
    /\ NoConflicts => Carried /\ CursorsAreCovered
    /\ NobodyJumps => Line
    /\ Undisturbed => Keeps /\ Reports

-----------------------------------------------------------------------------
(* Records *)

\* What the constants are, part by part.
LEMMA Numbers ==
    /\ MaxPages \in Nat /\ MaxPages # 0 /\ MaxTip \in Nat
    /\ FirstTip \in Positions /\ Positions = 1..MaxTip
  BY StreamPollConstants, Zenon DEF Positions

LEMMA Cursors == Cursor = [tail : Positions, head : Positions] /\ None \notin Cursor
  BY StreamPollConstants, NoneIsNoCursor, Zenon

LEMMA Nobody == None \notin Pollers /\ Gone \notin Pollers /\ Gone # None
  BY StreamPollConstants, Zenon

LEMMA PcSet ==
    ASSUME NEW x \in Poller, NEW v \in PollerStep, NEW y, y = [x EXCEPT !.pc = v]
    PROVE  /\ y \in Poller /\ y.pc = v
           /\ y.job = x.job /\ y.after = x.after /\ y.cursor = x.cursor /\ y.page = x.page
           /\ y.got = x.got /\ y.failed = x.failed /\ y.out = x.out /\ y.cur = x.cur
  BY DEF Poller

LEMMA AfterSet ==
    ASSUME NEW x \in Poller, NEW v \in Pollers \cup {None}, NEW y, y = [x EXCEPT !.after = v]
    PROVE  /\ y \in Poller /\ y.after = v
           /\ y.pc = x.pc /\ y.job = x.job /\ y.cursor = x.cursor
           /\ y.got = x.got /\ y.out = x.out /\ y.cur = x.cur
  BY DEF Poller

LEMMA CursorSet ==
    ASSUME NEW x \in Poller, NEW v \in Cursor \cup {None}, NEW y, y = [x EXCEPT !.cursor = v]
    PROVE  /\ y \in Poller /\ y.cursor = v
           /\ y.pc = x.pc /\ y.job = x.job /\ y.after = x.after /\ y.got = x.got /\ y.out = x.out /\ y.cur = x.cur
  BY DEF Poller

LEMMA GotSet ==
    ASSUME NEW x \in Poller, NEW v \in Page, NEW y, y = [x EXCEPT !.got = v]
    PROVE  /\ y \in Poller /\ y.got = v
           /\ y.pc = x.pc /\ y.job = x.job /\ y.after = x.after /\ y.cursor = x.cursor /\ y.out = x.out
           /\ y.cur = x.cur
  BY DEF Poller

LEMMA FailedSet ==
    ASSUME NEW x \in Poller, NEW v \in BOOLEAN, NEW y, y = [x EXCEPT !.failed = v]
    PROVE  /\ y \in Poller /\ y.failed = v
           /\ y.pc = x.pc /\ y.job = x.job /\ y.after = x.after /\ y.cursor = x.cursor /\ y.got = x.got
           /\ y.out = x.out /\ y.cur = x.cur
  BY DEF Poller

LEMMA CurSet ==
    ASSUME NEW x \in Poller, NEW v \in SyncRow, NEW y, y = [x EXCEPT !.cur = v]
    PROVE  /\ y \in Poller /\ y.cur = v
           /\ y.pc = x.pc /\ y.job = x.job /\ y.after = x.after /\ y.cursor = x.cursor /\ y.got = x.got
           /\ y.out = x.out
  BY DEF Poller

\* The values of a poll that is not under way.
LEMMA Blank ==
    /\ NoPage \in Page /\ NoOutcome \in Outcome /\ Failed \in Outcome /\ NoRow \in SyncRow
    /\ NoPage.next = None /\ NoRow.live = None /\ NoRow.history = None /\ NoRow.phase \notin CaughtUp
    /\ NoOutcome.next = None /\ NoOutcome.hint = None /\ NoOutcome.error = FALSE
    /\ Failed.next = None /\ Failed.hint = None
  BY DEF NoPage, Page, NoOutcome, Failed, Outcome, NoRow, SyncRow, NoPhase, CaughtUp, Phases

LEMMA IdleFacts ==
    /\ Idle \in Poller /\ Idle.pc = "free" /\ Idle.after = None /\ Idle.cursor = None
    /\ Idle.got = NoPage /\ Idle.out = NoOutcome /\ Idle.cur = NoRow
<1>1. 0 \in 0..MaxPages
  BY Numbers
<1> QED
  BY <1>1, Blank DEF Idle, Poller, PollerStep

\* TypeOK for the polls alone.
LEMMA PollerType ==
    ASSUME TypeOK, NEW p \in Pollers
    PROVE  /\ poller[p] \in Poller /\ poller[p].pc \in PollerStep /\ poller[p].job \in Jobs \cup {None}
           /\ poller[p].after \in Pollers \cup {None} /\ poller[p].cursor \in Cursor \cup {None}
           /\ poller[p].got \in Page /\ poller[p].got.next \in Cursor \cup {None}
           /\ poller[p].out \in Outcome /\ poller[p].out.next \in Cursor \cup {None}
           /\ poller[p].cur \in SyncRow
<1>1. poller[p] \in Poller
  BY DEF TypeOK
<1>2. /\ poller[p].pc \in PollerStep /\ poller[p].job \in Jobs \cup {None}
      /\ poller[p].after \in Pollers \cup {None} /\ poller[p].cursor \in Cursor \cup {None}
      /\ poller[p].got \in Page /\ poller[p].out \in Outcome /\ poller[p].cur \in SyncRow
  BY <1>1 DEF Poller
<1> QED
  BY <1>1, <1>2 DEF Page, Outcome

\* The lease row.
Lease == [cursor : Cursor \cup {None}, owner : Pollers \cup {None, Gone}, fresh : BOOLEAN]

-----------------------------------------------------------------------------
(* What a step leaves alone *)

LEMMA SpansMore ==
    ASSUME NEW c, NEW s, NEW t, s \subseteq t, Spans(c, s)
    PROVE  Spans(c, t)
  BY DEF Spans

\* A poll that keeps what it carries stays sound as more is stored.
LEMMA SoundKept ==
    ASSUME NEW x, NEW y, NEW s, NEW t, s \subseteq t,
           y.pc = x.pc, y.cursor = x.cursor, y.got = x.got, y.out = x.out, y.cur = x.cur
    PROVE  (Sound(x, s) => Sound(y, t)) /\ (Report(x, s) => Report(y, t))
<1>1. s \cup x.got.recs \subseteq t \cup x.got.recs
  OBVIOUS
<1>2. Sound(x, s) => Sound(y, t)
  BY <1>1, SpansMore DEF Sound
<1>3. Report(x, s) => Report(y, t)
  BY DEF Report, Earned
<1> QED
  BY <1>2, <1>3

\* A poll other than the one that steps: at most it no longer waits.
Other(p, q) ==
    \/ poller'[q] = poller[q]
    \/ poller[q].after = p /\ poller'[q] = [poller[q] EXCEPT !.after = None]

LEMMA OtherFacts ==
    ASSUME TypeOK, NEW p \in Pollers, NEW q \in Pollers, Other(p, q)
    PROVE  /\ poller'[q] \in Poller
           /\ poller'[q].pc = poller[q].pc /\ poller'[q].cursor = poller[q].cursor
           /\ poller'[q].got = poller[q].got /\ poller'[q].out = poller[q].out
           /\ poller'[q].cur = poller[q].cur /\ poller'[q].job = poller[q].job
           /\ poller'[q].after = poller[q].after \/ (poller[q].after = p /\ poller'[q].after = None)
<1>1. poller[q] \in Poller
  BY PollerType
<1>2. CASE poller'[q] = poller[q]
  BY <1>1, <1>2
<1>3. CASE poller[q].after = p /\ poller'[q] = [poller[q] EXCEPT !.after = None]
  BY <1>1, <1>3, AfterSet
<1> QED
  BY <1>2, <1>3 DEF Other

\* What everybody carries, by what the poll that steps carries.
LEMMA CarriedKept ==
    ASSUME TypeOK, TypeOK', NEW p \in Pollers, \A q \in Pollers \ {p} : Other(p, q),
           committed \subseteq committed'
    PROVE  /\ Workers /\ Working(poller'[p]) => Workers'
           /\ Carried /\ Sound(poller'[p], committed') => Carried'
           /\ Reports /\ Report(poller'[p], committed') /\ Earned(sync', committed') => Reports'
<1>1. ASSUME NEW q \in Pollers \ {p}
      PROVE  /\ poller'[q].pc = poller[q].pc /\ poller'[q].got = poller[q].got
             /\ poller'[q].job = poller[q].job
             /\ Sound(poller[q], committed) => Sound(poller'[q], committed')
             /\ Report(poller[q], committed) => Report(poller'[q], committed')
  BY OtherFacts, SoundKept
<1>2. Workers /\ Working(poller'[p]) => Workers'
  BY <1>1 DEF Workers, Working
<1>3. Carried /\ Sound(poller'[p], committed') => Carried'
  BY <1>1 DEF Carried
<1>4. Reports /\ Report(poller'[p], committed') /\ Earned(sync', committed') => Reports'
  BY <1>1 DEF Reports
<1> QED
  BY <1>2, <1>3, <1>4

\* The lease: who has it is in the middle of a page, and the other way round.
LEMMA LeaseKept ==
    ASSUME TypeOK, NEW p \in Pollers, \A q \in Pollers \ {p} : Other(p, q)
    PROVE  /\ LeaseIsNotLeaked /\ (lease'.owner = p => poller'[p].pc \in Leased)
              /\ (\A q \in Pollers \ {p} : lease'.owner = q => lease.owner = q) => LeaseIsNotLeaked'
           /\ Keeps /\ (poller'[p].pc \in Leased => lease'.owner = p)
              /\ (\A q \in Pollers \ {p} : poller[q].pc \in Leased /\ lease.owner = q => lease'.owner = q)
              => Keeps'
<1>1. ASSUME NEW q \in Pollers \ {p} PROVE poller'[q].pc = poller[q].pc
  BY OtherFacts
<1> QED
  BY <1>1 DEF LeaseIsNotLeaked, Keeps

\* The line stays as it is.
LEMMA LineSame ==
    ASSUME Line, lock' = lock,
           \A q \in Pollers : /\ poller'[q].pc \in Inside <=> poller[q].pc \in Inside
                              /\ poller'[q].after = poller[q].after
                              /\ poller[q].pc = "queue" /\ poller[q].after # None => poller'[q].pc = "queue"
    PROVE  Line'
<1>1. PICK number \in [Pollers -> Nat] : InOrder(number)
  BY DEF Line
<1>2. InLine' = InLine
  BY DEF InLine
<1>3. \A q \in Pollers : poller'[q].after = poller[q].after
  OBVIOUS
<1>4. \A p, q \in InLine' : poller'[p].after = None => number[p] <= number[q]
  BY <1>1, <1>2, <1>3 DEF InOrder, InLine
<1>5. \A p \in Pollers : poller'[p].after # None =>
        /\ poller'[p].pc = "queue" /\ poller'[p].after \in InLine'
        /\ number[poller'[p].after] < number[p]
        /\ \A q \in InLine' : number[q] < number[p] => number[q] <= number[poller'[p].after]
  BY <1>1, <1>2, <1>3 DEF InOrder
<1>6. InOrder(number)'
  BY <1>1, <1>2, <1>4, <1>5 DEF InOrder
<1> QED
  BY <1>6 DEF Line

\* The first in line leaves.
LEMMA LineEnds ==
    ASSUME TypeOK, Line, NEW p \in InLine, poller[p].after = None,
           poller'[p].pc \notin Inside, poller'[p].after = None,
           \A q \in Pollers \ {p} :
             /\ poller'[q].pc = poller[q].pc
             /\ poller'[q].after = IF poller[q].after = p THEN None ELSE poller[q].after,
           lock' = IF lock = p THEN None ELSE lock
    PROVE  Line'
<1>1. PICK number \in [Pollers -> Nat] : InOrder(number)
  BY DEF Line
<1>2. InLine' = InLine \ {p} /\ p \in Pollers /\ InLine \subseteq Pollers
  BY DEF InLine
<1>3. \A q \in InLine : number[p] <= number[q]
  BY <1>1 DEF InOrder
<1>4. \A q, r \in InLine : number[q] = number[r] => q = r
  BY <1>1 DEF InOrder
<1>5. \A q \in Pollers : number[q] \in Nat
  OBVIOUS
<1>6. ASSUME NEW q \in Pollers, poller'[q].after # None
      PROVE  /\ poller'[q].pc = "queue" /\ poller'[q].after \in InLine'
             /\ number[poller'[q].after] < number[q]
             /\ \A r \in InLine' : number[r] < number[q] => number[r] <= number[poller'[q].after]
  <2>1. q # p /\ poller'[q].after = poller[q].after /\ poller[q].after # p /\ poller'[q].pc = poller[q].pc
    BY <1>6
  <2> QED
    BY <1>1, <1>2, <1>6, <2>1 DEF InOrder
<1>7. ASSUME NEW q \in InLine', NEW r \in InLine', poller'[q].after = None
      PROVE  number[q] <= number[r]
  <2>1. q \in InLine /\ r \in InLine /\ q # p /\ r # p /\ q \in Pollers /\ r \in Pollers
    BY <1>2
  <2>2. CASE poller[q].after = p
    <3>1. number[r] < number[q] => number[r] <= number[p]
      BY <1>1, <2>1, <2>2, Nobody DEF InOrder
    <3>2. number[p] < number[r]
      BY <1>2, <1>3, <1>4, <1>5, <2>1
    <3> QED
      BY <1>2, <1>5, <2>1, <3>1, <3>2
  <2>3. CASE poller[q].after = None
    <3>1. number[q] <= number[p] /\ number[p] <= number[q]
      BY <1>1, <1>3, <2>1, <2>3 DEF InOrder
    <3> QED
      BY <1>2, <1>4, <1>5, <2>1, <3>1
  <2> QED
    BY <1>7, <2>1, <2>2, <2>3
<1>8. lock' # None => lock' \in InLine' /\ \A q \in InLine' : number[q] <= number[lock']
  BY <1>1, <1>2 DEF InOrder
<1>9. lock' = None => InLine' = {}
  <2>1. ASSUME lock = p, NEW q \in InLine PROVE q = p
    <3>1. number[q] <= number[p] /\ number[p] <= number[q]
      BY <1>1, <1>2, <1>3, <2>1, Nobody DEF InOrder
    <3> QED
      BY <1>2, <1>4, <1>5, <3>1
  <2>2. lock # None
    BY <1>1 DEF InOrder
  <2> QED
    BY <1>2, <2>1, <2>2
<1>10. InOrder(number)'
  BY <1>2, <1>4, <1>6, <1>7, <1>8, <1>9 DEF InOrder
<1> QED
  BY <1>10 DEF Line

\* One more joins the line at its end.
LEMMA LineStarts ==
    ASSUME TypeOK, Line, NEW p \in Pollers, p \notin InLine,
           poller'[p].pc = "queue", poller'[p].after = lock, lock' = p,
           \A q \in Pollers \ {p} : poller'[q] = poller[q]
    PROVE  Line'
<1>1. PICK number \in [Pollers -> Nat] : InOrder(number)
  BY DEF Line
<1> DEFINE last == IF lock = None THEN 0 ELSE number[lock] + 1
<1>2. InLine' = InLine \cup {p} /\ InLine \subseteq Pollers
  BY DEF InLine, Inside
<1>3. last \in Nat
  BY DEF TypeOK
<1>4. \A q \in InLine : number[q] < last /\ lock # None /\ last = number[lock] + 1
  <2>1. \A q \in InLine : lock # None /\ lock \in Pollers /\ number[q] <= number[lock]
    BY <1>1, <1>2 DEF InOrder
  <2> QED
    BY <1>2, <2>1
<1>5. lock # None => lock \in InLine
  BY <1>1 DEF InOrder
<1> HIDE DEF last
<1>6. PICK next \in [Pollers -> Nat] :
        next[p] = last /\ \A q \in Pollers \ {p} : next[q] = number[q]
  <2>1. /\ [number EXCEPT ![p] = last] \in [Pollers -> Nat]
        /\ [number EXCEPT ![p] = last][p] = last
        /\ \A q \in Pollers \ {p} : [number EXCEPT ![p] = last][q] = number[q]
    BY <1>3
  <2> QED
    BY <2>1
<1>7. \A q \in InLine : q \in Pollers \ {p} /\ next[q] = number[q] /\ next[q] < next[p] /\ next[q] \in Nat
  BY <1>2, <1>4, <1>6
<1>8. \A q, r \in InLine' : next[q] = next[r] => q = r
  BY <1>1, <1>2, <1>6, <1>7 DEF InOrder
<1>9. ASSUME NEW q \in Pollers, poller'[q].after # None
      PROVE  /\ poller'[q].pc = "queue" /\ poller'[q].after \in InLine'
             /\ next[poller'[q].after] < next[q]
             /\ \A r \in InLine' : next[r] < next[q] => next[r] <= next[poller'[q].after]
  <2>1. CASE q = p
    <3>1. lock \in InLine /\ poller'[q].after = lock
      BY <1>5, <1>9, <2>1
    <3>2. \A r \in InLine : next[r] <= next[lock]
      BY <1>1, <1>5, <1>7, <1>9, <2>1 DEF InOrder
    <3> QED
      BY <1>2, <1>3, <1>6, <1>7, <2>1, <3>1, <3>2
  <2>2. CASE q # p
    <3>1. /\ poller[q].after # None /\ poller'[q] = poller[q]
          /\ poller[q].pc = "queue" /\ poller[q].after \in InLine
          /\ number[poller[q].after] < number[q]
          /\ \A r \in InLine : number[r] < number[q] => number[r] <= number[poller[q].after]
      BY <1>1, <1>9, <2>2 DEF InOrder
    <3>2. q \in InLine
      BY <3>1 DEF InLine, Inside
    <3> QED
      BY <1>2, <1>3, <1>6, <1>7, <3>1, <3>2
  <2> QED
    BY <2>1, <2>2
<1>10. ASSUME NEW q \in InLine', NEW r \in InLine', poller'[q].after = None
       PROVE  next[q] <= next[r]
  <2>1. CASE q = p
    <3>1. InLine = {}
      BY <1>1, <1>10, <2>1 DEF InOrder
    <3> QED
      BY <1>2, <1>3, <1>6, <2>1, <3>1
  <2>2. CASE q # p
    <3>1. q \in InLine /\ poller[q].after = None
      BY <1>2, <1>10, <2>2
    <3>2. CASE r = p
      BY <1>3, <1>6, <1>7, <3>1, <3>2
    <3>3. CASE r # p
      BY <1>1, <1>2, <1>7, <3>1, <3>3 DEF InOrder
    <3> QED
      BY <3>2, <3>3
  <2> QED
    BY <2>1, <2>2
<1>11. lock' \in InLine' /\ \A q \in InLine' : next[q] <= next[lock']
  BY <1>2, <1>3, <1>6, <1>7
<1>12. lock' # None
  BY Nobody
<1>13. InOrder(next)'
  BY <1>8, <1>9, <1>10, <1>11, <1>12 DEF InOrder
<1> QED
  BY <1>6, <1>13 DEF Line

\* Nobody is in line.
LEMMA LineEmpty ==
    ASSUME lock' = None, \A q \in Pollers : poller'[q].pc \notin Inside /\ poller'[q].after = None
    PROVE  Line'
<1>1. [q \in Pollers |-> 0] \in [Pollers -> Nat] /\ InLine' = {}
  BY DEF InLine
<1>2. InOrder([q \in Pollers |-> 0])'
  BY <1>1 DEF InOrder
<1> QED
  BY <1>1, <1>2 DEF Line

\* Whoever is past the queue waits for nobody, and there is one of them.
LEMMA LineIsSingle ==
    ASSUME TypeOK, Line
    PROVE  /\ \A p \in Pollers : poller[p].pc # "queue" => poller[p].after = None
           /\ \A p, q \in InLine : poller[p].after = None /\ poller[q].after = None => p = q
           /\ OnePollAtATime
<1>1. PICK number \in [Pollers -> Nat] : InOrder(number)
  BY DEF Line
<1>2. \A p \in Pollers : poller[p].pc # "queue" => poller[p].after = None
  BY <1>1 DEF InOrder
<1>3. \A p, q \in InLine : poller[p].after = None /\ poller[q].after = None => p = q
  <2> SUFFICES ASSUME NEW p \in InLine, NEW q \in InLine,
                      poller[p].after = None, poller[q].after = None
               PROVE  p = q
    OBVIOUS
  <2>1. number[p] <= number[q] /\ number[q] <= number[p] /\ p \in Pollers /\ q \in Pollers
    BY <1>1 DEF InOrder, InLine
  <2> QED
    BY <1>1, <2>1 DEF InOrder
<1>4. OnePollAtATime
  BY <1>2, <1>3 DEF OnePollAtATime, InLine, Inside, Leased
<1> QED
  BY <1>2, <1>3, <1>4

-----------------------------------------------------------------------------
(* Steps of one poll *)

LEMMA WorldType ==
    ASSUME TypeOK
    PROVE  /\ tip \in Positions /\ committed \subseteq Positions /\ lease \in Lease
           /\ sync \in SyncRow /\ lock \in Pollers \cup {None} /\ poller \in [Pollers -> Poller]
  BY DEF TypeOK, Lease

LEMMA TypesBack ==
    ASSUME TypeOK, enabled' = enabled, tip' \in Positions, committed' \subseteq Positions,
           lease' \in Lease, sync' \in SyncRow, lock' \in Pollers \cup {None},
           poller' \in [Pollers -> Poller]
    PROVE  TypeOK'
<1>1. enabled' \in BOOLEAN
  BY Zenon DEF TypeOK
<1> QED
  BY <1>1, Zenon DEF TypeOK, Lease

LEMMA CoveredSpans ==
    ASSUME NEW c
    PROVE  Covered(c) <=> Spans(c, committed)
  BY DEF Covered, Spans

\* A poll moves to x and keeps its place in line.
LEMMA MoveInv ==
    ASSUME IInv, NEW p \in Pollers, NEW x \in Poller, poller' = [poller EXCEPT ![p] = x],
           NobodyJumps => /\ x.after = poller[p].after
                          /\ x.pc \in Inside <=> poller[p].pc \in Inside
                          /\ poller[p].pc = "queue" /\ x.after # None => x.pc = "queue",
           Working(x), lease' \in Lease, sync' \in SyncRow, committed \subseteq committed',
           committed' \subseteq Positions, UNCHANGED <<tip, enabled, lock>>,
           lease'.owner = p => x.pc \in Leased,
           \A q \in Pollers \ {p} : lease'.owner = q => lease.owner = q,
           NoConflicts => /\ Sound(x, committed') /\ Spans(lease'.cursor, committed')
                          /\ Spans(sync'.live, committed') /\ Spans(sync'.history, committed'),
           Undisturbed =>
             /\ x.pc \in Leased => lease'.owner = p
             /\ \A q \in Pollers \ {p} : poller[q].pc \in Leased /\ lease.owner = q => lease'.owner = q
             /\ Report(x, committed') /\ Earned(sync', committed')
    PROVE  IInv'
<1>0. TypeOK /\ poller \in [Pollers -> Poller]
  BY WorldType DEF IInv
<1>1. /\ poller' \in [Pollers -> Poller] /\ poller'[p] = x
      /\ \A q \in Pollers \ {p} : poller'[q] = poller[q] /\ Other(p, q)
  BY <1>0 DEF Other
<1>2. TypeOK'
  BY <1>0, <1>1, WorldType, TypesBack
<1>3. Workers' /\ (NoConflicts => Carried') /\ (Undisturbed => Reports')
  BY <1>0, <1>1, <1>2, CarriedKept DEF IInv
<1>4. LeaseIsNotLeaked' /\ (Undisturbed => Keeps')
  BY <1>0, <1>1, LeaseKept DEF IInv
<1>5. NoConflicts => CursorsAreCovered'
  BY DEF CursorsAreCovered, Covered, Spans
<1>6. NobodyJumps => Line'
  BY <1>1, LineSame DEF IInv
<1> QED
  BY <1>2, <1>3, <1>4, <1>5, <1>6 DEF IInv, NoConflicts, NobodyJumps, Undisturbed

\* What EndPages does to the polls.
LEMMA EndFacts ==
    ASSUME TypeOK, NEW p \in Pollers, NEW out \in Outcome, EndPages(p, out)
    PROVE  /\ poller' \in [Pollers -> Poller] /\ lock' \in Pollers \cup {None}
           /\ lock' = IF lock = p THEN None ELSE lock
           /\ poller'[p].pc \in {"free", "get"} /\ poller'[p].after = None
           /\ poller'[p].cursor = None /\ poller'[p].cur = NoRow /\ poller'[p].out \in {out, NoOutcome}
           /\ \A q \in Pollers \ {p} :
                /\ Other(p, q)
                /\ poller'[q].after = IF poller[q].after = p THEN None ELSE poller[q].after
<1> DEFINE y == [Idle EXCEPT !.pc = "get", !.job = poller[p].job,
                             !.seedable = poller[p].seedable, !.out = out]
           x == IF Remembers(poller[p].job, out) THEN y ELSE Idle
<1>1. poller[p] \in Poller /\ poller[p].job \in Jobs \cup {None}
  BY PollerType
<1>2. poller[p].seedable \in BOOLEAN
  BY <1>1 DEF Poller
<1>4. y \in Poller
  BY <1>1, <1>2, IdleFacts DEF Poller, PollerStep
<1>5. y.pc = "get" /\ y.after = None /\ y.cursor = None /\ y.cur = NoRow /\ y.out = out
  BY <1>1, <1>2, IdleFacts DEF Poller, PollerStep
<1> HIDE DEF y
<1>6. /\ x \in Poller /\ x.pc \in {"free", "get"} /\ x.after = None /\ x.cursor = None
      /\ x.cur = NoRow /\ x.out \in {out, NoOutcome}
  BY <1>4, <1>5, IdleFacts
<1>7. poller' = [q \in Pollers |->
          IF q = p THEN x
          ELSE IF poller[q].after = p THEN [poller[q] EXCEPT !.after = None]
          ELSE poller[q]]
  BY Zenon DEF EndPages, y
<1> HIDE DEF x
<1>8. poller'[p] = x
  BY <1>7
<1>9. ASSUME NEW q \in Pollers \ {p}
      PROVE  /\ Other(p, q) /\ poller'[q] \in Poller
             /\ poller'[q].after = IF poller[q].after = p THEN None ELSE poller[q].after
  <2>1. poller[q] \in Poller
    BY PollerType
  <2>2. CASE poller[q].after = p
    <3>1. poller'[q] = [poller[q] EXCEPT !.after = None]
      BY <1>7, <2>2
    <3> QED
      BY <2>1, <2>2, <3>1, AfterSet DEF Other
  <2>3. CASE poller[q].after # p
    BY <1>7, <2>1, <2>3 DEF Other
  <2> QED
    BY <2>2, <2>3
<1>10. poller' \in [Pollers -> Poller]
  <2>1. poller' = [q \in Pollers |-> poller'[q]]
    BY <1>7
  <2>2. \A q \in Pollers : poller'[q] \in Poller
    BY <1>6, <1>8, <1>9
  <2> QED
    BY <2>1, <2>2
<1>11. lock' = IF lock = p THEN None ELSE lock
  BY DEF EndPages
<1>12. lock' \in Pollers \cup {None}
  BY <1>11, WorldType
<1> QED
  BY <1>6, <1>8, <1>9, <1>10, <1>11, <1>12

\* A poll leaves the lock, and the lease if it had it.
LEMMA EndInv ==
    ASSUME IInv, NEW p \in Pollers, NEW out \in Outcome, EndPages(p, out),
           poller[p].pc \in Inside, NobodyJumps => poller[p].pc # "queue",
           lease' \in Lease, committed \subseteq committed', committed' \subseteq Positions,
           UNCHANGED <<tip, enabled, sync>>,
           lease'.owner # p, \A q \in Pollers \ {p} : lease'.owner = q <=> lease.owner = q,
           NoConflicts => Spans(out.next, committed') /\ Spans(lease'.cursor, committed'),
           Undisturbed => /\ out.error = FALSE
                          /\ out.hint # None => out.next # None /\ out.hint = HintOf(out.next)
    PROVE  IInv'
<1>0. TypeOK
  BY DEF IInv
<1> DEFINE x == poller'[p]
<1>1. /\ poller' \in [Pollers -> Poller] /\ lock' \in Pollers \cup {None}
      /\ lock' = IF lock = p THEN None ELSE lock
      /\ x.pc \in {"free", "get"} /\ x.after = None /\ x.cursor = None /\ x.cur = NoRow
      /\ x.out \in {out, NoOutcome}
      /\ \A q \in Pollers \ {p} : /\ Other(p, q)
                                  /\ poller'[q].after = IF poller[q].after = p THEN None ELSE poller[q].after
  BY <1>0, EndFacts
<1>2. TypeOK'
  BY <1>0, <1>1, WorldType, TypesBack
<1>3. \A q \in Pollers \ {p} : poller'[q].pc = poller[q].pc
  BY <1>0, <1>1, OtherFacts
<1>4. NoConflicts => Sound(x, committed')
  BY <1>1, Blank DEF Sound, Spans
<1>5. Undisturbed => Report(x, committed')
  BY <1>1, Blank DEF Report, Earned
<1>6. Undisturbed /\ IInv => Earned(sync', committed')
  BY DEF IInv, Reports, Earned
<1>7. Workers' /\ (NoConflicts => Carried') /\ (Undisturbed => Reports')
  <2>1. Working(x)
    BY <1>1 DEF Working, Inside, Leased
  <2> QED
    BY <1>0, <1>1, <1>2, <1>4, <1>5, <1>6, <2>1, CarriedKept DEF IInv
<1>8. LeaseIsNotLeaked' /\ (Undisturbed => Keeps')
  BY <1>0, <1>1, LeaseKept DEF IInv, Leased
<1>9. NoConflicts => CursorsAreCovered'
  BY DEF IInv, CursorsAreCovered, Covered, Spans
<1>10. NobodyJumps => Line'
  <2> SUFFICES ASSUME NobodyJumps PROVE Line'
    OBVIOUS
  <2>1. p \in InLine /\ poller[p].after = None /\ Line
    BY <1>0, LineIsSingle DEF IInv, InLine
  <2>2. x.pc \notin Inside
    BY <1>1 DEF Inside, Leased
  <2> QED
    BY <1>0, <1>1, <1>3, <2>1, <2>2, LineEnds
<1> QED
  BY <1>2, <1>7, <1>8, <1>9, <1>10 DEF IInv, NoConflicts, NobodyJumps, Undisturbed

-----------------------------------------------------------------------------
(* Off the lock *)

\* A poll that is not in line moves on.
LEMMA RestInv ==
    ASSUME IInv, NEW p \in Pollers, NEW x \in Poller, poller' = [poller EXCEPT ![p] = x],
           poller[p].pc \notin Inside, x.pc \notin Inside, NobodyJumps => x.after = None,
           sync' \in SyncRow, UNCHANGED <<tip, committed, enabled, lease, lock>>,
           NoConflicts => /\ Sound(x, committed)
                          /\ Spans(sync'.live, committed) /\ Spans(sync'.history, committed),
           Undisturbed => Report(x, committed) /\ Earned(sync', committed)
    PROVE  IInv'
<1>0. TypeOK /\ lease \in Lease /\ committed \subseteq Positions
  BY WorldType DEF IInv
<1>1. NobodyJumps => x.after = poller[p].after
  <2>1. NobodyJumps => poller[p].after = None
    BY <1>0, LineIsSingle DEF IInv, Inside
  <2> QED
    BY <2>1
<1>2. lease.owner # p
  BY DEF IInv, LeaseIsNotLeaked, Inside
<1>3. x.pc \notin Leased /\ Working(x) /\ poller[p].pc # "queue"
  BY DEF Working, Inside, Leased
<1>4. NoConflicts => Spans(lease.cursor, committed)
  BY CoveredSpans DEF IInv, CursorsAreCovered
<1> QED
  BY <1>0, <1>1, <1>2, <1>3, <1>4, MoveInv

\* A poll that carries nothing.
LEMMA BlankSound ==
    ASSUME NEW x, NEW s, x.cursor = None, x.cur = NoRow, x.out = NoOutcome, x.pc \notin {"ingest", "settle"}
    PROVE  Sound(x, s) /\ Report(x, s)
  BY Blank DEF Sound, Spans, Report, Earned

\* The state row is as good as the invariant says.
LEMMA SyncFacts ==
    ASSUME IInv
    PROVE  /\ sync \in SyncRow
           /\ NoConflicts => Spans(sync.live, committed) /\ Spans(sync.history, committed)
           /\ Undisturbed => Earned(sync, committed)
  BY CoveredSpans, WorldType DEF IInv, CursorsAreCovered, Reports

\* The poll is over.
LEMMA FreeInv ==
    ASSUME IInv, NEW p \in Pollers, poller' = [poller EXCEPT ![p] = Idle],
           poller[p].pc \notin Inside, UNCHANGED <<tip, committed, enabled, lease, sync, lock>>
    PROVE  IInv'
<1>1. Idle.pc \notin Inside
  BY IdleFacts DEF Inside, Leased
<1>2. Sound(Idle, committed) /\ Report(Idle, committed)
  BY IdleFacts, BlankSound
<1> QED
  BY <1>1, <1>2, IdleFacts, SyncFacts, RestInv

LEMMA historyDeferredInv ==
    ASSUME IInv, NEW p \in Pollers, historyDeferred(p)
    PROVE  IInv'
  BY FreeInv DEF historyDeferred, Inside, Leased

LEMMA checkHistoryDutyInv ==
    ASSUME IInv, NEW p \in Pollers, checkHistoryDuty(p)
    PROVE  IInv'
<1>0. poller[p].pc \notin Inside /\ UNCHANGED <<tip, committed, enabled, lease, sync, lock>>
      /\ sync \in SyncRow /\ "history" \in Jobs
  BY SyncFacts DEF checkHistoryDuty, Inside, Leased
<1>1. ASSUME poller' = [poller EXCEPT ![p] = [Idle EXCEPT !.pc = "resolve", !.job = "history"]]
      PROVE  IInv'
  <2> DEFINE x == [Idle EXCEPT !.pc = "resolve", !.job = "history"]
  <2>1. x \in Poller /\ x.pc = "resolve" /\ x.after = None /\ x.cursor = None /\ x.cur = NoRow
        /\ x.out = NoOutcome
    BY <1>0, IdleFacts DEF Poller, PollerStep
  <2> HIDE DEF x
  <2>2. Sound(x, committed) /\ Report(x, committed)
    BY <2>1, BlankSound
  <2>3. x.pc \notin Inside
    BY <2>1 DEF Inside, Leased
  <2> QED
    BY <1>0, <1>1, <2>1, <2>2, <2>3, SyncFacts, RestInv DEF x
<1>2. ASSUME poller' = [poller EXCEPT ![p] = [Idle EXCEPT !.pc = "touch", !.cur = sync]]
      PROVE  IInv'
  <2> DEFINE x == [Idle EXCEPT !.pc = "touch", !.cur = sync]
  <2>1. x \in Poller /\ x.pc = "touch" /\ x.after = None /\ x.cursor = None /\ x.cur = sync
        /\ x.out = NoOutcome
    BY <1>0, IdleFacts DEF Poller, PollerStep
  <2> HIDE DEF x
  <2>2. (NoConflicts => Sound(x, committed)) /\ (Undisturbed => Report(x, committed))
    BY <2>1, Blank, SyncFacts DEF Sound, Spans, Report
  <2>3. x.pc \notin Inside
    BY <2>1 DEF Inside, Leased
  <2> QED
    BY <1>0, <1>2, <2>1, <2>2, <2>3, SyncFacts, RestInv DEF x
<1> QED
  BY <1>1, <1>2 DEF checkHistoryDuty

\* What a poll carries.
LEMMA CarriedFacts ==
    ASSUME IInv, NEW p \in Pollers
    PROVE  /\ NoConflicts => Sound(poller[p], committed)
           /\ Undisturbed => Report(poller[p], committed)
  BY DEF IInv, Carried, Reports

LEMMA rememberGetInv ==
    ASSUME IInv, NEW p \in Pollers, rememberGet(p)
    PROVE  IInv'
<1> DEFINE z == [poller[p] EXCEPT !.pc = "put"]
           x == [z EXCEPT !.cur = sync]
<1>0. TypeOK /\ poller[p].pc = "get" /\ UNCHANGED <<tip, committed, enabled, lease, sync, lock>>
      /\ poller[p] \in Poller /\ poller \in [Pollers -> Poller] /\ sync \in SyncRow
  BY PollerType, WorldType DEF rememberGet, IInv
<1>1. poller' = [poller EXCEPT ![p] = x]
  BY <1>0 DEF rememberGet
<1>2. z \in Poller /\ z.pc = "put" /\ z.after = poller[p].after /\ z.cursor = poller[p].cursor
      /\ z.out = poller[p].out
  BY <1>0, PcSet DEF PollerStep
<1> HIDE DEF z
<1>3. x \in Poller /\ x.pc = "put" /\ x.after = poller[p].after /\ x.cursor = poller[p].cursor
      /\ x.out = poller[p].out /\ x.cur = sync
  BY <1>0, <1>2, CurSet
<1> HIDE DEF x
<1>4. NobodyJumps => x.after = None
  BY <1>0, <1>3, LineIsSingle DEF IInv
<1>5. poller[p].pc \notin Inside /\ x.pc \notin Inside
  BY <1>0, <1>3 DEF Inside, Leased
<1>6. (NoConflicts => Sound(x, committed)) /\ (Undisturbed => Report(x, committed))
  BY <1>3, CarriedFacts, SyncFacts DEF Sound, Report
<1> QED
  BY <1>0, <1>1, <1>3, <1>4, <1>5, <1>6, SyncFacts, RestInv

\* The source has said that no older message follows.
Walked(hint) == hint # None /\ ~hint.pending

\* The phase that sync-phase.ts derives.
LEMMA PhaseFacts ==
    ASSUME NEW live, NEW hint, NEW idle, NEW policy, NEW kind, NEW fallback \in Phases \cup {NoPhase}
    PROVE  /\ deriveSyncPhase(live, hint, idle, fallback, policy, kind) \in Phases
           /\ policy = "backfill" /\ deriveSyncPhase(live, hint, idle, fallback, policy, kind) \in CaughtUp
                => fallback \in CaughtUp \/ Walked(hint)
<1>1. /\ deriveSyncPhaseFromHint(hint, idle, fallback, policy, kind) \in Phases
      /\ policy = "backfill" /\ deriveSyncPhaseFromHint(hint, idle, fallback, policy, kind) \in CaughtUp
           => fallback \in CaughtUp \/ ~hint.pending
  BY DEF deriveSyncPhaseFromHint, Phases, NoPhase, CaughtUp
<1> QED
  BY <1>1 DEF Walked, deriveSyncPhase, Phases, NoPhase, CaughtUp

\* What advanceSyncState makes of a row and an outcome.
LEMMA AdvanceFacts ==
    ASSUME NEW row \in SyncRow, NEW out \in Outcome, NEW kind, NEW seeds, NEW idles, NEW policy, NEW w,
           w = advanceSyncState(row, kind, out, seeds, idles, policy)
    PROVE  /\ w \in SyncRow
           /\ w.live \in {row.live, out.next} /\ w.history \in {row.history, out.next}
           /\ policy = "backfill" /\ ~out.error /\ w.phase \in CaughtUp
                => row.phase \in CaughtUp \/ Walked(out.hint)
<1> DEFINE c == Advanced(row, kind, out, seeds)
           idle == idles /\ ~out.error /\ ~sameLaneContinues(kind, out.more, Pending(out))
           derived == deriveSyncPhase(c.live, out.hint, idle, row.phase, policy, kind)
           phase == IF out.error THEN IF row.phase = NoPhase THEN "live" ELSE row.phase ELSE derived
<1>1. w = [phase |-> phase, live |-> c.live, history |-> c.history]
  BY Zenon DEF advanceSyncState
<1>2. row.phase \in Phases \cup {NoPhase} /\ row.live \in Cursor \cup {None}
      /\ row.history \in Cursor \cup {None} /\ out.next \in Cursor \cup {None}
  BY DEF SyncRow, Outcome
<1>3. c.live \in {row.live, out.next} /\ c.history \in {row.history, out.next}
  BY DEF Advanced
<1> HIDE DEF c, idle
<1>4. /\ derived \in Phases
      /\ policy = "backfill" /\ derived \in CaughtUp
           => row.phase \in CaughtUp \/ Walked(out.hint)
  BY <1>2, PhaseFacts
<1> HIDE DEF derived
<1>5. phase \in Phases \cup {NoPhase} /\ (out.error = FALSE => phase = derived)
  BY <1>2, <1>4 DEF Phases, NoPhase
<1> HIDE DEF phase
<1>6. w \in SyncRow /\ w.live = c.live /\ w.history = c.history /\ w.phase = phase
  BY <1>1, <1>2, <1>3, <1>5 DEF SyncRow
<1> QED
  BY <1>3, <1>4, <1>5, <1>6

\* What releaseHistoryPhase makes of a row.
LEMMA ReleaseFacts ==
    ASSUME NEW row \in SyncRow, NEW policy, NEW w, w = releaseHistoryPhase(row, policy)
    PROVE  /\ w \in SyncRow /\ w.live = row.live /\ w.history = row.history
           /\ policy = "backfill" => w.phase = row.phase
<1>1. row.phase \in Phases \cup {NoPhase} /\ row.live \in Cursor \cup {None}
      /\ row.history \in Cursor \cup {None}
  BY DEF SyncRow
<1> QED
  BY <1>1 DEF releaseHistoryPhase, SyncRow, Phases

\* A cursor that is followed by no older message covers the first one.
LEMMA WalkedToTheEnd ==
    ASSUME NEW c \in Cursor, NEW s, Spans(c, s), ~HintOf(c).pending
    PROVE  1 \in s
<1>1. c.head \in Positions /\ c.tail \in Positions
  BY Cursors
<1>2. c # None
  BY Cursors
<1>3. ~(c.head > 1)
  BY Zenon DEF HintOf
<1>4. c.head = 1 /\ c.tail \in Nat /\ 1 <= c.tail
  BY <1>1, <1>3, Numbers
<1> QED
  BY <1>2, <1>4 DEF Spans

LEMMA rememberPutInv ==
    ASSUME IInv, NEW p \in Pollers, rememberPut(p)
    PROVE  IInv'
<1> DEFINE x == poller[p]
           w == IF x.pc = "put" THEN Remembered(p) ELSE x.cur
<1>0. TypeOK /\ x.pc \in {"put", "touch"} /\ UNCHANGED <<tip, committed, enabled, lease, lock>>
      /\ poller' = [poller EXCEPT ![p] = Idle] /\ sync' = releaseHistoryPhase(w, Policy)
  BY DEF rememberPut, IInv
<1>1. x.cur \in SyncRow /\ x.out \in Outcome /\ x.out.next \in Cursor \cup {None}
  BY <1>0, PollerType
<1>2. /\ w \in SyncRow
      /\ w.live \in {x.cur.live, x.out.next} /\ w.history \in {x.cur.history, x.out.next}
      /\ Policy = "backfill" /\ ~x.out.error /\ w.phase \in CaughtUp
           => x.cur.phase \in CaughtUp \/ Walked(x.out.hint)
  <2>1. CASE x.pc = "put"
    <3> DEFINE seeds == x.seedable /\ Pending(x.out)
               kind == kindOf(p)
    <3>1. w = advanceSyncState(x.cur, kind, x.out, seeds, Idles, Policy)
      BY <2>1 DEF Remembered
    <3> HIDE DEF w, seeds, kind, x
    <3> QED
      BY <1>1, <3>1, AdvanceFacts
  <2>2. CASE x.pc # "put"
    <3>1. w = x.cur
      BY <2>2
    <3> HIDE DEF w
    <3> QED
      BY <1>1, <3>1
  <2> QED
    BY <2>1, <2>2
<1> HIDE DEF w
<1>3. /\ sync' \in SyncRow /\ sync'.live = w.live /\ sync'.history = w.history
      /\ Policy = "backfill" => sync'.phase = w.phase
  BY <1>0, <1>2, ReleaseFacts
<1>4. NoConflicts => Spans(sync'.live, committed) /\ Spans(sync'.history, committed)
  BY <1>2, <1>3, CarriedFacts DEF Sound
<1>5. Undisturbed => Earned(sync', committed)
  <2> SUFFICES ASSUME Undisturbed, w.phase \in CaughtUp PROVE 1 \in committed
    BY <1>3 DEF Earned, Undisturbed
  <2>1. Report(x, committed) /\ Sound(x, committed) /\ Policy = "backfill"
    BY CarriedFacts DEF Undisturbed, NoConflicts
  <2>2. CASE x.cur.phase \in CaughtUp
    BY <2>1, <2>2 DEF Report, Earned
  <2>3. CASE Walked(x.out.hint)
    <3>1. x.out.next \in Cursor /\ Spans(x.out.next, committed) /\ ~HintOf(x.out.next).pending
      BY <1>1, <2>1, <2>3 DEF Report, Sound, Walked
    <3> QED
      BY <3>1, WalkedToTheEnd
  <2> QED
    BY <1>2, <2>1, <2>2, <2>3 DEF Report
<1>6. Idle.pc \notin Inside /\ x.pc \notin Inside
  BY <1>0, IdleFacts DEF Inside, Leased
<1>7. Sound(Idle, committed) /\ Report(Idle, committed)
  BY IdleFacts, BlankSound
<1> QED
  BY <1>0, <1>3, <1>4, <1>5, <1>6, <1>7, IdleFacts, RestInv

-----------------------------------------------------------------------------
(* The stream lock *)

LEMMA startInv ==
    ASSUME IInv, NEW p \in Pollers, NEW job \in Jobs, start(p, job)
    PROVE  IInv'
<1> DEFINE after == IF job \in Ahead THEN None ELSE lock
           seeds == shouldSeedHistoryCursor(Policy, sync.phase, sync.history, TRUE)
           x == [Idle EXCEPT !.pc = "queue", !.job = job, !.after = after, !.seedable = seeds]
<1>0. TypeOK /\ UNCHANGED <<tip, committed, enabled, lease, sync>> /\ lock' = p
      /\ poller[p].pc \in {"free", "resolve"} /\ poller' = [poller EXCEPT ![p] = x]
  BY DEF IInv, start, Arriving
<1>1. seeds \in BOOLEAN
  BY DEF shouldSeedHistoryCursor
<1>2. after \in Pollers \cup {None}
  BY <1>0, WorldType
<1> HIDE DEF seeds, after
<1>3. x \in Poller
  BY <1>1, <1>2, IdleFacts DEF Poller, PollerStep
<1>4. /\ x.pc = "queue" /\ x.job = job /\ x.after = after /\ x.cursor = None
      /\ x.cur = NoRow /\ x.out = NoOutcome
  BY <1>1, <1>2, IdleFacts DEF Poller, PollerStep
<1> HIDE DEF x
<1>5. /\ poller' \in [Pollers -> Poller] /\ poller'[p] = x
      /\ \A q \in Pollers \ {p} : poller'[q] = poller[q] /\ Other(p, q)
  BY <1>0, <1>3, WorldType DEF Other
<1>6. TypeOK'
  BY <1>0, <1>5, WorldType, TypesBack
<1>7. Working(x) /\ Sound(x, committed') /\ Report(x, committed')
  BY <1>4, BlankSound DEF Working
<1>8. Workers' /\ (NoConflicts => Carried') /\ (Undisturbed => Reports')
  BY <1>0, <1>5, <1>6, <1>7, SyncFacts, CarriedKept DEF IInv
<1>9. poller[p].pc \notin Inside /\ x.pc \notin Leased
  BY <1>0, <1>4 DEF Inside, Leased
<1>10. LeaseIsNotLeaked' /\ (Undisturbed => Keeps')
  <2>1. lease.owner # p
    BY <1>9 DEF IInv, LeaseIsNotLeaked, Inside
  <2> QED
    BY <1>0, <1>5, <1>9, <2>1, LeaseKept DEF IInv
<1>11. NoConflicts => CursorsAreCovered'
  BY <1>0 DEF IInv, CursorsAreCovered, Covered
<1>12. NobodyJumps => Line'
  <2> SUFFICES ASSUME NobodyJumps PROVE Line'
    OBVIOUS
  <2>1. Line /\ p \notin InLine /\ after = lock
    BY <1>9 DEF IInv, InLine, after, NobodyJumps
  <2> QED
    BY <1>0, <1>4, <1>5, <2>1, LineStarts
<1> QED
  BY <1>6, <1>8, <1>10, <1>11, <1>12 DEF IInv, NoConflicts, NobodyJumps, Undisturbed

\* What the lease's row says.
LEMMA LeaseFacts ==
    ASSUME IInv
    PROVE  /\ lease \in Lease /\ lease.cursor \in Cursor \cup {None}
           /\ lease.owner \in Pollers \cup {None, Gone}
           /\ NoConflicts => Spans(lease.cursor, committed)
<1>1. lease \in Lease
  BY WorldType DEF IInv
<1> QED
  BY <1>1, CoveredSpans DEF Lease, IInv, CursorsAreCovered

\* The lease of a poll whose store fails.
LeftBehind(p) == lease' = [lease EXCEPT !.owner = IF @ = p THEN Gone ELSE @]

\* A poll leaves with nothing to say, with what it had before, or in error.
LEMMA EndQuietly ==
    ASSUME IInv, NEW p \in Pollers, NEW out, EndPages(p, out),
           out \in {NoOutcome, poller[p].out} \/ (out = Failed /\ ~Undisturbed), poller[p].pc \in Inside,
           NobodyJumps => poller[p].pc # "queue",
           lease' = lease \/ releaseLease(p) \/ LeftBehind(p),
           lease.owner = p => releaseLease(p) \/ LeftBehind(p),
           UNCHANGED <<tip, committed, enabled, sync>>
    PROVE  IInv'
<1>0. TypeOK /\ committed \subseteq Positions
  BY WorldType DEF IInv
<1>1. out \in Outcome
  BY <1>0, PollerType, Blank
<1>2. /\ lease' \in Lease /\ lease'.cursor = lease.cursor
      /\ lease'.owner # p /\ \A q \in Pollers \ {p} : lease'.owner = q <=> lease.owner = q
  <2>1. CASE lease.owner # p
    <3>1. lease' = lease
      BY <2>1, LeaseFacts DEF releaseLease, LeftBehind, Lease
    <3> QED
      BY <2>1, <3>1, LeaseFacts
  <2>2. CASE lease.owner = p
    <3>1. \/ lease' = [lease EXCEPT !.owner = None, !.fresh = FALSE]
          \/ lease' = [lease EXCEPT !.owner = Gone]
      BY <2>2 DEF releaseLease, LeftBehind
    <3>2. lease' \in Lease
      BY <3>1, LeaseFacts DEF Lease
    <3>3. lease'.cursor = lease.cursor /\ lease'.owner \in {None, Gone}
      BY <3>1, LeaseFacts DEF Lease
    <3> QED
      BY <2>2, <3>2, <3>3, Nobody
  <2> QED
    BY <2>1, <2>2
<1>3. NoConflicts => Spans(out.next, committed)
  BY CarriedFacts, Blank DEF Sound, Spans
<1>4. Undisturbed => /\ out.error = FALSE
                     /\ out.hint # None => out.next # None /\ out.hint = HintOf(out.next)
  BY CarriedFacts, Blank DEF Report
<1> QED
  BY <1>0, <1>1, <1>2, <1>3, <1>4, LeaseFacts, EndInv

LEMMA abandonInv ==
    ASSUME IInv, NEW p \in Pollers, abandon(p)
    PROVE  IInv'
<1>0. TypeOK /\ UNCHANGED <<tip, committed, enabled, lease, sync>> /\ poller[p].job \in Ahead
  BY DEF IInv, abandon
<1>1. CASE poller[p].pc = "queue" /\ EndPages(p, NoOutcome)
  <2>1. poller[p].pc \in Inside /\ poller[p].job \in Jobs /\ lease.owner # p
    BY <1>1 DEF IInv, LeaseIsNotLeaked, Leased, Inside, Workers, Working
  <2>2. ~NobodyJumps
    BY <1>0, <2>1 DEF NobodyJumps
  <2> QED
    BY <1>0, <1>1, <2>1, <2>2, EndQuietly
<1>2. CASE poller[p].pc = "get" /\ poller' = [poller EXCEPT ![p] = Idle] /\ lock' = lock
  BY <1>0, <1>2, FreeInv DEF Inside, Leased
<1> QED
  BY <1>1, <1>2 DEF abandon

LEMMA pollStreamSelectInv ==
    ASSUME IInv, NEW p \in Pollers, pollStream_select(p)
    PROVE  IInv'
<1> DEFINE c == pollCursorValue(kindOf(p), sync)
           z == [poller[p] EXCEPT !.pc = "lease"]
           x == [z EXCEPT !.cursor = c]
<1>0. TypeOK /\ poller[p].pc = "queue" /\ poller[p].after = None
      /\ UNCHANGED <<tip, committed, enabled, lease, sync, lock>>
      /\ poller[p] \in Poller /\ poller \in [Pollers -> Poller] /\ committed \subseteq Positions
  BY PollerType, WorldType DEF pollStream_select, IInv
<1>1. poller' = [poller EXCEPT ![p] = x]
  BY <1>0 DEF pollStream_select
<1>2. c \in {sync.live, sync.history}
  BY DEF pollCursorValue
<1>3. c \in Cursor \cup {None}
  BY <1>2, SyncFacts DEF SyncRow
<1> HIDE DEF c
<1>4. /\ z \in Poller /\ z.pc = "lease" /\ z.after = poller[p].after /\ z.job = poller[p].job
      /\ z.out = poller[p].out /\ z.cur = poller[p].cur
  BY <1>0, PcSet DEF PollerStep
<1> HIDE DEF z
<1>5. /\ x \in Poller /\ x.pc = "lease" /\ x.after = poller[p].after /\ x.job = poller[p].job
      /\ x.out = poller[p].out /\ x.cur = poller[p].cur /\ x.cursor = c
  BY <1>3, <1>4, CursorSet
<1> HIDE DEF x
<1>6. NoConflicts => Sound(x, committed)
  BY <1>2, <1>5, SyncFacts, CarriedFacts DEF Sound
<1>7. Undisturbed => Report(x, committed)
  BY <1>5, CarriedFacts DEF Report
<1>8. Working(x) /\ x.pc \in Inside /\ poller[p].pc \in Inside /\ x.pc \notin Leased /\ lease.owner # p
  BY <1>0, <1>5 DEF IInv, Workers, Working, LeaseIsNotLeaked, Inside, Leased
<1> QED
  BY <1>0, <1>1, <1>5, <1>6, <1>7, <1>8, LeaseFacts, SyncFacts, MoveInv

-----------------------------------------------------------------------------
(* One page *)

LEMMA acquireLeaseInv ==
    ASSUME IInv, NEW p \in Pollers, acquireLease(p)
    PROVE  IInv'
<1>0. TypeOK /\ poller[p].pc = "lease" /\ UNCHANGED <<tip, committed, enabled, sync>>
      /\ poller[p] \in Poller /\ poller \in [Pollers -> Poller] /\ committed \subseteq Positions
  BY PollerType, WorldType DEF acquireLease, IInv
<1>1. poller[p].pc \in Inside /\ poller[p].pc # "queue" /\ lease.owner # p /\ poller[p].job \in Jobs
  BY <1>0 DEF IInv, Workers, Working, LeaseIsNotLeaked, Inside, Leased
<1>2. CASE EndPages(p, poller[p].out) /\ lease' = lease
  BY <1>0, <1>1, <1>2, EndQuietly
<1>3. ASSUME lease' = [lease EXCEPT !.owner = p, !.fresh = TRUE], lock' = lock,
             poller' = [poller EXCEPT ![p].pc = "poll",
                ![p].cursor = IF poller[p].page = 0 /\ @ # None THEN @ ELSE lease.cursor]
      PROVE  IInv'
  <2> DEFINE c == IF poller[p].page = 0 /\ poller[p].cursor # None THEN poller[p].cursor ELSE lease.cursor
             z == [poller[p] EXCEPT !.pc = "poll"]
             x == [z EXCEPT !.cursor = c]
  <2>1. poller' = [poller EXCEPT ![p] = x]
    BY <1>0, <1>3
  <2>2. c \in {poller[p].cursor, lease.cursor}
    OBVIOUS
  <2>3. c \in Cursor \cup {None}
    BY <1>0, <2>2, PollerType, LeaseFacts
  <2> HIDE DEF c
  <2>4. /\ z \in Poller /\ z.pc = "poll" /\ z.after = poller[p].after /\ z.job = poller[p].job
        /\ z.out = poller[p].out /\ z.cur = poller[p].cur
    BY <1>0, PcSet DEF PollerStep, Leased
  <2> HIDE DEF z
  <2>5. /\ x \in Poller /\ x.pc = "poll" /\ x.after = poller[p].after /\ x.job = poller[p].job
        /\ x.out = poller[p].out /\ x.cur = poller[p].cur /\ x.cursor = c
    BY <2>3, <2>4, CursorSet
  <2> HIDE DEF x
  <2>6. NoConflicts => Sound(x, committed)
    BY <2>2, <2>5, LeaseFacts, CarriedFacts DEF Sound
  <2>7. Undisturbed => Report(x, committed)
    BY <2>5, CarriedFacts DEF Report
  <2>8. Working(x) /\ x.pc \in Inside /\ x.pc \in Leased
    BY <1>1, <2>5 DEF Working, Inside, Leased
  <2>9. lease' \in Lease /\ lease'.owner = p /\ lease'.cursor = lease.cursor
    BY <1>3, LeaseFacts DEF Lease
  <2>10. Undisturbed => \A q \in Pollers \ {p} : poller[q].pc \notin Leased
    <3> SUFFICES ASSUME Undisturbed, NEW q \in Pollers \ {p}, poller[q].pc \in Leased PROVE FALSE
      OBVIOUS
    <3>1. OnePollAtATime
      BY <1>0, LineIsSingle DEF IInv, Undisturbed
    <3> QED
      BY <1>0, <3>1 DEF OnePollAtATime
  <2> QED
    BY <1>0, <1>1, <1>3, <2>1, <2>5, <2>6, <2>7, <2>8, <2>9, <2>10, LeaseFacts, SyncFacts, MoveInv
<1> QED
  BY <1>2, <1>3 DEF acquireLease

LEMMA throttledInv ==
    ASSUME IInv, NEW p \in Pollers, throttled(p)
    PROVE  IInv'
<1>1. poller[p].pc \in Inside /\ poller[p].pc # "queue"
  BY DEF throttled, Inside, Leased
<1> QED
  BY <1>1, EndQuietly DEF throttled

LEMMA pollThrowsInv ==
    ASSUME IInv, NEW p \in Pollers, pollThrows(p)
    PROVE  IInv'
<1>1. ~Undisturbed
  BY DEF pollThrows, Undisturbed
<1>2. poller[p].pc \in Inside /\ poller[p].pc # "queue"
  BY DEF pollThrows, Inside, Leased
<1> QED
  BY <1>1, <1>2, EndQuietly DEF pollThrows, Throw

LEMMA storeFailsInv ==
    ASSUME IInv, NEW p \in Pollers, storeFails(p)
    PROVE  IInv'
<1>1. ~Undisturbed
  BY DEF storeFails, Undisturbed
<1>2. poller[p].pc \in Inside /\ poller[p].pc # "queue"
  BY DEF storeFails, Inside, Leased
<1>3. LeftBehind(p)
  BY DEF storeFails, LeftBehind
<1> QED
  BY <1>1, <1>2, <1>3, EndQuietly DEF storeFails, Throw

LEMMA MakeCursor ==
    ASSUME NEW a \in Positions, NEW b \in Positions, NEW n, n = [tail |-> a, head |-> b]
    PROVE  n \in Cursor /\ n.tail = a /\ n.head = b
  BY Cursors

\* A page of the source: its cursor covers what the old one covered and its
\* own records.
LEMMA PageFacts ==
    ASSUME TypeOK, NEW job \in Jobs, NEW c \in Cursor \cup {None}, NEW page \in SourcePages(job, c)
    PROVE  /\ page \in Page /\ page.next # None
           /\ \A s : Spans(c, s) => Spans(page.next, s \cup page.recs)
<1>0. tip \in Nat /\ 1 <= tip /\ tip <= MaxTip /\ MaxTip \in Nat /\ Positions = 1..MaxTip
  BY Numbers, WorldType
<1>1. CASE c = None
  <2> DEFINE n == [tail |-> tip, head |-> tip]
  <2>1. page = [recs |-> {tip}, next |-> n, more |-> FALSE]
    BY <1>1, Zenon DEF SourcePages
  <2>2. n \in Cursor /\ n.head = tip /\ n.tail = tip
    BY <1>0, MakeCursor
  <2>3. page \in Page /\ page.next = n /\ page.recs = {tip}
    BY <1>0, <2>1, <2>2 DEF Page
  <2>4. n.head..n.tail = {tip}
    BY <1>0, <2>2
  <2> QED
    BY <2>2, <2>3, <2>4, Cursors DEF Spans
<1>2. ASSUME c \in Cursor, page \in Page, page.next = c
      PROVE  page.next # None /\ \A s : Spans(c, s) => Spans(page.next, s \cup page.recs)
  BY <1>2, Cursors DEF Spans
<1>3. ASSUME c \in Cursor PROVE c.head \in 1..MaxTip /\ c.tail \in 1..MaxTip /\ c # None
  BY <1>0, <1>3, Cursors
<1>4. CASE c # None /\ job = "focus"
  <2>1. page = [recs |-> {tip}, next |-> c, more |-> FALSE]
    BY <1>4, Zenon DEF SourcePages
  <2>2. page \in Page /\ page.next = c
    BY <1>0, <1>4, <2>1 DEF Page
  <2> QED
    BY <1>2, <1>4, <2>2
<1>5. CASE c # None /\ job = "scroll"
  <2>1. PICK i \in 1..tip : page = [recs |-> {i}, next |-> c, more |-> i > 1]
    BY <1>5 DEF SourcePages
  <2>2. page \in Page /\ page.next = c
    BY <1>0, <1>5, <2>1 DEF Page
  <2> QED
    BY <1>2, <1>5, <2>2
<1>6. CASE c # None /\ job = "history"
  <2>1. CASE c.head > 1
    <3> DEFINE n == [tail |-> c.tail, head |-> c.head - 1]
    <3>1. page = [recs |-> {c.head - 1}, next |-> n, more |-> c.head > 2]
      BY <1>6, <2>1 DEF SourcePages
    <3>2. n \in Cursor /\ n.head = c.head - 1 /\ n.tail = c.tail
      <4>1. c.tail \in Positions /\ c.head - 1 \in Positions
        BY <1>0, <1>3, <1>6, <2>1
      <4> QED
        BY <4>1, MakeCursor
    <3>3. page \in Page /\ page.next = n /\ page.recs = {c.head - 1}
      BY <1>0, <1>3, <1>6, <2>1, <3>1, <3>2 DEF Page
    <3>4. n.head..n.tail \subseteq (c.head..c.tail) \cup {c.head - 1}
      BY <1>3, <1>6, <3>2
    <3> QED
      BY <1>6, <3>2, <3>3, <3>4, Cursors DEF Spans
  <2>2. CASE ~(c.head > 1)
    <3>1. page = [recs |-> {}, next |-> c, more |-> FALSE]
      BY <1>6, <2>2 DEF SourcePages
    <3>2. page \in Page /\ page.next = c
      BY <1>6, <3>1 DEF Page
    <3> QED
      BY <1>2, <1>6, <3>2
  <2> QED
    BY <2>1, <2>2
<1>7. CASE c # None /\ job \in {"live", "interactive", "follow"}
  <2>1. CASE c.tail < tip
    <3> DEFINE n == [tail |-> c.tail + 1, head |-> c.head]
    <3>1. page = [recs |-> {c.tail + 1}, next |-> n, more |-> c.tail + 1 < tip]
      BY <1>7, <2>1 DEF SourcePages
    <3>2. n \in Cursor /\ n.head = c.head /\ n.tail = c.tail + 1
      <4>1. c.tail + 1 \in Positions /\ c.head \in Positions
        BY <1>0, <1>3, <1>7, <2>1
      <4> QED
        BY <4>1, MakeCursor
    <3>3. page \in Page /\ page.next = n /\ page.recs = {c.tail + 1}
      BY <1>0, <1>3, <1>7, <2>1, <3>1, <3>2 DEF Page
    <3>4. n.head..n.tail \subseteq (c.head..c.tail) \cup {c.tail + 1}
      BY <1>3, <1>7, <3>2
    <3> QED
      BY <1>7, <3>2, <3>3, <3>4, Cursors DEF Spans
  <2>2. CASE ~(c.tail < tip)
    <3>1. page = [recs |-> {}, next |-> c, more |-> FALSE]
      BY <1>7, <2>2 DEF SourcePages
    <3>2. page \in Page /\ page.next = c
      BY <1>7, <3>1 DEF Page
    <3> QED
      BY <1>2, <1>7, <3>2
  <2> QED
    BY <2>1, <2>2
<1>8. job \in {"live", "history", "interactive", "focus", "scroll", "follow"}
  BY StreamPollConstants, Zenon
<1> QED
  BY <1>1, <1>4, <1>5, <1>6, <1>7, <1>8

LEMMA pollSourceInv ==
    ASSUME IInv, NEW p \in Pollers, pollSource(p)
    PROVE  IInv'
<1>0. TypeOK /\ poller[p].pc = "poll" /\ UNCHANGED <<tip, committed, enabled, lease, sync, lock>>
      /\ poller[p] \in Poller /\ poller \in [Pollers -> Poller] /\ committed \subseteq Positions
      /\ poller[p].cursor \in Cursor \cup {None}
  BY PollerType, WorldType DEF pollSource, IInv
<1>1. poller[p].pc \in Inside /\ poller[p].pc \in Leased /\ poller[p].job \in Jobs
  BY <1>0 DEF IInv, Workers, Working, Inside, Leased
<1>2. PICK page \in SourcePages(poller[p].job, poller[p].cursor) :
        poller' = [poller EXCEPT ![p].pc = "ingest", ![p].got = page]
  BY DEF pollSource
<1>3. /\ page \in Page /\ page.next # None
      /\ \A s : Spans(poller[p].cursor, s) => Spans(page.next, s \cup page.recs)
  BY <1>0, <1>1, PageFacts
<1> DEFINE z == [poller[p] EXCEPT !.pc = "ingest"]
           x == [z EXCEPT !.got = page]
<1>4. poller' = [poller EXCEPT ![p] = x]
  BY <1>0, <1>2
<1>5. /\ z \in Poller /\ z.pc = "ingest" /\ z.after = poller[p].after /\ z.job = poller[p].job
      /\ z.out = poller[p].out /\ z.cur = poller[p].cur /\ z.cursor = poller[p].cursor
  BY <1>0, PcSet DEF PollerStep, Leased
<1> HIDE DEF z
<1>6. /\ x \in Poller /\ x.pc = "ingest" /\ x.after = poller[p].after /\ x.job = poller[p].job
      /\ x.out = poller[p].out /\ x.cur = poller[p].cur /\ x.cursor = poller[p].cursor
      /\ x.got = page
  BY <1>3, <1>5, GotSet
<1> HIDE DEF x
<1>7. NoConflicts => Sound(x, committed)
  BY <1>3, <1>6, CarriedFacts DEF Sound
<1>8. Undisturbed => Report(x, committed)
  BY <1>6, CarriedFacts DEF Report
<1>9. Working(x) /\ x.pc \in Inside /\ x.pc \in Leased
  BY <1>1, <1>3, <1>6 DEF Working, Inside, Leased
<1>10. Undisturbed => lease.owner = p
  BY <1>1 DEF IInv, Keeps
<1> QED
  BY <1>0, <1>1, <1>4, <1>6, <1>7, <1>8, <1>9, <1>10, LeaseFacts, SyncFacts, MoveInv

\* A page with records is stored record by record before it is settled.
LEMMA ingestRecordsInv ==
    ASSUME IInv, NEW p \in Pollers, ingestRecords(p)
    PROVE  IInv'
<1>0. TypeOK /\ poller[p].pc = "ingest" /\ UNCHANGED <<tip, enabled, lease, sync, lock>>
      /\ poller[p] \in Poller /\ poller \in [Pollers -> Poller] /\ committed \subseteq Positions
      /\ poller[p].got \in Page
  BY PollerType, WorldType DEF ingestRecords, IInv
<1>1. poller[p].pc \in Inside /\ poller[p].pc \in Leased /\ poller[p].job \in Jobs
      /\ poller[p].got.next # None
  BY <1>0 DEF IInv, Workers, Working, Inside, Leased
<1>2. PICK failed \in BOOLEAN :
        /\ failed => "conflict" \in Faults
        /\ committed' = IF failed THEN committed ELSE committed \cup poller[p].got.recs
        /\ poller' = [poller EXCEPT ![p].pc = "settle", ![p].failed = failed]
  BY DEF ingestRecords
<1>3. /\ committed \subseteq committed' /\ committed' \subseteq Positions
      /\ NoConflicts => committed' = committed \cup poller[p].got.recs
  BY <1>0, <1>2 DEF Page, NoConflicts
<1> DEFINE z == [poller[p] EXCEPT !.pc = "settle"]
           x == [z EXCEPT !.failed = failed]
<1>4. poller' = [poller EXCEPT ![p] = x]
  BY <1>0, <1>2
<1>5. /\ z \in Poller /\ z.pc = "settle" /\ z.after = poller[p].after /\ z.job = poller[p].job
      /\ z.out = poller[p].out /\ z.cur = poller[p].cur /\ z.cursor = poller[p].cursor
      /\ z.got = poller[p].got
  BY <1>0, PcSet DEF PollerStep, Leased
<1> HIDE DEF z
<1>6. /\ x \in Poller /\ x.pc = "settle" /\ x.after = poller[p].after /\ x.job = poller[p].job
      /\ x.out = poller[p].out /\ x.cur = poller[p].cur /\ x.cursor = poller[p].cursor
      /\ x.got = poller[p].got
  BY <1>5, FailedSet
<1> HIDE DEF x
<1>7. NoConflicts => Sound(x, committed')
  <2> SUFFICES ASSUME NoConflicts PROVE Sound(x, committed')
    OBVIOUS
  <2>1. Sound(poller[p], committed)
    BY CarriedFacts
  <2>2. Spans(poller[p].got.next, committed')
    BY <1>0, <1>3, <2>1 DEF Sound
  <2> QED
    BY <1>3, <1>6, <2>1, <2>2, SpansMore DEF Sound
<1>8. Undisturbed => Report(x, committed')
  BY <1>3, <1>6, CarriedFacts DEF Report, Earned
<1>9. Working(x) /\ x.pc \in Inside /\ x.pc \in Leased
  BY <1>1, <1>6 DEF Working, Inside, Leased
<1>10. Undisturbed => lease.owner = p /\ Earned(sync, committed')
  BY <1>1, <1>3, SyncFacts DEF IInv, Keeps, Earned
<1>11. NoConflicts => /\ Spans(lease.cursor, committed') /\ Spans(sync.live, committed')
                      /\ Spans(sync.history, committed')
  BY <1>3, LeaseFacts, SyncFacts, SpansMore
<1> QED
  BY <1>0, <1>1, <1>3, <1>4, <1>6, <1>7, <1>8, <1>9, <1>10, <1>11, LeaseFacts, SyncFacts, MoveInv

\* The outcome after a page is the page's.
LEMMA OutcomeFacts ==
    ASSUME TypeOK, NEW p \in Pollers, poller[p].got.next # None, NEW o, o = OutcomeAfter(p)
    PROVE  /\ o \in Outcome /\ o.next = poller[p].got.next /\ o.next # None
           /\ o.error = FALSE /\ o.hint = HintOf(o.next)
<1> DEFINE n == poller[p].got.next
           more == poller[p].out.more \/ poller[p].got.more
<1>1. o = [next |-> n, hint |-> HintOf(n), more |-> more, error |-> FALSE]
  BY DEF OutcomeAfter
<1>2. n \in Cursor /\ more \in BOOLEAN
  BY PollerType
<1> HIDE DEF n, more
<1>3. HintOf(n) \in Hint
  BY DEF HintOf, Hint
<1>4. o \in Outcome
  BY <1>1, <1>2, <1>3 DEF Outcome
<1>5. o.next = n /\ o.hint = HintOf(n) /\ o.error = FALSE
  BY <1>1
<1> QED
  BY <1>4, <1>5 DEF n

\* A page was settled by the owner of the lease.
LEMMA PageDoneInv ==
    ASSUME IInv, NEW p \in Pollers, NEW completed, PageDone(p, completed),
           poller[p].pc \in {"ingest", "settle"}, lease.owner = p,
           lease' \in Lease, lease'.owner = None,
           committed \subseteq committed', committed' \subseteq Positions,
           UNCHANGED <<tip, enabled, sync>>,
           NoConflicts => Spans(poller[p].got.next, committed') /\ Spans(lease'.cursor, committed')
    PROVE  IInv'
<1> DEFINE o == OutcomeAfter(p)
<1>0. TypeOK /\ poller[p] \in Poller /\ poller \in [Pollers -> Poller]
  BY PollerType, WorldType DEF IInv
<1>1. poller[p].pc \in Inside /\ poller[p].pc # "queue" /\ poller[p].job \in Jobs
      /\ poller[p].got.next # None
  BY DEF IInv, Workers, Working, Inside, Leased
<1>2. /\ o \in Outcome /\ o.next = poller[p].got.next /\ o.next # None
      /\ o.error = FALSE /\ o.hint = HintOf(o.next)
  BY <1>0, <1>1, OutcomeFacts
<1>3. CASE EndPages(p, OutcomeAfter(p))
  <2> HIDE DEF o
  <2>1. EndPages(p, o) /\ lease'.owner # p
        /\ \A q \in Pollers \ {p} : lease'.owner = q <=> lease.owner = q
    BY <1>3, Nobody DEF o
  <2> QED
    BY <1>1, <1>2, <2>1, EndInv
<1>4. ASSUME AsksForMore(p), lock' = lock,
             poller' = [poller EXCEPT ![p] =
               [poller[p] EXCEPT !.pc = "lease", !.page = @ + 1,
                                 !.seen = @ \cup {poller[p].got.next},
                                 !.got = NoPage, !.failed = FALSE, !.out = OutcomeAfter(p)]]
      PROVE  IInv'
  <2> DEFINE x == [poller[p] EXCEPT !.pc = "lease", !.page = @ + 1,
                                    !.seen = @ \cup {poller[p].got.next},
                                    !.got = NoPage, !.failed = FALSE, !.out = o]
  <2>1. poller' = [poller EXCEPT ![p] = x]
    BY <1>4, Zenon
  <2> HIDE DEF o
  <2>2. poller[p].page + 1 \in 0..MaxPages
    <3>1. poller[p].page \in 0..MaxPages
      BY <1>0 DEF Poller
    <3>2. poller[p].page + 1 < PagesOf(poller[p].job)
      BY <1>4 DEF AsksForMore
    <3> QED
      BY <3>1, <3>2, Numbers DEF PagesOf
  <2>3. poller[p].seen \cup {poller[p].got.next} \in SUBSET Cursor
    BY <1>0, <1>1, PollerType DEF Poller
  <2>4. x \in Poller
    BY <1>0, <1>2, <2>2, <2>3, Blank DEF Poller, PollerStep
  <2>5. /\ x.pc = "lease" /\ x.after = poller[p].after /\ x.job = poller[p].job
        /\ x.cursor = poller[p].cursor /\ x.out = o /\ x.cur = poller[p].cur
    BY <1>0 DEF Poller
  <2> HIDE DEF x
  <2>6. NoConflicts => Sound(x, committed')
    BY <1>2, <2>5, CarriedFacts, SpansMore DEF Sound
  <2>7. Undisturbed => Report(x, committed')
    BY <1>2, <2>5, CarriedFacts DEF Report, Earned
  <2>8. Working(x) /\ x.pc \in Inside /\ x.pc \notin Leased
    BY <1>1, <2>5 DEF Working, Inside, Leased
  <2>9. NoConflicts => Spans(sync.live, committed') /\ Spans(sync.history, committed')
    BY SyncFacts, SpansMore
  <2>10. Undisturbed => Earned(sync, committed')
    BY SyncFacts DEF Earned
  <2>11. /\ lease'.owner # p /\ \A q \in Pollers : lease'.owner # q
         /\ \A q \in Pollers \ {p} : lease.owner # q
    BY Nobody
  <2>12. sync' \in SyncRow /\ UNCHANGED <<tip, enabled, lock>>
    BY <1>4, SyncFacts
  <2> QED
    BY <1>1, <2>1, <2>4, <2>5, <2>6, <2>7, <2>8, <2>9, <2>10, <2>11, <2>12, MoveInv
<1> QED
  BY <1>3, <1>4 DEF PageDone

\* settleAttempt gives the lease back with the cursor it had or the page's.
LEMMA SettleFacts ==
    ASSUME IInv, NEW p \in Pollers, NEW retryable, settleAttempt(p, retryable),
           poller[p].pc \in {"ingest", "settle"}
    PROVE  /\ lease.owner = p /\ lease' \in Lease /\ lease'.owner = None
           /\ lease'.cursor \in {poller[p].got.next, lease.cursor}
<1> DEFINE c == IF WritesLease(kindOf(p)) /\ ~retryable THEN poller[p].got.next ELSE lease.cursor
<1>1. c \in {poller[p].got.next, lease.cursor}
  OBVIOUS
<1>2. c \in Cursor \cup {None}
  BY <1>1, PollerType, LeaseFacts DEF IInv
<1>3. lease.owner = p /\ lease' = [cursor |-> c, owner |-> None, fresh |-> FALSE]
  BY DEF settleAttempt
<1> HIDE DEF c
<1> QED
  BY <1>1, <1>2, <1>3 DEF Lease

LEMMA commitSyncPageInv ==
    ASSUME IInv, NEW p \in Pollers, commitSyncPage(p)
    PROVE  IInv'
<1>0. TypeOK /\ poller[p].pc = "ingest" /\ UNCHANGED <<tip, enabled, sync>>
      /\ committed \subseteq Positions /\ poller[p].got \in Page
  BY PollerType, WorldType DEF commitSyncPage, IInv
<1>1. poller[p].pc \in Inside /\ poller[p].pc \in Leased /\ poller[p].pc # "queue"
  BY <1>0 DEF Inside, Leased
<1>2. ASSUME settleAttempt(p, FALSE), committed' = committed \cup poller[p].got.recs, PageDone(p, TRUE)
      PROVE  IInv'
  <2>1. committed \subseteq committed' /\ committed' \subseteq Positions
    BY <1>0, <1>2 DEF Page
  <2>2. /\ lease.owner = p /\ lease' \in Lease /\ lease'.owner = None
        /\ lease'.cursor \in {poller[p].got.next, lease.cursor}
    BY <1>0, <1>2, SettleFacts
  <2>3. NoConflicts => Spans(poller[p].got.next, committed')
    BY <1>0, <1>2, CarriedFacts DEF Sound
  <2>4. NoConflicts => Spans(lease'.cursor, committed')
    BY <2>1, <2>2, <2>3, LeaseFacts, SpansMore
  <2> QED
    BY <1>0, <1>2, <2>1, <2>2, <2>3, <2>4, PageDoneInv
<1>3. ASSUME lease.owner # p, UNCHANGED <<committed, lease>>,
             EndPages(p, Failed) \/ EndPages(p, poller[p].out)
      PROVE  IInv'
  <2>1. ~Undisturbed
    BY <1>1, <1>3 DEF IInv, Keeps
  <2> QED
    BY <1>0, <1>1, <1>3, <2>1, EndQuietly
<1> QED
  BY <1>2, <1>3 DEF commitSyncPage, Throw

LEMMA settlePageInv ==
    ASSUME IInv, NEW p \in Pollers, settlePage(p)
    PROVE  IInv'
<1>0. TypeOK /\ poller[p].pc = "settle" /\ UNCHANGED <<tip, committed, enabled, sync>>
      /\ committed \subseteq Positions
  BY WorldType DEF settlePage, IInv
<1>1. poller[p].pc \in Inside /\ poller[p].pc # "queue"
  BY <1>0 DEF Inside, Leased
<1>2. ASSUME settleAttempt(p, poller[p].failed), PageDone(p, ~poller[p].failed)
      PROVE  IInv'
  <2>1. /\ lease.owner = p /\ lease' \in Lease /\ lease'.owner = None
        /\ lease'.cursor \in {poller[p].got.next, lease.cursor}
    BY <1>0, <1>2, SettleFacts
  <2>2. NoConflicts => Spans(poller[p].got.next, committed)
    BY <1>0, CarriedFacts DEF Sound
  <2>3. NoConflicts => Spans(lease'.cursor, committed)
    BY <2>1, <2>2, LeaseFacts
  <2> DEFINE completed == ~poller[p].failed
  <2>4. PageDone(p, completed)
    BY <1>2
  <2> HIDE DEF completed
  <2> QED
    BY <1>0, <2>1, <2>2, <2>3, <2>4, PageDoneInv
<1>3. ASSUME lease.owner # p, lease' = lease, EndPages(p, poller[p].out)
      PROVE  IInv'
  BY <1>0, <1>1, <1>3, EndQuietly
<1> QED
  BY <1>2, <1>3 DEF settlePage

-----------------------------------------------------------------------------
(* The world around *)

\* A step outside the polls: at most the lease loses its owner.
LEMMA WorldInv ==
    ASSUME IInv, UNCHANGED <<committed, sync, lock, poller>>, tip' \in Positions,
           enabled' = enabled \/ enabled' = ~enabled, lease' \in Lease,
           \A q \in Pollers : lease'.owner = q => lease.owner = q,
           lease'.cursor = lease.cursor \/ lease'.cursor = None,
           Undisturbed => lease'.owner = lease.owner
    PROVE  IInv'
<1>1. TypeOK'
  <2>1. enabled' \in BOOLEAN
    BY Zenon DEF IInv, TypeOK
  <2> QED
    BY <2>1, Zenon DEF IInv, TypeOK, Lease
<1>2. Workers' /\ (NoConflicts => Carried') /\ (Undisturbed => Reports')
  BY DEF IInv, Workers, Carried, Reports
<1>3. LeaseIsNotLeaked' /\ (Undisturbed => Keeps')
  BY DEF IInv, LeaseIsNotLeaked, Keeps
<1>4. NoConflicts => CursorsAreCovered'
  BY DEF IInv, CursorsAreCovered, Covered
<1>5. NobodyJumps => Line'
  BY LineSame DEF IInv
<1> QED
  BY <1>1, <1>2, <1>3, <1>4, <1>5 DEF IInv, NoConflicts, NobodyJumps, Undisturbed

LEMMA messageArrivesInv ==
    ASSUME IInv, messageArrives
    PROVE  IInv'
<1>1. tip' \in Positions
  BY Numbers, WorldType DEF IInv, messageArrives
<1> QED
  BY <1>1, LeaseFacts, WorldInv DEF messageArrives

LEMMA leaseExpiresInv ==
    ASSUME IInv, leaseExpires
    PROVE  IInv'
<1>1. lease' = [lease EXCEPT !.fresh = FALSE] /\ UNCHANGED <<tip, committed, enabled, sync, lock, poller>>
  BY DEF leaseExpires
<1>2. lease' \in Lease /\ lease'.owner = lease.owner /\ lease'.cursor = lease.cursor
  BY <1>1, LeaseFacts DEF Lease
<1> QED
  BY <1>1, <1>2, WorldType, WorldInv DEF IInv

LEMMA resetCursorInv ==
    ASSUME IInv, resetCursor
    PROVE  IInv'
<1>1. lease' = [cursor |-> None, owner |-> None, fresh |-> FALSE] /\ ~Undisturbed
      /\ UNCHANGED <<tip, committed, enabled, sync, lock, poller>>
  BY DEF resetCursor, Undisturbed
<1>2. lease' \in Lease /\ lease'.owner = None /\ lease'.cursor = None
  BY <1>1 DEF Lease
<1> QED
  BY <1>1, <1>2, Nobody, WorldType, WorldInv DEF IInv

LEMMA setInstallationStatusInv ==
    ASSUME IInv, setInstallationStatus
    PROVE  IInv'
<1>1. enabled' = ~enabled
  BY Zenon DEF setInstallationStatus
<1> QED
  BY <1>1, LeaseFacts, WorldType, WorldInv DEF IInv, setInstallationStatus

LEMMA crashInv ==
    ASSUME IInv, crash
    PROVE  IInv'
<1> DEFINE owner == IF lease.owner = None THEN None ELSE Gone
<1>0. TypeOK /\ UNCHANGED <<tip, committed, enabled, sync>> /\ lock' = None
      /\ poller' = [p \in Pollers |-> Idle] /\ lease' = [lease EXCEPT !.owner = owner]
  BY DEF IInv, crash
<1>1. \A p \in Pollers : poller'[p] = Idle
  BY <1>0
<1>2. owner \in {None, Gone}
  OBVIOUS
<1> HIDE DEF owner
<1>3. lease' \in Lease /\ lease'.owner = owner /\ lease'.cursor = lease.cursor
  BY <1>0, <1>2, LeaseFacts DEF Lease
<1>4. poller' \in [Pollers -> Poller]
  BY <1>0, IdleFacts
<1>5. TypeOK'
  BY <1>0, <1>3, <1>4, WorldType, TypesBack
<1>6. Idle.pc \notin Inside /\ Idle.pc \notin Leased /\ Working(Idle)
  BY IdleFacts DEF Inside, Leased, Working
<1>7. Sound(Idle, committed) /\ Report(Idle, committed)
  BY IdleFacts, BlankSound
<1>8. Workers' /\ (NoConflicts => Carried') /\ (Undisturbed => Reports')
  BY <1>0, <1>1, <1>6, <1>7, SyncFacts DEF Workers, Carried, Reports
<1>9. LeaseIsNotLeaked' /\ Keeps'
  BY <1>1, <1>2, <1>3, <1>6, Nobody DEF LeaseIsNotLeaked, Keeps
<1>10. NoConflicts => CursorsAreCovered'
  BY <1>0, <1>3 DEF IInv, CursorsAreCovered, Covered
<1>11. Line'
  BY <1>0, <1>1, <1>6, IdleFacts, LineEmpty
<1> QED
  BY <1>5, <1>8, <1>9, <1>10, <1>11 DEF IInv, NoConflicts, NobodyJumps, Undisturbed

-----------------------------------------------------------------------------
(* The specification *)

LEMMA InitInv == Init => IInv
<1> SUFFICES ASSUME Init PROVE IInv
  OBVIOUS
<1>1. \A p \in Pollers : poller[p] = Idle
  BY DEF Init
<1>2. TypeOK
  <2>1. lease \in Lease
    BY DEF Init, Lease
  <2>2. tip \in Positions /\ committed \subseteq Positions /\ sync \in SyncRow /\ lock \in Pollers \cup {None}
        /\ poller \in [Pollers -> Poller]
    BY Numbers, Blank, IdleFacts DEF Init
  <2>3. enabled \in BOOLEAN
    BY DEF Init
  <2> QED
    BY <2>1, <2>2, <2>3, Zenon DEF TypeOK, Lease
<1>3. Idle.pc \notin Inside /\ Idle.pc \notin Leased /\ Working(Idle)
  BY IdleFacts DEF Inside, Leased, Working
<1>4. Sound(Idle, committed) /\ Report(Idle, committed)
  BY IdleFacts, BlankSound
<1>5. Workers /\ Carried /\ Keeps
  BY <1>1, <1>3, <1>4 DEF Workers, Carried, Keeps
<1>6. Reports
  BY <1>1, <1>4, Blank DEF Init, Reports, Earned
<1>7. LeaseIsNotLeaked /\ CursorsAreCovered
  BY Nobody, Blank DEF Init, LeaseIsNotLeaked, CursorsAreCovered, Covered
<1>8. Line
  <2>1. [q \in Pollers |-> 0] \in [Pollers -> Nat] /\ InLine = {}
    BY <1>1, <1>3 DEF InLine
  <2>2. InOrder([q \in Pollers |-> 0])
    BY <1>1, <2>1, IdleFacts DEF Init, InOrder
  <2> QED
    BY <2>1, <2>2 DEF Line
<1> QED
  BY <1>2, <1>5, <1>6, <1>7, <1>8 DEF IInv

LEMMA NextInv == IInv /\ [Next]_vars => IInv'
<1> SUFFICES ASSUME IInv, [Next]_vars PROVE IInv'
  OBVIOUS
<1>1. ASSUME NEW p \in Pollers, NEW job \in Jobs, start(p, job) PROVE IInv'
  BY <1>1, startInv
<1>2. ASSUME NEW p \in Pollers, pollerStep(p) PROVE IInv'
  BY <1>2, pollStreamSelectInv, acquireLeaseInv, pollSourceInv, commitSyncPageInv,
     ingestRecordsInv, settlePageInv, rememberGetInv, rememberPutInv DEF pollerStep
<1>3. ASSUME NEW p \in Pollers, checkHistoryDuty(p) \/ historyDeferred(p) \/ abandon(p) PROVE IInv'
  BY <1>3, checkHistoryDutyInv, historyDeferredInv, abandonInv
<1>4. ASSUME NEW p \in Pollers, throttled(p) \/ pollThrows(p) \/ storeFails(p) PROVE IInv'
  BY <1>4, throttledInv, pollThrowsInv, storeFailsInv
<1>5. ASSUME messageArrives \/ leaseExpires \/ resetCursor \/ setInstallationStatus \/ crash PROVE IInv'
  BY <1>5, messageArrivesInv, leaseExpiresInv, resetCursorInv, setInstallationStatusInv, crashInv
<1>6. CASE UNCHANGED vars
  <2>1. tip \in Positions
    BY WorldType DEF IInv
  <2> QED
    BY <1>6, <2>1, LeaseFacts, WorldInv DEF vars
<1> QED
  BY <1>1, <1>2, <1>3, <1>4, <1>5, <1>6 DEF Next

\* The inductive invariant holds throughout, each part in its circumstances.
THEOREM Strengthened == Spec => []IInv
  BY InitInv, NextInv, PTL DEF Spec

\* The types of the cursor row, the state row and what a poll carries hold
\* throughout, for any polls, jobs and faults.
THEOREM TypeCorrect == Spec => []TypeOK
<1>1. IInv => TypeOK
  BY DEF IInv
<1> QED
  BY <1>1, Strengthened, PTL

\* The step in which the owner p of the lease stops being in the middle of
\* a page.
LEMMA OwnerLeaves ==
    ASSUME IInv, IInv', [Next]_vars, NEW p \in Pollers,
           lease.owner = p, poller'[p].pc \notin Leased
    PROVE  lease'.owner = None \/ storeFails(p) \/ crash
<1>1. TypeOK /\ poller[p].pc \in Leased /\ lease'.owner # p
      /\ poller \in [Pollers -> Poller] /\ lease \in Lease
  BY LeaseFacts DEF IInv, LeaseIsNotLeaked, TypeOK
<1>2. lease' # lease /\ poller' # poller
  BY <1>1
<1>3. ASSUME NEW q \in Pollers, pollerStep(q) PROVE lease'.owner = None
  <2>1. acquireLease(q) \/ commitSyncPage(q) \/ settlePage(q)
    BY <1>2, <1>3 DEF pollerStep, pollStream_select, pollSource, ingestRecords, rememberGet, rememberPut
  <2>2. ~acquireLease(q)
    <3> SUFFICES ASSUME acquireLease(q) PROVE FALSE
      OBVIOUS
    <3>1. q # p
      BY <1>1 DEF acquireLease, Leased
    <3>2. poller'[p] = poller[p]
      BY <1>1, <1>2, <3>1 DEF acquireLease
    <3> QED
      BY <1>1, <3>2
  <2>3. settleAttempt(q, FALSE) \/ settleAttempt(q, poller[q].failed)
    BY <1>2, <2>1, <2>2 DEF commitSyncPage, settlePage
  <2>4. ASSUME NEW retryable, settleAttempt(q, retryable) PROVE lease'.owner = None
    BY <2>4 DEF settleAttempt
  <2> QED
    BY <2>3, <2>4
<1>4. ASSUME NEW q \in Pollers, throttled(q) \/ pollThrows(q) PROVE lease'.owner = None
  BY <1>1, <1>2, <1>4 DEF throttled, pollThrows, releaseLease, Lease
<1>5. ASSUME NEW q \in Pollers, storeFails(q) PROVE storeFails(p)
  <2>1. CASE q # p
    <3>1. lease' = lease
      BY <1>1, <1>5, <2>1 DEF storeFails, Lease
    <3> QED
      BY <1>2, <3>1
  <2> QED
    BY <1>5, <2>1
<1>6. ASSUME NEW q \in Pollers,
             checkHistoryDuty(q) \/ historyDeferred(q) \/ abandon(q)
             \/ \E job \in Jobs : start(q, job)
      PROVE  FALSE
  BY <1>2, <1>6 DEF checkHistoryDuty, historyDeferred, abandon, start
<1>7. ~(messageArrives \/ leaseExpires \/ resetCursor \/ setInstallationStatus)
  BY <1>2 DEF messageArrives, leaseExpires, resetCursor, setInstallationStatus
<1> QED
  BY <1>2, <1>3, <1>4, <1>5, <1>6, <1>7 DEF Next, vars

\* However many polls preempt each other, are throttled, throw or commit,
\* whoever leaves ConnectorRunner.poll as the owner of the lease has given it
\* back, unless the store failed under it or the process ended.
THEOREM NoLeaseLeaks == Spec => LeaseIsGivenBack
<1> DEFINE Leaves == \A p \in Pollers :
             lease.owner = p /\ poller'[p].pc \notin Leased =>
                 lease'.owner = None \/ storeFails(p) \/ crash
<1>1. IInv /\ IInv' /\ [Next]_vars => [Leaves]_vars
  BY OwnerLeaves
<1> QED
  BY <1>1, Strengthened, PTL DEF Spec, LeaseIsGivenBack

\* If no record conflicts, no cursor that commitSyncPage, settleAttempt or
\* rememberResult stores runs ahead of the stored messages, for any polls,
\* jobs, pages and messages and all other faults: preempted and lost leases,
\* errors, crashes, resets.  (With conflicts it is false: a page that keeps
\* the lease's cursor still reports its own.)
THEOREM CursorsStayCovered ==
    ASSUME "conflict" \notin Faults
    PROVE  Spec => []CursorsAreCovered
<1>1. IInv => CursorsAreCovered
  BY DEF IInv, NoConflicts
<1> QED
  BY <1>1, Strengthened, PTL

\* If nobody jumps the queue, exclusiveStream admits one poll at a time, for
\* any number of callers and all faults.  (An opened chat and a scroll jump it
\* by design; then the lease decides.)
THEOREM LockExcludes ==
    ASSUME Jobs \cap {"focus", "scroll"} = {}
    PROVE  Spec => []OnePollAtATime
<1>1. IInv => OnePollAtATime
  BY LineIsSingle DEF IInv, NobodyJumps, Ahead
<1> QED
  BY <1>1, Strengthened, PTL

\* Under the backfill policy a stream that was read counts as caught up only
\* when its first message is stored, for any callers that queue, any number of
\* messages, throttling, crashes and disabling.  Errors are excluded, with what
\* makes a poll lose its lease (a caller that jumps the queue, a reset): the
\* phase that a first error stores ends the backfill.  So are conflicts, which
\* make an outcome's cursor run ahead.
THEOREM BackfillIsKept ==
    ASSUME Jobs \cap {"focus", "scroll"} = {}, Faults \cap {"throw", "store", "conflict", "reset"} = {}
    PROVE  Spec => []BackfillIsOwed
<1>1. IInv => BackfillIsOwed
  <2> SUFFICES ASSUME IInv, Policy = "backfill", sync.phase \in CaughtUp PROVE 1 \in committed
    BY DEF BackfillIsOwed
  <2>1. Undisturbed
    BY DEF Undisturbed, NobodyJumps, Ahead
  <2> QED
    BY <2>1 DEF IInv, Reports, Earned
<1> QED
  BY <1>1, Strengthened, PTL

=============================================================================
