---------------------------- MODULE IngestProofs ----------------------------
(***************************************************************************)
(* For any source identities, contents, callers and batches: the versions  *)
(* of a record form one line, a current Event is arranged or about to be,  *)
(* and ingestion implements SourceRecord.                                  *)
(*                                                                         *)
(* The argument is that the events table only grows.  What a caller judged *)
(* a record by is the Event that was current when it looked; the           *)
(* compare-and-set on the head lets the write through only while that      *)
(* Event is current, and so the judgement holds at the moment of the write *)
(* (Judged).                                                               *)
(***************************************************************************)
EXTENDS Ingest, SequenceTheorems, TLAPS

\* The version of the Event with an id, 0 for none.
VersionAt(n) == IF n = 0 THEN None ELSE VersionOf(events[n])

\* Parents are older Events of the same identity, a head is an Event of its
\* own identity, and no Event has two successors.
Log ==
    /\ \A n \in DOMAIN events :
         /\ events[n].parent < n
         /\ events[n].parent # 0 => events[events[n].parent].key = events[n].key
    /\ \A k \in Keys : head[k] # 0 => events[head[k]].key = k
    /\ HistoryIsLinear

\* A job is what inspectRecord decides for the record by the Event expected
\* to be current.
Judged(r, j) ==
    LET cur == VersionAt(j.expect) IN
    /\ j \in Job
    /\ j.expect \in 0..Len(events)
    /\ ~Replays(r, cur) /\ ~Conflicts(r, cur)
    /\ j.kind = Kind(r, cur)
    /\ j.content = IF r.op = "tombstone" THEN NoContent ELSE Merged(r.content, cur)
    /\ j.revision = IF r.op = "tombstone" THEN "none" ELSE Revision(r, cur)

\* The Event a caller has written for its record.
Written(r, j) ==
    /\ j \in Job
    /\ j.id \in DOMAIN events
    /\ events[j.id].key = r.key

\* Where a caller is tells what it holds.
Caller(w) ==
    /\ pc[w] = "flush" => planned[w] # <<>>
    /\ pc[w] \in {"inspect", "persist", "mark", "remember"} => single[w] # <<>>
    /\ pc[w] = "persist" => Judged(Head(single[w]), job[w])
    /\ pc[w] \in {"mark", "remember"} => Written(Head(single[w]), job[w])
    /\ pc[w] = "mark" => events[job[w].id].op = "create"

Callers == \A w \in Workers : Caller(w)

IInv == TypeOK /\ Log /\ Callers /\ HeadIsArranged

-----------------------------------------------------------------------------
(* Records, contents and versions *)

LEMMA SeqFacts ==
    ASSUME NEW S, NEW s \in Seq(S), s # <<>>
    PROVE  /\ Head(s) \in S /\ Tail(s) \in Seq(S)
           /\ Len(s) # 1 => Tail(s) # <<>>
<1>1. Head(s) \in S /\ Tail(s) \in Seq(S) /\ Len(Tail(s)) = Len(s) - 1
  BY HeadTailProperties
<1>2. Len(<<>>) = 0 /\ Len(s) \in Nat
  BY EmptySeq, LenProperties
<1> QED
  BY <1>1, <1>2

\* What a record carries.
LEMMA RecordFacts ==
    ASSUME NEW r \in Record
    PROVE  /\ r.key \in Keys /\ r.op \in {"create", "revise", "tombstone"}
           /\ r.op # "tombstone" => r.content \in Contents
  BY DEF Record

\* The version an Event shows is a version of the abstract record.
LEMMA VersionType ==
    ASSUME NEW row \in Row
    PROVE  VersionOf(row) \in Source!Version /\ VersionOf(row) # None
<1>1. VersionOf(row) \in Source!Version
  BY DEF Row, VersionOf, Source!Version, Source!NoContent, NoContent
<1> QED
  BY <1>1, NoneAssumption

LEMMA PreviewType ==
    ASSUME NEW p \in Planned, NEW r
    PROVE  Preview(p, r) \in Source!Version /\ Preview(p, r) # None
<1>1. Preview(p, r) \in Source!Version
  BY DEF Planned, Preview, Source!Version, Source!NoContent, NoContent
<1> QED
  BY <1>1, NoneAssumption

LEMMA VersionAtType ==
    ASSUME TypeOK, NEW n \in 0..Len(events)
    PROVE  /\ VersionAt(n) \in Source!Version \cup {None}
           /\ VersionAt(n) = None <=> n = 0
<1>1. ASSUME n # 0 PROVE events[n] \in Row
  <2>1. n \in 1..Len(events)
    BY <1>1, LenProperties DEF TypeOK
  <2> QED
    BY <2>1, ElementOfSeq DEF TypeOK
<1> QED
  BY <1>1, VersionType DEF VersionAt

LEMMA StoredIsHead ==
    ASSUME TypeOK, NEW k \in Keys
    PROVE  /\ Stored(k) = VersionAt(head[k]) /\ head[k] \in 0..Len(events)
           /\ Stored(k) \in Source!Version \cup {None}
           /\ Stored(k) = None <=> head[k] = 0
<1>1. Stored(k) = VersionAt(head[k]) /\ head[k] \in 0..Len(events)
  BY DEF Stored, VersionAt, TypeOK
<1> QED
  BY <1>1, VersionAtType

\* preserveResolvedAttachments yields a content again.
LEMMA MergedType ==
    ASSUME NEW c \in Contents, NEW cur \in Source!Version \cup {None}
    PROVE  Merged(c, cur) \in Contents
<1>1. CASE cur = None
  BY <1>1 DEF Merged
<1>2. CASE cur # None /\ cur.content \in Contents
  BY <1>2, ContentsAssumption DEF Merged
<1>3. CASE cur # None /\ cur.content = NoContent
  <2>1. cur.content.have = {}
    BY <1>3 DEF NoContent
  <2>2. c.have \cup (c.lack \cap {}) = c.have /\ c.lack \ {} = c.lack
    OBVIOUS
  <2> QED
    BY <1>3, <2>1, <2>2, ContentsAssumption DEF Merged
<1>4. cur # None => cur.content \in Contents \cup {NoContent}
  BY NoneAssumption DEF Source!Version, Source!NoContent, NoContent
<1> QED
  BY <1>1, <1>2, <1>3, <1>4

\* What inspectRecord decides is a job.
LEMMA DecisionType ==
    ASSUME NEW r \in Record, NEW cur \in Source!Version \cup {None}, NEW n \in Nat
    PROVE  [kind |-> Kind(r, cur), expect |-> n,
            content |-> IF r.op = "tombstone" THEN NoContent ELSE Merged(r.content, cur),
            revision |-> IF r.op = "tombstone" THEN "none" ELSE Revision(r, cur),
            id |-> 0] \in Job
<1>1. Kind(r, cur) \in {"create", "revise", "tombstone", "return"}
  BY DEF Kind
<1>2. r.op # "tombstone" => Merged(r.content, cur) \in Contents
  BY RecordFacts, MergedType
<1>3. Revision(r, cur) \in {"none", "source", "surface"}
  BY DEF Revision
<1> QED
  BY <1>1, <1>2, <1>3 DEF Job

-----------------------------------------------------------------------------
(* The table *)

\* What a transaction does to the events and heads.
LEMMA InsertFacts ==
    ASSUME TypeOK, NEW rows \in Seq(Row), Insert(rows)
    PROVE  /\ events' \in Seq(Row)
           /\ Len(events) \in Nat /\ Len(rows) \in Nat
           /\ Len(events') = Len(events) + Len(rows)
           /\ DOMAIN events = 1..Len(events) /\ DOMAIN rows = 1..Len(rows)
           /\ DOMAIN events' = 1..Len(events')
           /\ \A n \in DOMAIN events : n \in DOMAIN events' /\ events'[n] = events[n]
           /\ \A n \in DOMAIN rows : events'[Len(events) + n] = rows[n]
           /\ head' \in [Keys -> 0..Len(events')]
           /\ \A k \in Keys :
                 \/ head'[k] = head[k] /\ \A n \in DOMAIN rows : rows[n].key # k
                 \/ \E n \in DOMAIN rows : rows[n].key = k /\ head'[k] = Len(events) + n
<1>1. events \in Seq(Row) /\ events' = events \o rows
  BY DEF TypeOK, Insert
<1>2. /\ events' \in Seq(Row)
      /\ Len(events') = Len(events) + Len(rows)
      /\ \A i \in 1..Len(events) : events'[i] = events[i]
      /\ \A i \in 1..Len(rows) : events'[Len(events) + i] = rows[i]
  <2>1. \A i \in 1..Len(events) + Len(rows) :
           events'[i] = IF i <= Len(events) THEN events[i] ELSE rows[i - Len(events)]
    BY <1>1, ConcatProperties
  <2>2. Len(events) \in Nat /\ Len(rows) \in Nat
    BY <1>1, LenProperties
  <2>3. events' \in Seq(Row) /\ Len(events') = Len(events) + Len(rows)
    BY <1>1, ConcatProperties
  <2>4. ASSUME NEW i \in 1..Len(rows) PROVE events'[Len(events) + i] = rows[i]
    <3>1. Len(events) + i \in 1..Len(events) + Len(rows) /\ ~(Len(events) + i <= Len(events))
          /\ Len(events) + i - Len(events) = i
      BY <2>2
    <3> QED
      BY <2>1, <3>1
  <2> QED
    BY <2>1, <2>2, <2>3, <2>4
<1>3. /\ Len(events) \in Nat /\ Len(rows) \in Nat
      /\ DOMAIN events = 1..Len(events) /\ DOMAIN rows = 1..Len(rows)
      /\ DOMAIN events' = 1..Len(events')
  BY <1>1, <1>2, LenProperties
<1>4. ASSUME NEW k \in Keys
      PROVE  /\ head'[k] \in 0..Len(events')
             /\ \/ head'[k] = head[k] /\ \A n \in DOMAIN rows : rows[n].key # k
                \/ \E n \in DOMAIN rows : rows[n].key = k /\ head'[k] = Len(events) + n
  <2>1. CASE \E n \in DOMAIN rows : rows[n].key = k
    <3> DEFINE m == CHOOSE n \in DOMAIN rows : rows[n].key = k
    <3>1. m \in DOMAIN rows /\ rows[m].key = k
      BY <2>1
    <3>2. head'[k] = Len(events) + m
      BY <2>1 DEF Insert
    <3> HIDE DEF m
    <3> QED
      BY <1>2, <1>3, <3>1, <3>2
  <2>2. CASE ~\E n \in DOMAIN rows : rows[n].key = k
    <3>1. head'[k] = head[k]
      BY <2>2 DEF Insert
    <3>2. head[k] \in 0..Len(events)
      BY DEF TypeOK
    <3> QED
      BY <1>2, <1>3, <2>2, <3>1, <3>2
  <2> QED
    BY <2>1, <2>2
<1>5. head' \in [Keys -> 0..Len(events')]
  <2>1. head' = [k \in Keys |-> head'[k]]
    BY DEF Insert
  <2> QED
    BY <1>4, <2>1
<1> QED
  BY <1>2, <1>3, <1>4, <1>5

\* The rows of one transaction follow the current Event of their identity or
\* start anew; only a transaction of one row does the former.
Follows(rows) ==
    \A n \in DOMAIN rows :
        \/ rows[n].parent = 0
        \/ Len(rows) = 1 /\ rows[n].parent = head[rows[n].key]

\* Such a transaction keeps the versions of each record in line.
LEMMA LogInsert ==
    ASSUME TypeOK, Log, NEW rows \in Seq(Row), Insert(rows), Follows(rows)
    PROVE  Log'
<1> DEFINE L == Len(events)
           R == Len(rows)
<1>0. /\ L \in Nat /\ R \in Nat /\ Len(events') = L + R
      /\ DOMAIN events = 1..L /\ DOMAIN rows = 1..R /\ DOMAIN events' = 1..(L + R)
      /\ \A n \in 1..L : events'[n] = events[n]
      /\ \A n \in 1..R : events'[L + n] = rows[n]
      /\ \A k \in Keys :
            \/ head'[k] = head[k] /\ \A n \in 1..R : rows[n].key # k
            \/ \E n \in 1..R : rows[n].key = k /\ head'[k] = L + n
  <2>1. /\ L \in Nat /\ R \in Nat /\ Len(events') = L + R
        /\ DOMAIN events = 1..L /\ DOMAIN rows = 1..R /\ DOMAIN events' = 1..(L + R)
    BY InsertFacts
  <2>2. \A n \in DOMAIN events : events'[n] = events[n]
    BY InsertFacts
  <2>3. \A n \in DOMAIN rows : events'[L + n] = rows[n]
    BY InsertFacts
  <2>4. \A k \in Keys :
          \/ head'[k] = head[k] /\ \A n \in DOMAIN rows : rows[n].key # k
          \/ \E n \in DOMAIN rows : rows[n].key = k /\ head'[k] = L + n
    BY InsertFacts
  <2> HIDE DEF L, R
  <2> QED
    BY <2>1, <2>2, <2>3, <2>4
<1>1. /\ \A k \in Keys : head[k] \in 0..L
      /\ \A n \in 1..L : events[n].key \in Keys /\ events[n].parent \in Nat
      /\ \A n \in 1..R : rows[n].key \in Keys /\ rows[n].parent \in Nat
  <2>1. (\A n \in 1..L : events[n] \in Row) /\ (\A n \in 1..R : rows[n] \in Row)
    BY ElementOfSeq DEF TypeOK
  <2> QED
    BY <2>1 DEF TypeOK, Row
<1>p. \A n \in 1..L : events[n].parent < n
  BY <1>0 DEF Log
<1>2. /\ \A n \in 1..L : events[n].parent # 0 => events[events[n].parent].key = events[n].key
      /\ \A k \in Keys : head[k] # 0 => events[head[k]].key = k
  BY <1>0 DEF Log
<1>3. \A m, n \in 1..L :
        /\ events[m].parent # 0 /\ m # n => events[m].parent # events[n].parent
        /\ head[events[m].key] # events[m].parent \/ events[m].parent = 0
  BY <1>0 DEF Log, HistoryIsLinear
<1>4. \A n \in 1..R : rows[n].parent = 0 \/ (R = 1 /\ rows[n].parent = head[rows[n].key])
  BY <1>0 DEF Follows
<1>5. \A n \in 1..(L + R) : n \in 1..L \/ (\E i \in 1..R : n = L + i)
  <2> TAKE n \in 1..(L + R)
  <2>1. CASE n <= L
    BY <1>0, <2>1
  <2>2. CASE ~(n <= L)
    <3>1. n - L \in 1..R /\ n = L + (n - L)
      BY <1>0, <2>2
    <3> QED
      BY <3>1
  <2> QED
    BY <2>1, <2>2
<1> HIDE DEF L, R
<1>6. ASSUME NEW n \in 1..(L + R)
      PROVE  /\ events'[n].parent < n
             /\ events'[n].parent # 0 => events'[events'[n].parent].key = events'[n].key
  <2>1. CASE n \in 1..L
    <3>1. events'[n] = events[n]
      BY <1>0, <2>1
    <3>a. events[n].parent \in Nat /\ events[n].parent < n
      BY <1>1, <1>p, <2>1
    <3>2. events[n].parent # 0 => events[n].parent \in 1..L
      BY <1>0, <2>1, <3>a
    <3> QED
      BY <1>0, <1>2, <2>1, <3>1, <3>2, <3>a
  <2>2. ASSUME NEW i \in 1..R, n = L + i
        PROVE  /\ events'[n].parent < n
               /\ events'[n].parent # 0 => events'[events'[n].parent].key = events'[n].key
    <3>1. events'[n] = rows[i] /\ n > 0 /\ n > L
      BY <1>0, <2>2
    <3>2. CASE rows[i].parent = 0
      BY <3>1, <3>2
    <3>3. CASE rows[i].parent # 0 /\ rows[i].parent = head[rows[i].key]
      <4>1. rows[i].key \in Keys /\ rows[i].parent \in 1..L
        BY <1>0, <1>1, <3>3
      <4>2. events[rows[i].parent].key = rows[i].key
        BY <1>2, <3>3, <4>1
      <4> QED
        BY <1>0, <3>1, <4>1, <4>2
    <3> QED
      BY <1>4, <3>2, <3>3
  <2> QED
    BY <1>5, <2>1, <2>2
<1>7. ASSUME NEW k \in Keys, head'[k] # 0 PROVE events'[head'[k]].key = k
  <2>1. CASE head'[k] = head[k]
    BY <1>0, <1>1, <1>2, <1>7, <2>1
  <2>2. CASE \E n \in 1..R : rows[n].key = k /\ head'[k] = L + n
    BY <1>0, <2>2
  <2> QED
    BY <1>0, <2>1, <2>2
<1>8. ASSUME NEW m \in 1..(L + R), events'[m].parent # 0
      PROVE  head'[events'[m].key] # events'[m].parent
  <2> DEFINE k == events'[m].key
             p == events'[m].parent
  <2>1. k \in Keys /\ p \in 1..L /\ (m \in 1..L => head[k] # p)
        /\ ((\E i \in 1..R : m = L + i) => \E n \in 1..R : rows[n].key = k)
    <3>1. CASE m \in 1..L
      <4>a. events'[m] = events[m] /\ m <= L /\ m \in Nat
        BY <1>0, <3>1
      <4>b. events[m].key \in Keys /\ events[m].parent \in Nat /\ events[m].parent < m
        BY <1>1, <1>p, <3>1
      <4>1. events'[m] = events[m] /\ events[m].key \in Keys /\ events[m].parent \in Nat
            /\ events[m].parent < m /\ m <= L /\ m \in Nat
        BY <4>a, <4>b
      <4>2. ~\E i \in 1..R : m = L + i
        BY <1>0, <4>1
      <4> QED
        BY <1>0, <1>3, <1>8, <3>1, <4>1, <4>2
    <3>2. ASSUME NEW i \in 1..R, m = L + i
          PROVE  /\ k \in Keys /\ p \in 1..L /\ ~(m \in 1..L)
                 /\ \E n \in 1..R : rows[n].key = k
      <4>1. events'[m] = rows[i] /\ rows[i].key \in Keys
        BY <1>0, <1>1, <3>2
      <4>2. rows[i].parent = head[rows[i].key]
        BY <1>4, <1>8, <4>1
      <4> QED
        BY <1>0, <1>1, <1>8, <3>2, <4>1, <4>2
    <3> QED
      BY <1>5, <3>1, <3>2
  <2> HIDE DEF k, p
  <2>2. CASE head'[k] = head[k] /\ \A n \in 1..R : rows[n].key # k
    BY <1>5, <2>1, <2>2 DEF k, p
  <2>3. CASE \E n \in 1..R : rows[n].key = k /\ head'[k] = L + n
    <3>1. head'[k] > L
      BY <1>0, <2>3
    <3> QED
      BY <1>0, <2>1, <3>1 DEF k, p
  <2> QED
    BY <1>0, <2>1, <2>2, <2>3
<1>9. ASSUME NEW m \in 1..(L + R), NEW n \in 1..(L + R), m # n, events'[m].parent # 0
      PROVE  events'[m].parent # events'[n].parent
  <2>1. CASE m \in 1..L /\ n \in 1..L
    BY <1>0, <1>3, <1>9, <2>1
  <2>2. ASSUME NEW i \in 1..R, NEW l \in 1..L, rows[i].parent # 0
        PROVE  rows[i].parent # events[l].parent
    <3>1. rows[i].parent = head[rows[i].key] /\ rows[i].key \in Keys /\ rows[i].parent \in 1..L
      BY <1>0, <1>1, <1>4, <2>2
    <3>2. events[rows[i].parent].key = rows[i].key
      BY <1>2, <2>2, <3>1
    <3>3. CASE events[l].parent = rows[i].parent
      <4>0. events[l].parent # 0
        BY <2>2, <3>3
      <4>1. events[l].key = rows[i].key
        BY <1>2, <3>2, <3>3, <4>0
      <4> QED
        BY <1>3, <2>2, <3>1, <3>3, <4>1
    <3> QED
      BY <3>3
  <2>3. ASSUME NEW i \in 1..R, m = L + i, n \in 1..L PROVE events'[m].parent # events'[n].parent
    <3>1. events'[m] = rows[i] /\ events'[n] = events[n]
      BY <1>0, <2>3
    <3> QED
      BY <1>9, <2>2, <2>3, <3>1
  <2>4. ASSUME NEW i \in 1..R, n = L + i, m \in 1..L PROVE events'[m].parent # events'[n].parent
    <3>1. events'[n] = rows[i] /\ events'[m] = events[m]
      BY <1>0, <2>4
    <3>2. CASE rows[i].parent = 0
      BY <1>9, <3>1, <3>2
    <3>3. CASE rows[i].parent # 0
      BY <2>2, <2>4, <3>1, <3>3
    <3> QED
      BY <3>2, <3>3
  <2>5. ASSUME NEW i \in 1..R, NEW j \in 1..R, m = L + i, n = L + j
        PROVE  events'[m].parent # events'[n].parent
    <3>1. i # j
      BY <1>9, <2>5
    <3>2. R # 1
      BY <1>0, <3>1
    <3>3. events'[m] = rows[i] /\ events'[n] = rows[j]
      BY <1>0, <2>5
    <3> QED
      BY <1>4, <1>9, <3>2, <3>3
  <2> QED
    BY <1>5, <2>1, <2>3, <2>4, <2>5
<1> QED
  BY <1>0, <1>6, <1>7, <1>8, <1>9 DEF Log, HistoryIsLinear

-----------------------------------------------------------------------------
(* The callers *)

\* The events table only grows.
Grows ==
    /\ Len(events) <= Len(events') /\ DOMAIN events \subseteq DOMAIN events'
    /\ \A n \in DOMAIN events : events'[n] = events[n]

LEMMA InsertGrows ==
    ASSUME TypeOK, NEW rows \in Seq(Row), Insert(rows)
    PROVE  Grows
<1>1. /\ Len(events) \in Nat /\ Len(rows) \in Nat /\ Len(events') = Len(events) + Len(rows)
      /\ \A n \in DOMAIN events : n \in DOMAIN events' /\ events'[n] = events[n]
  BY InsertFacts
<1> QED
  BY <1>1 DEF Grows

LEMMA UnchangedGrows ==
    ASSUME TypeOK, events' = events
    PROVE  Grows
  BY LenProperties DEF Grows, TypeOK

\* A growing table keeps every version.
LEMMA VersionKept ==
    ASSUME TypeOK, Grows, NEW n \in 0..Len(events)
    PROVE  n \in 0..Len(events') /\ VersionAt(n)' = VersionAt(n)
<1>1. Len(events) \in Nat /\ DOMAIN events = 1..Len(events)
  BY LenProperties DEF TypeOK
<1>2. n # 0 => n \in DOMAIN events
  BY <1>1
<1>3. n # 0 => events'[n] = events[n]
  BY <1>2 DEF Grows
<1>4. n \in 0..Len(events')
  BY <1>1, <1>2 DEF Grows
<1> QED
  BY <1>3, <1>4 DEF VersionAt

\* What a caller that does not move holds stays true.
LEMMA CallerKept ==
    ASSUME TypeOK, Grows, NEW v \in Workers, Caller(v),
           pc'[v] = pc[v], planned'[v] = planned[v], single'[v] = single[v], job'[v] = job[v]
    PROVE  Caller(v)'
<1>1. ASSUME pc[v] = "persist" PROVE Judged(Head(single[v]), job[v])'
  <2>1. Judged(Head(single[v]), job[v])
    BY <1>1 DEF Caller
  <2>2. job[v].expect \in 0..Len(events)
    BY <2>1 DEF Judged
  <2>3. VersionAt(job[v].expect)' = VersionAt(job[v].expect) /\ job[v].expect \in 0..Len(events')
    BY <2>2, VersionKept
  <2> QED
    BY <2>1, <2>3 DEF Judged
<1>2. ASSUME pc[v] \in {"mark", "remember"}
      PROVE  Written(Head(single[v]), job[v])' /\ events'[job[v].id] = events[job[v].id]
  <2>1. Written(Head(single[v]), job[v])
    BY <1>2 DEF Caller
  <2> QED
    BY <2>1 DEF Written, Grows
<1> QED
  BY <1>1, <1>2 DEF Caller

\* So only the caller that moves is looked at.
Apart(w) ==
    \A v \in Workers : v # w =>
        pc'[v] = pc[v] /\ planned'[v] = planned[v] /\ single'[v] = single[v] /\ job'[v] = job[v]

LEMMA CallersKept ==
    ASSUME TypeOK, Callers, Grows, NEW w \in Workers, Apart(w), Caller(w)'
    PROVE  Callers'
<1>1. ASSUME NEW v \in Workers, v # w PROVE Caller(v)'
  BY <1>1, CallerKept DEF Apart, Callers
<1> QED
  BY <1>1 DEF Callers

\* A head stays arranged or about to be, when only one caller moves.
LEMMA ArrangedKept ==
    ASSUME TypeOK, HeadIsArranged, NEW w \in Workers, Apart(w),
           arranged \subseteq arranged', crashes' = crashes,
           \A k \in Keys :
             \/ head'[k] = head[k] \/ head'[k] \in arranged'
             \/ pc'[w] \in {"mark", "remember"} /\ job'[w].id = head'[k],
           pc[w] \in {"mark", "remember"} =>
             \/ job[w].id \in arranged'
             \/ pc'[w] \in {"mark", "remember"} /\ job'[w].id = job[w].id
             \/ \A k \in Keys : job[w].id # head'[k]
    PROVE  HeadIsArranged'
<1>1. SUFFICES ASSUME NEW k \in Keys
               PROVE  \/ head'[k] = 0 \/ head'[k] \in arranged'
                      \/ \E v \in Workers : pc'[v] \in {"mark", "remember"} /\ job'[v].id = head'[k]
                      \/ crashes' > 0
  BY DEF HeadIsArranged
<1>2. CASE head'[k] # head[k]
  BY <1>2
<1>3. ASSUME head'[k] = head[k], NEW v \in Workers, pc[v] \in {"mark", "remember"}, job[v].id = head[k]
      PROVE  \/ head'[k] \in arranged'
             \/ \E u \in Workers : pc'[u] \in {"mark", "remember"} /\ job'[u].id = head'[k]
  <2>1. CASE v = w
    BY <1>3, <2>1
  <2>2. CASE v # w
    BY <1>3, <2>2 DEF Apart
  <2> QED
    BY <2>1, <2>2
<1> QED
  BY <1>2, <1>3 DEF HeadIsArranged

LEMMA LogUnchanged ==
    ASSUME Log, events' = events, head' = head
    PROVE  Log'
  BY DEF Log, HistoryIsLinear

-----------------------------------------------------------------------------
(* The steps *)

LEMMA BeginInv ==
    ASSUME IInv, NEW w \in Workers, Begin(w)
    PROVE  IInv'
<1>1. TypeOK /\ Log /\ Callers /\ HeadIsArranged /\ Grows /\ Apart(w)
  BY UnchangedGrows DEF IInv, Begin, Goto, Apart, TypeOK
<1>2. TypeOK'
  <2>1. todo' \in [Workers -> Seq(Record)]
    BY <1>1, BatchesAssumption DEF Begin, TypeOK
  <2>2. batches' \in 0..MaxBatches
    BY <1>1, BoundsAssumption DEF Begin, TypeOK
  <2> QED
    BY <1>1, <2>1, <2>2 DEF Begin, Goto, TypeOK
<1>3. Log'
  BY <1>1, LogUnchanged DEF Begin
<1>4. Caller(w)'
  BY <1>1 DEF Begin, Goto, Caller, TypeOK
<1>5. HeadIsArranged'
  BY <1>1, ArrangedKept DEF Begin, Goto, TypeOK
<1> QED
  BY <1>1, <1>2, <1>3, <1>4, <1>5, CallersKept DEF IInv

\* A replay is of a record that has a head.
LEMMA ReplayedType ==
    ASSUME TypeOK, NEW r, r.key \in Keys, Replays(r, Stored(r.key))
    PROVE  arranged \cup {head[r.key]} \subseteq 1..Len(events)
<1>1. head[r.key] # 0 /\ head[r.key] \in 0..Len(events) /\ Len(events) \in Nat
  BY StoredIsHead, LenProperties DEF Replays, TypeOK
<1>2. head[r.key] \in 1..Len(events)
  BY <1>1
<1> QED
  BY <1>2 DEF TypeOK

LEMMA InspectNextInv ==
    ASSUME IInv, NEW w \in Workers, InspectNext(w)
    PROVE  IInv'
<1> DEFINE r == Head(todo[w])
           p == [key |-> r.key, content |-> r.content]
<1>1. TypeOK /\ Log /\ Callers /\ HeadIsArranged /\ Grows /\ Apart(w) /\ pc[w] = "read"
      /\ events' = events /\ head' = head /\ job' = job /\ crashes' = crashes
      /\ arranged \subseteq arranged'
  BY UnchangedGrows DEF IInv, InspectNext, Goto, Apart, TypeOK, Replayed
<1>2. r \in Record /\ Tail(todo[w]) \in Seq(Record)
  BY <1>1, SeqFacts DEF InspectNext, TypeOK
<1>3. r.key \in Keys /\ (r.op # "tombstone" => r.content \in Contents)
  BY <1>2, RecordFacts
<1>4. arranged' \subseteq 1..Len(events')
  <2>1. CASE arranged' = arranged
    BY <1>1, <2>1 DEF TypeOK
  <2>2. CASE arranged' # arranged
    <3>1. Pending(w, r.key) = {} /\ Replays(r, Stored(r.key)) /\ arranged' = arranged \cup {head[r.key]}
      BY <2>2 DEF InspectNext, Replayed
    <3> QED
      BY <1>1, <1>3, <3>1, ReplayedType
  <2> QED
    BY <2>1, <2>2
<1>5. /\ planned' \in [Workers -> Seq(Planned)] /\ overlay' \in [Workers -> SUBSET Planned]
      /\ planned'[w] = planned[w] \/ (pc' = pc /\ single' = single)
  <2>1. CASE planned' = planned /\ overlay' = overlay
    BY <1>1, <2>1 DEF TypeOK
  <2>2. CASE ~(planned' = planned /\ overlay' = overlay)
    <3>1. /\ r.op # "tombstone" /\ pc' = pc /\ single' = single
          /\ planned' = [planned EXCEPT ![w] = Append(@, p)]
          /\ overlay' = [overlay EXCEPT ![w] = @ \cup {p}]
      BY <2>2 DEF InspectNext, Kind
    <3>2. p \in Planned
      BY <1>3, <3>1 DEF Planned
    <3> HIDE DEF p
    <3>3. Append(planned[w], p) \in Seq(Planned)
      BY <1>1, <3>2, AppendProperties DEF TypeOK
    <3> QED
      BY <1>1, <3>1, <3>2, <3>3 DEF TypeOK
  <2> QED
    BY <2>1, <2>2
<1>6. /\ single' \in [Workers -> Seq(Record)]
      /\ \/ pc' = pc /\ single' = single
         \/ /\ pc' \in [Workers -> {"idle", "read", "flush", "inspect", "persist", "mark", "remember"}]
            /\ single'[w] # <<>> /\ planned'[w] = planned[w]
            /\ pc'[w] = (IF planned[w] = <<>> THEN "inspect" ELSE "flush")
  <2>1. CASE pc' = pc /\ single' = single
    BY <1>1, <2>1 DEF TypeOK
  <2>2. CASE ~(pc' = pc /\ single' = single)
    <3>1. /\ single' = [single EXCEPT ![w] = <<r>>] /\ planned' = planned
          /\ pc' = [pc EXCEPT ![w] = IF planned[w] = <<>> THEN "inspect" ELSE "flush"]
      BY <2>2 DEF InspectNext, Goto
    <3> HIDE DEF r
    <3>2. <<r>> \in Seq(Record) /\ <<r>> # <<>>
      BY <1>2
    <3> QED
      BY <1>1, <3>1, <3>2 DEF TypeOK
  <2> QED
    BY <2>1, <2>2
<1>7. TypeOK'
  <2>1. todo' \in [Workers -> Seq(Record)]
    BY <1>1, <1>2 DEF InspectNext, TypeOK
  <2>2. pc' \in [Workers -> {"idle", "read", "flush", "inspect", "persist", "mark", "remember"}]
    BY <1>1, <1>6 DEF TypeOK
  <2> QED
    BY <1>1, <1>4, <1>5, <1>6, <2>1, <2>2 DEF InspectNext, TypeOK
<1>8. Caller(w)'
  BY <1>1, <1>6 DEF Caller
<1>9. HeadIsArranged'
  BY <1>1, ArrangedKept
<1> QED
  BY <1>1, <1>7, <1>8, <1>9, LogUnchanged, CallersKept DEF IInv

LEMMA BatchReadInv ==
    ASSUME IInv, NEW w \in Workers, BatchRead(w)
    PROVE  IInv'
<1>1. TypeOK /\ Log /\ Callers /\ HeadIsArranged /\ Grows /\ Apart(w)
  BY UnchangedGrows DEF IInv, BatchRead, Goto, Apart, TypeOK
<1>2. TypeOK'
  BY <1>1 DEF BatchRead, Goto, TypeOK
<1>3. Caller(w)'
  BY <1>1 DEF BatchRead, Goto, Caller, TypeOK
<1>4. HeadIsArranged'
  BY <1>1, ArrangedKept DEF BatchRead, Goto, TypeOK
<1> QED
  BY <1>1, <1>2, <1>3, <1>4, LogUnchanged, CallersKept DEF IInv, BatchRead

\* The rows of planned creates.
CreateRows(w) ==
    [n \in DOMAIN planned[w] |->
        NewRow(planned[w][n].key, "create", planned[w][n].content, "none", 0)]

LEMMA CreateRowsType ==
    ASSUME TypeOK, NEW w \in Workers
    PROVE  CreateRows(w) \in Seq(Row) /\ Follows(CreateRows(w))
<1>1. planned[w] \in Seq(Planned) /\ Len(planned[w]) \in Nat /\ DOMAIN planned[w] = 1..Len(planned[w])
  BY LenProperties DEF TypeOK
<1>2. ASSUME NEW n \in 1..Len(planned[w])
      PROVE  /\ NewRow(planned[w][n].key, "create", planned[w][n].content, "none", 0) \in Row
             /\ CreateRows(w)[n].parent = 0
  <2>1. planned[w][n] \in Planned
    BY <1>1, ElementOfSeq
  <2> QED
    BY <1>1, <2>1 DEF Planned, NewRow, Row, CreateRows
<1>3. CreateRows(w) \in [1..Len(planned[w]) -> Row]
  BY <1>1, <1>2 DEF CreateRows
<1>4. CreateRows(w) \in Seq(Row)
  BY <1>1, <1>3, IsASeq
<1>5. DOMAIN CreateRows(w) = 1..Len(planned[w])
  BY <1>3
<1> QED
  BY <1>2, <1>4, <1>5 DEF Follows

LEMMA CommitCreatesInv ==
    ASSUME IInv, NEW w \in Workers, CommitCreates(w)
    PROVE  IInv'
<1>1. TypeOK /\ Log /\ Callers /\ HeadIsArranged /\ Apart(w) /\ pc[w] = "flush"
      /\ job' = job /\ crashes' = crashes
  BY DEF IInv, CommitCreates, Goto, Apart, TypeOK
<1>2. planned[w] # <<>> /\ planned[w] \in Seq(Planned)
  BY <1>1 DEF Callers, Caller, TypeOK
<1>3. planned' \in [Workers -> Seq(Planned)]
  BY <1>1 DEF CommitCreates, TypeOK
<1>4. CASE \A n \in DOMAIN planned[w] : HeadIs(planned[w][n].key, 0)
  <2>1. /\ Insert(CreateRows(w)) /\ single' = single
        /\ arranged' = arranged \cup {Len(events) + n : n \in DOMAIN planned[w]}
        /\ pc' = [pc EXCEPT ![w] = IF single[w] = <<>> THEN "read" ELSE "inspect"]
    BY <1>4 DEF CommitCreates, CreateRows, Goto
  <2>2. CreateRows(w) \in Seq(Row) /\ Follows(CreateRows(w)) /\ DOMAIN CreateRows(w) = DOMAIN planned[w]
    BY <1>1, CreateRowsType DEF CreateRows
  <2>3. Log' /\ Grows
    BY <1>1, <2>1, <2>2, LogInsert, InsertGrows
  <2>4. /\ events' \in Seq(Row) /\ head' \in [Keys -> 0..Len(events')]
        /\ Len(events) \in Nat /\ Len(CreateRows(w)) \in Nat
        /\ Len(events') = Len(events) + Len(CreateRows(w))
        /\ DOMAIN CreateRows(w) = 1..Len(CreateRows(w))
    BY <1>1, <2>1, <2>2, InsertFacts
  <2>5. arranged' \subseteq 1..Len(events')
    <3>1. \A n \in 1..Len(CreateRows(w)) : Len(events) + n \in 1..Len(events')
      BY <2>4
    <3>2. \A n \in 1..Len(events) : n \in 1..Len(events')
      BY <2>4
    <3> QED
      BY <1>1, <2>1, <2>2, <2>4, <3>1, <3>2 DEF TypeOK
  <2>6. TypeOK'
    BY <1>1, <1>3, <2>1, <2>4, <2>5 DEF CommitCreates, TypeOK
  <2>7. Caller(w)'
    BY <1>1, <2>1 DEF Caller, TypeOK
  <2>8. HeadIsArranged'
    <3>1. \A k \in Keys : head'[k] = head[k] \/ head'[k] \in arranged'
      <4>1. \A k \in Keys :
              head'[k] = head[k] \/ \E n \in DOMAIN CreateRows(w) : head'[k] = Len(events) + n
        BY <1>1, <2>1, <2>2, InsertFacts
      <4> QED
        BY <2>1, <2>2, <4>1
    <3> QED
      BY <1>1, <2>1, <3>1, ArrangedKept
  <2> QED
    BY <1>1, <2>3, <2>6, <2>7, <2>8, CallersKept DEF IInv
<1>5. CASE ~\A n \in DOMAIN planned[w] : HeadIs(planned[w][n].key, 0)
  <2> DEFINE again == [n \in DOMAIN planned[w] |-> AsRecord(planned[w][n])]
  <2>1. /\ single' = [single EXCEPT ![w] = again \o @]
        /\ pc' = [pc EXCEPT ![w] = "inspect"]
        /\ events' = events /\ head' = head /\ arranged' = arranged
    BY <1>5 DEF CommitCreates, Goto
  <2>2. again \in Seq(Record) /\ again # <<>>
    <3>1. Len(planned[w]) \in Nat /\ DOMAIN planned[w] = 1..Len(planned[w])
      BY <1>2, LenProperties
    <3>2. ASSUME NEW n \in 1..Len(planned[w]) PROVE AsRecord(planned[w][n]) \in Record
      <4>1. planned[w][n] \in Planned
        BY <1>2, ElementOfSeq
      <4> QED
        BY <4>1 DEF Planned, AsRecord, Record
    <3>3. again \in [1..Len(planned[w]) -> Record]
      BY <3>1, <3>2
    <3>4. Len(planned[w]) # 0
      BY <1>2, EmptySeq
    <3>5. DOMAIN again = 1..Len(planned[w]) /\ again \in Seq(Record)
      BY <3>1, <3>3, IsASeq
    <3> HIDE DEF again
    <3> QED
      BY <3>1, <3>4, <3>5
  <2> HIDE DEF again
  <2>3. again \o single[w] \in Seq(Record) /\ again \o single[w] # <<>>
    <3>1. single[w] \in Seq(Record)
      BY <1>1 DEF TypeOK
    <3>2. again \o single[w] \in Seq(Record) /\ Len(again \o single[w]) = Len(again) + Len(single[w])
      BY <2>2, <3>1, ConcatProperties
    <3>3. Len(again) \in Nat /\ Len(again) # 0 /\ Len(single[w]) \in Nat
      BY <2>2, <3>1, EmptySeq, LenProperties
    <3> QED
      BY <3>2, <3>3, EmptySeq
  <2>4. single' \in [Workers -> Seq(Record)] /\ single'[w] # <<>>
    BY <1>1, <2>1, <2>3 DEF TypeOK
  <2>5. TypeOK'
    BY <1>1, <1>3, <2>1, <2>4 DEF CommitCreates, TypeOK
  <2>6. Caller(w)'
    BY <1>1, <2>1, <2>4 DEF Caller, TypeOK
  <2>7. HeadIsArranged'
    BY <1>1, <2>1, ArrangedKept
  <2> QED
    BY <1>1, <2>1, <2>5, <2>6, <2>7, LogUnchanged, UnchangedGrows, CallersKept DEF IInv
<1> QED
  BY <1>4, <1>5

\* The end of a single record.
LEMMA SingleDoneFacts ==
    ASSUME TypeOK, NEW w \in Workers, single[w] # <<>>, SingleDone(w)
    PROVE  /\ single' \in [Workers -> Seq(Record)]
           /\ job' \in [Workers -> Job \cup {NoJob}]
           /\ pc' \in [Workers -> {"idle", "read", "flush", "inspect", "persist", "mark", "remember"}]
           /\ pc'[w] \in {"read", "inspect"}
           /\ pc'[w] = "inspect" => single'[w] # <<>>
           /\ \A v \in Workers : v # w => pc'[v] = pc[v] /\ single'[v] = single[v] /\ job'[v] = job[v]
<1>1. Tail(single[w]) \in Seq(Record) /\ (Len(single[w]) # 1 => Tail(single[w]) # <<>>)
  BY SeqFacts DEF TypeOK
<1> QED
  BY <1>1 DEF SingleDone, Goto, TypeOK

LEMMA InspectSingleInv ==
    ASSUME IInv, NEW w \in Workers, InspectSingle(w)
    PROVE  IInv'
<1> DEFINE r == Head(single[w])
           cur == Stored(r.key)
<1>1. TypeOK /\ Log /\ Callers /\ HeadIsArranged /\ Grows /\ pc[w] = "inspect"
      /\ events' = events /\ head' = head /\ crashes' = crashes /\ planned' = planned
      /\ arranged \subseteq arranged'
  BY UnchangedGrows DEF IInv, InspectSingle, Replayed
<1>2. single[w] # <<>> /\ r \in Record
  BY <1>1, SeqFacts DEF Callers, Caller, TypeOK
<1>3. r.key \in Keys /\ r.op \in {"create", "revise", "tombstone"}
  BY <1>2, RecordFacts
<1>4. arranged' \subseteq 1..Len(events')
  <2>1. CASE arranged' = arranged
    BY <1>1, <2>1 DEF TypeOK
  <2>2. CASE arranged' # arranged
    <3>1. Replays(r, Stored(r.key)) /\ arranged' = arranged \cup {head[r.key]}
      BY <2>2 DEF InspectSingle, Replayed
    <3> QED
      BY <1>1, <1>3, <3>1, ReplayedType
  <2> QED
    BY <2>1, <2>2
<1>5. CASE SingleDone(w)
  <2>1. Apart(w) /\ Caller(w)'
    BY <1>1, <1>2, <1>5, SingleDoneFacts DEF Apart, Caller
  <2>2. TypeOK'
    BY <1>1, <1>2, <1>4, <1>5, SingleDoneFacts DEF InspectSingle, TypeOK
  <2>3. HeadIsArranged'
    BY <1>1, <2>1, ArrangedKept
  <2> QED
    BY <1>1, <2>1, <2>2, <2>3, LogUnchanged, CallersKept DEF IInv
<1>6. CASE ~SingleDone(w)
  <2> DEFINE j == [kind |-> Kind(r, cur), expect |-> head[r.key],
                   content |-> IF r.op = "tombstone" THEN NoContent ELSE Merged(r.content, cur),
                   revision |-> IF r.op = "tombstone" THEN "none" ELSE Revision(r, cur),
                   id |-> 0]
  <2>1. /\ ~Replays(r, cur) /\ ~Conflicts(r, cur) /\ job' = [job EXCEPT ![w] = j]
        /\ pc' = [pc EXCEPT ![w] = "persist"] /\ arranged' = arranged /\ single' = single
    BY <1>6 DEF InspectSingle, Goto
  <2>2. cur = VersionAt(head[r.key]) /\ head[r.key] \in 0..Len(events)
        /\ cur \in Source!Version \cup {None} /\ head[r.key] \in Nat
    BY <1>1, <1>3, StoredIsHead
  <2>3. j \in Job
    BY <1>2, <2>2, DecisionType
  <2>4. Judged(r, j)
    BY <2>1, <2>2, <2>3 DEF Judged
  <2> HIDE DEF j
  <2>5. TypeOK'
    BY <1>1, <2>1, <2>3 DEF InspectSingle, TypeOK
  <2>6. pc'[w] = "persist" /\ job'[w] = j /\ single'[w] = single[w] /\ Apart(w)
    BY <1>1, <2>1 DEF TypeOK, Apart
  <2>7. Judged(Head(single[w]), job[w])'
    BY <1>1, <2>4, <2>6 DEF Judged, VersionAt
  <2>8. Caller(w)'
    BY <1>2, <2>6, <2>7 DEF Caller
  <2>9. HeadIsArranged'
    BY <1>1, <2>6, ArrangedKept
  <2> QED
    BY <1>1, <2>5, <2>6, <2>8, <2>9, LogUnchanged, CallersKept DEF IInv
<1> QED
  BY <1>5, <1>6

\* A transaction of one row.
LEMMA OneRow ==
    ASSUME TypeOK, NEW row \in Row, Insert(<<row>>)
    PROVE  /\ events' \in Seq(Row) /\ head' \in [Keys -> 0..Len(events')]
           /\ Len(events) \in Nat /\ Len(events') = Len(events) + 1
           /\ Len(events) + 1 \in DOMAIN events' /\ events'[Len(events) + 1] = row
           /\ head'[row.key] = Len(events) + 1
           /\ \A k \in Keys : k # row.key => head'[k] = head[k]
<1>1. <<row>> \in Seq(Row) /\ Len(<<row>>) = 1 /\ <<row>>[1] = row /\ row.key \in Keys
      /\ DOMAIN <<row>> = {1}
  BY DEF Row
<1>2. /\ events' \in Seq(Row) /\ head' \in [Keys -> 0..Len(events')]
      /\ Len(events) \in Nat /\ Len(events') = Len(events) + 1
      /\ DOMAIN events' = 1..Len(events')
  BY <1>1, InsertFacts
<1>3. events'[Len(events) + 1] = row
  <2>1. \A n \in DOMAIN <<row>> : events'[Len(events) + n] = <<row>>[n]
    BY <1>1, InsertFacts
  <2> QED
    BY <1>1, <2>1
<1>4. \A k \in Keys :
        \/ head'[k] = head[k] /\ row.key # k
        \/ row.key = k /\ head'[k] = Len(events) + 1
  <2>1. \A k \in Keys :
          \/ head'[k] = head[k] /\ \A n \in DOMAIN <<row>> : <<row>>[n].key # k
          \/ \E n \in DOMAIN <<row>> : <<row>>[n].key = k /\ head'[k] = Len(events) + n
    BY <1>1, InsertFacts
  <2> QED
    BY <1>1, <2>1
<1>5. Len(events) + 1 \in DOMAIN events'
  BY <1>2
<1> QED
  BY <1>1, <1>2, <1>3, <1>4, <1>5

LEMMA OneFollows ==
    ASSUME NEW row \in Row, row.parent = 0 \/ row.parent = head[row.key]
    PROVE  <<row>> \in Seq(Row) /\ Follows(<<row>>)
<1>1. <<row>> \in Seq(Row) /\ Len(<<row>>) = 1 /\ <<row>>[1] = row /\ DOMAIN <<row>> = {1}
  OBVIOUS
<1> QED
  BY <1>1 DEF Follows

\* The row of a tombstone copies the content of the current version and
\* follows it.
LEMMA TombstoneFacts ==
    ASSUME TypeOK, NEW k \in Keys
    PROVE  /\ Tombstone(k) \in Row
           /\ Tombstone(k).key = k /\ Tombstone(k).parent = head[k]
           /\ Tombstone(k).op = "tombstone" /\ Tombstone(k).revision = "none"
           /\ Tombstone(k).content = IF head[k] = 0 THEN NoContent ELSE events[head[k]].content
<1>1. head[k] \in Nat /\ head[k] \in 0..Len(events) /\ Len(events) \in Nat
  BY LenProperties DEF TypeOK
<1>2. head[k] # 0 => events[head[k]].content \in Contents \cup {NoContent}
  <2>1. head[k] # 0 => head[k] \in 1..Len(events)
    BY <1>1
  <2>2. head[k] # 0 => events[head[k]] \in Row
    BY <2>1, ElementOfSeq DEF TypeOK
  <2> QED
    BY <2>2 DEF Row
<1> QED
  BY <1>1, <1>2 DEF Tombstone, NewRow, Row

\* So does the row of a job whose expected head is the current one.
LEMMA RowForFacts ==
    ASSUME TypeOK, NEW k \in Keys, NEW j \in Job, HeadIs(k, j.expect)
    PROVE  /\ RowFor(k, j) \in Row /\ RowFor(k, j).key = k
           /\ RowFor(k, j).parent = 0 \/ RowFor(k, j).parent = head[k]
           /\ j.kind \in {"create", "return"} =>
                RowFor(k, j) = NewRow(k, "create", j.content, "none", 0)
           /\ j.kind = "revise" =>
                RowFor(k, j) = NewRow(k, "revise", j.content, j.revision, head[k])
           /\ j.kind = "tombstone" => RowFor(k, j) = Tombstone(k)
<1>1. CASE j.kind = "tombstone"
  BY <1>1, TombstoneFacts DEF RowFor
<1>2. CASE j.kind = "revise"
  BY <1>2 DEF RowFor, HeadIs, NewRow, Row, Job
<1>3. CASE j.kind \in {"create", "return"}
  BY <1>3 DEF RowFor, NewRow, Row, Job
<1> QED
  BY <1>1, <1>2, <1>3 DEF Job

\* A failed compare-and-set ends the record; the Event it may have written is
\* not a head.
LEMMA GivenUpInv ==
    ASSUME IInv, NEW w \in Workers, pc[w] \in {"persist", "mark"}, SingleDone(w),
           pc[w] = "mark" => ~HeadIs(Head(single[w]).key, job[w].id),
           UNCHANGED <<events, head, arranged, todo, planned, overlay, batches, crashes>>
    PROVE  IInv'
<1>1. TypeOK /\ Log /\ Callers /\ HeadIsArranged /\ Grows /\ single[w] # <<>>
  BY UnchangedGrows DEF IInv, Callers, Caller
<1>2. Apart(w) /\ Caller(w)' /\ pc'[w] \in {"read", "inspect"}
  BY <1>1, SingleDoneFacts DEF Apart, Caller
<1>3. TypeOK'
  BY <1>1, SingleDoneFacts DEF TypeOK
<1>4. ASSUME pc[w] = "mark", NEW k \in Keys PROVE job[w].id # head'[k]
  <2>1. /\ job[w].id \in DOMAIN events /\ events[job[w].id].key = Head(single[w]).key
        /\ DOMAIN events = 1..Len(events)
    BY <1>1, <1>4, LenProperties DEF Callers, Caller, Written, TypeOK
  <2>2. job[w].id # 0
    BY <2>1
  <2> QED
    BY <1>1, <1>4, <2>1, <2>2 DEF Log, HeadIs
<1>5. HeadIsArranged'
  BY <1>1, <1>2, <1>4, ArrangedKept
<1> QED
  BY <1>1, <1>2, <1>3, <1>5, LogUnchanged, CallersKept DEF IInv

\* The job of a caller takes the id of the Event it wrote.
LEMMA JobWritten ==
    ASSUME TypeOK, NEW w \in Workers, job[w] \in Job, NEW n \in Nat,
           job' = [job EXCEPT ![w].id = n]
    PROVE  /\ job'[w] \in Job /\ job'[w].id = n
           /\ job' \in [Workers -> Job \cup {NoJob}]
           /\ \A v \in Workers : v # w => job'[v] = job[v]
<1>1. [job[w] EXCEPT !.id = n] \in Job /\ [job[w] EXCEPT !.id = n].id = n
  BY DEF Job
<1>2. job' = [job EXCEPT ![w] = [job[w] EXCEPT !.id = n]] /\ job \in [Workers -> Job \cup {NoJob}]
  BY DEF TypeOK
<1> QED
  BY <1>1, <1>2

LEMMA PersistInv ==
    ASSUME IInv, NEW w \in Workers, Persist(w)
    PROVE  IInv'
<1> DEFINE k == Head(single[w]).key
           j == job[w]
           row == RowFor(k, j)
<1>1. TypeOK /\ Log /\ Callers /\ HeadIsArranged /\ pc[w] = "persist"
  BY DEF IInv, Persist
<1>2. CASE ~HeadIs(k, j.expect)
  BY <1>1, <1>2, GivenUpInv DEF Persist
<1>3. CASE HeadIs(k, j.expect)
  <2>1. /\ Insert(<<row>>) /\ job' = [job EXCEPT ![w].id = Len(events) + 1]
        /\ pc' = [pc EXCEPT ![w] = IF j.kind = "return" THEN "mark" ELSE "remember"]
        /\ UNCHANGED <<single, arranged, todo, planned, overlay, batches, crashes>>
    BY <1>3 DEF Persist, Goto
  <2>2. single[w] # <<>> /\ Head(single[w]) \in Record /\ j \in Job
    BY <1>1, SeqFacts DEF Callers, Caller, Judged, TypeOK
  <2>3. k \in Keys
    BY <2>2, RecordFacts
  <2>4. /\ row \in Row /\ row.key = k /\ (row.parent = 0 \/ row.parent = head[k])
        /\ j.kind = "return" => row.op = "create"
    BY <1>1, <1>3, <2>2, <2>3, RowForFacts DEF NewRow
  <2> HIDE DEF row, k
  <2>5. Log' /\ Grows
    BY <1>1, <2>1, <2>4, OneFollows, LogInsert, InsertGrows
  <2>6. /\ events' \in Seq(Row) /\ head' \in [Keys -> 0..Len(events')]
        /\ Len(events) \in Nat /\ Len(events') = Len(events) + 1
        /\ Len(events) + 1 \in DOMAIN events' /\ events'[Len(events) + 1] = row
        /\ head'[k] = Len(events) + 1
        /\ \A q \in Keys : q # k => head'[q] = head[q]
    BY <1>1, <2>1, <2>4, OneRow
  <2>7. /\ Apart(w) /\ single'[w] = single[w] /\ job'[w].id = Len(events) + 1
        /\ pc'[w] = (IF j.kind = "return" THEN "mark" ELSE "remember")
        /\ job'[w] \in Job /\ job' \in [Workers -> Job \cup {NoJob}]
    <3>1. Len(events) + 1 \in Nat
      BY <2>6
    <3>2. job'[w] \in Job /\ job'[w].id = Len(events) + 1 /\ job' \in [Workers -> Job \cup {NoJob}]
          /\ \A v \in Workers : v # w => job'[v] = job[v]
      BY <1>1, <2>1, <2>2, <3>1, JobWritten
    <3> QED
      BY <1>1, <2>1, <3>2 DEF TypeOK, Apart
  <2>8. TypeOK'
    <3>1. arranged' \subseteq 1..Len(events')
      BY <1>1, <2>1, <2>6 DEF TypeOK
    <3> QED
      BY <1>1, <2>1, <2>6, <2>7, <3>1 DEF TypeOK
  <2>9. Caller(w)'
    <3>1. Written(Head(single[w]), job[w])'
      BY <2>4, <2>6, <2>7 DEF Written, k
    <3> QED
      BY <2>2, <2>4, <2>6, <2>7, <3>1 DEF Caller
  <2>10. HeadIsArranged'
    <3>1. \A q \in Keys :
            \/ head'[q] = head[q]
            \/ pc'[w] \in {"mark", "remember"} /\ job'[w].id = head'[q]
      BY <2>6, <2>7
    <3> QED
      BY <1>1, <2>1, <2>7, <3>1, ArrangedKept
  <2> QED
    BY <1>1, <2>5, <2>7, <2>8, <2>9, <2>10, CallersKept DEF IInv
<1> QED
  BY <1>2, <1>3

LEMMA MarkTombstoneInv ==
    ASSUME IInv, NEW w \in Workers, MarkTombstone(w)
    PROVE  IInv'
<1> DEFINE k == Head(single[w]).key
           row == Tombstone(k)
<1>1. TypeOK /\ Log /\ Callers /\ HeadIsArranged /\ pc[w] = "mark"
  BY DEF IInv, MarkTombstone
<1>2. CASE ~HeadIs(k, job[w].id)
  BY <1>1, <1>2, GivenUpInv DEF MarkTombstone
<1>3. CASE HeadIs(k, job[w].id)
  <2>1. /\ Insert(<<row>>) /\ job' = [job EXCEPT ![w].id = Len(events) + 1]
        /\ pc' = [pc EXCEPT ![w] = "remember"]
        /\ UNCHANGED <<single, arranged, todo, planned, overlay, batches, crashes>>
    BY <1>3 DEF MarkTombstone, Goto
  <2>2. /\ single[w] # <<>> /\ Head(single[w]) \in Record /\ job[w] \in Job
        /\ job[w].id \in DOMAIN events /\ events[job[w].id].key = k
    BY <1>1, SeqFacts DEF Callers, Caller, Written, TypeOK
  <2>3. k \in Keys
    BY <2>2, RecordFacts
  <2>4. row \in Row /\ row.key = k /\ row.parent = head[k]
    BY <1>1, <2>3, TombstoneFacts
  <2> HIDE DEF row, k
  <2>5. Log' /\ Grows
    BY <1>1, <2>1, <2>4, OneFollows, LogInsert, InsertGrows
  <2>6. /\ events' \in Seq(Row) /\ head' \in [Keys -> 0..Len(events')]
        /\ Len(events) \in Nat /\ Len(events') = Len(events) + 1
        /\ Len(events) + 1 \in DOMAIN events' /\ events'[Len(events) + 1] = row
        /\ head'[k] = Len(events) + 1
        /\ \A q \in Keys : q # k => head'[q] = head[q]
    BY <1>1, <2>1, <2>4, OneRow
  <2>7. /\ Apart(w) /\ single'[w] = single[w] /\ job'[w].id = Len(events) + 1
        /\ pc'[w] = "remember"
        /\ job'[w] \in Job /\ job' \in [Workers -> Job \cup {NoJob}]
    <3>1. Len(events) + 1 \in Nat
      BY <2>6
    <3>2. job'[w] \in Job /\ job'[w].id = Len(events) + 1 /\ job' \in [Workers -> Job \cup {NoJob}]
          /\ \A v \in Workers : v # w => job'[v] = job[v]
      BY <1>1, <2>1, <2>2, <3>1, JobWritten
    <3> QED
      BY <1>1, <2>1, <3>2 DEF TypeOK, Apart
  <2>8. TypeOK'
    <3>1. arranged' \subseteq 1..Len(events')
      BY <1>1, <2>1, <2>6 DEF TypeOK
    <3> QED
      BY <1>1, <2>1, <2>6, <2>7, <3>1 DEF TypeOK
  <2>9. Caller(w)'
    <3>1. Written(Head(single[w]), job[w])'
      BY <2>4, <2>6, <2>7 DEF Written, k
    <3> QED
      BY <2>2, <2>7, <3>1 DEF Caller
  <2>10. HeadIsArranged'
    <3>1. \A q \in Keys :
            \/ head'[q] = head[q]
            \/ pc'[w] \in {"mark", "remember"} /\ job'[w].id = head'[q]
      BY <2>6, <2>7
    <3>2. DOMAIN events = 1..Len(events)
      BY <1>1, LenProperties DEF TypeOK
    <3>3. ASSUME NEW q \in Keys PROVE job[w].id # head'[q]
      <4>1. CASE q = k
        BY <2>2, <2>6, <3>2, <4>1
      <4>2. CASE q # k
        <5>1. job[w].id # 0 /\ head'[q] = head[q]
          BY <2>2, <2>6, <3>2, <4>2
        <5> QED
          BY <1>1, <2>2, <4>2, <5>1 DEF Log
      <4> QED
        BY <4>1, <4>2
    <3> QED
      BY <1>1, <2>1, <2>7, <3>1, <3>3, ArrangedKept
  <2> QED
    BY <1>1, <2>5, <2>7, <2>8, <2>9, <2>10, CallersKept DEF IInv
<1> QED
  BY <1>2, <1>3

LEMMA RememberInv ==
    ASSUME IInv, NEW w \in Workers, Remember(w)
    PROVE  IInv'
<1>1. TypeOK /\ Log /\ Callers /\ HeadIsArranged /\ Grows /\ pc[w] = "remember"
      /\ SingleDone(w) /\ arranged' = arranged \cup {job[w].id}
  BY UnchangedGrows DEF IInv, Remember
<1>2. single[w] # <<>> /\ job[w].id \in DOMAIN events
  BY <1>1 DEF Callers, Caller, Written
<1>3. Apart(w) /\ Caller(w)'
  BY <1>1, <1>2, SingleDoneFacts DEF Apart, Caller, Remember
<1>4. TypeOK'
  <2>1. arranged' \subseteq 1..Len(events')
    BY <1>1, <1>2, LenProperties DEF TypeOK, Remember
  <2> QED
    BY <1>1, <1>2, <2>1, SingleDoneFacts DEF TypeOK, Remember
<1>5. HeadIsArranged'
  BY <1>1, <1>3, ArrangedKept DEF Remember
<1> QED
  BY <1>1, <1>3, <1>4, <1>5, LogUnchanged, CallersKept DEF IInv, Remember

LEMMA CrashInv ==
    ASSUME IInv, NEW w \in Workers, Crash(w)
    PROVE  IInv'
<1>1. TypeOK /\ Log /\ Callers /\ Grows /\ Apart(w) /\ pc'[w] = "idle"
  BY UnchangedGrows DEF IInv, Crash, Goto, Apart, TypeOK
<1>2. crashes' \in 0..MaxCrashes /\ crashes' > 0
  BY <1>1, BoundsAssumption DEF Crash, TypeOK
<1>3. TypeOK'
  BY <1>1, <1>2 DEF Crash, Goto, TypeOK
<1>4. Caller(w)'
  BY <1>1 DEF Caller
<1>5. HeadIsArranged'
  BY <1>2 DEF HeadIsArranged
<1> QED
  BY <1>1, <1>3, <1>4, <1>5, LogUnchanged, CallersKept DEF IInv, Crash

-----------------------------------------------------------------------------
(* Safety *)

LEMMA InitInv == Init => IInv
<1> SUFFICES ASSUME Init PROVE IInv
  OBVIOUS
<1>1. Len(events) = 0 /\ DOMAIN events = {} /\ events \in Seq(Row)
  BY DEF Init
<1>2. TypeOK
  BY <1>1, BoundsAssumption DEF Init, TypeOK
<1>3. Log
  BY <1>1 DEF Init, Log, HistoryIsLinear
<1>4. Callers
  BY DEF Init, Callers, Caller
<1>5. HeadIsArranged
  BY DEF Init, HeadIsArranged
<1> QED
  BY <1>2, <1>3, <1>4, <1>5 DEF IInv

LEMMA NextInv == IInv /\ [Next]_vars => IInv'
<1>1. ASSUME IInv, NEW w \in Workers,
             \/ Begin(w) \/ InspectNext(w) \/ BatchRead(w) \/ CommitCreates(w)
             \/ InspectSingle(w) \/ Persist(w) \/ MarkTombstone(w) \/ Remember(w) \/ Crash(w)
      PROVE  IInv'
  BY <1>1, BeginInv, InspectNextInv, BatchReadInv, CommitCreatesInv, InspectSingleInv,
     PersistInv, MarkTombstoneInv, RememberInv, CrashInv
<1>2. ASSUME IInv, UNCHANGED vars PROVE IInv'
  <2>1. TypeOK' /\ Log' /\ HeadIsArranged'
    BY <1>2 DEF IInv, vars, TypeOK, Log, HistoryIsLinear, HeadIsArranged
  <2>2. ASSUME NEW v \in Workers PROVE Caller(v)'
    BY <1>2, CallerKept, UnchangedGrows DEF IInv, vars, Callers
  <2> QED
    BY <2>1, <2>2 DEF IInv, Callers
<1> QED
  BY <1>1, <1>2 DEF Next

(* The log is in line and every caller holds what its step needs, always. *)
THEOREM Strengthened == Spec => []IInv
  BY InitInv, NextInv, PTL DEF Spec

(* Every variable keeps its type; the Event a head or a disposition names  *)
(* is in the table.                                                        *)
THEOREM TypeCorrect == Spec => []TypeOK
<1>1. IInv => TypeOK
  BY DEF IInv
<1> QED
  BY <1>1, Strengthened, PTL

(* However many callers ingest whatever batches, and whichever of them die *)
(* on the way, no Event gets two successors and a superseded one is not    *)
(* current.                                                                *)
THEOREM LinearHistory == Spec => []HistoryIsLinear
<1>1. IInv => HistoryIsLinear
  BY DEF IInv, Log
<1> QED
  BY <1>1, Strengthened, PTL

(* Without a crash each current Event is arranged, or its writer is about  *)
(* to.                                                                     *)
THEOREM ArrangedHead == Spec => []HeadIsArranged
<1>1. IInv => HeadIsArranged
  BY DEF IInv
<1> QED
  BY <1>1, Strengthened, PTL

-----------------------------------------------------------------------------
(* Refinement *)

Current == [k \in Keys |-> Stored(k)]

\* What a transaction makes current.
LEMMA CurrentAfter ==
    ASSUME TypeOK, NEW rows \in Seq(Row), Insert(rows), NEW k \in Keys
    PROVE  \/ Stored(k)' = Stored(k) /\ \A n \in DOMAIN rows : rows[n].key # k
           \/ \E n \in DOMAIN rows : rows[n].key = k /\ Stored(k)' = VersionOf(rows[n])
<1>1. CASE head'[k] = head[k] /\ \A n \in DOMAIN rows : rows[n].key # k
  <2>2. Stored(k) = VersionAt(head[k]) /\ head[k] \in 0..Len(events)
    BY StoredIsHead
  <2>3. \A n \in 0..Len(events) : VersionAt(n)' = VersionAt(n)
    BY InsertGrows, VersionKept
  <2>4. \A n \in 0..Len(events) :
          (IF n = 0 THEN None ELSE VersionOf(events'[n])) = VersionAt(n)
    BY <2>3 DEF VersionAt
  <2>5. Stored(k)' = IF head[k] = 0 THEN None ELSE VersionOf(events'[head[k]])
    BY <1>1 DEF Stored
  <2> QED
    BY <1>1, <2>2, <2>4, <2>5
<1>2. ASSUME NEW n \in DOMAIN rows, rows[n].key = k, head'[k] = Len(events) + n
      PROVE  Stored(k)' = VersionOf(rows[n])
  <2>1. events'[Len(events) + n] = rows[n] /\ Len(events) + n # 0
    <3>1. /\ Len(events) \in Nat /\ DOMAIN rows = 1..Len(rows) /\ Len(rows) \in Nat
          /\ events'[Len(events) + n] = rows[n]
      BY InsertFacts
    <3> QED
      BY <3>1
  <2> QED
    BY <1>2, <2>1 DEF Stored
<1> QED
  BY <1>1, <1>2, InsertFacts

LEMMA OneCurrentAfter ==
    ASSUME TypeOK, NEW row \in Row, Insert(<<row>>)
    PROVE  Source!Become(row.key, VersionOf(row))
<1>1. <<row>> \in Seq(Row) /\ DOMAIN <<row>> = {1} /\ <<row>>[1] = row /\ row.key \in Keys
  BY DEF Row
<1>2. ASSUME NEW k \in Keys
      PROVE  Stored(k)' = IF k = row.key THEN VersionOf(row) ELSE Stored(k)
  <2>1. \/ Stored(k)' = Stored(k) /\ \A n \in DOMAIN <<row>> : <<row>>[n].key # k
        \/ \E n \in DOMAIN <<row>> : <<row>>[n].key = k /\ Stored(k)' = VersionOf(<<row>>[n])
    BY <1>1, CurrentAfter
  <2> QED
    BY <1>1, <2>1
<1>3. [k \in Keys |-> Stored(k)'] = [[k \in Keys |-> Stored(k)] EXCEPT ![row.key] = VersionOf(row)]
  BY <1>1, <1>2
<1> QED
  BY <1>3 DEF Source!Become

LEMMA UnchangedCurrent ==
    ASSUME events' = events, head' = head
    PROVE  Current' = Current
  BY DEF Current, Stored

\* The transaction of planned creates creates a page.
LEMMA CommitCreatesStep ==
    ASSUME IInv, NEW w \in Workers, CommitCreates(w)
    PROVE  [Source!Next]_Current
<1>1. TypeOK
  BY DEF IInv
<1>2. CASE ~\A n \in DOMAIN planned[w] : HeadIs(planned[w][n].key, 0)
  BY <1>2, UnchangedCurrent DEF CommitCreates
<1>3. CASE \A n \in DOMAIN planned[w] : HeadIs(planned[w][n].key, 0)
  <2> DEFINE rows == CreateRows(w)
             K == {planned[w][n].key : n \in DOMAIN planned[w]}
             page == [k \in K |-> Stored(k)'.content]
  <2>1. Insert(rows) /\ rows \in Seq(Row) /\ DOMAIN rows = DOMAIN planned[w]
    BY <1>1, <1>3, CreateRowsType DEF CommitCreates, CreateRows
  <2>2. \A n \in DOMAIN planned[w] : planned[w][n] \in Planned
    BY <1>1, ElementOfSeq, LenProperties DEF TypeOK
  <2>3. \A n \in DOMAIN planned[w] :
          /\ rows[n].key = planned[w][n].key /\ planned[w][n].key \in Keys
          /\ planned[w][n].content \in Contents
          /\ VersionOf(rows[n]) = [op |-> "create", content |-> planned[w][n].content,
                                   revision |-> "none", linked |-> FALSE]
    BY <2>2 DEF CreateRows, NewRow, VersionOf, Planned
  <2> HIDE DEF rows
  <2>4. ASSUME NEW k \in K
        PROVE  /\ k \in Keys /\ Stored(k) = None
               /\ \E c \in Contents :
                    Stored(k)' = [op |-> "create", content |-> c, revision |-> "none", linked |-> FALSE]
    <3>1. PICK m \in DOMAIN planned[w] : planned[w][m].key = k
      OBVIOUS
    <3>2. k \in Keys /\ Stored(k) = None
      BY <1>3, <2>3, <3>1 DEF HeadIs, Stored
    <3>3. PICK n \in DOMAIN rows : rows[n].key = k /\ Stored(k)' = VersionOf(rows[n])
      BY <1>1, <2>1, <2>3, <3>1, <3>2, CurrentAfter
    <3> QED
      BY <2>1, <2>3, <3>2, <3>3
  <2>5. ASSUME NEW k \in Keys, k \notin K PROVE Stored(k)' = Stored(k)
    <3>1. \A n \in DOMAIN rows : rows[n].key # k
      BY <2>1, <2>3, <2>5
    <3> QED
      BY <1>1, <2>1, <3>1, CurrentAfter
  <2>6. K \in SUBSET Keys /\ page \in [K -> Contents] /\ DOMAIN page = K
    BY <2>4
  <2>7. ASSUME NEW k \in K
        PROVE Stored(k)' = [op |-> "create", content |-> page[k], revision |-> "none", linked |-> FALSE]
    BY <2>4
  <2> HIDE DEF page, K
  <2>8. [k \in Keys |-> Stored(k)'] =
          [k \in Keys |->
             IF k \in DOMAIN page
             THEN [op |-> "create", content |-> page[k], revision |-> "none", linked |-> FALSE]
             ELSE [q \in Keys |-> Stored(q)][k]]
    BY <2>5, <2>6, <2>7
  <2>9. Source!Create(page)
    BY <2>4, <2>6, <2>8 DEF Source!Create
  <2> QED
    BY <2>6, <2>9 DEF Source!Next
<1> QED
  BY <1>2, <1>3

\* The tombstone of a record that is not recalled yet recalls it.
LEMMA TombstoneStep ==
    ASSUME TypeOK, NEW k \in Keys, Insert(<<Tombstone(k)>>),
           Stored(k) = None \/ Stored(k).op # "tombstone"
    PROVE  Source!Recall(k)
<1>1. /\ Tombstone(k) \in Row /\ Tombstone(k).key = k /\ Tombstone(k).parent = head[k]
      /\ Tombstone(k).op = "tombstone" /\ Tombstone(k).revision = "none"
      /\ Tombstone(k).content = IF head[k] = 0 THEN NoContent ELSE events[head[k]].content
  BY TombstoneFacts
<1>2. Source!Become(k, VersionOf(Tombstone(k)))
  BY <1>1, OneCurrentAfter
<1>3. (Stored(k) = None <=> head[k] = 0) /\ [q \in Keys |-> Stored(q)][k] = Stored(k)
  BY StoredIsHead
<1>4. CASE head[k] = 0
  <2>1. VersionOf(Tombstone(k)) = [op |-> "tombstone", content |-> Source!NoContent,
                                   revision |-> "none", linked |-> FALSE]
    BY <1>1, <1>4 DEF VersionOf, NoContent, Source!NoContent
  <2> QED
    BY <1>2, <1>3, <1>4, <2>1 DEF Source!Recall
<1>5. CASE head[k] # 0
  <2>1. VersionOf(Tombstone(k)) = [op |-> "tombstone", content |-> Stored(k).content,
                                   revision |-> "none", linked |-> TRUE]
    BY <1>1, <1>5 DEF VersionOf, Stored
  <2> QED
    BY <1>2, <1>3, <1>5, <2>1 DEF Source!Recall
<1> QED
  BY <1>4, <1>5

LEMMA VersionOfNew ==
    ASSUME NEW row, NEW k, NEW op, NEW content, NEW revision, NEW parent,
           row = NewRow(k, op, content, revision, parent)
    PROVE  /\ parent = 0 => VersionOf(row) =
                [op |-> op, content |-> content, revision |-> revision, linked |-> FALSE]
           /\ parent # 0 => VersionOf(row) =
                [op |-> op, content |-> content, revision |-> revision, linked |-> TRUE]
<1>1. /\ row.op = op /\ row.content = content /\ row.revision = revision /\ row.parent = parent
  BY DEF NewRow
<1>2. VersionOf(row) = [op |-> op, content |-> content, revision |-> revision, linked |-> parent # 0]
  BY <1>1 DEF VersionOf
<1> QED
  BY <1>2

\* The write of a judged record is judged by the version it replaces.
LEMMA PersistStep ==
    ASSUME IInv, NEW w \in Workers, Persist(w)
    PROVE  [Source!Next]_Current
<1> DEFINE r == Head(single[w])
           k == r.key
           j == job[w]
           cur == Stored(k)
           c == Merged(r.content, cur)
<1>1. TypeOK /\ Judged(r, j) /\ single[w] # <<>>
  BY DEF IInv, Callers, Caller, Persist
<1>2. CASE ~HeadIs(k, j.expect)
  BY <1>2, UnchangedCurrent DEF Persist
<1>3. CASE HeadIs(k, j.expect)
  <2>1. r \in Record /\ j \in Job
    BY <1>1, SeqFacts DEF TypeOK, Judged
  <2>2. /\ k \in Keys /\ r.op \in {"create", "revise", "tombstone"}
        /\ r.op # "tombstone" => r.content \in Contents
    BY <2>1, RecordFacts
  <2>3. cur = VersionAt(j.expect) /\ cur \in Source!Version \cup {None} /\ (cur = None <=> head[k] = 0)
        /\ [q \in Keys |-> Stored(q)][k] = cur
    BY <1>1, <1>3, <2>2, StoredIsHead DEF HeadIs
  <2>4. /\ ~Replays(r, cur) /\ ~Conflicts(r, cur) /\ j.kind = Kind(r, cur)
        /\ r.op # "tombstone" => j.content = c /\ j.revision = Revision(r, cur)
    BY <1>1, <2>3 DEF Judged
  <2>5. r.op # "tombstone" => c \in Contents
    BY <2>2, <2>3, MergedType
  <2>6. /\ Insert(<<RowFor(k, j)>>) /\ RowFor(k, j) \in Row /\ RowFor(k, j).key = k
        /\ j.kind \in {"create", "return"} =>
             RowFor(k, j) = NewRow(k, "create", j.content, "none", 0)
        /\ j.kind = "revise" =>
             RowFor(k, j) = NewRow(k, "revise", j.content, j.revision, head[k])
        /\ j.kind = "tombstone" => RowFor(k, j) = Tombstone(k)
    BY <1>1, <1>3, <2>1, <2>2, RowForFacts DEF Persist
  <2>7. Source!Become(k, VersionOf(RowFor(k, j)))
    BY <1>1, <2>6, OneCurrentAfter
  <2>8. CASE j.kind = "tombstone"
    <3>1. r.op = "tombstone"
      BY <2>2, <2>4, <2>8 DEF Kind
    <3>2. cur = None \/ cur.op # "tombstone"
      BY <2>4, <3>1 DEF Replays
    <3>3. Source!Recall(k)
      BY <1>1, <2>2, <2>6, <2>8, <3>2, TombstoneStep
    <3> QED
      BY <2>2, <3>3 DEF Source!Next
  <2>9. CASE j.kind = "create"
    <3>1. r.op # "tombstone" /\ cur = None
      BY <2>4, <2>9 DEF Kind
    <3> DEFINE page == [q \in {k} |-> c]
    <3> HIDE DEF c, j, k
    <3>a. RowFor(k, j) = NewRow(k, "create", c, "none", 0)
      BY <2>4, <2>6, <2>9, <3>1
    <3>2. VersionOf(RowFor(k, j)) = [op |-> "create", content |-> c, revision |-> "none", linked |-> FALSE]
      BY <3>a, VersionOfNew
    <3>3. page \in [{k} -> Contents] /\ DOMAIN page = {k} /\ page[k] = c /\ {k} \in SUBSET Keys
      BY <2>2, <2>5, <3>1
    <3> HIDE DEF page
    <3>4. Source!Create(page)
      <4>1. \A q \in DOMAIN page : [p \in Keys |-> Stored(p)][q] = None
        BY <2>3, <3>1, <3>3
      <4>2. [q \in Keys |-> Stored(q)'] =
              [q \in Keys |->
                 IF q \in DOMAIN page
                 THEN [op |-> "create", content |-> page[q], revision |-> "none", linked |-> FALSE]
                 ELSE [p \in Keys |-> Stored(p)][q]]
        BY <2>2, <2>7, <3>2, <3>3 DEF Source!Become
      <4> QED
        BY <4>1, <4>2 DEF Source!Create
    <3> QED
      BY <3>3, <3>4 DEF Source!Next
  <2>10. CASE j.kind = "return"
    <3>1. r.op # "tombstone" /\ cur # None /\ cur.op = "tombstone" /\ ~cur.linked
      BY <2>4, <2>10 DEF Kind
    <3> HIDE DEF c, j, k
    <3>a. RowFor(k, j) = NewRow(k, "create", c, "none", 0)
      BY <2>4, <2>6, <2>10, <3>1
    <3>2. VersionOf(RowFor(k, j)) = [op |-> "create", content |-> c, revision |-> "none", linked |-> FALSE]
      BY <3>a, VersionOfNew
    <3>3. Source!Return(k, c)
      BY <2>3, <2>7, <3>1, <3>2 DEF Source!Return
    <3> QED
      BY <2>2, <2>5, <3>1, <3>3 DEF Source!Next
  <2>11. CASE j.kind = "revise"
    <3>1. /\ r.op # "tombstone" /\ cur # None
          /\ r.op = "create" => cur.op # "tombstone" \/ cur.linked
      BY <2>4, <2>11 DEF Kind
    <3> HIDE DEF c, j, k
    <3>a. RowFor(k, j) = NewRow(k, "revise", c, j.revision, head[k]) /\ head[k] # 0
      BY <2>3, <2>4, <2>6, <2>11, <3>1
    <3>2. VersionOf(RowFor(k, j)) = [op |-> "revise", content |-> c, revision |-> j.revision, linked |-> TRUE]
      <4> DEFINE row == RowFor(k, j)
                 parent == head[k]
                 revision == j.revision
      <4>1. row = NewRow(k, "revise", c, revision, parent) /\ parent # 0
        BY <3>a
      <4> HIDE DEF row, parent, revision
      <4>2. VersionOf(row) = [op |-> "revise", content |-> c, revision |-> revision, linked |-> TRUE]
        BY <4>1, VersionOfNew
      <4> QED
        BY <4>2 DEF row, revision
    <3>3. c # cur.content /\ ~Source!Worsens(cur.content, c)
      BY <2>4, <3>1 DEF Replays, c
    <3>4. /\ j.revision \in {"none", "source", "surface"}
          /\ j.revision = "none" => Source!Improves(cur.content, c)
          /\ j.revision = "surface" => Source!Corrects(cur.content, c)
      <4>1. CASE r.op = "revise"
        BY <2>4, <3>1, <4>1 DEF Revision
      <4>2. CASE r.op = "create"
        BY <2>4, <2>11, <3>1, <4>2 DEF Revision, Conflicts, c, k, j
      <4> QED
        BY <2>2, <3>1, <4>1, <4>2
    <3>5. Source!Revise(k, c, j.revision)
      BY <2>3, <2>7, <3>1, <3>2, <3>3, <3>4 DEF Source!Revise
    <3> QED
      BY <2>2, <2>5, <3>1, <3>4, <3>5 DEF Source!Next
  <2> QED
    BY <2>1, <2>8, <2>9, <2>10, <2>11 DEF Job
<1> QED
  BY <1>2, <1>3

\* The second write of a create that followed its tombstone.
LEMMA MarkTombstoneStep ==
    ASSUME IInv, NEW w \in Workers, MarkTombstone(w)
    PROVE  [Source!Next]_Current
<1> DEFINE k == Head(single[w]).key
<1>1. /\ TypeOK /\ single[w] # <<>> /\ events[job[w].id].op = "create"
  BY DEF IInv, Callers, Caller, MarkTombstone
<1>2. CASE ~HeadIs(k, job[w].id)
  BY <1>2, UnchangedCurrent DEF MarkTombstone
<1>3. CASE HeadIs(k, job[w].id)
  <2>1. k \in Keys
    BY <1>1, SeqFacts, RecordFacts DEF TypeOK
  <2>2. Stored(k) = None \/ Stored(k).op # "tombstone"
    BY <1>1, <1>3 DEF Stored, VersionOf, HeadIs
  <2>3. Source!Recall(k)
    BY <1>1, <1>3, <2>1, <2>2, TombstoneStep DEF MarkTombstone
  <2> QED
    BY <2>1, <2>3 DEF Source!Next
<1> QED
  BY <1>2, <1>3

(* Ingestion implements the promise for every set of identities, contents, *)
(* callers and batches: a version replaces exactly the version it was      *)
(* judged against, although the judgement and the write are two steps with *)
(* any number of other callers between them.                               *)
THEOREM Refinement == Spec => SourceIsHonoured
<1>1. Init => Source!Init
  BY DEF Init, Source!Init, Stored
<1>2. IInv /\ [Next]_vars => [Source!Next]_Current
  <2>1. ASSUME IInv, NEW w \in Workers,
               \/ Begin(w) \/ InspectNext(w) \/ BatchRead(w) \/ InspectSingle(w)
               \/ Remember(w) \/ Crash(w)
        PROVE  Current' = Current
    BY <2>1, UnchangedCurrent
       DEF Begin, InspectNext, BatchRead, InspectSingle, Remember, Crash
  <2>2. ASSUME UNCHANGED vars PROVE Current' = Current
    BY <2>2, UnchangedCurrent DEF vars
  <2> QED
    BY <2>1, <2>2, CommitCreatesStep, PersistStep, MarkTombstoneStep DEF Next
<1> QED
  BY <1>1, <1>2, Strengthened, PTL DEF Spec, SourceIsHonoured, Source!Spec, Current

=============================================================================
