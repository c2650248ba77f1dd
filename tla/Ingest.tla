------------------------------- MODULE Ingest -------------------------------
(***************************************************************************)
(* IngestionService.ingest against the events and source_heads tables:     *)
(* concurrent callers ingest batches of records.  A caller looks at the    *)
(* current version of each record's identity, decides, gathers plain       *)
(* creates and commits them in one transaction; any other record is        *)
(* written by itself against the head it was judged by, and a conflict     *)
(* makes the caller look again or report the record as retryable.          *)
(*                                                                         *)
(* Each step ends at an await that reaches the store.  The channel echo of *)
(* a local reply is OutboundReply's concern, the cursor of a page is       *)
(* StreamPoll's, and the bytes of blobs are left out.                      *)
(***************************************************************************)
EXTENDS Naturals, Sequences, FiniteSets

CONSTANTS Keys,        \* source identities
          Contents,    \* canonical contents, see SourceRecord
          None,        \* no version, no text
          Workers,     \* concurrent callers
          Batches,     \* what a caller may hand over: sequences of records
          MaxBatches,  \* bound: batches ingested in one behaviour
          MaxCrashes   \* bound: calls cut off by the end of their process

NoContent == [text |-> None, have |-> {}, lack |-> {}]

Record ==
    [key : Keys, op : {"create", "revise"}, content : Contents]
      \cup [key : Keys, op : {"tombstone"}]

(* Contents are records of text, have and lack; an incoming one that takes *)
(* attachments from a stored one is again a content.                       *)
ASSUME ContentsAssumption ==
    /\ NoContent \notin Contents
    /\ \A c \in Contents : c = [text |-> c.text, have |-> c.have, lack |-> c.lack]
    /\ \A c, d \in Contents :
         [text |-> c.text, have |-> c.have \cup (c.lack \cap d.have), lack |-> c.lack \ d.have]
           \in Contents
ASSUME BatchesAssumption == Batches \subseteq Seq(Record)
ASSUME BoundsAssumption == MaxBatches \in Nat /\ MaxCrashes \in Nat

VARIABLES events,    \* the events table, in order; an Event's id is its place
          head,      \* source_heads: the id of the current Event, 0 for none
          arranged,  \* ids of the Events that have a disposition
          pc,        \* where each caller is
          todo,      \* the records of its batch it has not handled
          planned,   \* PlannedCreate: creates gathered for one transaction
          overlay,   \* PendingIngestOverlay: creates this batch remembers
          single,    \* records it ingests by themselves, the next one first
          job,       \* what it decided for the next single record
          batches, crashes

vars == <<events, head, arranged, pc, todo, planned, overlay, single, job, batches, crashes>>

Row == [key : Keys, op : {"create", "revise", "tombstone"}, content : Contents \cup {NoContent},
        revision : {"none", "source", "surface"}, parent : Nat]

Planned == [key : Keys, content : Contents]

NoJob == [kind |-> "none"]

Job == [kind : {"create", "revise", "tombstone", "return"}, expect : Nat,
        content : Contents \cup {NoContent}, revision : {"none", "source", "surface"}, id : Nat]

-----------------------------------------------------------------------------
(* What inspectRecord decides for a record, given the current version.     *)

(* The version an Event shows: a tombstone without parent came before its  *)
(* record.                                                                 *)
VersionOf(row) ==
    [op |-> row.op, content |-> row.content, revision |-> row.revision, linked |-> row.parent # 0]

(* findBySourceIdentity *)
Stored(k) == IF head[k] = 0 THEN None ELSE VersionOf(events[head[k]])

(* The version this batch is about to create, or the stored one. *)
Pending(w, k) == {p \in overlay[w] : p.key = k}

(* findBlob: contents are stored under their hash, with the Event.         *)
BlobStored(c) == \E n \in DOMAIN events : events[n].content = c

(* The planned create p as record r meets it.  Its hash is known, but its  *)
(* content reads as empty until it, or the same content of another record, *)
(* has been committed.                                                     *)
Preview(p, r) ==
    [op |-> "create", revision |-> "none", linked |-> FALSE,
     content |-> IF BlobStored(p.content) \/ (r.op # "tombstone" /\ r.content = p.content)
                 THEN p.content ELSE NoContent]

Source == INSTANCE SourceRecord WITH current <- [k \in Keys |-> Stored(k)]

ASSUME NoneAssumption == None \notin Source!Version

(* mergeRecordContent: attachments that arrive without their bytes take    *)
(* them from the current version.                                          *)
Merged(content, cur) ==
    IF cur = None THEN content
    ELSE [text |-> content.text,
          have |-> content.have \cup (content.lack \cap cur.content.have),
          lack |-> content.lack \ cur.content.have]

(* The record adds nothing to the current version. *)
Replays(r, cur) ==
    /\ cur # None
    /\ IF r.op = "tombstone" THEN cur.op = "tombstone"
       ELSE LET c == Merged(r.content, cur) IN
            \/ c = cur.content
            \/ Source!Worsens(cur.content, c)
            \/ /\ r.op = "create"
               /\ cur.op # "tombstone" \/ cur.linked
               /\ ~Source!Improves(cur.content, c)
               /\ cur.content.lack # {} \/ c.lack # {}

(* Mutation: a repeated create with other words is taken as a correction. *)
Conflicts_never(r, cur) == r.op = "revise" /\ cur = None

(* The record is quarantined with source_identity_conflict. *)
Conflicts(r, cur) ==
    \/ r.op = "revise" /\ cur = None
    \/ /\ r.op = "create" /\ cur # None
       /\ cur.op # "tombstone" \/ cur.linked
       /\ LET c == Merged(r.content, cur) IN
          ~Source!Improves(cur.content, c) /\ ~Source!Corrects(cur.content, c)

(* What is to be written otherwise. *)
Kind(r, cur) ==
    IF r.op = "tombstone" THEN "tombstone"
    ELSE IF cur = None THEN "create"
    ELSE IF r.op = "create" /\ cur.op = "tombstone" /\ ~cur.linked THEN "return"
    ELSE "revise"

Revision(r, cur) ==
    IF r.op = "revise" THEN "source"
    ELSE IF Kind(r, cur) # "revise" \/ Source!Improves(cur.content, Merged(r.content, cur))
    THEN "none" ELSE "surface"

-----------------------------------------------------------------------------
(* The store. *)

(* The compare-and-set of insertWithinTransaction on source_heads. *)
HeadIs(k, expect) == head[k] = expect

(* A transaction inserts rows for distinct identities and moves their      *)
(* heads.                                                                  *)
Insert(rows) ==
    /\ events' = events \o rows
    /\ head' = [k \in Keys |->
         IF \E n \in DOMAIN rows : rows[n].key = k
         THEN Len(events) + (CHOOSE n \in DOMAIN rows : rows[n].key = k)
         ELSE head[k]]

NewRow(k, op, content, revision, parent) ==
    [key |-> k, op |-> op, content |-> content, revision |-> revision, parent |-> parent]

-----------------------------------------------------------------------------
Init ==
    /\ events = <<>>
    /\ head = [k \in Keys |-> 0]
    /\ arranged = {}
    /\ pc = [w \in Workers |-> "idle"]
    /\ todo = [w \in Workers |-> <<>>]
    /\ planned = [w \in Workers |-> <<>>]
    /\ overlay = [w \in Workers |-> {}]
    /\ single = [w \in Workers |-> <<>>]
    /\ job = [w \in Workers |-> NoJob]
    /\ batches = 0
    /\ crashes = 0

Goto(w, where) == pc' = [pc EXCEPT ![w] = where]

Begin(w) ==
    /\ pc[w] = "idle"
    /\ batches < MaxBatches
    /\ \E batch \in Batches : todo' = [todo EXCEPT ![w] = batch]
    /\ batches' = batches + 1
    /\ Goto(w, "read")
    /\ UNCHANGED <<events, head, arranged, planned, overlay, single, job, crashes>>

(* replayed: an Event without a disposition gets one now. *)
Replayed(k) == arranged' = arranged \cup {head[k]}

(* The loop of ingest looks at the next record, first among the creates    *)
(* this batch remembers.  A new record is planned; one that needs a write  *)
(* of its own first has the planned ones committed.                        *)
InspectNext(w) ==
    LET r == Head(todo[w])
        known == Pending(w, r.key)
        cur == IF known = {} THEN Stored(r.key) ELSE Preview(CHOOSE p \in known : TRUE, r)
        p == [key |-> r.key, content |-> r.content]
    IN
    /\ pc[w] = "read"
    /\ todo[w] # <<>>
    /\ todo' = [todo EXCEPT ![w] = Tail(@)]
    /\ \/ /\ Replays(r, cur)
          /\ IF known = {} THEN Replayed(r.key) ELSE UNCHANGED arranged
          /\ UNCHANGED <<pc, planned, overlay, single>>
       \/ /\ ~Replays(r, cur) /\ Conflicts(r, cur)
          /\ UNCHANGED <<arranged, pc, planned, overlay, single>>
       \/ /\ ~Replays(r, cur) /\ ~Conflicts(r, cur) /\ Kind(r, cur) = "create"
          /\ planned' = [planned EXCEPT ![w] = Append(@, p)]
          /\ overlay' = [overlay EXCEPT ![w] = @ \cup {p}]
          /\ UNCHANGED <<arranged, pc, single>>
       \/ /\ ~Replays(r, cur) /\ ~Conflicts(r, cur) /\ Kind(r, cur) # "create"
          /\ single' = [single EXCEPT ![w] = <<r>>]
          /\ Goto(w, IF planned[w] = <<>> THEN "inspect" ELSE "flush")
          /\ UNCHANGED <<arranged, planned, overlay>>
    /\ UNCHANGED <<events, head, job, batches, crashes>>

(* The end of the batch: what is planned is committed, with the page or by *)
(* itself, and the call returns.                                           *)
BatchRead(w) ==
    /\ pc[w] = "read"
    /\ todo[w] = <<>>
    /\ IF planned[w] # <<>>
       THEN Goto(w, "flush") /\ UNCHANGED overlay
       ELSE Goto(w, "idle") /\ overlay' = [overlay EXCEPT ![w] = {}]
    /\ UNCHANGED <<events, head, arranged, todo, planned, single, job, batches, crashes>>

AsRecord(p) == [key |-> p.key, op |-> "create", content |-> p.content]

(* Mutation: the dispositions are written outside the transaction. *)
CommitCreates_twice(w) ==
    /\ pc[w] = "flush"
    /\ planned' = [planned EXCEPT ![w] = <<>>]
    /\ IF \A n \in DOMAIN planned[w] : HeadIs(planned[w][n].key, 0)
       THEN /\ Insert([n \in DOMAIN planned[w] |->
                        NewRow(planned[w][n].key, "create", planned[w][n].content, "none", 0)])
            /\ arranged' = arranged \cup {Len(events) + n : n \in DOMAIN planned[w]}
            /\ Goto(w, IF single[w] = <<>> THEN "read" ELSE "inspect")
            /\ UNCHANGED single
       ELSE /\ single' = [single EXCEPT ![w] =
                 [n \in DOMAIN planned[w] |-> AsRecord(planned[w][n])] \o @]
            /\ Goto(w, "inspect")
            /\ arranged' = arranged \cup {Len(events) + n : n \in DOMAIN planned[w]}
            /\ UNCHANGED <<events, head>>
    /\ UNCHANGED <<todo, overlay, job, batches, crashes>>

(* commitCreates, and commitSyncPage for a page of nothing but creates:    *)
(* Events and dispositions in one transaction, or nothing.  After a        *)
(* conflict the planned records are ingested one by one.                   *)
CommitCreates(w) ==
    /\ pc[w] = "flush"
    /\ planned' = [planned EXCEPT ![w] = <<>>]
    /\ IF \A n \in DOMAIN planned[w] : HeadIs(planned[w][n].key, 0)
       THEN /\ Insert([n \in DOMAIN planned[w] |->
                        NewRow(planned[w][n].key, "create", planned[w][n].content, "none", 0)])
            /\ arranged' = arranged \cup {Len(events) + n : n \in DOMAIN planned[w]}
            /\ Goto(w, IF single[w] = <<>> THEN "read" ELSE "inspect")
            /\ UNCHANGED single
       ELSE /\ single' = [single EXCEPT ![w] =
                 [n \in DOMAIN planned[w] |-> AsRecord(planned[w][n])] \o @]
            /\ Goto(w, "inspect")
            /\ UNCHANGED <<events, head, arranged>>
    /\ UNCHANGED <<todo, overlay, job, batches, crashes>>

-----------------------------------------------------------------------------
(* ingestRecord. *)

(* The single record has its result. *)
SingleDone(w) ==
    /\ single' = [single EXCEPT ![w] = Tail(@)]
    /\ job' = [job EXCEPT ![w] = NoJob]
    /\ Goto(w, IF Len(single[w]) = 1 THEN "read" ELSE "inspect")

(* inspectRecord without the overlay. *)
InspectSingle(w) ==
    LET r == Head(single[w])
        cur == Stored(r.key)
    IN
    /\ pc[w] = "inspect"
    /\ \/ Replays(r, cur) /\ Replayed(r.key) /\ SingleDone(w)
       \/ ~Replays(r, cur) /\ Conflicts(r, cur) /\ SingleDone(w) /\ UNCHANGED arranged
       \/ /\ ~Replays(r, cur) /\ ~Conflicts(r, cur)
          /\ job' = [job EXCEPT ![w] =
               [kind |-> Kind(r, cur), expect |-> head[r.key],
                content |-> IF r.op = "tombstone" THEN NoContent ELSE Merged(r.content, cur),
                revision |-> IF r.op = "tombstone" THEN "none" ELSE Revision(r, cur),
                id |-> 0]]
          /\ Goto(w, "persist")
          /\ UNCHANGED <<arranged, single>>
    /\ UNCHANGED <<events, head, todo, planned, overlay, batches, crashes>>

(* markTombstone copies the content of the version it ends. *)
Tombstone(k) ==
    NewRow(k, "tombstone", IF head[k] = 0 THEN NoContent ELSE events[head[k]].content,
           "none", head[k])

(* Mutation: a revision is linked to the original instead of the version   *)
(* it replaces.                                                            *)
RowFor_original(k, j) ==
    IF j.kind = "tombstone" THEN Tombstone(k)
    ELSE IF j.kind = "revise"
    THEN NewRow(k, "revise", j.content, j.revision,
                IF events[j.expect].parent = 0 THEN j.expect ELSE events[j.expect].parent)
    ELSE NewRow(k, "create", j.content, "none", 0)

(* The row that appendRevision, markTombstone or append inserts. *)
RowFor(k, j) ==
    IF j.kind = "tombstone" THEN Tombstone(k)
    ELSE IF j.kind = "revise" THEN NewRow(k, "revise", j.content, j.revision, j.expect)
    ELSE NewRow(k, "create", j.content, "none", 0)

(* Mutation: the call returns without arranging the new Event. *)
Persist_unarranged(w) ==
    LET k == Head(single[w]).key
        j == job[w]
    IN
    /\ pc[w] = "persist"
    /\ \/ /\ HeadIs(k, j.expect)
          /\ Insert(<<RowFor(k, j)>>)
          /\ SingleDone(w)
       \/ ~HeadIs(k, j.expect) /\ SingleDone(w) /\ UNCHANGED <<events, head>>
    /\ UNCHANGED <<arranged, todo, planned, overlay, batches, crashes>>

(* persistInspected and ingestTombstone: the write, against the head the   *)
(* record was judged by.  A conflict is reported as a retryable failure.   *)
Persist(w) ==
    LET k == Head(single[w]).key
        j == job[w]
    IN
    /\ pc[w] = "persist"
    /\ \/ /\ HeadIs(k, j.expect)
          /\ Insert(<<RowFor(k, j)>>)
          /\ job' = [job EXCEPT ![w].id = Len(events) + 1]
          /\ Goto(w, IF j.kind = "return" THEN "mark" ELSE "remember")
          /\ UNCHANGED single
       \/ ~HeadIs(k, j.expect) /\ SingleDone(w) /\ UNCHANGED <<events, head>>
    /\ UNCHANGED <<arranged, todo, planned, overlay, batches, crashes>>

(* A create after a tombstone is tombstoned in a second transaction. *)
MarkTombstone(w) ==
    LET k == Head(single[w]).key IN
    /\ pc[w] = "mark"
    /\ \/ /\ HeadIs(k, job[w].id)
          /\ Insert(<<Tombstone(k)>>)
          /\ job' = [job EXCEPT ![w].id = Len(events) + 1]
          /\ Goto(w, "remember")
          /\ UNCHANGED single
       \/ ~HeadIs(k, job[w].id) /\ SingleDone(w) /\ UNCHANGED <<events, head>>
    /\ UNCHANGED <<arranged, todo, planned, overlay, batches, crashes>>

(* accepted: the disposition of the new Event follows its transaction. *)
Remember(w) ==
    /\ pc[w] = "remember"
    /\ arranged' = arranged \cup {job[w].id}
    /\ SingleDone(w)
    /\ UNCHANGED <<events, head, todo, planned, overlay, batches, crashes>>

(* The process of a call ends. *)
Crash(w) ==
    /\ pc[w] # "idle"
    /\ crashes < MaxCrashes
    /\ crashes' = crashes + 1
    /\ Goto(w, "idle")
    /\ todo' = [todo EXCEPT ![w] = <<>>]
    /\ planned' = [planned EXCEPT ![w] = <<>>]
    /\ overlay' = [overlay EXCEPT ![w] = {}]
    /\ single' = [single EXCEPT ![w] = <<>>]
    /\ job' = [job EXCEPT ![w] = NoJob]
    /\ UNCHANGED <<events, head, arranged, batches>>

Next ==
    \E w \in Workers :
      \/ Begin(w) \/ InspectNext(w) \/ BatchRead(w) \/ CommitCreates(w)
      \/ InspectSingle(w) \/ Persist(w) \/ MarkTombstone(w) \/ Remember(w)
      \/ Crash(w)

Spec == Init /\ [][Next]_vars

-----------------------------------------------------------------------------
(* Type correctness. *)
TypeOK ==
    /\ events \in Seq(Row)
    /\ head \in [Keys -> 0..Len(events)]
    /\ arranged \subseteq 1..Len(events)
    /\ pc \in [Workers -> {"idle", "read", "flush", "inspect", "persist", "mark", "remember"}]
    /\ todo \in [Workers -> Seq(Record)]
    /\ planned \in [Workers -> Seq(Planned)]
    /\ overlay \in [Workers -> SUBSET Planned]
    /\ single \in [Workers -> Seq(Record)]
    /\ job \in [Workers -> Job \cup {NoJob}]
    /\ batches \in 0..MaxBatches
    /\ crashes \in 0..MaxCrashes

(* Concurrent callers never fork a record: at most one Event names another *)
(* as its parent, and an Event that has a successor is nobody's head.      *)
HistoryIsLinear ==
    \A m, n \in DOMAIN events :
      /\ events[m].parent # 0 /\ m # n => events[m].parent # events[n].parent
      /\ head[events[m].key] # events[m].parent \/ events[m].parent = 0

(* Every current Event is arranged, so that the inbox lists it, or the     *)
(* call that wrote it is about to arrange it.  Only a process that ends    *)
(* between the two leaves a head that waits for the next replay.           *)
HeadIsArranged ==
    \A k \in Keys :
      \/ head[k] = 0 \/ head[k] \in arranged
      \/ \E w \in Workers : pc[w] \in {"mark", "remember"} /\ job[w].id = head[k]
      \/ crashes > 0

(* Ingestion with its concurrent read-then-write callers implements the    *)
(* promise: each version was judged against the very version it replaces.  *)
SourceIsHonoured == Source!Spec

(* A record whose tombstone came first is tombstoned when its create       *)
(* arrives: outside the call that writes it, its head is a tombstone.      *)
TombstoneOutlivesCreate ==
    \A n \in DOMAIN events :
      /\ events[n].op = "tombstone" /\ events[n].parent = 0
      => LET k == events[n].key IN
         \/ events[head[k]].op = "tombstone"
         \/ \E w \in Workers : pc[w] = "mark" /\ job[w].id = head[k]
=============================================================================
