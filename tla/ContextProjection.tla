------------------------- MODULE ContextProjection -------------------------
(***************************************************************************)
(* The context projection outbox and the workers that drain it.  Storing   *)
(* an Event, or repointing its content, enqueues a job in the same         *)
(* transaction (sqlite/events.ts).  A worker (of the API process or of the *)
(* worker app) claims due jobs under a lease, groups them by conversation, *)
(* and for each group reads the whole conversation, stores a summary of    *)
(* it, advances the conversation's checkpoint and settles the jobs.        *)
(* Nothing is locked in between: two workers may project one conversation  *)
(* at once, and a worker that lost its lease goes on writing.              *)
(*                                                                         *)
(* Time is left out.  A claim's lease may run out at any moment, and a     *)
(* failed job's retry time may have come at any moment.  A read is the     *)
(* version of each Event's content that it saw; contents only move         *)
(* forward, so of two reads the one made later is the larger one.  The     *)
(* code compares the times that reads are stamped with once they are made. *)
(* That is the same order in the one process of a SQLite store, which this *)
(* module follows; of the workers of a PostgreSQL store, whose clocks may  *)
(* differ, it does not speak.  The lexical index, which a search needs     *)
(* only for speed, is left out.                                            *)
(***************************************************************************)
EXTENDS Naturals, FiniteSets

CONSTANTS Events,      \* Events of the authority store
          Threads,     \* conversations
          ThreadOf,    \* the conversation of an Event
          Workers,     \* processes that run a projection worker
          None,        \* no worker
          MaxVersion,  \* bound: the contents that each Event has in its life
          MaxFaults    \* bound: failures, stalls and deferrals

ASSUME ProjectionAssumption ==
    /\ IsFiniteSet(Events)
    /\ ThreadOf \in [Events -> Threads]
    /\ None \notin Workers
    /\ MaxVersion \in [Events -> Nat] /\ MaxFaults \in Nat

VARIABLES content,     \* the content version of each stored Event, 0 if not stored
          job,         \* context_projection_outbox, one row to an Event
          checkpoint,  \* context_projection_checkpoints: the read it was made from
          artifacts,   \* context_artifacts: the reads that have a stored summary
          pc,          \* where a worker is in runOnce
          todo,        \* Events of claimed jobs whose group it has not begun
          group,       \* Events of the jobs of the group it works on
          read,        \* openContextReadForThread's answer
          lost,        \* withProjectionLease saw a job that it could not renew
          faults

outbox == <<content, job>>
stored == <<checkpoint, artifacts>>
running == <<pc, todo, group, read, lost>>
vars == <<outbox, stored, running, faults>>

Read == [Events -> Nat]
NoRead == [e \in Events |-> 0]
NoJob == [status |-> "none", owner |-> None, leased |-> FALSE]
Job == [status : {"none", "pending", "running", "failed", "succeeded"},
        owner : Workers \cup {None}, leased : BOOLEAN]

\* The steps of projectThread, under withProjectionLease.
Projecting == {"read", "compare", "artifact", "checkpoint", "projected"}

TypeOK ==
    /\ content \in Read
    /\ job \in [Events -> Job]
    /\ checkpoint \in [Threads -> Read]
    /\ artifacts \subseteq Read
    /\ pc \in [Workers -> {"idle", "groups", "complete"} \cup Projecting]
    /\ todo \in [Workers -> SUBSET Events]
    /\ group \in [Workers -> SUBSET Events]
    /\ read \in [Workers -> Read]
    /\ lost \in [Workers -> BOOLEAN]
    /\ faults \in 0..MaxFaults

Init ==
    /\ content = NoRead
    /\ job = [e \in Events |-> NoJob]
    /\ checkpoint = [t \in Threads |-> NoRead]
    /\ artifacts = {}
    /\ pc = [w \in Workers |-> "idle"]
    /\ todo = [w \in Workers |-> {}]
    /\ group = [w \in Workers |-> {}]
    /\ read = [w \in Workers |-> NoRead]
    /\ lost = [w \in Workers |-> FALSE]
    /\ faults = 0

-----------------------------------------------------------------------------
(* The authority store *)

\* A mutation: requeueing a known Event leaves its row alone.
enqueueContextProjection_once(e) ==
    job' = IF job[e].status = "none" THEN [job EXCEPT ![e] = [NoJob EXCEPT !.status = "pending"]]
           ELSE job

\* A new row, or the Event's row made new: whoever held it has lost it.
enqueueContextProjection(e) == job' = [job EXCEPT ![e] = [NoJob EXCEPT !.status = "pending"]]

insertEvent(e) ==
    /\ content[e] = 0 /\ MaxVersion[e] > 0
    /\ content' = [content EXCEPT ![e] = 1]
    /\ enqueueContextProjection(e)
    /\ UNCHANGED <<stored, running, faults>>

repointContentHash(e) ==
    /\ content[e] # 0 /\ content[e] < MaxVersion[e]
    /\ content' = [content EXCEPT ![e] = @ + 1]
    /\ enqueueContextProjection(e)
    /\ UNCHANGED <<stored, running, faults>>

\* A mutation: the due list forgets jobs whose worker is gone.
Due_noReclaim == {e \in Events : job[e].status \in {"pending", "failed"}}

Due ==
    {e \in Events : \/ job[e].status \in {"pending", "failed"}
                    \/ job[e].status = "running" /\ ~job[e].leased}

\* The condition under which a worker may settle or renew a job.  The time
\* it is judged by is the worker's, taken before the call: a lease that ran
\* out in between still counts.
Holds(w, e) == job[e].status = "running" /\ job[e].owner = w

completeContextProjectionJob(w, e) ==
    /\ Holds(w, e)
    /\ job' = [job EXCEPT ![e] = [NoJob EXCEPT !.status = "succeeded"]]

\* A mutation: a status that the outbox does not know.
failContextProjectionJobs_deferred(w, kept) ==
    job' = [e \in Events |-> IF e \in group[w] \ kept /\ Holds(w, e)
                             THEN [NoJob EXCEPT !.status = "deferred"] ELSE job[e]]

\* The jobs of a group fail that the worker still holds and that `kept` does
\* not list: those whose lease had run out.
failContextProjectionJobs(w, kept) ==
    job' = [e \in Events |-> IF e \in group[w] \ kept /\ Holds(w, e)
                             THEN [NoJob EXCEPT !.status = "failed"] ELSE job[e]]

Lapsed(w) == {e \in group[w] : ~job[e].leased}

Fault == faults < MaxFaults /\ faults' = faults + 1

\* The lease of a job that nobody works on runs out.
LeaseExpires(e) ==
    /\ job[e].status = "running" /\ job[e].leased
    /\ \A w \in Workers : job[e].owner = w => e \notin todo[w] \cup group[w]
    /\ job' = [job EXCEPT ![e].leased = FALSE]
    /\ UNCHANGED <<content, stored, running, faults>>

\* The lease of a job runs out under its worker: a stalled process, a store
\* that does not answer, a group that waits long for its turn.
LeaseOutlived(e) ==
    /\ job[e].status = "running" /\ job[e].leased
    /\ \E w \in Workers : job[e].owner = w /\ e \in todo[w] \cup group[w]
    /\ Fault
    /\ job' = [job EXCEPT ![e].leased = FALSE]
    /\ UNCHANGED <<content, stored, running>>

-----------------------------------------------------------------------------
(* PersonalContextProjectionService.runOnce *)

\* Claims up to a batch of due jobs.
claimContextProjectionJobs(w) ==
    /\ pc[w] = "idle"
    /\ \E batch \in SUBSET Due \ {{}} :
          /\ job' = [e \in Events |->
                        IF e \in batch THEN [status |-> "running", owner |-> w, leased |-> TRUE]
                        ELSE job[e]]
          /\ todo' = [todo EXCEPT ![w] = batch]
    /\ pc' = [pc EXCEPT ![w] = "groups"]
    /\ UNCHANGED <<content, stored, group, read, lost, faults>>

NextGroup(w, t) ==
    /\ pc[w] = "groups"
    /\ \E e \in todo[w] : ThreadOf[e] = t
    /\ group' = [group EXCEPT ![w] = {e \in todo[w] : ThreadOf[e] = t}]
    /\ todo' = [todo EXCEPT ![w] = {e \in @ : ThreadOf[e] # t}]
    /\ pc' = [pc EXCEPT ![w] = "read"]
    /\ UNCHANGED <<outbox, stored, read, lost, faults>>

\* The conversation of the group that the worker is at.
Thread(w) == CHOOSE t \in Threads : \A e \in group[w] : ThreadOf[e] = t

\* Back to the loop over the groups, or out of runOnce after the last.
LeaveGroup(w) ==
    /\ group' = [group EXCEPT ![w] = {}]
    /\ read' = [read EXCEPT ![w] = NoRead]
    /\ lost' = [lost EXCEPT ![w] = FALSE]
    /\ pc' = [pc EXCEPT ![w] = IF todo[w] = {} THEN "idle" ELSE "groups"]
    /\ UNCHANGED todo

RunOnceEnds(w) ==
    /\ todo' = [todo EXCEPT ![w] = {}]
    /\ group' = [group EXCEPT ![w] = {}]
    /\ read' = [read EXCEPT ![w] = NoRead]
    /\ lost' = [lost EXCEPT ![w] = FALSE]
    /\ pc' = [pc EXCEPT ![w] = "idle"]

\* The conversation's stream is unseeded: its jobs wait for another day.
\* The check comes before the read; the time of the failure is that of the
\* claim, so a lease that has run out since still counts.
DeferGroup(w) ==
    /\ pc[w] = "read"
    /\ Fault
    /\ failContextProjectionJobs(w, {})
    /\ LeaveGroup(w)
    /\ UNCHANGED <<content, stored>>

\* The group's run throws: its jobs fail, and are retried later.
GroupFails(w) ==
    /\ failContextProjectionJobs(w, Lapsed(w)) \/ failContextProjectionJobs(w, {})
    /\ LeaveGroup(w)
    /\ UNCHANGED <<content, stored>>

\* A blob is missing, the store fails, a summary was stored in between, two
\* checkpoints fall in one millisecond.
GroupThrows(w) == pc[w] \in Projecting \cup {"complete"} /\ Fault /\ GroupFails(w)

\* Grouping the jobs or failing a group throws: what is left of the batch is
\* left to its leases.
RunOnceThrows(w) ==
    /\ pc[w] # "idle"
    /\ Fault
    /\ RunOnceEnds(w)
    /\ UNCHANGED <<outbox, stored>>

\* A beat of withProjectionLease's timer, renewing all jobs of the group: one
\* of them is not the worker's any more, or the store fails.
Heartbeat(w) ==
    /\ pc[w] \in Projecting
    /\ lost' = [lost EXCEPT ![w] = TRUE]
    /\ \/ (\E e \in group[w] : ~Holds(w, e) \/ ~job[e].leased) /\ UNCHANGED faults
       \/ Fault
    /\ UNCHANGED <<outbox, stored, pc, todo, group, read>>

openContextReadForThread(w) ==
    /\ pc[w] = "read"
    /\ read' = [read EXCEPT ![w] =
                   [e \in Events |-> IF ThreadOf[e] = Thread(w) THEN content[e] ELSE 0]]
    /\ pc' = [pc EXCEPT ![w] = "compare"]
    /\ UNCHANGED <<outbox, stored, todo, group, lost, faults>>

\* ContextProjectionCheckpoint.sequence
Sequence(r) == Cardinality({e \in Events : r[e] # 0})

compareCheckpoint(w) ==
    /\ pc[w] = "compare"
    /\ \/ /\ Sequence(checkpoint[Thread(w)]) > Sequence(read[w])
          /\ GroupFails(w)
       \/ /\ Sequence(checkpoint[Thread(w)]) <= Sequence(read[w])
          /\ pc' = [pc EXCEPT ![w] = IF checkpoint[Thread(w)] = read[w]
                                     THEN "projected" ELSE "artifact"]
          /\ UNCHANGED <<outbox, stored, todo, group, read, lost>>
    /\ UNCHANGED faults

\* A mutation: the summary is left for later.
putArtifact_skipped(w) ==
    /\ pc[w] = "artifact"
    /\ pc' = [pc EXCEPT ![w] = "checkpoint"]
    /\ UNCHANGED <<outbox, stored, todo, group, read, lost, faults>>

\* An artifact's id is the hash of its inputs, so a summary of the same read
\* is the same summary.
putArtifact(w) ==
    /\ pc[w] = "artifact"
    /\ artifacts' = artifacts \cup {read[w]}
    /\ pc' = [pc EXCEPT ![w] = "checkpoint"]
    /\ UNCHANGED <<outbox, checkpoint, todo, group, read, lost, faults>>

\* Every Event of r is in s, with the same or a newer content.
UpTo(r, s) == \A e \in Events : r[e] <= s[e]

\* A mutation: at the same sequence the last writer wins.
Advances_bySequence(r, s) == Sequence(r) <= Sequence(s)

\* putCheckpoint accepts s after r: more Events, or as many with another
\* watermark and a later updated_at, which is to say a later read.
Advances(r, s) ==
    \/ Sequence(r) < Sequence(s)
    \/ Sequence(r) = Sequence(s) /\ r # s /\ UpTo(r, s)

\* The checkpoint advances.  One that another worker made from the same read
\* is kept if it bears the same time, and else refuses this one.
putCheckpoint(w) ==
    /\ pc[w] = "checkpoint"
    /\ \/ /\ Advances(checkpoint[Thread(w)], read[w])
          /\ checkpoint' = [checkpoint EXCEPT ![Thread(w)] = read[w]]
          /\ pc' = [pc EXCEPT ![w] = "projected"]
          /\ UNCHANGED <<outbox, artifacts, todo, group, read, lost>>
       \/ /\ checkpoint[Thread(w)] = read[w]
          /\ pc' = [pc EXCEPT ![w] = "projected"]
          /\ UNCHANGED <<outbox, stored, todo, group, read, lost>>
       \/ /\ ~Advances(checkpoint[Thread(w)], read[w])
          /\ GroupFails(w)
    /\ UNCHANGED faults

\* The end of withProjectionLease.
LeaseChecked(w) ==
    /\ pc[w] = "projected"
    /\ \/ lost[w] /\ LeaveGroup(w)
       \/ /\ ~lost[w]
          /\ pc' = [pc EXCEPT ![w] = "complete"]
          /\ UNCHANGED <<todo, group, read, lost>>
    /\ UNCHANGED <<outbox, stored, faults>>

CompleteOne(w, e) ==
    /\ pc[w] = "complete" /\ e \in group[w]
    /\ completeContextProjectionJob(w, e)
    /\ \/ group[w] = {e} /\ LeaveGroup(w)
       \/ /\ group[w] # {e}
          /\ group' = [group EXCEPT ![w] = @ \ {e}]
          /\ UNCHANGED <<pc, todo, read, lost>>
    /\ UNCHANGED <<content, stored, faults>>

\* A job of the group is not the worker's any more: the others are left.
CompleteRefused(w, e) ==
    /\ pc[w] = "complete" /\ e \in group[w]
    /\ ~Holds(w, e) \/ ~job[e].leased
    /\ LeaveGroup(w)
    /\ UNCHANGED <<outbox, stored, faults>>

\* The process dies.  Its successor has an owner id of its own.
Crash(w) ==
    /\ pc[w] # "idle"
    /\ Fault
    /\ job' = [e \in Events |-> IF job[e].owner = w THEN [job[e] EXCEPT !.owner = None] ELSE job[e]]
    /\ RunOnceEnds(w)
    /\ UNCHANGED <<content, stored>>

RunOnceStep(w) ==
    \/ claimContextProjectionJobs(w)
    \/ \E t \in Threads : NextGroup(w, t)
    \/ openContextReadForThread(w) \/ compareCheckpoint(w) \/ putArtifact(w) \/ putCheckpoint(w)
    \/ LeaseChecked(w)
    \/ \E e \in Events : CompleteOne(w, e) \/ CompleteRefused(w, e)

Next ==
    \/ \E e \in Events : insertEvent(e) \/ repointContentHash(e) \/ LeaseExpires(e) \/ LeaseOutlived(e)
    \/ \E w \in Workers :
          \/ RunOnceStep(w) \/ Heartbeat(w)
          \/ DeferGroup(w) \/ GroupThrows(w) \/ RunOnceThrows(w) \/ Crash(w)

Spec == Init /\ [][Next]_vars

\* The timer of a worker comes back, what it began goes on, and time passes.
Fairness ==
    /\ \A w \in Workers : WF_vars(RunOnceStep(w))
    /\ \A e \in Events : WF_vars(LeaseExpires(e))

FairSpec == Spec /\ Fairness

-----------------------------------------------------------------------------
(* Properties *)

\* A job is settled only when the projection has it: the conversation's
\* checkpoint was made from a read that saw the Event with the content it
\* has now.  A worker that lost its lease, or whose Event was repointed while
\* it worked, cannot settle the job with what it read before.
SucceededIsProjected ==
    \A e \in Events : job[e].status = "succeeded" => checkpoint[ThreadOf[e]][e] = content[e]

\* A checkpoint is never ahead of the summaries: the summary of the read that
\* it stands for is stored, whatever worker stopped where.
CheckpointIsBacked ==
    \A t \in Threads : checkpoint[t] = NoRead \/ checkpoint[t] \in artifacts

\* No worker, however late, takes a conversation's checkpoint back to a read
\* that misses an Event or knows an older content of one.
CheckpointMovesForward == [][\A t \in Threads : UpTo(checkpoint[t], checkpoint'[t])]_vars

\* Every stored Event is projected in the end, with the content it ends with.
EveryEventIsProjected ==
    <>[](\A e \in Events : content[e] # 0 => job[e].status = "succeeded")

=============================================================================
