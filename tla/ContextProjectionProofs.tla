---------------------- MODULE ContextProjectionProofs ----------------------
(***************************************************************************)
(* For any number of Events, conversations, workers and faults: a settled  *)
(* job is projected, a checkpoint is backed by a stored summary, and a     *)
(* checkpoint never moves back.                                            *)
(*                                                                         *)
(* None of the three is inductive.  A settled job is projected because the *)
(* worker that holds a job has read its Event's present content (Fresh): a *)
(* repoint takes the job away in the same transaction.  A checkpoint moves *)
(* forward because all reads of one conversation lie on one line, the      *)
(* history of its contents (OneLine): of two of them the one with more     *)
(* Events is the later one.                                                *)
(***************************************************************************)
EXTENDS ContextProjection, FiniteSetTheorems, TLAPS

Reading == {"compare", "artifact", "checkpoint"}

\* A worker is at a group exactly while it projects or settles it, and the
\* jobs of a group belong to one conversation.
GroupInv ==
    \A w \in Workers :
        /\ group[w] = {} <=> pc[w] \in {"idle", "groups"}
        /\ \A e, f \in group[w] : ThreadOf[e] = ThreadOf[f]

\* A read has Events of the conversation only, and no content of the future.
ReadOf(t, r) ==
    /\ UpTo(r, content)
    /\ \A e \in Events : ThreadOf[e] # t => r[e] = 0

Ordered(r, s) == UpTo(r, s) \/ UpTo(s, r)

\* The checkpoint and the reads under way of a conversation lie on one line.
OneLine ==
    /\ \A t \in Threads : ReadOf(t, checkpoint[t])
    /\ \A w \in Workers : \A g \in group[w] : pc[w] \in Reading =>
          /\ ReadOf(ThreadOf[g], read[w])
          /\ Ordered(read[w], checkpoint[ThreadOf[g]])
          /\ \A v \in Workers : \A f \in group[v] :
                pc[v] \in Reading /\ ThreadOf[f] = ThreadOf[g] => Ordered(read[w], read[v])

\* What a worker has read, or projected, of an Event whose job it holds is the
\* Event's present content.
Fresh ==
    \A w \in Workers : \A e \in group[w] : Holds(w, e) =>
        /\ pc[w] \in Reading => read[w][e] = content[e]
        /\ pc[w] \in {"projected", "complete"} => checkpoint[ThreadOf[e]][e] = content[e]

\* A worker puts the summary before the checkpoint.
SummaryFirst == \A w \in Workers : pc[w] = "checkpoint" => read[w] \in artifacts

IInv ==
    /\ TypeOK /\ GroupInv /\ OneLine /\ Fresh /\ SucceededIsProjected
    /\ SummaryFirst /\ CheckpointIsBacked

-----------------------------------------------------------------------------
(* Reads *)

\* A read with more Events than a comparable one is the later one: what
\* putCheckpoint's test of the sequence rests on.
LEMMA AdvancesIsUpTo ==
    ASSUME NEW r \in Read, NEW s \in Read, Ordered(r, s), Advances(r, s)
    PROVE  UpTo(r, s)
<1>1. CASE UpTo(r, s)
  BY <1>1
<1>2. CASE UpTo(s, r) /\ Sequence(r) < Sequence(s)
  <2> DEFINE R == {e \in Events : r[e] # 0}
             S == {e \in Events : s[e] # 0}
  <2>1. S \subseteq R
    BY <1>2 DEF UpTo, Read
  <2>2. IsFiniteSet(R)
    BY ProjectionAssumption, FS_Subset
  <2>3. Cardinality(S) <= Cardinality(R) /\ Cardinality(S) \in Nat /\ Cardinality(R) \in Nat
    BY <2>1, <2>2, FS_Subset, FS_CardinalityType
  <2> QED
    BY <1>2, <2>3 DEF Sequence
<1> QED
  BY <1>1, <1>2 DEF Ordered, Advances

\* A checkpoint does not advance to itself.
LEMMA AdvancesIsStrict ==
    ASSUME NEW r \in Read
    PROVE  ~Advances(r, r)
<1>1. Sequence(r) \in Nat
  BY ProjectionAssumption, FS_Subset, FS_CardinalityType DEF Sequence
<1> QED
  BY <1>1 DEF Advances

\* The conversation of a group is the conversation of each of its Events.
LEMMA ThreadOfGroup ==
    ASSUME TypeOK, GroupInv, NEW w \in Workers, NEW e \in group[w]
    PROVE  Thread(w) = ThreadOf[e] /\ Thread(w) \in Threads
<1>1. ThreadOf[e] \in Threads /\ \A f \in group[w] : ThreadOf[f] = ThreadOf[e]
  BY ProjectionAssumption DEF TypeOK, GroupInv
<1> QED
  BY <1>1 DEF Thread

-----------------------------------------------------------------------------
(* Type correctness *)

LEMMA TypeInit == Init => TypeOK
  BY ProjectionAssumption DEF Init, TypeOK, Read, NoRead, Job, NoJob

LEMMA TypeNext == TypeOK /\ GroupInv /\ [Next]_vars => TypeOK'
<1> SUFFICES ASSUME TypeOK, GroupInv, [Next]_vars PROVE TypeOK'
  OBVIOUS
<1> USE ProjectionAssumption DEF TypeOK, Read, NoRead, Job, NoJob, Projecting
<1>0. ASSUME NEW e \in Events, enqueueContextProjection(e) PROVE job' \in [Events -> Job]
  <2>1. [NoJob EXCEPT !.status = "pending"] \in Job
    OBVIOUS
  <2> QED
    BY <1>0, <2>1 DEF enqueueContextProjection
<1>1. ASSUME NEW e \in Events, insertEvent(e) PROVE TypeOK'
  <2>1. job' \in [Events -> Job] /\ content' \in Read
    BY <1>0, <1>1 DEF insertEvent
  <2> QED
    BY <1>1, <2>1 DEF insertEvent, stored, running
<1>2. ASSUME NEW e \in Events, repointContentHash(e) PROVE TypeOK'
  <2>1. job' \in [Events -> Job] /\ content' \in Read
    BY <1>0, <1>2 DEF repointContentHash
  <2> QED
    BY <1>2, <2>1 DEF repointContentHash, stored, running
<1>a. \A j \in Job : /\ [j EXCEPT !.leased = FALSE] \in Job
                     /\ [j EXCEPT !.owner = None] \in Job
  OBVIOUS
<1>b. ASSUME NEW e \in Events, job' = [job EXCEPT ![e].leased = FALSE]
      PROVE  job' \in [Events -> Job]
  <2>1. job' = [job EXCEPT ![e] = [job[e] EXCEPT !.leased = FALSE]]
    BY <1>b
  <2> QED
    BY <1>a, <2>1
<1>3. ASSUME NEW e \in Events, LeaseExpires(e) PROVE TypeOK'
  <2>1. job' \in [Events -> Job]
    BY <1>3, <1>b DEF LeaseExpires
  <2> QED
    BY <1>3, <2>1 DEF LeaseExpires, stored, running
<1>4. ASSUME NEW e \in Events, LeaseOutlived(e) PROVE TypeOK'
  <2>1. job' \in [Events -> Job]
    BY <1>4, <1>b DEF LeaseOutlived
  <2> QED
    BY <1>4, <2>1 DEF LeaseOutlived, Fault, stored, running
<1>5. ASSUME NEW w \in Workers, claimContextProjectionJobs(w) PROVE TypeOK'
  BY <1>5 DEF claimContextProjectionJobs, Due, stored
<1>6. ASSUME NEW w \in Workers, NEW t \in Threads, NextGroup(w, t) PROVE TypeOK'
  BY <1>6 DEF NextGroup, outbox, stored
<1>7. ASSUME NEW w \in Workers, openContextReadForThread(w) PROVE TypeOK'
  BY <1>7 DEF openContextReadForThread, outbox, stored
<1>8. ASSUME NEW w \in Workers, NEW kept, failContextProjectionJobs(w, kept)
      PROVE  job' \in [Events -> Job]
  BY <1>8 DEF failContextProjectionJobs
<1>9. ASSUME NEW w \in Workers, GroupFails(w), UNCHANGED faults \/ Fault PROVE TypeOK'
  <2>1. job' \in [Events -> Job]
    BY <1>8, <1>9 DEF GroupFails
  <2> QED
    BY <1>9, <2>1 DEF GroupFails, LeaveGroup, Fault, stored
<1>10. ASSUME NEW w \in Workers, DeferGroup(w) PROVE TypeOK'
  <2>1. job' \in [Events -> Job]
    BY <1>8, <1>10 DEF DeferGroup
  <2> QED
    BY <1>10, <2>1 DEF DeferGroup, LeaveGroup, Fault, stored
<1>11. ASSUME NEW w \in Workers, compareCheckpoint(w) PROVE TypeOK'
  <2>1. CASE GroupFails(w)
    BY <1>9, <1>11, <2>1 DEF compareCheckpoint
  <2>2. CASE ~GroupFails(w)
    BY <1>11, <2>2 DEF compareCheckpoint, outbox, stored
  <2> QED
    BY <2>1, <2>2
<1>12. ASSUME NEW w \in Workers, putArtifact(w) PROVE TypeOK'
  BY <1>12 DEF putArtifact, outbox
<1>13. ASSUME NEW w \in Workers, putCheckpoint(w) PROVE TypeOK'
  <2>1. CASE GroupFails(w)
    BY <1>9, <1>13, <2>1 DEF putCheckpoint
  <2>2. CASE ~GroupFails(w) /\ Advances(checkpoint[Thread(w)], read[w])
    BY <1>13, <2>2 DEF putCheckpoint, outbox, stored
  <2>3. CASE ~GroupFails(w) /\ ~Advances(checkpoint[Thread(w)], read[w])
    BY <1>13, <2>3 DEF putCheckpoint, outbox, stored
  <2> QED
    BY <2>1, <2>2, <2>3
<1>14. ASSUME NEW w \in Workers, LeaseChecked(w) PROVE TypeOK'
  <2>1. CASE LeaveGroup(w)
    BY <1>14, <2>1 DEF LeaseChecked, LeaveGroup, outbox, stored
  <2>2. CASE ~LeaveGroup(w)
    BY <1>14, <2>2 DEF LeaseChecked, outbox, stored
  <2> QED
    BY <2>1, <2>2
<1>15. ASSUME NEW w \in Workers, NEW e \in Events, CompleteOne(w, e) PROVE TypeOK'
  <2>1. job' \in [Events -> Job]
    BY <1>15 DEF CompleteOne, completeContextProjectionJob
  <2>2. UNCHANGED <<content, checkpoint, artifacts, faults>>
    BY <1>15 DEF CompleteOne, stored
  <2>3. CASE LeaveGroup(w)
    BY <2>1, <2>2, <2>3 DEF LeaveGroup
  <2>4. CASE /\ group' = [group EXCEPT ![w] = @ \ {e}]
             /\ UNCHANGED <<pc, todo, read, lost>>
    BY <2>1, <2>2, <2>4
  <2> QED
    BY <1>15, <2>3, <2>4 DEF CompleteOne
<1>16. ASSUME NEW w \in Workers, NEW e \in Events, CompleteRefused(w, e) PROVE TypeOK'
  BY <1>16 DEF CompleteRefused, LeaveGroup, outbox, stored
<1>17. ASSUME NEW w \in Workers, Heartbeat(w) PROVE TypeOK'
  BY <1>17 DEF Heartbeat, Fault, outbox, stored
<1>18. ASSUME NEW w \in Workers, GroupThrows(w) PROVE TypeOK'
  BY <1>9, <1>18 DEF GroupThrows
<1>19. ASSUME NEW w \in Workers, RunOnceThrows(w) PROVE TypeOK'
  BY <1>19 DEF RunOnceThrows, RunOnceEnds, Fault, outbox, stored
<1>20. ASSUME NEW w \in Workers, Crash(w) PROVE TypeOK'
  <2>1. job' \in [Events -> Job]
    BY <1>a, <1>20 DEF Crash
  <2> QED
    BY <1>20, <2>1 DEF Crash, RunOnceEnds, Fault, stored
<1>21. CASE UNCHANGED vars
  BY <1>21 DEF vars, outbox, stored, running
<1> QED
  BY <1>1, <1>2, <1>3, <1>4, <1>5, <1>6, <1>7, <1>10, <1>11, <1>12, <1>13, <1>14, <1>15, <1>16,
     <1>17, <1>18, <1>19, <1>20, <1>21 DEF Next, RunOnceStep

-----------------------------------------------------------------------------
(* The steps that bring nothing new *)

\* No job has got a new holder, and none was settled.
NothingGained ==
    \A e \in Events :
        /\ job'[e].status = "succeeded" => job[e].status = "succeeded"
        /\ \A v \in Workers : Holds(v, e)' => Holds(v, e)

\* A step that changes leases and counters only.
LEMMA LeaseStep ==
    ASSUME IInv, TypeOK', NothingGained,
           UNCHANGED <<content, checkpoint, artifacts, pc, group, read>>
    PROVE  IInv'
<1>1. GroupInv'
  BY DEF IInv, GroupInv
<1>2. OneLine'
  BY DEF IInv, OneLine, ReadOf, UpTo, Ordered
<1>3. Fresh'
  BY DEF IInv, TypeOK, Fresh, NothingGained
<1>4. SucceededIsProjected'
  BY DEF IInv, SucceededIsProjected, NothingGained
<1>5. SummaryFirst' /\ CheckpointIsBacked'
  BY DEF IInv, SummaryFirst, CheckpointIsBacked, NoRead
<1> QED
  BY <1>1, <1>2, <1>3, <1>4, <1>5 DEF IInv

\* A worker gives up its group.
Retreat(w) ==
    /\ UNCHANGED <<content, checkpoint, artifacts>>
    /\ group' = [group EXCEPT ![w] = {}]
    /\ read' = [read EXCEPT ![w] = NoRead]
    /\ pc' = [pc EXCEPT ![w] = "idle"] \/ pc' = [pc EXCEPT ![w] = "groups"]

LEMMA RetreatStep ==
    ASSUME IInv, TypeOK', NothingGained, NEW w \in Workers, Retreat(w)
    PROVE  IInv'
<1>0. /\ group'[w] = {} /\ pc'[w] \in {"idle", "groups"}
      /\ \A v \in Workers \ {w} : group'[v] = group[v] /\ pc'[v] = pc[v] /\ read'[v] = read[v]
      /\ UNCHANGED <<content, checkpoint, artifacts>>
  BY DEF Retreat, IInv, TypeOK
<1>1. GroupInv'
  BY <1>0 DEF IInv, GroupInv
<1>2. OneLine'
  BY <1>0 DEF IInv, OneLine, ReadOf, UpTo, Ordered, Reading
<1>3. Fresh'
  BY <1>0 DEF IInv, TypeOK, Fresh, NothingGained
<1>4. SucceededIsProjected'
  BY <1>0 DEF IInv, SucceededIsProjected, NothingGained
<1>5. SummaryFirst' /\ CheckpointIsBacked'
  BY <1>0 DEF IInv, SummaryFirst, CheckpointIsBacked, NoRead
<1> QED
  BY <1>1, <1>2, <1>3, <1>4, <1>5 DEF IInv

LEMMA FailGainsNothing ==
    ASSUME TypeOK, NEW w \in Workers, NEW kept, failContextProjectionJobs(w, kept)
    PROVE  NothingGained
  BY DEF TypeOK, failContextProjectionJobs, NothingGained, Holds, NoJob

LEMMA SameJobsGainNothing == UNCHANGED job => NothingGained
  BY DEF NothingGained, Holds

LEMMA LeaveGroupRetreats ==
    ASSUME NEW w \in Workers, LeaveGroup(w), UNCHANGED <<content, checkpoint, artifacts>>
    PROVE  Retreat(w)
  BY DEF LeaveGroup, Retreat

LEMMA GroupFailsStep ==
    ASSUME IInv, TypeOK', NEW w \in Workers, GroupFails(w)
    PROVE  IInv'
<1>1. NothingGained
  BY FailGainsNothing DEF GroupFails, IInv
<1>2. Retreat(w)
  BY LeaveGroupRetreats DEF GroupFails, stored
<1> QED
  BY <1>1, <1>2, RetreatStep

-----------------------------------------------------------------------------
(* The steps that bring something *)

\* An Event is stored or repointed: its job is nobody's, its content moves on.
LEMMA ContentStep ==
    ASSUME IInv, TypeOK', NEW e \in Events, enqueueContextProjection(e),
           NEW n \in Nat, content' = [content EXCEPT ![e] = n], content[e] <= n,
           UNCHANGED <<stored, running>>
    PROVE  IInv'
<1>0. /\ job'[e].status = "pending"
      /\ \A f \in Events \ {e} : job'[f] = job[f] /\ content'[f] = content[f]
      /\ \A f \in Events : content[f] <= content'[f]
      /\ UNCHANGED <<checkpoint, artifacts, pc, group, read>>
  BY DEF enqueueContextProjection, NoJob, IInv, TypeOK, Read, stored, running
<1>1. GroupInv'
  BY <1>0 DEF IInv, GroupInv
<1>2. ASSUME NEW t, NEW r \in Read, ReadOf(t, r) PROVE ReadOf(t, r)'
  <2>1. \A f \in Events : r[f] \in Nat /\ content[f] \in Nat /\ content'[f] \in Nat
    BY DEF Read, IInv, TypeOK
  <2> QED
    BY <1>0, <1>2, <2>1 DEF ReadOf, UpTo
<1>3. OneLine'
  <2>1. \A t \in Threads : ReadOf(t, checkpoint[t])'
    BY <1>0, <1>2 DEF IInv, TypeOK, OneLine
  <2>2. ASSUME NEW w \in Workers, NEW g \in group[w], pc[w] \in Reading
        PROVE  ReadOf(ThreadOf[g], read[w])'
    BY <1>0, <1>2, <2>2 DEF IInv, TypeOK, OneLine
  <2> QED
    BY <1>0, <2>1, <2>2 DEF IInv, OneLine, Ordered, UpTo
<1>4. Fresh'
  BY <1>0 DEF IInv, TypeOK, Fresh, Holds
<1>5. SucceededIsProjected'
  BY <1>0 DEF IInv, SucceededIsProjected
<1>6. SummaryFirst' /\ CheckpointIsBacked'
  BY <1>0 DEF IInv, SummaryFirst, CheckpointIsBacked, NoRead
<1> QED
  BY <1>1, <1>3, <1>4, <1>5, <1>6 DEF IInv

\* The claimed jobs get a holder that is at no group.
LEMMA ClaimStep ==
    ASSUME IInv, TypeOK', NEW w \in Workers, claimContextProjectionJobs(w)
    PROVE  IInv'
<1>0. /\ group[w] = {} /\ pc'[w] = "groups"
      /\ \A v \in Workers \ {w} : pc'[v] = pc[v]
      /\ UNCHANGED <<content, checkpoint, artifacts, group, read>>
  BY DEF claimContextProjectionJobs, IInv, TypeOK, GroupInv, stored
<1>1. \A f \in Events : /\ job'[f].status = "succeeded" => job[f].status = "succeeded"
                        /\ \A v \in Workers \ {w} : Holds(v, f)' => Holds(v, f)
  BY DEF claimContextProjectionJobs, Holds, IInv, TypeOK
<1>2. GroupInv'
  BY <1>0 DEF IInv, GroupInv
<1>3. OneLine'
  BY <1>0 DEF IInv, OneLine, ReadOf, UpTo, Ordered, Reading
<1>4. Fresh'
  BY <1>0, <1>1 DEF IInv, TypeOK, Fresh
<1>5. SucceededIsProjected'
  BY <1>0, <1>1 DEF IInv, SucceededIsProjected
<1>6. SummaryFirst' /\ CheckpointIsBacked'
  BY <1>0 DEF IInv, SummaryFirst, CheckpointIsBacked, NoRead
<1> QED
  BY <1>2, <1>3, <1>4, <1>5, <1>6 DEF IInv

LEMMA NextGroupStep ==
    ASSUME IInv, TypeOK', NEW w \in Workers, NEW t \in Threads, NextGroup(w, t)
    PROVE  IInv'
<1>0. /\ group'[w] # {} /\ pc'[w] = "read" /\ \A e \in group'[w] : ThreadOf[e] = t
      /\ \A v \in Workers \ {w} : pc'[v] = pc[v] /\ group'[v] = group[v]
      /\ UNCHANGED <<content, checkpoint, artifacts, read, job>>
  BY DEF NextGroup, IInv, TypeOK, stored, outbox
<1>1. GroupInv'
  BY <1>0 DEF IInv, GroupInv
<1>2. OneLine'
  BY <1>0 DEF IInv, OneLine, ReadOf, UpTo, Ordered, Reading
<1>3. Fresh'
  BY <1>0 DEF IInv, TypeOK, Fresh, Holds, Reading
<1>4. SucceededIsProjected'
  BY <1>0 DEF IInv, SucceededIsProjected
<1>5. SummaryFirst' /\ CheckpointIsBacked'
  BY <1>0 DEF IInv, SummaryFirst, CheckpointIsBacked, NoRead
<1> QED
  BY <1>1, <1>2, <1>3, <1>4, <1>5 DEF IInv

\* A new read is the present: it is ahead of all reads of its conversation.
LEMMA ReadStep ==
    ASSUME IInv, TypeOK', NEW w \in Workers, openContextReadForThread(w)
    PROVE  IInv'
<1> DEFINE r == read'[w]
<1>0. /\ pc[w] = "read" /\ pc'[w] = "compare" /\ group[w] # {}
      /\ r = [e \in Events |-> IF ThreadOf[e] = Thread(w) THEN content[e] ELSE 0]
      /\ \A v \in Workers \ {w} : pc'[v] = pc[v] /\ read'[v] = read[v]
      /\ UNCHANGED <<content, job, checkpoint, artifacts, group>>
  BY DEF openContextReadForThread, IInv, TypeOK, GroupInv, stored, outbox
<1>1. \A e \in group[w] : Thread(w) = ThreadOf[e] /\ e \in Events
  BY ThreadOfGroup DEF IInv, TypeOK
<1>2. r \in Read /\ content \in Read
  BY DEF IInv, TypeOK
<1>3. ReadOf(Thread(w), r)
  BY <1>0, <1>2 DEF ReadOf, UpTo, Read
<1>4. ASSUME NEW q \in Read, ReadOf(Thread(w), q) PROVE UpTo(q, r)
  BY <1>0, <1>2, <1>4 DEF ReadOf, UpTo, Read
<1>5. GroupInv'
  BY <1>0 DEF IInv, GroupInv
<1>6. OneLine'
  <2>1. \A t \in Threads : ReadOf(t, checkpoint[t])'
    BY <1>0 DEF IInv, OneLine, ReadOf, UpTo
  <2>2. ASSUME NEW g \in group[w]
        PROVE  ReadOf(ThreadOf[g], read[w])' /\ UpTo(checkpoint[ThreadOf[g]], read[w])'
    <3>1. ThreadOf[g] = Thread(w) /\ ThreadOf[g] \in Threads
      BY <1>1, ProjectionAssumption
    <3>2. checkpoint[ThreadOf[g]] \in Read /\ ReadOf(Thread(w), checkpoint[ThreadOf[g]])
      BY <3>1 DEF IInv, TypeOK, OneLine
    <3>3. UpTo(checkpoint[ThreadOf[g]], r)
      BY <1>4, <3>2
    <3> QED
      BY <1>0, <1>3, <3>1, <3>3 DEF ReadOf, UpTo
  <2>3. ASSUME NEW g \in group[w], NEW v \in Workers \ {w}, NEW f \in group[v],
               pc[v] \in Reading, ThreadOf[f] = ThreadOf[g]
        PROVE  UpTo(read[v], r)
    <3>1. read[v] \in Read /\ ReadOf(Thread(w), read[v])
      BY <1>1, <2>3 DEF IInv, TypeOK, OneLine
    <3> QED
      BY <1>4, <3>1
  <2>4. UpTo(r, r)
    BY <1>2 DEF UpTo, Read
  <2>5. ASSUME NEW v \in Workers, NEW g \in group'[v], pc'[v] \in Reading
        PROVE  /\ ReadOf(ThreadOf[g], read[v])'
               /\ Ordered(read[v], checkpoint[ThreadOf[g]])'
               /\ \A u \in Workers : \A f \in group'[u] :
                     pc'[u] \in Reading /\ ThreadOf[f] = ThreadOf[g] => Ordered(read'[v], read'[u])
    <3>1. CASE v = w
      BY <1>0, <2>2, <2>3, <2>4, <2>5, <3>1 DEF Ordered, UpTo
    <3>2. CASE v # w
      <4>1. /\ ReadOf(ThreadOf[g], read[v]) /\ Ordered(read[v], checkpoint[ThreadOf[g]])
            /\ \A u \in Workers : \A f \in group[u] :
                  pc[u] \in Reading /\ ThreadOf[f] = ThreadOf[g] => Ordered(read[v], read[u])
        BY <1>0, <2>5, <3>2 DEF IInv, OneLine
      <4>2. ReadOf(ThreadOf[g], read[v])' /\ Ordered(read[v], checkpoint[ThreadOf[g]])'
        BY <1>0, <3>2, <4>1 DEF ReadOf, Ordered, UpTo
      <4>3. ASSUME NEW u \in Workers, NEW f \in group'[u], pc'[u] \in Reading,
                   ThreadOf[f] = ThreadOf[g]
            PROVE  Ordered(read'[v], read'[u])
        <5>1. CASE u = w
          BY <1>0, <2>3, <2>5, <3>2, <4>3, <5>1 DEF Ordered
        <5>2. CASE u # w
          BY <1>0, <3>2, <4>1, <4>3, <5>2
        <5> QED
          BY <5>1, <5>2
      <4> QED
        BY <4>2, <4>3
    <3> QED
      BY <3>1, <3>2
  <2> QED
    BY <2>1, <2>5 DEF OneLine, Ordered, UpTo
<1>7. Fresh'
  BY <1>0, <1>1 DEF IInv, TypeOK, Fresh, Holds, Reading
<1>8. SucceededIsProjected'
  BY <1>0 DEF IInv, SucceededIsProjected
<1>9. SummaryFirst' /\ CheckpointIsBacked'
  BY <1>0 DEF IInv, SummaryFirst, CheckpointIsBacked, NoRead
<1> QED
  BY <1>5, <1>6, <1>7, <1>8, <1>9 DEF IInv

\* The checkpoint is compared with the read, the summary put, or the lease
\* found unbroken: the worker goes on with the read it has.
LEMMA GoOnStep ==
    ASSUME IInv, TypeOK', NEW w \in Workers,
           UNCHANGED <<content, job, checkpoint, group, read>>,
           \/ /\ pc[w] \in {"compare", "checkpoint"} /\ pc' = [pc EXCEPT ![w] = "projected"]
              /\ checkpoint[Thread(w)] = read[w] /\ UNCHANGED artifacts
           \/ /\ pc[w] = "compare" /\ pc' = [pc EXCEPT ![w] = "artifact"]
              /\ UNCHANGED artifacts
           \/ /\ pc[w] = "artifact" /\ pc' = [pc EXCEPT ![w] = "checkpoint"]
              /\ artifacts' = artifacts \cup {read[w]}
           \/ /\ pc[w] = "projected" /\ pc' = [pc EXCEPT ![w] = "complete"]
              /\ UNCHANGED artifacts
    PROVE  IInv'
<1>0. /\ pc[w] \notin {"idle", "groups"} /\ pc'[w] \notin {"idle", "groups"}
      /\ pc'[w] \in Reading => pc[w] \in Reading
      /\ \A v \in Workers \ {w} : pc'[v] = pc[v]
      /\ artifacts \subseteq artifacts'
      /\ pc'[w] = "checkpoint" => read[w] \in artifacts'
      /\ pc'[w] = "projected" => pc[w] \in Reading /\ checkpoint[Thread(w)] = read[w]
      /\ pc'[w] = "complete" => pc[w] = "projected"
  BY DEF IInv, TypeOK, Reading
<1>1. GroupInv'
  BY <1>0 DEF IInv, GroupInv
<1>2. \A v \in Workers : pc'[v] \in Reading => pc[v] \in Reading
  BY <1>0
<1>3. OneLine'
  BY <1>2 DEF IInv, OneLine, ReadOf, UpTo, Ordered
<1>4. Fresh'
  <2>1. ASSUME NEW v \in Workers, NEW e \in group[v], Holds(v, e)
        PROVE  /\ pc'[v] \in Reading => read[v][e] = content[e]
               /\ pc'[v] \in {"projected", "complete"} => checkpoint[ThreadOf[e]][e] = content[e]
    <3>1. Thread(v) = ThreadOf[e]
      BY ThreadOfGroup DEF IInv
    <3> QED
      BY <1>0, <2>1, <3>1 DEF IInv, Fresh
  <2> QED
    BY <2>1 DEF Fresh, Holds
<1>5. SucceededIsProjected'
  BY DEF IInv, SucceededIsProjected
<1>6. SummaryFirst' /\ CheckpointIsBacked'
  BY <1>0 DEF IInv, SummaryFirst, CheckpointIsBacked, NoRead
<1> QED
  BY <1>1, <1>3, <1>4, <1>5, <1>6 DEF IInv

\* The checkpoint of a worker's conversation moves forward to its read.
LEMMA CheckpointForward ==
    ASSUME IInv, NEW w \in Workers, pc[w] = "checkpoint",
           Advances(checkpoint[Thread(w)], read[w])
    PROVE  /\ Thread(w) \in Threads
           /\ UpTo(checkpoint[Thread(w)], read[w])
           /\ ReadOf(Thread(w), read[w])
<1>1. PICK e \in group[w] : TRUE
  BY DEF IInv, GroupInv
<1>2. Thread(w) = ThreadOf[e] /\ Thread(w) \in Threads
  BY ThreadOfGroup DEF IInv
<1>3. /\ ReadOf(Thread(w), read[w]) /\ Ordered(read[w], checkpoint[Thread(w)])
      /\ read[w] \in Read /\ checkpoint[Thread(w)] \in Read
  BY <1>2 DEF IInv, TypeOK, OneLine, Reading
<1> QED
  BY <1>2, <1>3, AdvancesIsUpTo DEF Ordered

LEMMA CheckpointStep ==
    ASSUME IInv, TypeOK', NEW w \in Workers, pc[w] = "checkpoint",
           Advances(checkpoint[Thread(w)], read[w]),
           checkpoint' = [checkpoint EXCEPT ![Thread(w)] = read[w]],
           pc' = [pc EXCEPT ![w] = "projected"],
           UNCHANGED <<content, job, artifacts, group, read>>
    PROVE  IInv'
<1>0. /\ Thread(w) \in Threads /\ UpTo(checkpoint[Thread(w)], read[w])
      /\ ReadOf(Thread(w), read[w])
  BY CheckpointForward
<1>1. /\ checkpoint'[Thread(w)] = read[w]
      /\ \A t \in Threads : t # Thread(w) => checkpoint'[t] = checkpoint[t]
      /\ pc'[w] = "projected" /\ \A v \in Workers \ {w} : pc'[v] = pc[v]
  BY <1>0 DEF IInv, TypeOK
<1>2. \A t \in Threads : \A e \in Events :
          checkpoint[t][e] = content[e] => checkpoint'[t][e] = content[e]
  <2> SUFFICES ASSUME NEW e \in Events, checkpoint[Thread(w)][e] = content[e]
               PROVE  read[w][e] = content[e]
    BY <1>1
  <2>1. content[e] <= read[w][e] /\ read[w][e] <= content[e]
    BY <1>0 DEF UpTo, ReadOf
  <2>2. content[e] \in Nat /\ read[w][e] \in Nat
    BY DEF IInv, TypeOK, Read
  <2> QED
    BY <2>1, <2>2
<1>3. GroupInv'
  BY <1>1 DEF IInv, GroupInv
<1>4. OneLine'
  <2>1. \A t \in Threads : ReadOf(t, checkpoint[t])'
    BY <1>0, <1>1 DEF IInv, OneLine, ReadOf, UpTo
  <2>2. ASSUME NEW v \in Workers, NEW g \in group[v], pc'[v] \in Reading
        PROVE  /\ ReadOf(ThreadOf[g], read[v])
               /\ Ordered(read[v], checkpoint'[ThreadOf[g]])
               /\ \A u \in Workers : \A f \in group[u] :
                     pc'[u] \in Reading /\ ThreadOf[f] = ThreadOf[g] => Ordered(read[v], read[u])
    <3>1. v # w /\ pc[v] \in Reading
      BY <1>1, <2>2 DEF Reading
    <3>2. /\ ReadOf(ThreadOf[g], read[v])
          /\ Ordered(read[v], checkpoint[ThreadOf[g]])
          /\ \A u \in Workers : \A f \in group[u] :
                pc[u] \in Reading /\ ThreadOf[f] = ThreadOf[g] => Ordered(read[v], read[u])
      BY <2>2, <3>1 DEF IInv, OneLine
    <3>3. \A u \in Workers : pc'[u] \in Reading => pc[u] \in Reading
      BY <1>1 DEF Reading
    <3>4. ThreadOf[g] = Thread(w) => Ordered(read[v], read[w])
      <4>1. PICK f \in group[w] : TRUE
        BY DEF IInv, GroupInv
      <4>2. ThreadOf[f] = Thread(w) /\ pc[w] \in Reading
        BY ThreadOfGroup DEF IInv, Reading
      <4> QED
        BY <3>2, <4>2
    <3>5. ThreadOf[g] \in Threads
      BY ProjectionAssumption DEF IInv, TypeOK
    <3>6. Ordered(read[v], checkpoint'[ThreadOf[g]])
      <4>1. CASE ThreadOf[g] = Thread(w)
        BY <1>1, <3>4, <4>1
      <4>2. CASE ThreadOf[g] # Thread(w)
        BY <1>1, <3>2, <3>5, <4>2
      <4> QED
        BY <4>1, <4>2
    <3> QED
      BY <3>2, <3>3, <3>6
  <2> QED
    BY <2>1, <2>2 DEF OneLine, ReadOf, UpTo, Ordered
<1>5. Fresh'
  <2>1. ASSUME NEW v \in Workers, NEW e \in group[v], Holds(v, e)
        PROVE  /\ pc'[v] \in Reading => read[v][e] = content[e]
               /\ pc'[v] \in {"projected", "complete"} => checkpoint'[ThreadOf[e]][e] = content[e]
    <3>1. e \in Events /\ ThreadOf[e] \in Threads
      BY ProjectionAssumption DEF IInv, TypeOK
    <3>2. CASE v = w
      BY <1>1, <2>1, <3>1, <3>2, ThreadOfGroup DEF IInv, Fresh, Reading
    <3>3. CASE v # w
      BY <1>1, <1>2, <2>1, <3>1, <3>3 DEF IInv, Fresh
    <3> QED
      BY <3>2, <3>3
  <2> QED
    BY <2>1 DEF Fresh, Holds
<1>6. SucceededIsProjected'
  BY <1>2, ProjectionAssumption DEF IInv, SucceededIsProjected
<1>7. SummaryFirst'
  BY <1>1 DEF IInv, SummaryFirst
<1>8. CheckpointIsBacked'
  BY <1>1 DEF IInv, SummaryFirst, CheckpointIsBacked, NoRead
<1> QED
  BY <1>3, <1>4, <1>5, <1>6, <1>7, <1>8 DEF IInv

\* A job is settled by the worker that holds it.
LEMMA CompleteStep ==
    ASSUME IInv, TypeOK', NEW w \in Workers, NEW e \in Events, CompleteOne(w, e)
    PROVE  IInv'
<1>0. /\ pc[w] = "complete" /\ e \in group[w] /\ Holds(w, e)
      /\ job'[e].status = "succeeded"
      /\ \A f \in Events \ {e} : job'[f] = job[f]
      /\ UNCHANGED <<content, checkpoint, artifacts>>
  BY DEF CompleteOne, completeContextProjectionJob, NoJob, IInv, TypeOK, stored
<1>1. checkpoint[ThreadOf[e]][e] = content[e]
  BY <1>0 DEF IInv, Fresh
<1>2. \/ /\ group'[w] = {} /\ pc'[w] \in {"idle", "groups"}
      \/ /\ group'[w] # {} /\ group'[w] \subseteq group[w] /\ pc'[w] = "complete"
  <2>1. CASE LeaveGroup(w)
    BY <2>1 DEF LeaveGroup, IInv, TypeOK
  <2>2. CASE /\ group[w] # {e} /\ group' = [group EXCEPT ![w] = @ \ {e}]
             /\ UNCHANGED <<pc, todo, read, lost>>
    BY <1>0, <2>2 DEF IInv, TypeOK
  <2> QED
    BY <2>1, <2>2 DEF CompleteOne
<1>3. \A v \in Workers \ {w} : group'[v] = group[v] /\ pc'[v] = pc[v] /\ read'[v] = read[v]
  <2>1. CASE LeaveGroup(w)
    BY <2>1 DEF LeaveGroup, IInv, TypeOK
  <2>2. CASE /\ group[w] # {e} /\ group' = [group EXCEPT ![w] = @ \ {e}]
             /\ UNCHANGED <<pc, todo, read, lost>>
    BY <2>2 DEF IInv, TypeOK
  <2> QED
    BY <2>1, <2>2 DEF CompleteOne
<1>4. GroupInv'
  <2>1. ASSUME NEW v \in Workers
        PROVE  /\ group'[v] = {} <=> pc'[v] \in {"idle", "groups"}
               /\ \A f, g \in group'[v] : ThreadOf[f] = ThreadOf[g]
    <3>1. CASE v = w
      BY <1>2, <3>1 DEF IInv, GroupInv
    <3>2. CASE v # w
      BY <1>3, <3>2 DEF IInv, GroupInv
    <3> QED
      BY <3>1, <3>2
  <2> QED
    BY <2>1 DEF GroupInv
<1>5. pc'[w] \notin Reading
  BY <1>2 DEF Reading
<1>6. OneLine'
  BY <1>0, <1>3, <1>5 DEF IInv, OneLine, ReadOf, UpTo, Ordered
<1>7. Fresh'
  <2>1. ASSUME NEW v \in Workers, NEW f \in group'[v], Holds(v, f)'
        PROVE  f \in group[v] /\ Holds(v, f) /\ f # e
    BY <1>0, <1>2, <1>3, <2>1 DEF Holds, IInv, TypeOK
  <2>2. ASSUME NEW v \in Workers, NEW f \in group'[v], Holds(v, f)'
        PROVE  /\ pc'[v] \in Reading => read'[v][f] = content'[f]
               /\ pc'[v] \in {"projected", "complete"} => checkpoint'[ThreadOf[f]][f] = content'[f]
    <3>1. f \in group[v] /\ Holds(v, f)
      BY <2>1, <2>2
    <3>2. CASE v = w
      BY <1>0, <1>5, <3>1, <3>2 DEF IInv, Fresh
    <3>3. CASE v # w
      BY <1>0, <1>3, <3>1, <3>3 DEF IInv, Fresh
    <3> QED
      BY <3>2, <3>3
  <2> QED
    BY <2>2 DEF Fresh
<1>8. SucceededIsProjected'
  BY <1>0, <1>1 DEF IInv, SucceededIsProjected
<1>9. SummaryFirst' /\ CheckpointIsBacked'
  BY <1>0, <1>3, <1>5 DEF IInv, SummaryFirst, CheckpointIsBacked, NoRead, Reading
<1> QED
  BY <1>4, <1>6, <1>7, <1>8, <1>9 DEF IInv

-----------------------------------------------------------------------------
(* The invariant *)

LEMMA InvInit == Init => IInv
<1> SUFFICES ASSUME Init PROVE IInv
  OBVIOUS
<1>1. TypeOK
  BY TypeInit
<1>2. GroupInv /\ SummaryFirst /\ CheckpointIsBacked
  BY DEF Init, GroupInv, SummaryFirst, CheckpointIsBacked
<1>3. OneLine
  BY DEF Init, OneLine, ReadOf, UpTo, NoRead
<1>4. Fresh /\ SucceededIsProjected
  BY DEF Init, Fresh, SucceededIsProjected, NoJob
<1> QED
  BY <1>1, <1>2, <1>3, <1>4 DEF IInv

LEMMA InvNext == IInv /\ [Next]_vars => IInv'
<1> SUFFICES ASSUME IInv, [Next]_vars PROVE IInv'
  OBVIOUS
<1>0. TypeOK'
  BY TypeNext DEF IInv
<1>1. ASSUME NEW e \in Events, insertEvent(e) PROVE IInv'
  <2>1. enqueueContextProjection(e) /\ content' = [content EXCEPT ![e] = 1] /\ content[e] <= 1
        /\ UNCHANGED <<stored, running>>
    BY <1>1 DEF insertEvent
  <2> QED
    BY <1>0, <2>1, ContentStep
<1>2. ASSUME NEW e \in Events, repointContentHash(e) PROVE IInv'
  <2> DEFINE n == content[e] + 1
  <2>1. content[e] \in Nat
    BY DEF IInv, TypeOK, Read
  <2>2. n \in Nat /\ content[e] <= n
    BY <2>1
  <2>3. enqueueContextProjection(e) /\ content' = [content EXCEPT ![e] = n]
        /\ UNCHANGED <<stored, running>>
    BY <1>2 DEF repointContentHash
  <2> QED
    BY <1>0, <2>2, <2>3, ContentStep
<1>3. ASSUME NEW e \in Events, LeaseExpires(e) \/ LeaseOutlived(e) PROVE IInv'
  <2>1. NothingGained
    <3>1. job \in [Events -> Job] /\ job' = [job EXCEPT ![e].leased = FALSE]
      BY <1>3 DEF LeaseExpires, LeaseOutlived, IInv, TypeOK
    <3>2. \A f \in Events : job'[f].status = job[f].status /\ job'[f].owner = job[f].owner
      BY <3>1 DEF Job
    <3> QED
      BY <3>2 DEF NothingGained, Holds
  <2>2. UNCHANGED <<content, checkpoint, artifacts, pc, group, read>>
    BY <1>3 DEF LeaseExpires, LeaseOutlived, stored, running
  <2> QED
    BY <1>0, <2>1, <2>2, LeaseStep
<1>4. ASSUME NEW w \in Workers, claimContextProjectionJobs(w) PROVE IInv'
  BY <1>0, <1>4, ClaimStep
<1>5. ASSUME NEW w \in Workers, NEW t \in Threads, NextGroup(w, t) PROVE IInv'
  BY <1>0, <1>5, NextGroupStep
<1>6. ASSUME NEW w \in Workers, openContextReadForThread(w) PROVE IInv'
  BY <1>0, <1>6, ReadStep
<1>7. ASSUME NEW w \in Workers, compareCheckpoint(w) PROVE IInv'
  <2>1. CASE GroupFails(w)
    BY <1>0, <2>1, GroupFailsStep
  <2>2. CASE ~GroupFails(w)
    <3>1. /\ UNCHANGED <<content, job, checkpoint, group, read, artifacts>> /\ pc[w] = "compare"
          /\ \/ pc' = [pc EXCEPT ![w] = "projected"] /\ checkpoint[Thread(w)] = read[w]
             \/ pc' = [pc EXCEPT ![w] = "artifact"]
      BY <1>7, <2>2 DEF compareCheckpoint, outbox, stored
    <3> QED
      BY <1>0, <3>1, GoOnStep
  <2> QED
    BY <2>1, <2>2
<1>8. ASSUME NEW w \in Workers, putArtifact(w) PROVE IInv'
  <2>1. /\ UNCHANGED <<content, job, checkpoint, group, read>>
        /\ pc[w] = "artifact" /\ pc' = [pc EXCEPT ![w] = "checkpoint"]
        /\ artifacts' = artifacts \cup {read[w]}
    BY <1>8 DEF putArtifact, outbox
  <2> QED
    BY <1>0, <2>1, GoOnStep
<1>9. ASSUME NEW w \in Workers, putCheckpoint(w) PROVE IInv'
  <2>1. CASE GroupFails(w)
    BY <1>0, <2>1, GroupFailsStep
  <2>2. CASE ~GroupFails(w) /\ checkpoint[Thread(w)] # read[w]
    <3>1. /\ UNCHANGED <<content, job, artifacts, group, read>> /\ pc[w] = "checkpoint"
          /\ Advances(checkpoint[Thread(w)], read[w])
          /\ checkpoint' = [checkpoint EXCEPT ![Thread(w)] = read[w]]
          /\ pc' = [pc EXCEPT ![w] = "projected"]
      BY <1>9, <2>2 DEF putCheckpoint, outbox
    <3> QED
      BY <1>0, <3>1, CheckpointStep
  <2>3. CASE ~GroupFails(w) /\ checkpoint[Thread(w)] = read[w]
    <3>1. ~Advances(checkpoint[Thread(w)], read[w])
      BY <2>3, AdvancesIsStrict DEF IInv, TypeOK
    <3>2. /\ UNCHANGED <<content, job, checkpoint, group, read, artifacts>>
          /\ pc[w] = "checkpoint" /\ pc' = [pc EXCEPT ![w] = "projected"]
      BY <1>9, <2>3, <3>1 DEF putCheckpoint, outbox, stored
    <3> QED
      BY <1>0, <2>3, <3>2, GoOnStep
  <2> QED
    BY <2>1, <2>2, <2>3
<1>10. ASSUME NEW w \in Workers, LeaveGroup(w), UNCHANGED <<outbox, stored>> PROVE IInv'
  <2>1. NothingGained /\ Retreat(w)
    BY <1>10, SameJobsGainNothing, LeaveGroupRetreats DEF outbox, stored
  <2> QED
    BY <1>0, <2>1, RetreatStep
<1>11. ASSUME NEW w \in Workers, LeaseChecked(w) PROVE IInv'
  <2>1. CASE LeaveGroup(w)
    BY <1>10, <1>11, <2>1 DEF LeaseChecked
  <2>2. CASE ~LeaveGroup(w)
    <3>1. /\ UNCHANGED <<content, job, checkpoint, group, read, artifacts>>
          /\ pc[w] = "projected" /\ pc' = [pc EXCEPT ![w] = "complete"]
      BY <1>11, <2>2 DEF LeaseChecked, outbox, stored
    <3> QED
      BY <1>0, <3>1, GoOnStep
  <2> QED
    BY <2>1, <2>2
<1>12. ASSUME NEW w \in Workers, NEW e \in Events, CompleteOne(w, e) PROVE IInv'
  BY <1>0, <1>12, CompleteStep
<1>13. ASSUME NEW w \in Workers, NEW e \in Events, CompleteRefused(w, e) PROVE IInv'
  BY <1>10, <1>13 DEF CompleteRefused
<1>14. ASSUME NEW w \in Workers, Heartbeat(w) PROVE IInv'
  <2>1. NothingGained /\ UNCHANGED <<content, checkpoint, artifacts, pc, group, read>>
    BY <1>14, SameJobsGainNothing DEF Heartbeat, outbox, stored
  <2> QED
    BY <1>0, <2>1, LeaseStep
<1>15. ASSUME NEW w \in Workers, DeferGroup(w) PROVE IInv'
  <2>1. NothingGained
    BY <1>15, FailGainsNothing DEF DeferGroup, IInv
  <2>2. Retreat(w)
    BY <1>15, LeaveGroupRetreats DEF DeferGroup, stored
  <2> QED
    BY <1>0, <2>1, <2>2, RetreatStep
<1>16. ASSUME NEW w \in Workers, GroupThrows(w) PROVE IInv'
  BY <1>0, <1>16, GroupFailsStep DEF GroupThrows
<1>17. ASSUME NEW w \in Workers, RunOnceThrows(w) PROVE IInv'
  <2>1. NothingGained /\ Retreat(w)
    BY <1>17, SameJobsGainNothing DEF RunOnceThrows, RunOnceEnds, Retreat, outbox, stored
  <2> QED
    BY <1>0, <2>1, RetreatStep
<1>18. ASSUME NEW w \in Workers, Crash(w) PROVE IInv'
  <2>1. NothingGained
    <3>1. ASSUME NEW e \in Events
          PROVE  /\ job'[e].status = job[e].status
                 /\ \A v \in Workers : job'[e].owner = v => job[e].owner = v
      <4>1. job[e] \in Job /\ job'[e] = IF job[e].owner = w THEN [job[e] EXCEPT !.owner = None] ELSE job[e]
        BY <1>18 DEF Crash, IInv, TypeOK
      <4> QED
        BY <4>1, ProjectionAssumption DEF Job
    <3> QED
      BY <3>1 DEF NothingGained, Holds
  <2>2. Retreat(w)
    BY <1>18 DEF Crash, RunOnceEnds, Retreat, stored
  <2> QED
    BY <1>0, <2>1, <2>2, RetreatStep
<1>19. CASE UNCHANGED vars
  <2>1. NothingGained /\ UNCHANGED <<content, checkpoint, artifacts, pc, group, read>>
    BY <1>19, SameJobsGainNothing DEF vars, outbox, stored, running
  <2> QED
    BY <1>0, <2>1, LeaseStep
<1> QED
  BY <1>1, <1>2, <1>3, <1>4, <1>5, <1>6, <1>7, <1>8, <1>9, <1>11, <1>12, <1>13, <1>14, <1>15,
     <1>16, <1>17, <1>18, <1>19 DEF Next, RunOnceStep

LEMMA Invariance == Spec => []IInv
  BY InvInit, InvNext, PTL DEF Spec

\* The rows of the outbox, the checkpoints and the state of every worker keep
\* their types.
THEOREM TypeCorrect == Spec => []TypeOK
<1>1. IInv => TypeOK
  BY DEF IInv
<1> QED
  BY <1>1, Invariance, PTL

\* completeContextProjectionJob settles a job only when the conversation's
\* checkpoint has its Event with the content it has now, for any number of
\* workers that lose leases, throw or die.
THEOREM SettledIsProjected == Spec => []SucceededIsProjected
<1>1. IInv => SucceededIsProjected
  BY DEF IInv
<1> QED
  BY <1>1, Invariance, PTL

\* The summary of the read that a checkpoint stands for is stored.
THEOREM BackedCheckpoint == Spec => []CheckpointIsBacked
<1>1. IInv => CheckpointIsBacked
  BY DEF IInv
<1> QED
  BY <1>1, Invariance, PTL

\* putCheckpoint's comparison of sequence and time never lets a late worker
\* take the checkpoint of a conversation back.
THEOREM ForwardCheckpoint == Spec => CheckpointMovesForward
<1> DEFINE Forward == \A t \in Threads : UpTo(checkpoint[t], checkpoint'[t])
<1>1. IInv /\ [Next]_vars => Forward
  <2> SUFFICES ASSUME IInv, [Next]_vars PROVE Forward
    OBVIOUS
  <2>1. ASSUME UNCHANGED checkpoint PROVE Forward
    BY <2>1 DEF UpTo, IInv, TypeOK, Read
  <2>2. ASSUME NEW w \in Workers, putCheckpoint(w) PROVE Forward
    <3>1. CASE GroupFails(w)
      BY <2>1, <3>1 DEF GroupFails, stored
    <3>2. CASE ~GroupFails(w) /\ checkpoint' # checkpoint
      <4>1. /\ Advances(checkpoint[Thread(w)], read[w]) /\ pc[w] = "checkpoint"
            /\ checkpoint' = [checkpoint EXCEPT ![Thread(w)] = read[w]]
        BY <2>2, <3>2 DEF putCheckpoint, stored
      <4>2. Thread(w) \in Threads /\ UpTo(checkpoint[Thread(w)], read[w])
        BY <4>1, CheckpointForward
      <4> QED
        BY <4>1, <4>2 DEF UpTo, IInv, TypeOK, Read
    <3> QED
      BY <2>1, <3>1, <3>2
  <2>3. UNCHANGED checkpoint \/ \E w \in Workers : putCheckpoint(w)
    BY DEF Next, RunOnceStep, vars, outbox, stored, running, insertEvent, repointContentHash,
           LeaseExpires, LeaseOutlived, claimContextProjectionJobs, NextGroup,
           openContextReadForThread, compareCheckpoint, GroupFails, putArtifact, LeaseChecked,
           CompleteOne, CompleteRefused, Heartbeat, DeferGroup, GroupThrows, RunOnceThrows, Crash
  <2> QED
    BY <2>1, <2>2, <2>3
<1>2. IInv /\ [Next]_vars => [Forward]_vars
  BY <1>1
<1> QED
  BY <1>2, Invariance, PTL DEF Spec, CheckpointMovesForward

=============================================================================
