---------------------- MODULE FinalizationJobsTypeProofs ----------------------
(***************************************************************************)
(* Type correctness of FinalizationJobs, for every finite set of           *)
(* conversations, every set of workers, every attempt limit and every      *)
(* number of faults.                                                       *)
(***************************************************************************)
EXTENDS FinalizationJobs, TLAPS

-----------------------------------------------------------------------------
(* Type correctness                                                         *)

LEMMA TypeInit == Init => TypeOK
<1> SUFFICES ASSUME Init PROVE TypeOK
  OBVIOUS
<1>1. conv \in [Conversations -> ConversationType]
  BY DEF Init, ConversationType
<1>2. job \in [Conversations -> JobType]
  BY DEF Init, JobType, NoJob
<1>3. worker \in [Workers -> AttemptType]
  BY DEF Init, AttemptType, IdleAttempt
<1>4. proj \in [Counters -> Int]
  BY DEF Init
<1>5. lock \in [Conversations -> Workers \union {Free, Orphaned}]
  BY DEF Init
<1> QED BY <1>1, <1>2, <1>3, <1>4, <1>5 DEF Init, TypeOK

\* Every write to an outbox row, as the transaction that makes it.
LEMMA JobWrites ==
    ASSUME TypeOK, NEW c \in Conversations
    PROVE  /\ ResumedJob(c) \in JobType
           /\ LeasedJob(c) \in JobType
           /\ FencedJob(c) \in JobType
           /\ FanoutCompletedJob(c) \in JobType
           /\ SucceededJob(c) \in JobType
           /\ RetryableJob(c) \in JobType
           /\ DeadLetteredJob(c) \in JobType
           /\ ExpiredJob(c) \in JobType
           /\ ReplayedJob(c) \in JobType
           /\ AbandonedJob(c) \in JobType
<1>1. job[c] \in JobType
  BY DEF TypeOK
<1>2. /\ ReconcileAfter(job[c].byok) \in {"absent", "later"}
      /\ NextEpoch(c) \in Nat /\ NextGeneration(c) \in Nat
      /\ job[c].attempts + 1 \in Nat
  BY <1>1 DEF ReconcileAfter, NextEpoch, NextGeneration, JobType
<1> USE <1>1, <1>2 DEF JobType, JobStatus, TerminalOutcomes
<1>3. ResumedJob(c) \in JobType BY DEF ResumedJob
<1>4. LeasedJob(c) \in JobType BY DEF LeasedJob
<1>5. FencedJob(c) \in JobType BY DEF FencedJob
<1>6. FanoutCompletedJob(c) \in JobType BY DEF FanoutCompletedJob
<1>7. SucceededJob(c) \in JobType BY DEF SucceededJob
<1>8. RetryableJob(c) \in JobType
  <2> DEFINE n == job[c].attempts + 1
             d == ReconcileAfter(job[c].byok)
  <2>1. n \in Nat /\ d \in {"absent", "later", "now"}
    OBVIOUS
  <2>2. RetryableJob(c) = [job[c] EXCEPT !.status = "queued", !.live = FALSE, !.attempts = n,
                                         !.due = d, !.idle = FALSE]
    BY DEF RetryableJob
  <2> HIDE DEF n, d
  <2> QED BY <2>1, <2>2
<1>9. DeadLetteredJob(c) \in JobType BY DEF DeadLetteredJob
<1>10. ExpiredJob(c) \in JobType
  <2>1. CASE job[c].due = "absent"
    <3>1. ExpiredJob(c) = [job[c] EXCEPT !.live = FALSE, !.aged = TRUE, !.due = "absent"]
      BY <2>1 DEF ExpiredJob
    <3> QED BY <3>1
  <2>2. CASE job[c].due # "absent"
    <3>1. ExpiredJob(c) = [job[c] EXCEPT !.live = FALSE, !.aged = TRUE, !.due = "now"]
      BY <2>2 DEF ExpiredJob
    <3> QED BY <3>1
  <2> QED BY <2>1, <2>2
<1>11. ReplayedJob(c) \in JobType BY DEF ReplayedJob
<1>12. AbandonedJob(c) \in JobType BY DEF AbandonedJob
<1> QED BY <1>3, <1>4, <1>5, <1>6, <1>7, <1>8, <1>9, <1>10, <1>11, <1>12

LEMMA TimerWrites ==
    ASSUME NEW j \in JobType
    PROVE  /\ [j EXCEPT !.due = "now", !.aged = TRUE] \in JobType
           /\ [j EXCEPT !.idle = TRUE] \in JobType
  BY DEF JobType, JobStatus, TerminalOutcomes

LEMMA ProjectionWrites ==
    ASSUME TypeOK, NEW from \in Counters, NEW to \in Counters, NEW outcome \in Counters
    PROVE  /\ Moved(from, to) \in [Counters -> Int]
           /\ Closed(from, to, outcome) \in [Counters -> Int]
  BY DEF TypeOK, Moved, Closed

LEMMA CounterNames ==
    /\ JobStatus \subseteq Counters
    /\ {"queued", "leased", "completed", "dead_letter", "blocked_byok", "success", "stale", "failure"}
         \subseteq Counters
  BY DEF JobStatus, Counters

QueuesOK == tasks \subseteq TaskType /\ names \subseteq HandoffType /\ frames \subseteq HandoffType

LEMMA EnqueueType ==
    ASSUME QueuesOK, NEW c \in Conversations, NEW g \in Nat, Enqueue(c, g)
    PROVE  tasks' \subseteq TaskType /\ names' \subseteq HandoffType
<1>1. [c |-> c, gen |-> g] \in HandoffType
  BY DEF HandoffType
<1>2. [c |-> c, gen |-> g, retry |-> 0, running |-> FALSE] \in TaskType
  BY DEF TaskType
<1> QED BY <1>1, <1>2 DEF Enqueue, QueuesOK

LEMMA HandOffType ==
    ASSUME QueuesOK, faults \in Nat, NEW c \in Conversations, NEW g \in Nat, HandOff(c, g)
    PROVE  QueuesOK' /\ faults' \in Nat
<1>0. faults' \in Nat
  BY DEF HandOff, Charge
<1>1. [c |-> c, gen |-> g] \in HandoffType
  BY DEF HandoffType
<1>2. CASE frames' = frames \union {[c |-> c, gen |-> g]} /\ UNCHANGED <<tasks, names>>
  BY <1>0, <1>1, <1>2 DEF QueuesOK
<1>3. CASE Enqueue(c, g) /\ UNCHANGED frames
  BY <1>0, <1>3, EnqueueType DEF QueuesOK
<1>4. CASE UNCHANGED queues
  BY <1>0, <1>4 DEF QueuesOK, queues
<1> QED BY <1>2, <1>3, <1>4 DEF HandOff

LEMMA RetriedType ==
    ASSUME tasks \subseteq TaskType, NEW ts \in SUBSET tasks
    PROVE  Retried(ts) \subseteq TaskType
<1>1. ASSUME NEW t \in TaskType
      PROVE  [t EXCEPT !.retry = t.retry + 1, !.running = FALSE] \in TaskType
  <2>1. t.c \in Conversations /\ t.gen \in Nat /\ t.retry + 1 \in Nat
    BY DEF TaskType
  <2> QED BY <2>1 DEF TaskType
<1>2. ASSUME NEW t \in Retried(ts) PROVE t \in TaskType
  <2>1. CASE t \in tasks
    BY <2>1
  <2>2. CASE t \notin tasks
    <3>1. PICK u \in ts : t = [u EXCEPT !.retry = u.retry + 1, !.running = FALSE]
      BY <1>2, <2>2 DEF Retried
    <3> QED BY <3>1, <1>1
  <2> QED BY <2>1, <2>2
<1> QED BY <1>2

LEMMA IdleType == IdleAttempt \in AttemptType
  BY DEF IdleAttempt, AttemptType

LEMMA ReturnType ==
    ASSUME TypeOK, NEW w \in Workers, worker[w].c \in Conversations, Acknowledge(w) \/ Refuse(w)
    PROVE  /\ worker' \in [Workers -> AttemptType]
           /\ lock' \in [Conversations -> Workers \union {Free, Orphaned}]
           /\ tasks' \subseteq TaskType
           /\ names' \subseteq HandoffType /\ frames' \subseteq HandoffType
<1>0. Return(w)
  BY DEF Acknowledge, Refuse
<1>1. worker' \in [Workers -> AttemptType]
  BY <1>0, IdleType DEF TypeOK, Return
<1>2. lock' \in [Conversations -> Workers \union {Free, Orphaned}]
  BY <1>0 DEF TypeOK, Return
<1>3. tasks' \subseteq TaskType
  <2>1. TaskOf(worker[w]) \in SUBSET tasks
    BY DEF TaskOf
  <2>2. Retried(TaskOf(worker[w])) \subseteq TaskType
    BY <2>1, RetriedType DEF TypeOK
  <2> QED BY <2>1, <2>2 DEF TypeOK, Acknowledge, Refuse
<1> QED BY <1>0, <1>1, <1>2, <1>3 DEF TypeOK, Return

-----------------------------------------------------------------------------

\* An active attempt always names a conversation.
Busy == \A w \in Workers : Active(w) => worker[w].c \in Conversations

LEMMA TypeRequest ==
    ASSUME TypeOK, NEW c \in Conversations, Request(c)
    PROVE  TypeOK'
<1>0. QueuesOK
  BY DEF TypeOK, QueuesOK
<1> USE DEF TypeOK
<1>1. ASSUME NEW byok \in BOOLEAN, CreateIntent(c, byok) PROVE TypeOK'
  <2>1. CreatedJob(byok) \in JobType /\ CreatedJob(byok).status \in Counters
    BY DEF CreatedJob, NoJob, ReconcileAfter, JobType, JobStatus, Counters
  <2>2. job' \in [Conversations -> JobType]
    BY <1>1, <2>1 DEF CreateIntent
  <2>3. conv' \in [Conversations -> ConversationType]
    BY <1>1 DEF CreateIntent, ConversationType
  <2>4. proj' \in [Counters -> Int]
    BY <1>1, <2>1 DEF CreateIntent, Counters
  <2>5. QueuesOK' /\ faults' \in Nat
    BY <1>0, <1>1, HandOffType DEF CreateIntent, QueuesOK
  <2> QED BY <1>1, <2>2, <2>3, <2>4, <2>5 DEF CreateIntent, QueuesOK
<1>2. CASE GetIntent(c)
  <2>1. job[c].gen \in Nat
    BY DEF JobType
  <2>2. QueuesOK' /\ faults' \in Nat
    BY <1>0, <1>2, <2>1, HandOffType DEF GetIntent, QueuesOK
  <2> QED BY <1>2, <2>2 DEF GetIntent, stores, QueuesOK
<1>3. CASE ResumeByok(c)
  <2>1. [c |-> c, gen |-> job[c].gen] \in HandoffType
    BY DEF JobType, HandoffType
  <2>2. job' \in [Conversations -> JobType]
    BY <1>3, JobWrites DEF ResumeByok
  <2>3. proj' \in [Counters -> Int]
    <3>1. Moved("blocked_byok", "queued") \in [Counters -> Int]
      BY ProjectionWrites, CounterNames
    <3> QED BY <1>3, <3>1 DEF ResumeByok
  <2> QED BY <1>3, <2>1, <2>2, <2>3 DEF ResumeByok
<1>4. CASE RequestDies(c)
  BY <1>4 DEF RequestDies, stores, queues
<1> QED BY <1>1, <1>2, <1>3, <1>4 DEF Request

LEMMA TypeTimer ==
    ASSUME TypeOK, NEW c \in Conversations, Timer(c)
    PROVE  TypeOK'
<1> USE DEF TypeOK, queues, sweeps, stores
<1>1. CASE LockExpires(c)
  BY <1>1 DEF LockExpires, Charge
<1>2. CASE LeaseExpires(c)
  BY <1>2, JobWrites DEF LeaseExpires, Charge
<1>3. CASE ReconcileDelayElapses(c)
  <2>1. [job[c] EXCEPT !.due = "now", !.aged = TRUE] \in JobType
    BY TimerWrites
  <2> QED BY <1>3, <2>1 DEF ReconcileDelayElapses
<1>4. CASE AbandonmentWindowElapses(c)
  <2>1. [job[c] EXCEPT !.idle = TRUE] \in JobType
    BY TimerWrites
  <2> QED BY <1>4, <2>1 DEF AbandonmentWindowElapses
<1> QED BY <1>1, <1>2, <1>3, <1>4 DEF Timer

LEMMA TypeUser ==
    ASSUME TypeOK, NEW c \in Conversations, User(c)
    PROVE  TypeOK'
<1> USE DEF TypeOK, queues, sweeps
<1>1. CASE Discard(c)
  BY <1>1 DEF Discard, ConversationType
<1>2. CASE RestoreDiscarded(c)
  BY <1>2 DEF RestoreDiscarded, ConversationType
<1>3. CASE DeleteConversation(c)
  BY <1>3 DEF DeleteConversation, ConversationType
<1> QED BY <1>1, <1>2, <1>3 DEF User

LEMMA TypeSweep == TypeOK /\ Sweep => TypeOK'
<1> SUFFICES ASSUME TypeOK, Sweep PROVE TypeOK'
  OBVIOUS
<1> USE DEF TypeOK
<1>1. CASE ReconcileScan
  BY <1>1 DEF ReconcileScan, stores, queues
<1>2. ASSUME NEW c \in Conversations, Replay(c) PROVE TypeOK'
  <2>1. NextGeneration(c) \in Nat /\ job[c].gen \in Nat
    BY DEF NextGeneration, JobType
  <2>2. QueuesOK' /\ faults' \in Nat
    <3>1. faults' \in Nat
      BY <1>2 DEF Replay, Charge
    <3>2. \/ UNCHANGED <<tasks, names>>
          \/ \E g \in Nat : Enqueue(c, g)
      BY <1>2, <2>1 DEF Replay
    <3> QED BY <1>2, <3>1, <3>2, EnqueueType DEF Replay, QueuesOK
  <2>5. page' \subseteq Conversations
    BY <1>2 DEF Replay
  <2>3. job' \in [Conversations -> JobType]
    BY <1>2, JobWrites DEF Replay
  <2>4. proj' \in [Counters -> Int]
    <3>1. Moved("leased", "queued") \in [Counters -> Int]
      BY ProjectionWrites, CounterNames
    <3> QED BY <1>2, <3>1 DEF Replay
  <2> QED BY <1>2, <2>2, <2>3, <2>4, <2>5 DEF Replay, QueuesOK
<1>3. CASE ByokScan
  <2>1. ASSUME NEW c \in Conversations, Stranded(job[c])
        PROVE  [c |-> c, status |-> job[c].status, gen |-> job[c].gen, epoch |-> job[c].epoch] \in CandidateType
    BY <2>1 DEF Stranded, CandidateType, JobType
  <2> QED BY <1>3, <2>1 DEF ByokScan, stores, queues
<1>4. ASSUME NEW s \in scan, AbandonByok(s) PROVE TypeOK'
  <2>1. s.c \in Conversations /\ s.status \in Counters
    BY DEF CandidateType, Counters, JobStatus
  <2>2. job' \in [Conversations -> JobType]
    <3>1. AbandonedJob(s.c) \in JobType
      BY <2>1, JobWrites
    <3> QED BY <1>4, <2>1, <3>1 DEF AbandonByok
  <2>4. proj' \in [Counters -> Int]
    <3>1. Closed(s.status, "dead_letter", "failure") \in [Counters -> Int]
      BY <2>1, ProjectionWrites, CounterNames
    <3> QED BY <1>4, <3>1 DEF AbandonByok
  <2>3. conv' \in [Conversations -> ConversationType]
    BY <1>4, <2>1 DEF AbandonByok, ConversationType
  <2> QED BY <1>4, <2>2, <2>3, <2>4 DEF AbandonByok, queues
<1> QED BY <1>1, <1>2, <1>3, <1>4 DEF Sweep

\* How an attempt changes: it moves to another attempt of the same worker.
LEMMA AttemptWrites ==
    ASSUME TypeOK, Busy, NEW w \in Workers, NEW a \in AttemptType,
           a.pc = "idle" \/ a.c \in Conversations,
           worker' = [worker EXCEPT ![w] = a]
    PROVE  worker' \in [Workers -> AttemptType] /\ Busy'
<1>1. worker' \in [Workers -> AttemptType]
  BY DEF TypeOK
<1>2. \A v \in Workers : worker'[v] = IF v = w THEN a ELSE worker[v]
  BY DEF TypeOK
<1> QED BY <1>1, <1>2 DEF Busy, Active

Pcs == {"idle", "locked", "claimed", "process", "fanout", "effects", "ack", "complete", "fence", "fail"}

LEMMA AttemptFields ==
    ASSUME NEW a \in AttemptType, NEW pc \in Pcs, NEW q \in BOOLEAN
    PROVE  /\ [a EXCEPT !.pc = pc] \in AttemptType
           /\ [a EXCEPT !.pc = pc].c = a.c
           /\ [a EXCEPT !.pc = pc, !.quiet = q] \in AttemptType
           /\ [a EXCEPT !.pc = pc, !.quiet = q].c = a.c
  BY DEF AttemptType, Pcs

LEMMA ClaimFields ==
    ASSUME NEW a \in AttemptType, NEW e \in Nat
    PROVE  /\ [a EXCEPT !.pc = "claimed", !.epoch = e] \in AttemptType
           /\ [a EXCEPT !.pc = "claimed", !.epoch = e].c = a.c
  BY DEF AttemptType

LEMMA GoType ==
    ASSUME TypeOK, Busy, NEW w \in Workers, Active(w), NEW pc \in Pcs, Go(w, pc)
    PROVE  worker' \in [Workers -> AttemptType] /\ Busy'
<1> DEFINE a == [worker[w] EXCEPT !.pc = pc]
<1>1. worker[w] \in AttemptType /\ worker[w].c \in Conversations
  BY DEF TypeOK, Busy
<1>2. a \in AttemptType /\ a.c \in Conversations
  BY <1>1, AttemptFields
<1>3. worker' = [worker EXCEPT ![w] = a]
  BY DEF Go
<1> HIDE DEF a
<1> QED BY <1>2, <1>3, AttemptWrites

LEMMA LeaseType ==
    ASSUME TypeOK, NEW c \in Conversations, Lease(c)
    PROVE  /\ job' \in [Conversations -> JobType]
           /\ proj' \in [Counters -> Int]
           /\ UNCHANGED <<conv, effects>>
<1>1. job' \in [Conversations -> JobType]
  BY JobWrites DEF TypeOK, Lease
<1>2. Moved("queued", "leased") \in [Counters -> Int]
  BY ProjectionWrites, CounterNames
<1> QED BY <1>1, <1>2 DEF TypeOK, Lease

LEMMA ReturnBusy ==
    ASSUME TypeOK, Busy, NEW w \in Workers, Return(w)
    PROVE  Busy'
<1>1. worker' = [worker EXCEPT ![w] = IdleAttempt]
  BY DEF Return
<1>2. IdleAttempt \in AttemptType /\ IdleAttempt.pc = "idle"
  BY IdleType DEF IdleAttempt
<1> QED BY <1>1, <1>2, AttemptWrites

LEMMA TypeTaskClaims ==
    ASSUME TypeOK, Busy, NEW w \in Workers, TaskClaims(w)
    PROVE  TypeOK' /\ Busy'
<1>0. worker[w] \in AttemptType /\ worker[w].c \in Conversations /\ Active(w)
  BY DEF TypeOK, Busy, Active, TaskClaims
<1> DEFINE c == worker[w].c
<1>1. CASE Claimable(c, worker[w].gen, FALSE)
  <2> DEFINE a == [worker[w] EXCEPT !.pc = "claimed", !.epoch = NextEpoch(c)]
  <2>1. NextEpoch(c) \in Nat
    BY <1>0 DEF NextEpoch, TypeOK, JobType
  <2>2. a \in AttemptType /\ a.c \in Conversations
    BY <1>0, <2>1, ClaimFields
  <2>3. worker' = [worker EXCEPT ![w] = a]
    BY <1>1 DEF TaskClaims
  <2>4. worker' \in [Workers -> AttemptType] /\ Busy'
    <3> HIDE DEF a
    <3> QED BY <2>2, <2>3, AttemptWrites
  <2>5. Lease(c) /\ UNCHANGED <<lock, queues, faults, sweeps, migrating>>
    BY <1>1 DEF TaskClaims
  <2>6. /\ job' \in [Conversations -> JobType]
        /\ proj' \in [Counters -> Int]
        /\ UNCHANGED <<conv, effects>>
    BY <1>0, <2>5, LeaseType
  <2> QED BY <2>4, <2>5, <2>6 DEF TypeOK, queues, sweeps
<1>2. CASE ~Claimable(c, worker[w].gen, FALSE)
  <2>1. Acknowledge(w) \/ Refuse(w)
    BY <1>2 DEF TaskClaims
  <2>2. UNCHANGED <<stores, faults, sweeps, migrating>>
    BY <1>2 DEF TaskClaims
  <2>3. Busy'
    BY <2>1, ReturnBusy DEF Acknowledge, Refuse
  <2> QED BY <1>0, <2>1, <2>2, <2>3, ReturnType DEF TypeOK, stores, sweeps
<1> QED BY <1>1, <1>2

\* Reading and processing write the conversation row at most.
LEMMA TypeProcessing ==
    ASSUME TypeOK, Busy, NEW w \in Workers,
           \/ SkipForCutover(w)
           \/ ReadConversation(w)
           \/ \E outcome \in Outcomes : ProcessConversation(w, outcome)
    PROVE  TypeOK' /\ Busy'
<1>0. worker[w] \in AttemptType /\ worker[w].c \in Conversations /\ Active(w)
  BY DEF TypeOK, Busy, Active, SkipForCutover, ReadConversation, ProcessConversation
<1> DEFINE c == worker[w].c
<1>1. CASE SkipForCutover(w)
  BY <1>0, <1>1, GoType DEF SkipForCutover, Pcs, TypeOK, stores, queues, sweeps
<1>2. CASE ReadConversation(w)
  <2> DEFINE next == IF ~conv[c].exists \/ conv[c].status = "completed" THEN "fanout"
                     ELSE IF conv[c].status = "processing" THEN "process" ELSE "fence"
             q == next = "fanout" /\ conv[c].exists /\ conv[c].minimal
             a == [worker[w] EXCEPT !.pc = next, !.quiet = q]
  <2>1. worker' = [worker EXCEPT ![w] = a]
    BY <1>2 DEF ReadConversation
  <2>2. q \in BOOLEAN /\ next \in Pcs
    BY DEF Pcs
  <2>3. a \in AttemptType /\ a.c \in Conversations
    <3> HIDE DEF q, next
    <3> QED BY <1>0, <2>2, AttemptFields
  <2>4. worker' \in [Workers -> AttemptType] /\ Busy'
    <3> HIDE DEF a
    <3> QED BY <2>1, <2>3, AttemptWrites
  <2> QED BY <1>2, <2>4 DEF ReadConversation, TypeOK, stores, queues, sweeps
<1>3. ASSUME NEW outcome \in Outcomes, ProcessConversation(w, outcome)
      PROVE  TypeOK' /\ Busy'
  <2> DEFINE stored == outcome \in {"keep", "hide", "minimum"} /\ PersistAdmits(c)
             next == IF stored THEN "fanout" ELSE IF outcome = "error" THEN "fail" ELSE "fence"
             q == stored /\ outcome = "minimum"
             a == [worker[w] EXCEPT !.pc = next, !.quiet = q]
  <2>1. worker' = [worker EXCEPT ![w] = a]
    BY <1>3 DEF ProcessConversation
  <2>2. q \in BOOLEAN /\ next \in Pcs
    BY DEF Pcs
  <2>3. a \in AttemptType /\ a.c \in Conversations
    <3> HIDE DEF q, next
    <3> QED BY <1>0, <2>2, AttemptFields
  <2>4. worker' \in [Workers -> AttemptType] /\ Busy'
    <3> HIDE DEF a
    <3> QED BY <2>1, <2>3, AttemptWrites
  <2>5. ASSUME NEW st \in {"processing", "completed"}, NEW h \in BOOLEAN, NEW d \in BOOLEAN,
               NEW m \in BOOLEAN
        PROVE  Persisted(c, st, h, d, m) \in [Conversations -> ConversationType]
    <3>1. conv[c] \in ConversationType
      BY <1>0 DEF TypeOK
    <3>2. (h /\ ~conv[c].kept) \in BOOLEAN
      OBVIOUS
    <3>3. [conv[c] EXCEPT !.status = st, !.deferred = d, !.minimal = m,
                          !.discarded = h /\ ~conv[c].kept] \in ConversationType
      BY <3>1, <3>2 DEF ConversationType
    <3> QED BY <1>0, <3>3 DEF TypeOK, Persisted
  <2>6. conv[c].minimal \in BOOLEAN
    BY <1>0 DEF TypeOK, ConversationType
  <2>7. conv' \in [Conversations -> ConversationType]
    <3>1. CASE stored
      <4>1. PICK h \in BOOLEAN, m \in BOOLEAN : conv' = Persisted(c, "completed", h, FALSE, m)
        BY <1>3, <2>6, <3>1 DEF ProcessConversation
      <4> QED BY <4>1, <2>5
    <3>2. CASE outcome = "defer" /\ PersistAdmits(c)
      <4>1. PICK h \in BOOLEAN : conv' = Persisted(c, "processing", h, TRUE, conv[c].minimal)
        BY <1>3, <3>2 DEF ProcessConversation
      <4> QED BY <4>1, <2>5, <2>6
    <3>3. CASE ~stored /\ ~(outcome = "defer" /\ PersistAdmits(c))
      BY <1>3, <3>3 DEF ProcessConversation, TypeOK
    <3> QED BY <3>1, <3>2, <3>3
  <2> QED BY <1>3, <2>4, <2>7 DEF ProcessConversation, TypeOK, queues, sweeps
<1> QED BY <1>1, <1>2, <1>3

\* The fanout steps write the job and the effects.
LEMMA TypeFanout ==
    ASSUME TypeOK, Busy, NEW w \in Workers, ClaimFanout(w) \/ EmitEffects(w) \/ CompleteFanout(w)
    PROVE  TypeOK' /\ Busy'
<1>0. worker[w] \in AttemptType /\ worker[w].c \in Conversations /\ Active(w)
  BY DEF TypeOK, Busy, Active, ClaimFanout, EmitEffects, CompleteFanout
<1> DEFINE c == worker[w].c
<1>1. FencedJob(c) \in JobType /\ FanoutCompletedJob(c) \in JobType
  BY <1>0, JobWrites
<1>2. FanoutClaimedJob(worker[w]) \in JobType
  <2>1. job[c] \in JobType /\ worker[w].epoch \in Nat
    BY <1>0 DEF TypeOK, AttemptType
  <2> QED BY <2>1 DEF FanoutClaimedJob, JobType
<1>3. CASE ClaimFanout(w)
  <2>1. PICK pc \in Pcs : Go(w, pc)
    BY <1>3 DEF ClaimFanout, Pcs
  <2>2. worker' \in [Workers -> AttemptType] /\ Busy'
    BY <1>0, <2>1, GoType
  <2>3. job' \in [Conversations -> JobType]
    BY <1>0, <1>1, <1>2, <1>3 DEF ClaimFanout, TypeOK
  <2>4. Closed("leased", "completed", "stale") \in [Counters -> Int]
    BY ProjectionWrites, CounterNames
  <2>5. proj' \in [Counters -> Int]
    BY <1>3, <2>4 DEF ClaimFanout, TypeOK
  <2> QED BY <1>3, <2>2, <2>3, <2>5 DEF ClaimFanout, TypeOK, queues, sweeps
<1>4. CASE EmitEffects(w)
  <2>1. PICK pc \in Pcs : Go(w, pc)
    BY <1>4 DEF EmitEffects, Pcs
  <2>2. worker' \in [Workers -> AttemptType] /\ Busy'
    BY <1>0, <2>1, GoType
  <2>3. effects' \in [Conversations -> {"none", "suppressed", "dropped", "delivered"}]
    BY <1>0, <1>4 DEF EmitEffects, TypeOK
  <2> QED BY <1>4, <2>2, <2>3 DEF EmitEffects, TypeOK, queues, sweeps
<1>5. CASE CompleteFanout(w)
  <2>1. PICK pc \in Pcs : Go(w, pc)
    BY <1>5 DEF CompleteFanout, Pcs
  <2>2. worker' \in [Workers -> AttemptType] /\ Busy'
    BY <1>0, <2>1, GoType
  <2>3. job' \in [Conversations -> JobType]
    BY <1>0, <1>1, <1>5 DEF CompleteFanout, TypeOK
  <2> QED BY <1>5, <2>2, <2>3 DEF CompleteFanout, TypeOK, queues, sweeps
<1> QED BY <1>3, <1>4, <1>5

\* The closing transactions write the job, the projection and, when a bound
\* row is dead-lettered with its job, the conversation.
LEMMA TypeClose ==
    ASSUME TypeOK, Busy, NEW w \in Workers, MarkCompleted(w) \/ MarkFenced(w) \/ RecordFailure(w)
    PROVE  TypeOK' /\ Busy'
<1>0. worker[w] \in AttemptType /\ worker[w].c \in Conversations
  BY DEF TypeOK, Busy, Active, MarkCompleted, MarkFenced, RecordFailure
<1> DEFINE c == worker[w].c
<1>1. Acknowledge(w) \/ Refuse(w)
  BY DEF MarkCompleted, MarkFenced, RecordFailure
<1>2. /\ worker' \in [Workers -> AttemptType]
      /\ lock' \in [Conversations -> Workers \union {Free, Orphaned}]
      /\ tasks' \subseteq TaskType
      /\ names' \subseteq HandoffType /\ frames' \subseteq HandoffType
      /\ Busy'
  BY <1>0, <1>1, ReturnType, ReturnBusy DEF Acknowledge, Refuse
<1>3. /\ SucceededJob(c) \in JobType /\ FencedJob(c) \in JobType
      /\ RetryableJob(c) \in JobType /\ DeadLetteredJob(c) \in JobType
  BY <1>0, JobWrites
<1>4. /\ Closed("leased", "completed", "success") \in [Counters -> Int]
      /\ Closed("leased", "completed", "stale") \in [Counters -> Int]
      /\ Closed("leased", "dead_letter", "failure") \in [Counters -> Int]
      /\ Moved("leased", "queued") \in [Counters -> Int]
  BY ProjectionWrites, CounterNames
<1>5. CASE MarkCompleted(w)
  <2>1. job' \in [Conversations -> JobType] /\ proj' \in [Counters -> Int]
    BY <1>0, <1>3, <1>4, <1>5 DEF MarkCompleted, TypeOK
  <2> QED BY <1>2, <1>5, <2>1 DEF MarkCompleted, TypeOK, sweeps
<1>6. CASE MarkFenced(w)
  <2>1. job' \in [Conversations -> JobType] /\ proj' \in [Counters -> Int]
    BY <1>0, <1>3, <1>4, <1>6 DEF MarkFenced, TypeOK
  <2>2. faults' \in Nat
    BY <1>6 DEF MarkFenced, Charge, TypeOK
  <2> QED BY <1>2, <1>6, <2>1, <2>2 DEF MarkFenced, TypeOK, sweeps
<1>7. CASE RecordFailure(w)
  <2>1. job' \in [Conversations -> JobType] /\ proj' \in [Counters -> Int]
    BY <1>0, <1>3, <1>4, <1>7 DEF RecordFailure, MarkDeadLetter, MarkRetryable, TypeOK
  <2>2. [conv[c] EXCEPT !.status = "failed", !.discarded = TRUE] \in ConversationType
    <3>1. conv[c] \in ConversationType
      BY <1>0 DEF TypeOK
    <3> QED BY <3>1 DEF ConversationType
  <2>3. conv' \in [Conversations -> ConversationType]
    BY <1>0, <1>7, <2>2 DEF RecordFailure, MarkDeadLetter, MarkRetryable, TypeOK
  <2> QED BY <1>2, <1>7, <2>1, <2>3 DEF RecordFailure, TypeOK, sweeps
<1> QED BY <1>5, <1>6, <1>7

LEMMA TypeCrash ==
    ASSUME TypeOK, Busy, NEW w \in Workers, Crash(w)
    PROVE  TypeOK' /\ Busy'
<1>1. worker[w].c \in Conversations
  BY DEF Busy, Crash
<1>2. lock' \in [Conversations -> Workers \union {Free, Orphaned}]
  BY <1>1 DEF TypeOK, Crash
<1>3. IdleAttempt \in AttemptType /\ IdleAttempt.pc = "idle"
  BY IdleType DEF IdleAttempt
<1>4. worker' \in [Workers -> AttemptType] /\ Busy'
  BY <1>3, AttemptWrites DEF Crash
<1>5. faults' \in Nat
  BY DEF Crash, Charge, TypeOK
<1> QED BY <1>2, <1>4, <1>5 DEF Crash, TypeOK, stores, queues, sweeps

LEMMA TypeDelivery ==
    ASSUME TypeOK, Busy, Delivery
    PROVE  TypeOK' /\ Busy'
<1> USE DEF TypeOK
<1>1. ASSUME NEW f \in frames, LoseFrame(f) PROVE TypeOK' /\ Busy'
  BY <1>1 DEF LoseFrame, stores, sweeps, Busy, Active
<1>2. ASSUME NEW f \in frames, NEW w \in Workers, PusherClaim(w, f) PROVE TypeOK' /\ Busy'
  <2>1. f.c \in Conversations /\ f.gen \in Nat
    BY DEF HandoffType
  <2>2. CASE Claimable(f.c, f.gen, TRUE)
    <3> DEFINE a == [pc |-> "claimed", c |-> f.c, lane |-> "pusher", gen |-> f.gen,
                     epoch |-> NextEpoch(f.c), tries |-> job[f.c].attempts, quiet |-> FALSE]
    <3>1. NextEpoch(f.c) \in Nat /\ job[f.c].attempts \in Nat
      BY <2>1 DEF NextEpoch, JobType
    <3>2. a \in AttemptType /\ a.c \in Conversations
      BY <2>1, <3>1 DEF AttemptType
    <3>3. worker' = [worker EXCEPT ![w] = a] /\ Lease(f.c)
      BY <1>2, <2>2 DEF PusherClaim
    <3>4. worker' \in [Workers -> AttemptType] /\ Busy'
      <4> HIDE DEF a
      <4> QED BY <3>2, <3>3, AttemptWrites
    <3>5. /\ job' \in [Conversations -> JobType]
          /\ proj' \in [Counters -> Int]
          /\ UNCHANGED <<conv, effects>>
      BY <2>1, <3>3, LeaseType
    <3> QED BY <1>2, <3>4, <3>5 DEF PusherClaim, sweeps
  <2>3. CASE ~Claimable(f.c, f.gen, TRUE)
    BY <1>2, <2>3 DEF PusherClaim, stores, sweeps, Busy, Active
  <2> QED BY <2>2, <2>3
<1>3. ASSUME NEW t \in tasks, TaskLockedOut(t) \/ TaskDeadline(t) PROVE TypeOK' /\ Busy'
  <2>1. Retried({t}) \subseteq TaskType
    BY RetriedType
  <2>2. faults' \in Nat
    BY <1>3 DEF TaskLockedOut, TaskDeadline, Charge
  <2> QED BY <1>3, <2>1, <2>2 DEF TaskLockedOut, TaskDeadline, stores, sweeps, Busy, Active
<1>4. ASSUME NEW t \in tasks, NEW w \in Workers, TaskLocks(w, t) PROVE TypeOK' /\ Busy'
  <2> DEFINE a == [pc |-> "locked", c |-> t.c, lane |-> "task", gen |-> t.gen,
                   epoch |-> 0, tries |-> t.retry, quiet |-> FALSE]
  <2>1. t.c \in Conversations /\ t.gen \in Nat /\ t.retry \in Nat
    BY DEF TaskType
  <2>2. a \in AttemptType /\ a.c \in Conversations
    BY <2>1 DEF AttemptType
  <2>3. worker' \in [Workers -> AttemptType] /\ Busy'
    <3>1. worker' = [worker EXCEPT ![w] = a]
      BY <1>4 DEF TaskLocks
    <3> HIDE DEF a
    <3> QED BY <2>2, <3>1, AttemptWrites
  <2>4. [t EXCEPT !.running = TRUE] \in TaskType
    BY <2>1 DEF TaskType
  <2> QED BY <1>4, <2>1, <2>3, <2>4 DEF TaskLocks, stores, sweeps
<1> QED BY <1>1, <1>2, <1>3, <1>4 DEF Delivery

LEMMA TypeNext == TypeOK /\ Busy /\ [Next]_vars => TypeOK' /\ Busy'
<1> SUFFICES ASSUME TypeOK, Busy, [Next]_vars PROVE TypeOK' /\ Busy'
  OBVIOUS
<1>1. ASSUME NEW c \in Conversations, Request(c) \/ Timer(c) \/ User(c) PROVE TypeOK' /\ Busy'
  <2>1. TypeOK'
    BY <1>1, TypeRequest, TypeTimer, TypeUser
  <2>2. UNCHANGED worker
    BY <1>1 DEF Request, CreateIntent, GetIntent, ResumeByok, RequestDies, Timer, LockExpires,
                LeaseExpires, ReconcileDelayElapses, AbandonmentWindowElapses, User, Discard,
                RestoreDiscarded, DeleteConversation
  <2> QED BY <2>1, <2>2 DEF Busy, Active
<1>2. ASSUME NEW w \in Workers, WorkerStep(w) \/ Crash(w) PROVE TypeOK' /\ Busy'
  BY <1>2, TypeTaskClaims, TypeProcessing, TypeFanout, TypeClose, TypeCrash DEF WorkerStep
<1>3. CASE Delivery
  BY <1>3, TypeDelivery
<1>4. CASE Sweep
  <2>1. UNCHANGED worker
    BY <1>4 DEF Sweep, ReconcileScan, Replay, ByokScan, AbandonByok
  <2> QED BY <1>4, <2>1, TypeSweep DEF Busy, Active
<1>5. CASE StartCutover
  BY <1>5 DEF StartCutover, TypeOK, Busy, Active, stores, queues, sweeps
<1>6. CASE UNCHANGED vars
  BY <1>6 DEF vars, TypeOK, Busy, Active
<1> QED BY <1>1, <1>2, <1>3, <1>4, <1>5, <1>6 DEF Next

\* The type invariant holds for every instance: no transaction, crash, timer
\* or sweep leaves a row, a counter or a delivery outside its declared shape.
THEOREM TypeCorrect == Spec => [](TypeOK /\ Busy)
<1>1. Init => Busy
  BY DEF Init, Busy, Active, IdleAttempt
<1> QED BY <1>1, TypeInit, TypeNext, PTL DEF Spec
=============================================================================
