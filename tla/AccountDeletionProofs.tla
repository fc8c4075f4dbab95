------------------------- MODULE AccountDeletionProofs -------------------------
(***************************************************************************)
(* What the deletion of an account guarantees for every number of wipe     *)
(* threads, queue slots and reconcilers and every mix of faults: types,    *)
(* and that a completed deletion left nothing; and, unless a cancelled     *)
(* request meets one of three events that rewrite its marker, that one     *)
(* thread wipes at a time and that it respects legal holds.                *)
(***************************************************************************)
EXTENDS AccountDeletion, TLAPS

TaskType == [pending : BOOLEAN, tries : 0..MaxAttempts]

-----------------------------------------------------------------------------
(* The inductive invariant: the queue and the run lock                      *)

\* A request that is being handled has its task and the run lock.
RequestsHold ==
    \A r \in Runs : run[r].task # Nobody =>
        run[r].pc # "idle" /\ task[run[r].task].pending /\ lock = r
ClaimsRequest == \A r \in Runs : run[r].pc = "claim" => run[r].task # Nobody

\* A task that waits in the queue has an attempt left.
AttemptsLeft ==
    \A t \in Tasks : task[t].pending /\ (\A r \in Runs : run[r].task # t) => task[t].tries < MaxAttempts

TypeInv == TypeOK /\ RequestsHold /\ ClaimsRequest /\ AttemptsLeft

LEMMA Bounds == MaxAttempts \in Nat /\ MaxAttempts > 0
  BY BoundsAssumption

LEMMA Answered ==
    ASSUME NEW q \in TaskType
    PROVE  /\ Consumed \in TaskType /\ ~Consumed.pending
           /\ Unanswered(q) \in TaskType
           /\ Unanswered(q).pending => Unanswered(q).tries < MaxAttempts
<1> USE Bounds
<1>1. Consumed \in TaskType /\ ~Consumed.pending
  BY DEF Consumed, TaskType
<1> QED BY <1>1 DEF Unanswered, TaskType

LEMMA IdleTyped == IdleRun \in RunType /\ IdleRun.pc = "idle" /\ IdleRun.task = Nobody /\ ~IdleRun.fresh
  BY DEF IdleRun, RunType

\* Nothing of the queue, the lock or the requests changes.
LEMMA QueueKept ==
    ASSUME TypeInv, UNCHANGED <<lock, task, run>>
    PROVE  RequestsHold' /\ ClaimsRequest' /\ AttemptsLeft'
  BY DEF TypeInv, RequestsHold, ClaimsRequest, AttemptsLeft

LEMMA SenderType ==
    ASSUME TypeInv,
           \/ RequestDeletion
           \/ \E d \in Pods : ReconcilerReads(d) \/ ReconcilerClaims(d)
           \/ \E d \in Pods \union {User} : EnqueueFailed(d)
    PROVE  TypeInv'
<1>1. UNCHANGED <<hold, gate, lock, task, run, others, data, coming>>
  BY DEF RequestDeletion, ReconcilerReads, ReconcilerClaims, EnqueueFailed, stores
<1>2. marker' \in MarkerType /\ sender' \in [Pods \union {User} -> {"idle", "read", "enqueue", "failed"}]
  BY DEF RequestDeletion, ReconcilerReads, ReconcilerClaims, EnqueueFailed, stores, Marked, Sent,
         TypeInv, TypeOK, MarkerType
<1>3. TypeOK'
  BY <1>1, <1>2 DEF TypeInv, TypeOK, others
<1> QED BY <1>1, <1>3, QueueKept DEF TypeInv

LEMMA OthersType ==
    ASSUME TypeInv,
           PlaceHold \/ LiftHold \/ AcquireForMemory \/ ReleaseForMemory \/ FenceWrite \/ Write
           \/ JobStarts \/ JobStep \/ JobDies \/ GateAges \/ MarkerAges
    PROVE  TypeInv'
<1>1. CASE PlaceHold \/ LiftHold \/ AcquireForMemory \/ ReleaseForMemory
  <2>1. UNCHANGED <<marker, lock, task, run, sender, writer, event, job, data>>
    BY <1>1 DEF PlaceHold, LiftHold, AcquireForMemory, ReleaseForMemory, others
  <2>2. hold' \in BOOLEAN /\ memory' \in {"idle", "held"} /\ coming' \in SUBSET Happenings
    BY <1>1 DEF PlaceHold, LiftHold, AcquireForMemory, ReleaseForMemory, others, Happens, Nothing, TypeInv, TypeOK
  <2>3. gate \in GateType
    BY DEF TypeInv, TypeOK
  <2>4. gate' \in GateType
    <3>1. CASE PlaceHold \/ LiftHold
      BY <2>3, <3>1 DEF PlaceHold, LiftHold
    <3>2. CASE AcquireForMemory
      BY <3>2 DEF AcquireForMemory, GateType
    <3>3. CASE ReleaseForMemory
      <4>1. [gate EXCEPT !.state = "completed"] \in GateType
        BY <2>3 DEF GateType
      <4> QED BY <2>3, <3>3, <4>1 DEF ReleaseForMemory
    <3> QED BY <1>1, <3>1, <3>2, <3>3
  <2>5. TypeOK'
    BY <2>1, <2>2, <2>4 DEF TypeInv, TypeOK
  <2> QED BY <2>1, <2>5, QueueKept DEF TypeInv
<1>2. CASE FenceWrite \/ Write
  <2>1. UNCHANGED <<hold, gate, lock, task, run, sender, memory, event, job>>
    BY <1>2 DEF FenceWrite, Write, stores, others
  <2>2. marker' \in MarkerType /\ writer' \in {"idle", "fenced"} /\ coming' \in SUBSET Happenings
    BY <1>2 DEF FenceWrite, Write, stores, others, Happens, MarkerType, TypeInv, TypeOK
  <2>3. data' \in SUBSET (Erasing \union {"memory"})
    BY <1>2 DEF FenceWrite, Write, Erasing, TypeInv, TypeOK
  <2>4. TypeOK'
    BY <2>1, <2>2, <2>3 DEF TypeInv, TypeOK
  <2> QED BY <2>1, <2>4, QueueKept DEF TypeInv
<1>3. CASE JobStarts \/ JobStep \/ JobDies
  <2>1. UNCHANGED <<marker, hold, gate, lock, task, run, sender, memory, writer>>
    BY <1>3 DEF JobStarts, JobStep, JobLeases, JobLoads, JobFences, JobWrites, JobVerifies, JobDies, stores
  <2>2. /\ event' \in {"none", "pending", "processing", "delivered"}
        /\ job' \in {"idle", "ready", "leased", "allowed", "blocked", "writing", "verify"}
        /\ coming' \in SUBSET Happenings
    BY <1>3 DEF JobStarts, JobStep, JobLeases, JobLoads, JobFences, JobWrites, JobVerifies, JobDies, Seen,
                Happens, TypeInv, TypeOK
  <2>3. data' \in SUBSET (Erasing \union {"memory"})
    BY <1>3 DEF JobStarts, JobStep, JobLeases, JobLoads, JobFences, JobWrites, JobVerifies, JobDies,
                TypeInv, TypeOK
  <2>4. TypeOK'
    BY <2>1, <2>2, <2>3 DEF TypeInv, TypeOK
  <2> QED BY <2>1, <2>4, QueueKept DEF TypeInv
<1>4. CASE GateAges \/ MarkerAges
  <2>1. UNCHANGED <<hold, lock, task, run, sender, memory, writer, event, job, data, coming>>
    BY <1>4 DEF GateAges, MarkerAges, others
  <2>2. gate' \in GateType /\ marker' \in MarkerType
    BY <1>4 DEF GateAges, MarkerAges, GateType, MarkerType, TypeInv, TypeOK
  <2>3. TypeOK'
    BY <2>1, <2>2 DEF TypeInv, TypeOK
  <2> QED BY <2>1, <2>3, QueueKept DEF TypeInv
<1> QED BY <1>1, <1>2, <1>3, <1>4

LEMMA EnqueueType ==
    ASSUME TypeInv, NEW d \in Pods \union {User}, EnqueueWipe(d)
    PROVE  TypeInv'
<1>1. UNCHANGED <<marker, hold, gate, lock, run, memory, writer, event, job, data>>
  BY DEF EnqueueWipe, others
<1>2. sender' \in [Pods \union {User} -> {"idle", "read", "enqueue", "failed"}] /\ coming' \in SUBSET Happenings
  BY DEF EnqueueWipe, Sent, Happens, Nothing, TypeInv, TypeOK
<1>3. task' = task \/ Enqueue
  BY DEF EnqueueWipe
<1>4. task \in [Tasks -> TaskType] /\ run \in [Runs -> RunType]
  BY DEF TypeInv, TypeOK, TaskType
<1>5. CASE Enqueue
  <2> DEFINE q == [pending |-> TRUE, tries |-> 0]
  <2>1. PICK t \in Tasks : ~task[t].pending /\ task' = [task EXCEPT ![t] = q]
    BY <1>5 DEF Enqueue
  <2>2. q \in TaskType /\ q.tries < MaxAttempts
    BY Bounds DEF TaskType
  <2> HIDE DEF q
  <2>3. task' \in [Tasks -> TaskType] /\ task'[t] = q /\ \A u \in Tasks \ {t} : task'[u] = task[u]
    BY <1>4, <2>1, <2>2
  <2>4. \A r \in Runs : run[r].task # Nobody => run[r].task \in Tasks \ {t}
    BY <1>4, <2>1 DEF TypeInv, RequestsHold, RunType
  <2>5. TypeOK'
    BY <1>1, <1>2, <2>3 DEF TypeInv, TypeOK, TaskType
  <2>6. RequestsHold' /\ ClaimsRequest'
    BY <1>1, <2>3, <2>4 DEF TypeInv, RequestsHold, ClaimsRequest
  <2>7. AttemptsLeft'
    BY <1>1, <2>2, <2>3 DEF TypeInv, AttemptsLeft
  <2> QED BY <2>5, <2>6, <2>7 DEF TypeInv
<1>6. CASE task' = task
  <2>1. TypeOK'
    BY <1>1, <1>2, <1>6 DEF TypeInv, TypeOK
  <2> QED BY <1>1, <1>6, <2>1, QueueKept DEF TypeInv
<1> QED BY <1>3, <1>5, <1>6

\* A thread goes on with the request that it has, or without one.
LEMMA ThreadMoves ==
    ASSUME TypeInv, NEW r \in Runs, NEW n \in RunType, run' = [run EXCEPT ![r] = n],
           n.task = run[r].task, n.pc \notin {"idle", "claim"}, UNCHANGED <<lock, task>>
    PROVE  run' \in [Runs -> RunType] /\ RequestsHold' /\ ClaimsRequest' /\ AttemptsLeft'
<1>1. run \in [Runs -> RunType]
  BY DEF TypeInv, TypeOK
<1>2. run' \in [Runs -> RunType] /\ run'[r] = n /\ \A s \in Runs \ {r} : run'[s] = run[s]
  BY <1>1
<1>3. \A s \in Runs : run'[s].task = run[s].task
  BY <1>2
<1>4. RequestsHold' /\ ClaimsRequest'
  BY <1>2, <1>3 DEF TypeInv, RequestsHold, ClaimsRequest
<1>5. AttemptsLeft'
  BY <1>3 DEF TypeInv, AttemptsLeft
<1> QED BY <1>2, <1>4, <1>5

\* A thread's request ends, and the thread with it or not.
LEMMA RequestEnds ==
    ASSUME TypeInv, NEW r \in Runs, NEW n \in RunType, run' = [run EXCEPT ![r] = n],
           n.task = Nobody, n.pc # "claim", NEW q \in TaskType, q.pending => q.tries < MaxAttempts,
           run[r].task # Nobody => task' = [task EXCEPT ![run[r].task] = q],
           run[r].task = Nobody => UNCHANGED task,
           lock' = lock \/ (lock = r /\ lock' = Nobody)
    PROVE  /\ run' \in [Runs -> RunType] /\ task' \in [Tasks -> TaskType] /\ lock' \in Runs \union {Nobody}
           /\ RequestsHold' /\ ClaimsRequest' /\ AttemptsLeft'
<1> DEFINE t == run[r].task
<1>1. /\ run \in [Runs -> RunType] /\ task \in [Tasks -> TaskType] /\ lock \in Runs \union {Nobody}
      /\ Nobody \notin Runs /\ Nobody \notin Tasks
  BY NobodyAssumption DEF TypeInv, TypeOK, TaskType
<1>2. run' \in [Runs -> RunType] /\ run'[r] = n /\ \A s \in Runs \ {r} : run'[s] = run[s]
  BY <1>1
<1>3. t \in Tasks \union {Nobody}
  BY <1>1 DEF RunType
<1>4. task' \in [Tasks -> TaskType] /\ \A u \in Tasks \ {t} : task'[u] = task[u]
  BY <1>1, <1>3
<1>5. t # Nobody => task'[t] = q
  BY <1>1, <1>3
<1>6. \A s \in Runs \ {r} : run[s].task # Nobody => lock = s /\ run[s].task # t /\ run[s].task \in Tasks
  <2> SUFFICES ASSUME NEW s \in Runs \ {r}, run[s].task # Nobody
               PROVE  lock = s /\ run[s].task # t /\ run[s].task \in Tasks
    OBVIOUS
  <2>1. lock = s /\ run[s].task \in Tasks
    BY <1>1 DEF TypeInv, RequestsHold, RunType
  <2>2. t # Nobody => lock = r
    BY DEF TypeInv, RequestsHold
  <2> QED BY <2>1, <2>2
<1>7. RequestsHold'
  BY <1>2, <1>4, <1>6 DEF TypeInv, RequestsHold
<1>8. ClaimsRequest'
  BY <1>2 DEF TypeInv, ClaimsRequest
<1>9. AttemptsLeft'
  <2> SUFFICES ASSUME NEW u \in Tasks, task'[u].pending, \A s \in Runs : run'[s].task # u
               PROVE  task'[u].tries < MaxAttempts
    BY DEF AttemptsLeft
  <2>1. CASE u = t
    BY <1>1, <1>5, <2>1
  <2>2. CASE u # t
    <3>1. \A s \in Runs : run[s].task # u
      BY <1>2, <2>2
    <3> QED BY <1>4, <2>2, <3>1 DEF TypeInv, AttemptsLeft
  <2> QED BY <2>1, <2>2
<1>10. lock' \in Runs \union {Nobody}
  BY <1>1
<1> QED BY <1>2, <1>4, <1>7, <1>8, <1>9, <1>10

LEMMA DeliverType ==
    ASSUME TypeInv, NEW t \in Tasks, Deliver(t)
    PROVE  TypeInv'
<1> DEFINE tried == [task[t] EXCEPT !.tries = @ + 1]
<1>1. /\ UNCHANGED <<marker, hold, gate, sender, memory, writer, event, job, data, coming>>
      /\ task[t].pending /\ \A r \in Runs : run[r].task # t
  BY DEF Deliver, others
<1>2. /\ run \in [Runs -> RunType] /\ task \in [Tasks -> TaskType] /\ lock \in Runs \union {Nobody}
      /\ Nobody \notin Runs /\ Nobody \notin Tasks
  BY NobodyAssumption DEF TypeInv, TypeOK, TaskType
<1>3. task[t].tries < MaxAttempts
  BY <1>1 DEF TypeInv, AttemptsLeft
<1>4. tried \in TaskType /\ tried.pending
  BY <1>1, <1>2, <1>3, Bounds DEF TaskType
<1> HIDE DEF tried
<1>5. ASSUME NEW q \in TaskType, q.pending => q.tries < MaxAttempts, task' = [task EXCEPT ![t] = q],
             UNCHANGED <<lock, run>>
      PROVE  TypeInv'
  <2>1. task' \in [Tasks -> TaskType] /\ task'[t] = q /\ \A u \in Tasks \ {t} : task'[u] = task[u]
    BY <1>2, <1>5
  <2>2. TypeOK'
    BY <1>1, <1>5, <2>1 DEF TypeInv, TypeOK, TaskType
  <2>3. \A r \in Runs : run[r].task # Nobody => run[r].task \in Tasks \ {t}
    BY <1>1, <1>2 DEF RunType
  <2>4. RequestsHold' /\ ClaimsRequest'
    BY <1>5, <2>1, <2>3 DEF TypeInv, RequestsHold, ClaimsRequest
  <2>5. AttemptsLeft'
    BY <1>5, <2>1 DEF TypeInv, AttemptsLeft
  <2> QED BY <2>2, <2>4, <2>5 DEF TypeInv
<1>6. CASE marker.status = "completed" /\ task' = [task EXCEPT ![t] = Consumed] /\ UNCHANGED <<lock, run>>
  BY <1>4, <1>5, <1>6, Answered
<1>7. CASE task' = [task EXCEPT ![t] = Unanswered(tried)] /\ UNCHANGED <<lock, run>>
  BY <1>4, <1>5, <1>7, Answered
<1>8. ASSUME LockFree, NEW r \in Runs, Idle(r), lock' = r,
             run' = [run EXCEPT ![r] = [IdleRun EXCEPT !.pc = "claim", !.task = t]],
             task' = [task EXCEPT ![t] = tried]
      PROVE  TypeInv'
  <2> DEFINE n == [IdleRun EXCEPT !.pc = "claim", !.task = t]
  <2>1. n \in RunType /\ n.pc = "claim" /\ n.task = t
    BY DEF IdleRun, RunType
  <2> HIDE DEF n
  <2>2. run' \in [Runs -> RunType] /\ run'[r] = n /\ \A s \in Runs \ {r} : run'[s] = run[s]
    BY <1>2, <1>8, <2>1 DEF n
  <2>3. task' \in [Tasks -> TaskType] /\ task'[t] = tried /\ \A u \in Tasks \ {t} : task'[u] = task[u]
    BY <1>2, <1>4, <1>8
  <2>4. \A s \in Runs : run[s].task = Nobody
    BY <1>2, <1>8 DEF TypeInv, RequestsHold, LockFree
  <2>5. TypeOK'
    BY <1>1, <1>8, <2>2, <2>3 DEF TypeInv, TypeOK, TaskType
  <2>6. RequestsHold'
    <3> SUFFICES ASSUME NEW s \in Runs, run'[s].task # Nobody
                 PROVE  run'[s].pc # "idle" /\ task'[run'[s].task].pending /\ lock' = s
      BY DEF RequestsHold
    <3>1. s = r
      BY <2>2, <2>4
    <3> QED BY <1>4, <1>8, <2>1, <2>2, <2>3, <3>1
  <2>7. ClaimsRequest'
    BY <1>2, <2>1, <2>2 DEF TypeInv, ClaimsRequest
  <2>8. AttemptsLeft'
    <3> SUFFICES ASSUME NEW u \in Tasks, task'[u].pending, \A s \in Runs : run'[s].task # u
                 PROVE  task'[u].tries < MaxAttempts
      BY DEF AttemptsLeft
    <3>1. u # t
      BY <2>1, <2>2
    <3>2. \A s \in Runs : run[s].task # u
      BY <1>2, <2>4
    <3> QED BY <2>3, <3>1, <3>2 DEF TypeInv, AttemptsLeft
  <2> QED BY <2>5, <2>6, <2>7, <2>8 DEF TypeInv
<1> QED BY <1>6, <1>7, <1>8 DEF Deliver, tried

\* The end of a request, as the actions write it.
LEMMA AnswerType ==
    ASSUME TypeInv, NEW r \in Runs, Answer(r) \/ Crash(r) \/ Cancel(r)
    PROVE  TypeInv'
<1> DEFINE t == run[r].task
           q == IF Answer(r) /\ run[r].ok THEN Consumed ELSE Unanswered(task[t])
           n == IF Cancel(r) THEN [run[r] EXCEPT !.task = Nobody] ELSE IdleRun
           k == IF t = Nobody THEN Consumed ELSE q
<1>1. /\ run \in [Runs -> RunType] /\ task \in [Tasks -> TaskType] /\ run[r] \in RunType
      /\ t # Nobody => t \in Tasks
  BY DEF TypeInv, TypeOK, TaskType, RunType
<1>2. UNCHANGED <<marker, hold, gate, sender, memory, writer, event, job, data>> /\ coming' \in SUBSET Happenings
  BY DEF Answer, Crash, Cancel, Happens, others, TypeInv, TypeOK
<1>3. \A u \in Tasks : task[u] \in TaskType
  BY <1>1
<1>4. Consumed \in TaskType /\ ~Consumed.pending
  BY <1>3, Answered, Bounds DEF Consumed, TaskType
<1>5. k \in TaskType /\ (k.pending => k.tries < MaxAttempts)
  <2>1. CASE t = Nobody \/ q = Consumed
    BY <1>4, <2>1
  <2>2. CASE t # Nobody /\ q = Unanswered(task[t])
    BY <1>1, <1>3, <2>2, Answered
  <2> QED BY <2>1, <2>2
<1>6. n \in RunType /\ n.task = Nobody /\ n.pc # "claim" /\ run' = [run EXCEPT ![r] = n]
  <2>1. CASE Cancel(r)
    <3>1. run[r].pc \in Erasing /\ run' = [run EXCEPT ![r] = n]
      BY <1>1, <2>1 DEF Cancel
    <3> QED BY <1>1, <2>1, <3>1 DEF RunType, Erasing
  <2>2. CASE ~Cancel(r)
    BY <2>2, IdleTyped DEF Answer, Crash
  <2> QED BY <2>1, <2>2
<1>7. run[r].task # Nobody => task' = [task EXCEPT ![run[r].task] = k]
  <2>1. CASE Answer(r)
    BY <2>1 DEF Answer
  <2>2. CASE ~Answer(r)
    BY <2>2 DEF Crash, Cancel
  <2> QED BY <2>1, <2>2
<1>8. run[r].task = Nobody => UNCHANGED task
  BY DEF Answer, Crash, Cancel
<1>9. lock' = lock \/ (lock = r /\ lock' = Nobody)
  BY DEF Answer, Crash, Cancel
<1> HIDE DEF q, n, k
<1>10. /\ run' \in [Runs -> RunType] /\ task' \in [Tasks -> TaskType] /\ lock' \in Runs \union {Nobody}
       /\ RequestsHold' /\ ClaimsRequest' /\ AttemptsLeft'
  BY <1>5, <1>6, <1>7, <1>8, <1>9, RequestEnds
<1> QED BY <1>2, <1>10 DEF TypeInv, TypeOK, TaskType

LEMMA ClaimType ==
    ASSUME TypeInv, NEW r \in Runs, ClaimForTask(r)
    PROVE  TypeInv'
<1> DEFINE t == run[r].task
<1>1. run[r].pc = "claim" /\ UNCHANGED <<hold, gate, sender, memory, writer, event, job, data, coming>>
  BY DEF ClaimForTask, others
<1>2. /\ run \in [Runs -> RunType] /\ task \in [Tasks -> TaskType] /\ run[r] \in RunType
      /\ t # Nobody /\ t \in Tasks /\ lock = r
  BY <1>1 DEF TypeInv, TypeOK, TaskType, RunType, ClaimsRequest, RequestsHold
<1>3. marker' \in MarkerType
  BY DEF ClaimForTask, Marked, MarkerType, TypeInv, TypeOK
<1>4. CASE Step(r, "gate") /\ UNCHANGED <<lock, task>>
  <2> DEFINE n == [run[r] EXCEPT !.pc = "gate"]
  <2>1. n \in RunType /\ n.task = run[r].task /\ n.pc \notin {"idle", "claim"} /\ run' = [run EXCEPT ![r] = n]
    BY <1>2, <1>4 DEF Step, RunType, Wiping
  <2> HIDE DEF n
  <2>2. run' \in [Runs -> RunType] /\ RequestsHold' /\ ClaimsRequest' /\ AttemptsLeft'
    BY <1>4, <2>1, ThreadMoves
  <2> QED BY <1>1, <1>3, <1>4, <2>2 DEF TypeInv, TypeOK
<1>5. CASE ~Actionable
  <2> DEFINE q == IF marker.status = "running" THEN Unanswered(task[t]) ELSE Consumed
  <2>1. task[t] \in TaskType
    BY <1>2
  <2>2. q \in TaskType /\ (q.pending => q.tries < MaxAttempts)
    BY <2>1, Answered
  <2>3. task' = [task EXCEPT ![t] = q] /\ run' = [run EXCEPT ![r] = IdleRun] /\ lock' = Nobody
    BY <1>5 DEF ClaimForTask
  <2> HIDE DEF q
  <2>4. /\ run' \in [Runs -> RunType] /\ task' \in [Tasks -> TaskType] /\ lock' \in Runs \union {Nobody}
        /\ RequestsHold' /\ ClaimsRequest' /\ AttemptsLeft'
    BY <1>2, <2>2, <2>3, IdleTyped, RequestEnds
  <2> QED BY <1>1, <1>3, <2>4 DEF TypeInv, TypeOK, TaskType
<1> QED BY <1>4, <1>5 DEF ClaimForTask

\* The steps of background_wipe_user_data leave the queue and the lock alone.
LEMMA WipeMoves ==
    ASSUME TypeInv, NEW r \in Runs,
           AcquireGate(r) \/ MarkRunning(r) \/ Erase(r) \/ MarkCompleted(r) \/ FinishGate(r) \/ MarkFailed(r)
    PROVE  \E n \in RunType :
             /\ run' = [run EXCEPT ![r] = n] /\ n.task = run[r].task
             /\ n.pc \in {"answer"} \union (Wiping \ {"gate"})
<1>1. run \in [Runs -> RunType] /\ run[r] \in RunType
  BY DEF TypeInv, TypeOK
<1>2. ASSUME NEW p \in {"answer"} \union (Wiping \ {"gate"}), Step(r, p)
      PROVE  \E n \in RunType :
               /\ run' = [run EXCEPT ![r] = n] /\ n.task = run[r].task
               /\ n.pc \in {"answer"} \union (Wiping \ {"gate"})
  <2> DEFINE n == [run[r] EXCEPT !.pc = p]
  <2>1. /\ n \in RunType /\ n.pc = p /\ n.task = run[r].task /\ n.fresh = run[r].fresh
        /\ run' = [run EXCEPT ![r] = n]
    BY <1>1, <1>2 DEF RunType, Step
  <2> HIDE DEF n
  <2> QED BY <2>1
<1>3. CASE AcquireGate(r)
  <2>1. CASE Step(r, "failMark") \/ Step(r, "mark")
    BY <1>2, <2>1 DEF Wiping
  <2>2. CASE run[r].pc = "gate" /\ run' = [run EXCEPT ![r].pc = "mark", ![r].fresh = TRUE]
    <3> DEFINE n == [run[r] EXCEPT !.pc = "mark", !.fresh = TRUE]
    <3>1. /\ n \in RunType /\ n.pc = "mark" /\ n.task = run[r].task /\ n.fresh = TRUE
          /\ run' = [run EXCEPT ![r] = n]
      BY <1>1, <2>2 DEF RunType, Wiping
    <3> HIDE DEF n
    <3> QED BY <2>2, <3>1 DEF Wiping
  <2> QED BY <1>3, <2>1, <2>2 DEF AcquireGate
<1>4. CASE MarkRunning(r)
  BY <1>2, <1>4 DEF MarkRunning, Wiping, Erasing
<1>5. CASE Erase(r)
  <2>1. run[r].pc \in Erasing => After(run[r].pc) \in Wiping \ {"gate"}
    BY DEF After, Wiping, Erasing
  <2>2. Step(r, "failGate") \/ (run[r].pc \in Erasing /\ Step(r, After(run[r].pc)))
    BY <1>5 DEF Erase
  <2> QED BY <1>2, <2>1, <2>2 DEF Wiping
<1>6. CASE MarkCompleted(r)
  <2>1. Step(r, "finish") \/ Step(r, "answer")
    BY <1>6 DEF MarkCompleted
  <2> QED BY <1>2, <2>1 DEF Wiping
<1>7. CASE MarkFailed(r)
  BY <1>2, <1>7 DEF MarkFailed
<1>8. CASE FinishGate(r)
  <2>1. \E p \in {"answer", "failMark"}, o \in BOOLEAN :
          run' = [run EXCEPT ![r].pc = p, ![r].ok = o] \/ Step(r, p)
    BY <1>8 DEF FinishGate
  <2>2. PICK p \in {"answer", "failMark"}, o \in BOOLEAN :
          run' = [run EXCEPT ![r].pc = p, ![r].ok = o] \/ Step(r, p)
    BY <2>1
  <2>3. CASE Step(r, p)
    BY <1>2, <2>3 DEF Wiping
  <2>4. CASE run' = [run EXCEPT ![r].pc = p, ![r].ok = o]
    <3> DEFINE n == [run[r] EXCEPT !.pc = p, !.ok = o]
    <3>1. /\ n \in RunType /\ n.pc = p /\ n.task = run[r].task /\ n.fresh = run[r].fresh
          /\ run' = [run EXCEPT ![r] = n]
      BY <1>1, <2>4 DEF RunType, Wiping
    <3> HIDE DEF n
    <3> QED BY <3>1 DEF Wiping
  <2> QED BY <2>2, <2>3, <2>4
<1> QED BY <1>3, <1>4, <1>5, <1>6, <1>7, <1>8

LEMMA WipeType ==
    ASSUME TypeInv, NEW r \in Runs,
           AcquireGate(r) \/ MarkRunning(r) \/ Erase(r) \/ MarkCompleted(r) \/ FinishGate(r) \/ MarkFailed(r)
    PROVE  TypeInv'
<1>1. UNCHANGED <<hold, lock, task, sender, memory, writer, job>>
  BY DEF AcquireGate, MarkRunning, Erase, MarkCompleted, FinishGate, MarkFailed, others
<1>2. run' \in [Runs -> RunType] /\ RequestsHold' /\ ClaimsRequest' /\ AttemptsLeft'
  <2>1. PICK n \in RunType : /\ run' = [run EXCEPT ![r] = n] /\ n.task = run[r].task
                             /\ n.pc \in {"answer"} \union (Wiping \ {"gate"})
    BY WipeMoves
  <2>2. n.pc \notin {"idle", "claim"}
    BY <2>1 DEF Wiping, Erasing
  <2> QED BY <1>1, <2>1, <2>2, ThreadMoves
<1>3. marker \in MarkerType /\ gate \in GateType
  BY DEF TypeInv, TypeOK
<1>4. marker' \in MarkerType
  <2>1. CASE AcquireGate(r) \/ FinishGate(r)
    BY <1>3, <2>1 DEF AcquireGate, FinishGate
  <2>2. CASE MarkRunning(r) \/ MarkFailed(r)
    BY <1>3, <2>2 DEF MarkRunning, MarkFailed, Marked, MarkerType
  <2>3. CASE Erase(r)
    BY <1>3, <2>3 DEF Erase, MarkerType
  <2>4. CASE MarkCompleted(r)
    BY <1>3, <2>4 DEF MarkCompleted, Completed, MarkerType
  <2> QED BY <2>1, <2>2, <2>3, <2>4
<1>5. gate' \in GateType
  <2>1. CASE AcquireGate(r)
    <3>1. [state |-> "running", kind |-> "account_deletion", old |-> FALSE] \in GateType
      BY DEF GateType
    <3> QED BY <1>3, <2>1, <3>1 DEF AcquireGate
  <2>2. CASE FinishGate(r)
    <3>1. [gate EXCEPT !.state = "completed"] \in GateType /\ [gate EXCEPT !.state = "failed"] \in GateType
      BY <1>3 DEF GateType
    <3> QED BY <1>3, <2>2, <3>1 DEF FinishGate
  <2>3. CASE MarkRunning(r) \/ Erase(r) \/ MarkCompleted(r) \/ MarkFailed(r)
    BY <1>3, <2>3 DEF MarkRunning, Erase, MarkCompleted, MarkFailed
  <2> QED BY <2>1, <2>2, <2>3
<1>6. data' \in SUBSET (Erasing \union {"memory"})
  BY DEF AcquireGate, MarkRunning, Erase, MarkCompleted, FinishGate, MarkFailed, TypeInv, TypeOK
<1>7. event' \in {"none", "pending", "processing", "delivered"} /\ coming' \in SUBSET Happenings
  BY DEF AcquireGate, MarkRunning, Erase, MarkCompleted, FinishGate, MarkFailed, others, Happens, Nothing,
         TypeInv, TypeOK
<1> QED BY <1>1, <1>2, <1>4, <1>5, <1>6, <1>7 DEF TypeInv, TypeOK

LEMMA LockExpiresType ==
    ASSUME TypeInv, LockExpires
    PROVE  TypeInv'
<1>1. /\ lock' = Nobody /\ UNCHANGED <<marker, hold, gate, task, run, sender, memory, writer, event, job, data, coming>>
      /\ run[lock].pc = "idle" \/ run[lock].task = Nobody
  BY DEF LockExpires, Idle, others
<1>2. \A r \in Runs : run[r].task = Nobody
  BY <1>1 DEF TypeInv, RequestsHold
<1>3. TypeOK'
  BY <1>1 DEF TypeInv, TypeOK
<1>4. RequestsHold' /\ ClaimsRequest' /\ AttemptsLeft'
  BY <1>1, <1>2 DEF TypeInv, RequestsHold, ClaimsRequest, AttemptsLeft
<1> QED BY <1>3, <1>4 DEF TypeInv

LEMMA TypeInit == Init => TypeInv
<1> SUFFICES ASSUME Init PROVE TypeInv
  OBVIOUS
<1>1. marker \in MarkerType /\ gate \in GateType /\ hold \in BOOLEAN
  <2>1. marker \in MarkerType
    BY DEF Init, MarkerType
  <2>2. gate \in GateType
    BY DEF Init, GateType
  <2> QED BY <2>1, <2>2 DEF Init
<1>2. task \in [Tasks -> TaskType] /\ \A t \in Tasks : ~task[t].pending
  BY Bounds DEF Init, TaskType
<1>3. run \in [Runs -> RunType] /\ \A r \in Runs : run[r].task = Nobody /\ run[r].pc = "idle"
  BY IdleTyped DEF Init
<1>4. /\ lock \in Runs \union {Nobody} /\ sender \in [Pods \union {User} -> {"idle", "read", "enqueue", "failed"}]
      /\ memory \in {"idle", "held"} /\ writer \in {"idle", "fenced"}
      /\ event \in {"none", "pending", "processing", "delivered"}
      /\ job \in {"idle", "ready", "leased", "allowed", "blocked", "writing", "verify"}
  BY DEF Init
<1>5. data \in SUBSET (Erasing \union {"memory"}) /\ coming \in SUBSET Happenings
  BY ScenariosAssumption DEF Init, Erasing
<1>6. TypeOK
  BY <1>1, <1>2, <1>3, <1>4, <1>5 DEF TypeOK, TaskType
<1>7. RequestsHold /\ ClaimsRequest /\ AttemptsLeft
  BY <1>2, <1>3 DEF RequestsHold, ClaimsRequest, AttemptsLeft
<1> QED BY <1>6, <1>7 DEF TypeInv

LEMMA TypeStep == TypeInv /\ [Next]_vars => TypeInv'
<1> SUFFICES ASSUME TypeInv, [Next]_vars PROVE TypeInv'
  OBVIOUS
<1>1. CASE \/ RequestDeletion
           \/ \E d \in Pods : ReconcilerReads(d) \/ ReconcilerClaims(d)
           \/ \E d \in Pods \union {User} : EnqueueFailed(d)
  BY <1>1, SenderType
<1>2. CASE \E d \in Pods \union {User} : EnqueueWipe(d)
  BY <1>2, EnqueueType
<1>3. CASE \E t \in Tasks : Deliver(t)
  BY <1>3, DeliverType
<1>4. CASE \E r \in Runs : RunStep(r) \/ Crash(r) \/ Cancel(r)
  BY <1>4, ClaimType, WipeType, AnswerType DEF RunStep
<1>5. CASE PlaceHold \/ LiftHold \/ AcquireForMemory \/ ReleaseForMemory \/ FenceWrite \/ Write
           \/ JobStarts \/ JobStep \/ JobDies \/ GateAges \/ MarkerAges
  BY <1>5, OthersType
<1>6. CASE LockExpires
  BY <1>6, LockExpiresType
<1>7. CASE UNCHANGED vars
  <2>1. TypeOK'
    BY <1>7 DEF vars, TypeInv, TypeOK
  <2> QED BY <1>7, <2>1, QueueKept DEF vars, TypeInv
<1> QED BY <1>1, <1>2, <1>3, <1>4, <1>5, <1>6, <1>7 DEF Next

\* TypeInv is an invariant of the specification: the other proofs start from it.
THEOREM TypeInvariant == Spec => []TypeInv
<1>1. Init => TypeInv
  BY TypeInit
<1>2. TypeInv /\ [Next]_vars => TypeInv'
  BY TypeStep
<1> QED BY <1>1, <1>2, PTL DEF Spec

\* Type correctness: the marker, the gate, the run lock, the threads and the
\* requests keep their shapes, and no task of the queue is tried more often than
\* get_account_deletion_tasks_max_attempts, whatever dies or is cancelled.
THEOREM DeletionTypeCorrect == Spec => []TypeOK
<1>1. TypeInv => TypeOK
  BY DEF TypeInv
<1> QED BY <1>1, TypeInvariant, PTL

-----------------------------------------------------------------------------
(* The inductive invariant: what a wipe has erased                          *)

\* The steps after the first erasure.
Advanced == {"login", "derived", "provider", "rows", "complete"}

\* What a thread erased stays erased: no machine is on record any more, and no
\* projection that was leased before the wipe is still to be written.
Cleared(pc) ==
    /\ pc \in Advanced => ~marker.late /\ "vm" \notin data
    /\ pc \in {"derived", "provider", "rows", "complete"} => "login" \notin data
    /\ pc \in {"provider", "rows", "complete"} => job # "writing"
    /\ pc \in {"rows", "complete"} => "memory" \notin data
    /\ pc = "complete" => "rows" \notin data

Progress == \A r \in Runs : Cleared(run[r].pc)

\* Threads wipe only an account whose deletion was accepted.
Accepted == \A r \in Runs : Wiper(r) => Blocks

\* An upsert that passed its fence has the lease of its event.
Leased ==
    /\ job = "writing" => event = "processing"
    /\ job \in {"leased", "allowed"} /\ ~Blocks => event = "processing"

\* A completed deletion has left nothing and nothing is on its way.
Over == marker.status = "completed" => job # "writing" /\ data \subseteq {"derived"}

EraseInv == Progress /\ Accepted /\ Leased /\ Over /\ "provider" \notin data

LEMMA EraseInit == Init => EraseInv
<1> SUFFICES ASSUME Init PROVE EraseInv
  OBVIOUS
<1>1. \A r \in Runs : run[r].pc = "idle"
  BY IdleTyped DEF Init
<1>2. job = "idle" /\ marker.status # "completed" /\ "provider" \notin data
  BY DEF Init
<1>3. Progress /\ Accepted
  BY <1>1 DEF Progress, Cleared, Advanced, Accepted, Wiper, Wiping, Erasing
<1> QED BY <1>2, <1>3 DEF EraseInv, Leased, Over

\* A step that erases nothing, adds nothing and completes nothing.
LEMMA EraseKept ==
    ASSUME EraseInv, UNCHANGED <<data, job, event>>, marker'.late = marker.late,
           Blocks => Blocks', marker'.status = "completed" => marker.status = "completed",
           \A r \in Runs : run'[r].pc = run[r].pc \/ (run'[r].pc \notin Advanced /\ (Wiper(r)' => Blocks'))
    PROVE  EraseInv'
<1>1. Progress'
  <2> SUFFICES ASSUME NEW r \in Runs PROVE Cleared(run[r].pc)'
    BY DEF Progress
  <2>1. CASE run'[r].pc = run[r].pc
    BY <2>1 DEF EraseInv, Progress, Cleared
  <2>2. CASE run'[r].pc \notin Advanced
    BY <2>2 DEF Cleared, Advanced
  <2> QED BY <2>1, <2>2
<1>2. Accepted'
  BY DEF EraseInv, Accepted, Wiper
<1>3. Leased' /\ Over' /\ "provider" \notin data'
  BY DEF EraseInv, Leased, Over
<1> QED BY <1>1, <1>2, <1>3 DEF EraseInv

LEMMA SenderErases ==
    ASSUME TypeInv, EraseInv,
           \/ RequestDeletion
           \/ \E d \in Pods : ReconcilerReads(d) \/ ReconcilerClaims(d)
           \/ \E d \in Pods \union {User} : EnqueueWipe(d) \/ EnqueueFailed(d)
           \/ \E t \in Tasks : Deliver(t)
    PROVE  EraseInv'
<1>1. UNCHANGED <<data, job, event>>
  BY DEF RequestDeletion, ReconcilerReads, ReconcilerClaims, EnqueueWipe, EnqueueFailed, Deliver, others
<1>2. marker \in MarkerType /\ run \in [Runs -> RunType]
  BY DEF TypeInv, TypeOK
<1>3. \E s \in {"pending", "retrying", "failed"} : Marked(s) \/ UNCHANGED marker
  BY DEF RequestDeletion, ReconcilerReads, ReconcilerClaims, EnqueueWipe, EnqueueFailed, Deliver, stores
<1>4. marker'.late = marker.late /\ (Blocks => Blocks')
      /\ (marker'.status = "completed" => marker.status = "completed")
  BY <1>2, <1>3 DEF Marked, MarkerType, Blocks
<1>5. ASSUME NEW r \in Runs
      PROVE  run'[r].pc = run[r].pc \/ (run'[r].pc \notin Advanced /\ (Wiper(r)' => Blocks'))
  <2>1. CASE run' = run
    BY <2>1
  <2>2. CASE \E t \in Tasks : Deliver(t)
    <3>1. PICK t \in Tasks : Deliver(t)
      BY <2>2
    <3>2. CASE \E q \in Runs : run' = [run EXCEPT ![q] = [IdleRun EXCEPT !.pc = "claim", !.task = t]]
      <4>1. PICK q \in Runs : run' = [run EXCEPT ![q] = [IdleRun EXCEPT !.pc = "claim", !.task = t]]
        BY <3>2
      <4>2. run'[r].pc = run[r].pc \/ run'[r].pc = "claim"
        BY <1>2, <4>1 DEF IdleRun
      <4> QED BY <4>2 DEF Advanced, Wiper, Wiping, Erasing
    <3> QED BY <2>1, <3>1, <3>2 DEF Deliver
  <2> QED BY <2>1, <2>2 DEF RequestDeletion, ReconcilerReads, ReconcilerClaims, EnqueueWipe, EnqueueFailed
<1> QED BY <1>1, <1>4, <1>5, EraseKept

LEMMA BystandersErase ==
    ASSUME TypeInv, EraseInv,
           PlaceHold \/ LiftHold \/ AcquireForMemory \/ ReleaseForMemory \/ FenceWrite
           \/ GateAges \/ MarkerAges \/ LockExpires
    PROVE  EraseInv'
<1>1. UNCHANGED <<data, job, event, run>>
  BY DEF PlaceHold, LiftHold, AcquireForMemory, ReleaseForMemory, FenceWrite, GateAges, MarkerAges, LockExpires, others
<1>2. marker \in MarkerType
  BY DEF TypeInv, TypeOK
<1>3. marker' = marker \/ marker' = [marker EXCEPT !.old = TRUE]
  BY DEF PlaceHold, LiftHold, AcquireForMemory, ReleaseForMemory, FenceWrite, GateAges, MarkerAges, LockExpires, stores
<1>4. marker'.late = marker.late /\ (Blocks => Blocks')
      /\ (marker'.status = "completed" => marker.status = "completed")
  BY <1>2, <1>3 DEF MarkerType, Blocks
<1>5. \A r \in Runs : run'[r].pc = run[r].pc
  BY <1>1
<1> QED BY <1>1, <1>4, <1>5, EraseKept

LEMMA ThreadsErase ==
    ASSUME TypeInv, EraseInv, NEW r \in Runs,
           ClaimForTask(r) \/ AcquireGate(r) \/ MarkRunning(r) \/ FinishGate(r) \/ MarkFailed(r)
           \/ Answer(r) \/ Crash(r) \/ Cancel(r)
    PROVE  EraseInv'
<1>1. UNCHANGED <<data, job, event>>
  BY DEF ClaimForTask, AcquireGate, MarkRunning, FinishGate, MarkFailed, Answer, Crash, Cancel, others
<1>2. marker \in MarkerType /\ run \in [Runs -> RunType] /\ run[r] \in RunType
  BY DEF TypeInv, TypeOK
<1>3. \E s \in {"retrying", "running", "failed"} : Marked(s) \/ UNCHANGED marker
  BY DEF ClaimForTask, AcquireGate, MarkRunning, FinishGate, MarkFailed, Answer, Crash, Cancel
<1>4. marker'.late = marker.late /\ (Blocks => Blocks')
      /\ (marker'.status = "completed" => marker.status = "completed")
  BY <1>2, <1>3 DEF Marked, MarkerType, Blocks
<1>5. (\A q \in Runs \ {r} : run'[q] = run[q])
      /\ (run'[r].pc = run[r].pc \/ run'[r].pc \in {"idle", "gate", "mark", "vm", "failMark", "answer"})
  <2>1. CASE ClaimForTask(r) \/ MarkRunning(r) \/ MarkFailed(r)
    BY <1>2, <2>1, IdleTyped DEF ClaimForTask, MarkRunning, MarkFailed, Step, RunType
  <2>2. CASE AcquireGate(r) \/ FinishGate(r)
    BY <1>2, <2>2 DEF AcquireGate, FinishGate, Step, RunType
  <2>3. CASE Answer(r) \/ Crash(r) \/ Cancel(r)
    BY <1>2, <2>3, IdleTyped DEF Answer, Crash, Cancel, RunType
  <2> QED BY <2>1, <2>2, <2>3
<1>6. Wiper(r)' => Blocks'
  <2>1. CASE ClaimForTask(r)
    <3>1. CASE Marked("retrying")
      BY <1>2, <3>1 DEF Marked, MarkerType, Blocks
    <3>2. CASE run' = [run EXCEPT ![r] = IdleRun]
      BY <1>2, <3>2, IdleTyped DEF Wiper, Wiping, Erasing
    <3> QED BY <2>1, <3>1, <3>2 DEF ClaimForTask
  <2>2. CASE AcquireGate(r) \/ MarkRunning(r) \/ FinishGate(r) \/ MarkFailed(r) \/ Cancel(r)
    <3>1. Wiper(r)
      BY <2>2 DEF AcquireGate, MarkRunning, FinishGate, MarkFailed, Cancel, Wiper, Wiping
    <3> QED BY <1>4, <3>1 DEF EraseInv, Accepted
  <2>3. CASE Answer(r) \/ Crash(r)
    BY <1>2, <2>3, IdleTyped DEF Answer, Crash, Wiper, Wiping, Erasing
  <2> QED BY <2>1, <2>2, <2>3
<1>7. \A q \in Runs : run'[q].pc = run[q].pc \/ (run'[q].pc \notin Advanced /\ (Wiper(q)' => Blocks'))
  BY <1>5, <1>6 DEF Advanced
<1> QED BY <1>1, <1>4, <1>7, EraseKept

\* A step of the wipe erases its part, and the derived step lets it go on to the
\* canonical ones only when no projection is leased.
LEMMA EraseErases ==
    ASSUME TypeInv, EraseInv, NEW r \in Runs, Erase(r)
    PROVE  EraseInv'
<1> DEFINE pc == run[r].pc
<1>1. pc \in Erasing /\ UNCHANGED job /\ data' \subseteq data
  BY DEF Erase
<1>2. marker \in MarkerType /\ run \in [Runs -> RunType] /\ run[r] \in RunType
  BY DEF TypeInv, TypeOK
<1>3. marker' = marker \/ marker' = [marker EXCEPT !.late = FALSE]
  BY DEF Erase
<1>4. marker'.status = marker.status /\ (marker'.late => marker.late)
  BY <1>2, <1>3 DEF MarkerType
<1>5. Blocks /\ Blocks'
  <2>1. Wiper(r)
    BY <1>1 DEF Wiper, Wiping
  <2> QED BY <1>4, <2>1 DEF EraseInv, Accepted, Blocks
<1>6. \A q \in Runs : run[q].pc \in {"provider", "rows", "complete"} => job # "writing"
  BY DEF EraseInv, Progress, Cleared
<1>7. event' = event \/ job # "writing"
  BY <1>6 DEF Erase
<1>8. \A q \in Runs \ {r} : run'[q] = run[q]
  BY <1>2 DEF Erase, Step
<1>9. Cleared(run[r].pc)'
  <2>1. CASE Step(r, "failGate")
    BY <1>2, <2>1 DEF Step, Cleared, Advanced, RunType
  <2>2. CASE /\ pc # "derived" \/ ~Deferred
             /\ data' = data \ (IF pc = "provider" THEN {"provider", "memory"} ELSE {pc})
             /\ Step(r, After(pc))
    <3>1. run'[r].pc = After(pc)
      BY <1>2, <2>2 DEF Step, RunType
    <3>2. Cleared(pc) /\ Leased
      BY DEF EraseInv, Progress
    <3>3. CASE pc = "vm"
      <4>1. ~marker'.late
        BY <1>2, <3>1, <3>3 DEF Erase, Step, After, MarkerType, RunType
      <4> QED BY <1>1, <2>2, <3>1, <3>3, <4>1 DEF After, Cleared, Advanced
    <3>4. CASE pc = "login"
      BY <1>1, <1>4, <2>2, <3>1, <3>2, <3>4 DEF After, Cleared, Advanced
    <3>5. CASE pc = "derived"
      BY <1>1, <1>4, <2>2, <3>1, <3>2, <3>5 DEF After, Cleared, Advanced, Deferred, Leased
    <3>6. CASE pc = "provider"
      BY <1>1, <1>4, <2>2, <3>1, <3>2, <3>6 DEF After, Cleared, Advanced
    <3>7. CASE pc = "rows"
      BY <1>1, <1>4, <2>2, <3>1, <3>2, <3>7 DEF After, Cleared, Advanced
    <3> QED BY <1>1, <3>3, <3>4, <3>5, <3>6, <3>7 DEF Erasing
  <2> QED BY <2>1, <2>2 DEF Erase
<1>10. Progress'
  <2>1. \A q \in Runs \ {r} : Cleared(run[q].pc)'
    <3> SUFFICES ASSUME NEW q \in Runs \ {r} PROVE Cleared(run[q].pc)'
      OBVIOUS
    <3>1. Cleared(run[q].pc) /\ run'[q].pc = run[q].pc
      BY <1>8 DEF EraseInv, Progress
    <3> QED BY <1>1, <1>4, <3>1 DEF Cleared, Advanced
  <2> QED BY <1>9, <2>1 DEF Progress
<1>11. Accepted'
  BY <1>5 DEF Accepted
<1>12. Leased'
  BY <1>1, <1>5, <1>7 DEF EraseInv, Leased
<1>13. Over' /\ "provider" \notin data'
  BY <1>1, <1>4 DEF EraseInv, Over
<1> QED BY <1>10, <1>11, <1>12, <1>13 DEF EraseInv

\* mark_wipe_completed completes only when everything is gone.
LEMMA CompletedErases ==
    ASSUME TypeInv, EraseInv, NEW r \in Runs, MarkCompleted(r)
    PROVE  EraseInv'
<1>1. run[r].pc = "complete" /\ UNCHANGED <<data, job, event>> /\ (marker' = marker \/ marker' = Completed)
  BY DEF MarkCompleted, others
<1>2. marker \in MarkerType /\ run \in [Runs -> RunType] /\ run[r] \in RunType
  BY DEF TypeInv, TypeOK
<1>3. Cleared("complete") /\ Blocks
  BY <1>1 DEF EraseInv, Progress, Accepted, Wiper, Wiping
<1>4. marker'.late = marker.late /\ Blocks'
  BY <1>1, <1>2, <1>3 DEF Completed, MarkerType, Blocks
<1>5. run'[r].pc \in {"finish", "answer"} /\ \A q \in Runs \ {r} : run'[q] = run[q]
  BY <1>2 DEF MarkCompleted, Step, RunType
<1>6. Progress'
  <2> SUFFICES ASSUME NEW q \in Runs PROVE Cleared(run[q].pc)'
    BY DEF Progress
  <2>1. CASE q = r
    BY <1>5, <2>1 DEF Cleared, Advanced
  <2>2. CASE q # r
    BY <1>1, <1>4, <1>5, <2>2 DEF EraseInv, Progress, Cleared, Advanced
  <2> QED BY <2>1, <2>2
<1>7. Accepted' /\ Leased' /\ "provider" \notin data'
  BY <1>1, <1>4 DEF Accepted, EraseInv, Leased
<1>8. Over'
  <2>1. data \subseteq {"vm", "login", "derived", "provider", "rows", "memory"}
    BY DEF TypeInv, TypeOK, Erasing
  <2>2. data \subseteq {"derived"} /\ job # "writing"
    BY <1>3, <2>1 DEF EraseInv, Cleared, Advanced
  <2> QED BY <1>1, <1>4, <2>2 DEF EraseInv, Over
<1> QED BY <1>6, <1>7, <1>8 DEF EraseInv

\* What others add: a provider object.
LEMMA WritersErase ==
    ASSUME TypeInv, EraseInv, Write
    PROVE  EraseInv'
<1>1. UNCHANGED <<run, job, event, marker>> /\ data' = data \union {"derived"}
  BY DEF Write, stores
<1>2. Progress'
  BY <1>1 DEF EraseInv, Progress, Cleared
<1>3. Accepted' /\ Leased'
  BY <1>1 DEF EraseInv, Accepted, Wiper, Blocks, Leased
<1>4. Over' /\ "provider" \notin data'
  BY <1>1 DEF EraseInv, Over
<1> QED BY <1>2, <1>3, <1>4 DEF EraseInv

LEMMA JobErases ==
    ASSUME TypeInv, EraseInv, JobStarts \/ JobStep \/ JobDies
    PROVE  EraseInv'
<1>1. UNCHANGED <<run, marker>>
  BY DEF JobStarts, JobStep, JobLeases, JobLoads, JobFences, JobWrites, JobVerifies, JobDies, stores
<1>2. Blocks' = Blocks
  BY <1>1 DEF Blocks
<1>3. Accepted'
  BY <1>1, <1>2 DEF EraseInv, Accepted, Wiper
<1>4. \A r \in Runs : run[r].pc \in Advanced => Blocks
  BY DEF EraseInv, Accepted, Wiper, Wiping, Erasing, Advanced
<1>5. marker.status = "completed" => Blocks
  BY DEF Blocks
<1>6. job' = "writing" => ~Blocks \/ job = "writing"
  BY DEF JobStarts, JobStep, JobLeases, JobLoads, JobFences, JobWrites, JobVerifies, JobDies, Seen
<1>7. /\ "memory" \in data' => "memory" \in data \/ job = "writing"
      /\ \A x \in data' : x = "memory" \/ x \in data
  BY DEF JobStarts, JobStep, JobLeases, JobLoads, JobFences, JobWrites, JobVerifies, JobDies
<1>8. Progress'
  <2> SUFFICES ASSUME NEW r \in Runs PROVE Cleared(run[r].pc)'
    BY DEF Progress
  <2>1. Cleared(run[r].pc)
    BY DEF EraseInv, Progress
  <2> QED BY <1>1, <1>4, <1>6, <1>7, <2>1 DEF Cleared, Advanced
<1>9. Over' /\ "provider" \notin data'
  <2>1. "provider" \notin data'
    BY <1>7 DEF EraseInv
  <2>2. marker.status = "completed" => job' # "writing" /\ data' \subseteq {"derived"}
    BY <1>5, <1>6, <1>7 DEF EraseInv, Over
  <2> QED BY <1>1, <2>1, <2>2 DEF Over
<1>10. Leased'
  <2>1. CASE JobStarts
    BY <1>2, <2>1 DEF JobStarts, Leased
  <2>2. CASE JobLeases
    BY <1>2, <2>2 DEF JobLeases, Leased
  <2>3. CASE JobLoads
    BY <1>2, <2>3 DEF JobLoads, Seen, EraseInv, Leased
  <2>4. CASE JobFences
    BY <1>2, <2>4 DEF JobFences, EraseInv, Leased
  <2>5. CASE JobWrites \/ JobVerifies \/ JobDies
    BY <2>5 DEF JobWrites, JobVerifies, JobDies, Leased
  <2> QED BY <2>1, <2>2, <2>3, <2>4, <2>5 DEF JobStep
<1> QED BY <1>3, <1>8, <1>9, <1>10 DEF EraseInv

LEMMA EraseStep == TypeInv /\ EraseInv /\ [Next]_vars => EraseInv'
<1> SUFFICES ASSUME TypeInv, EraseInv, [Next]_vars PROVE EraseInv'
  OBVIOUS
<1>1. CASE \/ RequestDeletion
           \/ \E d \in Pods : ReconcilerReads(d) \/ ReconcilerClaims(d)
           \/ \E d \in Pods \union {User} : EnqueueWipe(d) \/ EnqueueFailed(d)
           \/ \E t \in Tasks : Deliver(t)
  BY <1>1, SenderErases
<1>2. CASE \E r \in Runs : RunStep(r) \/ Crash(r) \/ Cancel(r)
  BY <1>2, ThreadsErase, EraseErases, CompletedErases DEF RunStep
<1>3. CASE PlaceHold \/ LiftHold \/ AcquireForMemory \/ ReleaseForMemory \/ FenceWrite
           \/ GateAges \/ MarkerAges \/ LockExpires
  BY <1>3, BystandersErase
<1>4. CASE Write
  BY <1>4, WritersErase
<1>5. CASE JobStarts \/ JobStep \/ JobDies
  BY <1>5, JobErases
<1>6. CASE UNCHANGED vars
  <2>1. UNCHANGED <<data, job, event, marker, run>> /\ Blocks' = Blocks
    BY <1>6 DEF vars, Blocks
  <2> QED BY <2>1, EraseKept
<1> QED BY <1>1, <1>2, <1>3, <1>4, <1>5, <1>6 DEF Next

\* Whatever fails, dies, is cancelled or is repeated, by however many threads at
\* once, mark_wipe_completed is reached with no subscription, machine, login, row
\* or projected memory left: the purge waited for the projections that were leased.
THEOREM NothingLeft == Spec => []Erased
<1>1. Init => TypeInv /\ EraseInv
  BY TypeInit, EraseInit
<1>2. (TypeInv /\ EraseInv) /\ [Next]_vars => (TypeInv /\ EraseInv)'
  BY TypeStep, EraseStep
<1>3. TypeInv /\ EraseInv => Erased
  BY DEF EraseInv, Over, Erased
<1> QED BY <1>1, <1>2, <1>3, PTL DEF Spec

-----------------------------------------------------------------------------
(* The inductive invariant: who wipes                                       *)

\* Two events rewrite the marker of a wipe that runs: an enqueue error that is
\* reported although, or before, a task was created.  With a thread that outlived
\* its request they let a second thread in.
Disturbing == {"enqueue", "ambiguous"}
Undisturbed == \A S \in Scenarios : "cancel" \in S => S \intersect Disturbing = {}

\* A request was cancelled, or may be; then nothing disturbs its marker.
Stray(w) == w.pc # "idle" /\ w.task = Nobody
Exposed == "cancel" \in coming \/ \E r \in Runs : Stray(run[r])
Calm == coming \intersect Disturbing = {} /\ \A d \in Pods \union {User} : sender[d] # "failed"

\* A marker that no delivery and no reconciler claims.
Settled == (marker.status = "running" /\ ~marker.old) \/ marker.status = "completed"

\* The marker protects a thread from the moment its request may be cancelled.
Guarded(w, m) ==
    /\ w.pc \in Erasing \union {"complete", "failGate"} \/ (w.pc = "failMark" /\ w.task = Nobody) =>
         m.status = "running" /\ ~m.old
    /\ w.pc = "finish" => m.status = "completed"

Protected == Exposed => Calm /\ \A r \in Runs : Guarded(run[r], marker)

\* Before that, it has its request, and so the run lock; and it has not been at
\* the gate.
Begins ==
    /\ \A r \in Runs : run[r].pc \in {"gate", "mark"} => run[r].task # Nobody
    /\ \A r \in Runs : run[r].pc \in {"claim", "gate"} => ~run[r].fresh

\* The gate of a thread that took it is closed to holds.
Owned == ~hold /\ gate.state = "running" /\ gate.kind = "account_deletion" /\ ~gate.old
Entered(w) == w.fresh /\ w.pc \in Erasing \union {"mark"}
FreshOwns == \A r \in Runs : Entered(run[r]) => Owned

WipeInv == OneWiper /\ Protected /\ Begins /\ FreshOwns

LEMMA WipeInit == ASSUME Undisturbed PROVE Init => WipeInv
<1> SUFFICES ASSUME Init PROVE WipeInv
  OBVIOUS
<1>1. \A r \in Runs : run[r].pc = "idle" /\ ~run[r].fresh
  BY IdleTyped DEF Init
<1>2. OneWiper /\ Begins /\ FreshOwns
  BY <1>1 DEF OneWiper, Wiper, Wiping, Erasing, Begins, FreshOwns, Entered
<1>3. coming \in Scenarios /\ \A d \in Pods \union {User} : sender[d] # "failed"
  BY DEF Init
<1>4. Protected
  BY <1>1, <1>3 DEF Undisturbed, Protected, Exposed, Stray, Calm, Guarded, Erasing
<1> QED BY <1>2, <1>4 DEF WipeInv

\* A guarded thread wipes, and finds its marker settled.
LEMMA GuardedSettled ==
    ASSUME NEW w \in RunType, Guarded(w, marker), w.pc \in Wiping, w.task = Nobody, w.pc \notin {"gate", "mark"}
    PROVE  Settled
  BY DEF Guarded, Wiping, Erasing, Settled

\* A step of anyone but the threads.
LEMMA BystanderMoves ==
    ASSUME TypeInv, WipeInv, UNCHANGED run, coming' \subseteq coming,
           Exposed => \A d \in Pods \union {User} : sender'[d] # "failed",
           Exposed => UNCHANGED marker \/ ~Settled \/ (\A r \in Runs : ~Wiper(r)),
           Owned => Owned' \/ (\A r \in Runs : Wiper(r) => ~run[r].fresh)
    PROVE  WipeInv'
<1>1. OneWiper' /\ Begins'
  BY DEF WipeInv, OneWiper, Wiper, Begins
<1>2. Exposed' => Exposed
  BY DEF Exposed, Stray
<1>3. Protected'
  <2> SUFFICES ASSUME Exposed PROVE Calm' /\ \A r \in Runs : Guarded(run[r], marker)'
    BY <1>2 DEF Protected
  <2>1. Calm'
    BY DEF WipeInv, Protected, Calm
  <2>2. ASSUME NEW r \in Runs PROVE Guarded(run[r], marker)'
    <3>1. Guarded(run[r], marker)
      BY DEF WipeInv, Protected
    <3>2. CASE UNCHANGED marker
      BY <3>1, <3>2 DEF Guarded
    <3>3. CASE ~Settled
      BY <3>1, <3>3 DEF Guarded, Settled
    <3>4. CASE ~Wiper(r)
      BY <3>4 DEF Guarded, Wiper, Wiping
    <3> QED BY <3>2, <3>3, <3>4
  <2> QED BY <2>1, <2>2
<1>4. FreshOwns'
  <2> SUFFICES ASSUME NEW r \in Runs, Entered(run[r]) PROVE Owned'
    BY DEF FreshOwns, Entered
  <2>1. Owned /\ Wiper(r) /\ run[r].fresh
    BY DEF WipeInv, FreshOwns, Entered, Wiper, Wiping
  <2> QED BY <2>1
<1> QED BY <1>1, <1>3, <1>4 DEF WipeInv

\* A step of one thread, which nobody else wipes beside or which changes nothing
\* that another thread relies on.
LEMMA WiperMoves ==
    ASSUME TypeInv, WipeInv, NEW r \in Runs, NEW n \in RunType, run' = [run EXCEPT ![r] = n],
           coming' \subseteq coming, UNCHANGED sender,
           n.pc \in Wiping => \A q \in Runs \ {r} : ~Wiper(q),
           Stray(n) => Stray(run[r]) \/ "cancel" \in coming,
           n.pc \in {"gate", "mark"} => n.task # Nobody,
           n.pc \in {"claim", "gate"} => ~n.fresh,
           Exposed => Guarded(n, marker'),
           Entered(n) => Owned',
           UNCHANGED <<marker, gate, hold>> \/ (\A q \in Runs \ {r} : ~Wiper(q))
    PROVE  WipeInv'
<1>1. run \in [Runs -> RunType]
  BY DEF TypeInv, TypeOK
<1>2. run'[r] = n /\ \A q \in Runs \ {r} : run'[q] = run[q]
  BY <1>1
<1>3. OneWiper'
  BY <1>2 DEF WipeInv, OneWiper, Wiper
<1>4. Begins'
  BY <1>2 DEF WipeInv, Begins
<1>5. Exposed' => Exposed
  BY <1>2 DEF Exposed
<1>6. Protected'
  <2> SUFFICES ASSUME Exposed PROVE Calm' /\ \A q \in Runs : Guarded(run[q], marker)'
    BY <1>5 DEF Protected
  <2>1. Calm'
    BY DEF WipeInv, Protected, Calm
  <2>2. ASSUME NEW q \in Runs PROVE Guarded(run[q], marker)'
    <3>1. CASE q = r
      BY <1>2, <3>1 DEF Guarded
    <3>2. CASE q # r
      <4>1. Guarded(run[q], marker)
        BY DEF WipeInv, Protected
      <4>2. CASE UNCHANGED <<marker, gate, hold>>
        BY <1>2, <3>2, <4>1, <4>2 DEF Guarded
      <4>3. CASE ~Wiper(q)
        BY <1>2, <3>2, <4>3 DEF Guarded, Wiper, Wiping
      <4> QED BY <3>2, <4>2, <4>3
    <3> QED BY <3>1, <3>2
  <2> QED BY <2>1, <2>2
<1>7. FreshOwns'
  <2> SUFFICES ASSUME NEW q \in Runs, Entered(run'[q]) PROVE Owned'
    BY DEF FreshOwns, Entered
  <2>1. CASE q = r
    BY <1>2, <2>1
  <2>2. CASE q # r
    <3>1. Owned /\ Wiper(q)
      BY <1>2, <2>2 DEF WipeInv, FreshOwns, Entered, Wiper, Wiping
    <3> QED BY <2>2, <3>1 DEF Owned
  <2> QED BY <2>1, <2>2
<1> QED BY <1>3, <1>4, <1>6, <1>7 DEF WipeInv

LEMMA SendersWipe ==
    ASSUME TypeInv, WipeInv,
           \/ RequestDeletion
           \/ \E d \in Pods : ReconcilerReads(d) \/ ReconcilerClaims(d)
           \/ \E d \in Pods \union {User} : EnqueueWipe(d) \/ EnqueueFailed(d)
    PROVE  WipeInv'
<1>1. UNCHANGED <<run, hold, gate>> /\ coming' \subseteq coming
  BY DEF RequestDeletion, ReconcilerReads, ReconcilerClaims, EnqueueWipe, EnqueueFailed, stores, Happens, Nothing
<1>2. sender \in [Pods \union {User} -> {"idle", "read", "enqueue", "failed"}] /\ marker \in MarkerType
  BY DEF TypeInv, TypeOK
<1>3. Exposed => Calm
  BY DEF WipeInv, Protected
<1>4. ASSUME Exposed PROVE \A d \in Pods \union {User} : sender'[d] # "failed"
  <2>1. Calm
    BY <1>3, <1>4
  <2>2. "enqueue" \notin coming /\ "ambiguous" \notin coming
    BY <2>1 DEF Calm, Disturbing
  <2>3. \E d \in Pods \union {User}, p \in {"idle", "read", "enqueue"} : Sent(d, p)
    BY <2>1, <2>2 DEF RequestDeletion, ReconcilerReads, ReconcilerClaims, EnqueueWipe, EnqueueFailed, Calm, Happens
  <2> QED BY <1>2, <2>1, <2>3 DEF Sent, Calm
<1>5. Exposed => UNCHANGED marker \/ ~Settled \/ (\A r \in Runs : ~Wiper(r))
  <2>1. CASE RequestDeletion
    BY <2>1 DEF RequestDeletion, Settled
  <2>2. CASE \E d \in Pods : ReconcilerReads(d) \/ ReconcilerClaims(d)
    BY <2>2 DEF ReconcilerReads, ReconcilerClaims, Claimable, Overdue, Settled, stores
  <2>3. CASE \E d \in Pods \union {User} : EnqueueWipe(d)
    BY <2>3 DEF EnqueueWipe
  <2>4. CASE \E d \in Pods \union {User} : EnqueueFailed(d)
    BY <1>3, <2>4 DEF EnqueueFailed, Calm
  <2> QED BY <2>1, <2>2, <2>3, <2>4
<1>6. Owned => Owned'
  BY <1>1 DEF Owned
<1> QED BY <1>1, <1>4, <1>5, <1>6, BystanderMoves

LEMMA BystandersWipe ==
    ASSUME TypeInv, WipeInv,
           PlaceHold \/ LiftHold \/ AcquireForMemory \/ ReleaseForMemory \/ FenceWrite \/ Write
           \/ JobStarts \/ JobStep \/ JobDies \/ GateAges \/ MarkerAges \/ LockExpires
    PROVE  WipeInv'
<1>1. UNCHANGED <<run, sender>> /\ coming' \subseteq coming
  BY DEF PlaceHold, LiftHold, AcquireForMemory, ReleaseForMemory, FenceWrite, Write, JobStarts,
         JobStep, JobLeases, JobLoads, JobFences, JobWrites, JobVerifies, JobDies, GateAges, MarkerAges,
         LockExpires, Happens, Nothing
<1>2. Exposed => Calm
  BY DEF WipeInv, Protected
<1>3. Exposed => \A d \in Pods \union {User} : sender'[d] # "failed"
  BY <1>1, <1>2 DEF Calm
<1>4. Exposed => UNCHANGED marker \/ ~Settled \/ (\A r \in Runs : ~Wiper(r))
  <2>1. CASE MarkerAges
    BY <2>1 DEF MarkerAges, Settled
  <2>2. CASE ~MarkerAges
    BY <2>2 DEF PlaceHold, LiftHold, AcquireForMemory, ReleaseForMemory, FenceWrite, Write, JobStarts,
         JobStep, JobLeases, JobLoads, JobFences, JobWrites, JobVerifies, JobDies, GateAges, LockExpires, stores
  <2> QED BY <2>1, <2>2
<1>5. Owned => Owned' \/ (\A r \in Runs : Wiper(r) => ~run[r].fresh)
  <2>1. CASE GateAges
    BY <2>1 DEF GateAges
  <2>2. CASE PlaceHold \/ AcquireForMemory
    BY <2>2 DEF PlaceHold, HoldAdmitted, AcquireForMemory, GateBlocks, Owned
  <2>3. CASE ReleaseForMemory
    BY <2>3 DEF ReleaseForMemory, Owned
  <2>4. CASE LiftHold
    BY <2>4 DEF LiftHold, Owned
  <2>5. CASE UNCHANGED <<hold, gate>>
    BY <2>5 DEF Owned
  <2>6. CASE FenceWrite \/ Write \/ JobStarts \/ JobStep \/ JobDies \/ MarkerAges \/ LockExpires
    BY <2>5, <2>6 DEF FenceWrite, Write, JobStarts, JobStep, JobLeases, JobLoads, JobFences,
         JobWrites, JobVerifies, JobDies, MarkerAges, LockExpires, stores
  <2> QED BY <2>1, <2>2, <2>3, <2>4, <2>6
<1> QED BY <1>1, <1>3, <1>4, <1>5, BystanderMoves

\* A request that begins or ends, and a thread that ends.
LEMMA RequestsWipe ==
    ASSUME TypeInv, WipeInv,
           (\E t \in Tasks : Deliver(t)) \/ (\E r \in Runs : Answer(r) \/ Crash(r))
    PROVE  WipeInv'
<1>1. UNCHANGED <<marker, gate, hold, sender>> /\ coming' \subseteq coming
  BY DEF Deliver, Answer, Crash, Happens
<1>2. ASSUME NEW r \in Runs, run' = [run EXCEPT ![r] = IdleRun]
      PROVE  WipeInv'
  <2>1. IdleRun.pc \notin Wiping /\ ~Stray(IdleRun) /\ ~Entered(IdleRun) /\ Guarded(IdleRun, marker')
    BY IdleTyped DEF Wiping, Erasing, Stray, Entered, Guarded
  <2> QED BY <1>1, <1>2, <2>1, IdleTyped, WiperMoves
<1>3. ASSUME NEW t \in Tasks, NEW r \in Runs,
             run' = [run EXCEPT ![r] = [IdleRun EXCEPT !.pc = "claim", !.task = t]]
      PROVE  WipeInv'
  <2> DEFINE n == [IdleRun EXCEPT !.pc = "claim", !.task = t]
  <2>1. n \in RunType /\ n.pc = "claim" /\ n.task = t /\ ~n.fresh
    BY DEF IdleRun, RunType
  <2> HIDE DEF n
  <2>2. n.pc \notin Wiping /\ ~Stray(n) /\ ~Entered(n) /\ Guarded(n, marker')
    BY <2>1, NobodyAssumption DEF Wiping, Erasing, Stray, Entered, Guarded
  <2>3. run' = [run EXCEPT ![r] = n]
    BY <1>3 DEF n
  <2> QED BY <1>1, <2>1, <2>2, <2>3, WiperMoves
<1>4. CASE UNCHANGED run
  <2>1. Exposed => Calm
    BY DEF WipeInv, Protected
  <2>2. Exposed => \A d \in Pods \union {User} : sender'[d] # "failed"
    BY <1>1, <2>1 DEF Calm
  <2>3. Owned => Owned'
    BY <1>1 DEF Owned
  <2> QED BY <1>1, <1>4, <2>2, <2>3, BystanderMoves
<1> QED BY <1>2, <1>3, <1>4 DEF Deliver, Answer, Crash

\* A claim is refused while another thread wipes: one with a request has the run
\* lock, and one without has a marker that nobody may claim.
LEMMA ClaimWipes ==
    ASSUME TypeInv, WipeInv, NEW r \in Runs, ClaimForTask(r)
    PROVE  WipeInv'
<1>1. run[r].pc = "claim" /\ UNCHANGED <<gate, hold, sender, coming>>
  BY DEF ClaimForTask
<1>2. run \in [Runs -> RunType] /\ run[r] \in RunType /\ run[r].task # Nobody /\ ~run[r].fresh /\ lock = r
  BY <1>1 DEF TypeInv, TypeOK, ClaimsRequest, RequestsHold, WipeInv, Begins
<1>3. CASE Actionable /\ Marked("retrying") /\ Step(r, "gate")
  <2> DEFINE n == [run[r] EXCEPT !.pc = "gate"]
  <2>1. n \in RunType /\ n.pc = "gate" /\ n.task # Nobody /\ ~n.fresh /\ run' = [run EXCEPT ![r] = n]
    BY <1>2, <1>3 DEF RunType, Wiping, Step
  <2> HIDE DEF n
  <2>2. \A q \in Runs \ {r} : ~Wiper(q)
    <3> SUFFICES ASSUME NEW q \in Runs \ {r}, Wiper(q) PROVE FALSE
      OBVIOUS
    <3>1. run[q].task = Nobody
      BY <1>2 DEF TypeInv, RequestsHold
    <3>2. Exposed
      BY <3>1 DEF Exposed, Stray, Wiper, Wiping, Erasing
    <3>3. Guarded(run[q], marker) /\ run[q] \in RunType /\ run[q].pc \notin {"gate", "mark"}
      BY <1>2, <3>1, <3>2 DEF WipeInv, Protected, Begins
    <3>4. Settled
      BY <3>1, <3>3, GuardedSettled DEF Wiper
    <3> QED BY <1>3, <3>4 DEF Settled, Actionable
  <2>3. ~Stray(n) /\ ~Entered(n) /\ Guarded(n, marker')
    BY <2>1 DEF Stray, Entered, Guarded, Erasing
  <2> QED BY <1>1, <2>1, <2>2, <2>3, WiperMoves
<1>4. CASE ~Actionable
  <2>1. run' = [run EXCEPT ![r] = IdleRun] /\ UNCHANGED marker
    BY <1>4 DEF ClaimForTask
  <2>2. IdleRun.pc \notin Wiping /\ ~Stray(IdleRun) /\ ~Entered(IdleRun) /\ Guarded(IdleRun, marker')
    BY IdleTyped DEF Wiping, Erasing, Stray, Entered, Guarded
  <2> QED BY <1>1, <2>1, <2>2, IdleTyped, WiperMoves
<1> QED BY <1>3, <1>4 DEF ClaimForTask

\* The steps of the one thread that wipes.
LEMMA WiperGoesOn ==
    ASSUME TypeInv, WipeInv, NEW r \in Runs, Wiper(r), NEW n \in RunType, run' = [run EXCEPT ![r] = n],
           coming' \subseteq coming, UNCHANGED sender,
           n.task = run[r].task \/ "cancel" \in coming,
           n.pc \notin {"claim", "gate"},
           n.pc = "mark" => n.task # Nobody,
           Exposed => Guarded(n, marker'),
           Entered(n) => Owned'
    PROVE  WipeInv'
<1>1. \A q \in Runs \ {r} : ~Wiper(q)
  BY DEF WipeInv, OneWiper
<1>2. Stray(n) => Stray(run[r]) \/ "cancel" \in coming
  BY DEF Stray, Wiper, Wiping, Erasing
<1> QED BY <1>1, <1>2, WiperMoves

LEMMA GateWipes ==
    ASSUME TypeInv, WipeInv, NEW r \in Runs, AcquireGate(r)
    PROVE  WipeInv'
<1>1. run[r].pc = "gate" /\ UNCHANGED <<marker, hold, sender, coming>>
  BY DEF AcquireGate
<1>2. run \in [Runs -> RunType] /\ run[r] \in RunType /\ run[r].task # Nobody /\ ~run[r].fresh /\ Wiper(r)
  BY <1>1 DEF TypeInv, TypeOK, WipeInv, Begins, Wiper, Wiping
<1>3. ASSUME NEW p \in {"mark", "failMark"}, Step(r, p)
      PROVE  WipeInv'
  <2> DEFINE n == [run[r] EXCEPT !.pc = p]
  <2>1. n \in RunType /\ n.pc = p /\ n.task = run[r].task /\ ~n.fresh /\ run' = [run EXCEPT ![r] = n]
    BY <1>2, <1>3 DEF RunType, Wiping, Step
  <2> HIDE DEF n
  <2>2. ~Entered(n) /\ Guarded(n, marker')
    BY <1>2, <2>1 DEF Entered, Guarded, Erasing
  <2> QED BY <1>1, <1>2, <2>1, <2>2, WiperGoesOn
<1>4. ASSUME ~hold, gate' = [state |-> "running", kind |-> "account_deletion", old |-> FALSE],
             run' = [run EXCEPT ![r].pc = "mark", ![r].fresh = TRUE]
      PROVE  WipeInv'
  <2> DEFINE n == [run[r] EXCEPT !.pc = "mark", !.fresh = TRUE]
  <2>1. n \in RunType /\ n.pc = "mark" /\ n.task = run[r].task /\ run' = [run EXCEPT ![r] = n]
    BY <1>2, <1>4 DEF RunType, Wiping
  <2> HIDE DEF n
  <2>2. Owned' /\ Guarded(n, marker')
    BY <1>1, <1>4, <2>1 DEF Owned, Guarded, Erasing
  <2> QED BY <1>1, <1>2, <2>1, <2>2, WiperGoesOn
<1> QED BY <1>3, <1>4 DEF AcquireGate

LEMMA EraseWipes ==
    ASSUME TypeInv, WipeInv, NEW r \in Runs, MarkRunning(r) \/ Erase(r) \/ Cancel(r)
    PROVE  WipeInv'
<1>1. UNCHANGED <<hold, gate, sender>> /\ coming' \subseteq coming /\ run[r].pc \in Erasing \union {"mark"}
  BY DEF MarkRunning, Erase, Cancel, Happens, Nothing
<1>2. run \in [Runs -> RunType] /\ run[r] \in RunType /\ Wiper(r) /\ marker \in MarkerType
  BY <1>1 DEF TypeInv, TypeOK, Wiper, Wiping
<1>3. run[r].fresh => Owned'
  BY <1>1 DEF WipeInv, FreshOwns, Entered, Owned
<1>4. Exposed => Guarded(run[r], marker)
  BY DEF WipeInv, Protected
<1>5. ASSUME NEW p \in Erasing \union {"complete", "failGate"}, Step(r, p),
             Exposed => marker'.status = "running" /\ ~marker'.old
      PROVE  WipeInv'
  <2> DEFINE n == [run[r] EXCEPT !.pc = p]
  <2>1. n \in RunType /\ n.pc = p /\ n.task = run[r].task /\ n.fresh = run[r].fresh /\ run' = [run EXCEPT ![r] = n]
    BY <1>2, <1>5 DEF RunType, Wiping, Step
  <2> HIDE DEF n
  <2>2. n.pc \notin {"claim", "gate", "mark", "finish"}
    BY <2>1 DEF Erasing
  <2>3. Exposed => Guarded(n, marker')
    BY <1>5, <2>2 DEF Guarded
  <2>4. Entered(n) => Owned'
    BY <1>3, <2>1 DEF Entered
  <2> QED BY <1>1, <1>2, <2>1, <2>2, <2>3, <2>4, WiperGoesOn
<1>6. CASE MarkRunning(r)
  <2>1. marker'.status = "running" /\ ~marker'.old
    BY <1>2, <1>6 DEF MarkRunning, Marked, MarkerType
  <2> QED BY <1>5, <1>6, <2>1 DEF MarkRunning, Erasing
<1>7. CASE Erase(r)
  <2>1. run[r].pc \in Erasing
    BY <1>7 DEF Erase
  <2>2. marker'.status = marker.status /\ marker'.old = marker.old
    BY <1>2, <1>7 DEF Erase, MarkerType
  <2>3. Exposed => marker'.status = "running" /\ ~marker'.old
    BY <1>4, <2>1, <2>2 DEF Guarded
  <2>4. After(run[r].pc) \in Erasing \union {"complete"}
    BY <2>1 DEF After, Erasing
  <2>5. Step(r, "failGate") \/ Step(r, After(run[r].pc))
    BY <1>7 DEF Erase
  <2> QED BY <1>5, <2>3, <2>4, <2>5
<1>8. CASE Cancel(r)
  <2> DEFINE n == [run[r] EXCEPT !.task = Nobody]
  <2>1. run[r].pc \in Erasing /\ "cancel" \in coming /\ UNCHANGED marker /\ run' = [run EXCEPT ![r] = n]
    BY <1>2, <1>8 DEF Cancel, Happens
  <2>2. n \in RunType /\ n.pc = run[r].pc /\ n.fresh = run[r].fresh
    BY <1>2 DEF RunType
  <2> HIDE DEF n
  <2>3. n.pc \notin {"claim", "gate", "mark", "finish"}
    BY <2>1, <2>2 DEF Erasing
  <2>4. Exposed => Guarded(n, marker')
    BY <1>4, <2>1, <2>2, <2>3 DEF Guarded
  <2>5. Entered(n) => Owned'
    BY <1>3, <2>2 DEF Entered
  <2> QED BY <1>1, <1>2, <2>1, <2>2, <2>3, <2>4, <2>5, WiperGoesOn
<1> QED BY <1>6, <1>7, <1>8

LEMMA OutcomeWipes ==
    ASSUME TypeInv, WipeInv, NEW r \in Runs, MarkCompleted(r) \/ FinishGate(r) \/ MarkFailed(r)
    PROVE  WipeInv'
<1>1. UNCHANGED <<hold, sender>> /\ coming' \subseteq coming
      /\ run[r].pc \in {"complete", "finish", "failGate", "failMark"}
  BY DEF MarkCompleted, FinishGate, MarkFailed, Happens, Nothing
<1>2. run \in [Runs -> RunType] /\ run[r] \in RunType /\ Wiper(r) /\ marker \in MarkerType
  BY <1>1 DEF TypeInv, TypeOK, Wiper, Wiping
<1>3. PICK n \in RunType : /\ run' = [run EXCEPT ![r] = n] /\ n.task = run[r].task
                           /\ n.pc \in {"answer"} \union (Wiping \ {"gate"})
  BY WipeMoves
<1>4. n.pc = run'[r].pc
  BY <1>2, <1>3
<1>5. n.pc \in {"answer", "finish", "failMark"}
  BY <1>2, <1>4 DEF MarkCompleted, FinishGate, MarkFailed, Step, RunType
<1>6. (n.pc = "finish" => marker'.status = "completed")
      /\ (n.pc = "failMark" => run[r].pc = "failGate" /\ UNCHANGED marker)
  <2>1. CASE MarkCompleted(r)
    <3>1. Step(r, IF marker'.status = "completed" THEN "finish" ELSE "answer") \/ Step(r, "answer")
      BY <2>1 DEF MarkCompleted
    <3>2. run'[r].pc = (IF marker'.status = "completed" THEN "finish" ELSE "answer") \/ run'[r].pc = "answer"
      BY <1>2, <3>1 DEF Step, RunType
    <3> QED BY <1>4, <3>2
  <2>2. CASE FinishGate(r)
    <3>1. UNCHANGED marker
      BY <2>2 DEF FinishGate
    <3>2. run'[r].pc = (IF run[r].pc = "finish" THEN "answer" ELSE "failMark")
      BY <1>2, <2>2 DEF FinishGate, Step, RunType
    <3>3. run[r].pc \in {"finish", "failGate"}
      BY <2>2 DEF FinishGate
    <3> QED BY <1>4, <3>1, <3>2, <3>3
  <2>3. CASE MarkFailed(r)
    BY <1>2, <1>4, <2>3 DEF MarkFailed, Step, RunType
  <2> QED BY <2>1, <2>2, <2>3
<1>7. Exposed => Guarded(n, marker')
  <2>1. Exposed => Guarded(run[r], marker)
    BY DEF WipeInv, Protected
  <2> QED BY <1>5, <1>6, <2>1 DEF Guarded, Erasing
<1>8. ~Entered(n) /\ n.pc \notin {"claim", "gate", "mark"}
  BY <1>5 DEF Entered, Erasing
<1> QED BY <1>1, <1>2, <1>3, <1>7, <1>8, WiperGoesOn

LEMMA WipeStep == TypeInv /\ WipeInv /\ [Next]_vars => WipeInv'
<1> SUFFICES ASSUME TypeInv, WipeInv, [Next]_vars PROVE WipeInv'
  OBVIOUS
<1>1. CASE \/ RequestDeletion
           \/ \E d \in Pods : ReconcilerReads(d) \/ ReconcilerClaims(d)
           \/ \E d \in Pods \union {User} : EnqueueWipe(d) \/ EnqueueFailed(d)
  BY <1>1, SendersWipe
<1>2. CASE (\E t \in Tasks : Deliver(t)) \/ (\E r \in Runs : Answer(r) \/ Crash(r))
  BY <1>2, RequestsWipe
<1>3. ASSUME NEW r \in Runs, RunStep(r) \/ Crash(r) \/ Cancel(r) PROVE WipeInv'
  BY <1>2, <1>3, ClaimWipes, GateWipes, EraseWipes, OutcomeWipes DEF RunStep
<1>4. CASE PlaceHold \/ LiftHold \/ AcquireForMemory \/ ReleaseForMemory \/ FenceWrite \/ Write
           \/ JobStarts \/ JobStep \/ JobDies \/ GateAges \/ MarkerAges \/ LockExpires
  BY <1>4, BystandersWipe
<1>5. CASE UNCHANGED vars
  <2>1. UNCHANGED <<run, coming, sender, marker, hold, gate>>
    BY <1>5 DEF vars
  <2>2. Exposed => \A d \in Pods \union {User} : sender'[d] # "failed"
    BY <2>1 DEF WipeInv, Protected, Calm
  <2>3. Owned => Owned'
    BY <2>1 DEF Owned
  <2> QED BY <2>1, <2>2, <2>3, BystanderMoves
<1> QED BY <1>1, <1>2, <1>3, <1>4, <1>5 DEF Next

\* WipeInv is an invariant of the specification in the undisturbed scenarios.
THEOREM WipeInvariant == ASSUME Undisturbed PROVE Spec => [](TypeInv /\ WipeInv)
<1>1. Init => TypeInv /\ WipeInv
  BY TypeInit, WipeInit
<1>2. (TypeInv /\ WipeInv) /\ [Next]_vars => (TypeInv /\ WipeInv)'
  BY TypeStep, WipeStep
<1> QED BY <1>1, <1>2, PTL DEF Spec

\* One thread wipes the account at a time: before its request may be cancelled it
\* has the run lock, and afterwards its marker says running, which neither
\* claim_deletion_wipe_for_task nor a reconciler takes over, unless one of the
\* three disturbing events rewrote the marker in the same history.
THEOREM WipesAreAlone == ASSUME Undisturbed PROVE Spec => []OneWiper
<1>1. TypeInv /\ WipeInv => OneWiper
  BY DEF WipeInv
<1> QED BY <1>1, WipeInvariant, PTL

\* A thread that took the gate itself (acquire_destructive_operation) erases
\* nothing under an active hold: until it ends, the gate is its own, running and
\* young, and refuses every placement.
THEOREM HoldsAreRespected == ASSUME Undisturbed PROVE Spec => []HoldRespected
<1>1. TypeInv /\ WipeInv => HoldRespected
  BY DEF WipeInv, FreshOwns, Entered, Owned, HoldRespected
<1> QED BY <1>1, WipeInvariant, PTL

=============================================================================
