------------------------ MODULE FinalizationRowsProofs ------------------------
(***************************************************************************)
(* More of the safety of FinalizationJobs: the lanes of a job, the owner's *)
(* deletion of a conversation, the counters of the projection, and the     *)
(* rows that closed jobs leave.  It rests on IInv of                       *)
(* FinalizationJobsProofs; the lanes and the rows need invariants of their *)
(* own (LaneInv, SettleInv), since nothing in IInv says which jobs the     *)
(* queue, the reconciler's page or a pusher claim may be about, or what a  *)
(* row looks like while its job is open.                                   *)
(***************************************************************************)
EXTENDS FinalizationJobsProofs, FiniteSetTheorems

-----------------------------------------------------------------------------
(* The lanes of a job                                                       *)

\* A BYOK job is never due for a replay, and has attempts left.
ByokRows == \A c \in Conversations : job[c].byok => job[c].due = "absent" /\ job[c].attempts < MaxAttempts

\* The reconciler's page and the queue know jobs of the platform's keys only.
PlatformOnly ==
    /\ \A c \in page : job[c].status # "absent" /\ ~job[c].byok
    /\ \A t \in tasks : job[t.c].status # "absent" /\ ~job[t.c].byok

\* The owner of a BYOK lease counts its tries from the job's failed attempts.
TriesCounted ==
    \A w \in Workers :
        Claimed(w) /\ job[worker[w].c].byok /\ IsCurrentLease(worker[w])
          => worker[w].tries = job[worker[w].c].attempts

LaneInv == ByokRows /\ PlatformOnly /\ TriesCounted

\* What a step may do to the lane, the lease and the attempts of a row.
LaneMove(j, k) ==
    \/ k = j
    \/ /\ j.status = "absent" /\ k.status # "absent"
       /\ k.epoch = 0 /\ k.attempts = 0
       /\ k.byok => k.due = "absent"
    \/ /\ j.status # "absent" /\ k.status # "absent"
       /\ k.byok = j.byok
       /\ k.byok => k.due = "absent"
       /\ \/ k.epoch = j.epoch + 1 /\ k.attempts = j.attempts
          \/ /\ k.epoch = j.epoch /\ k.attempts = j.attempts
             /\ k.status = "leased" => j.status = "leased" /\ k.gen = j.gen
          \/ /\ k.epoch = j.epoch /\ k.status # "leased"
             /\ j.byok => k.attempts < MaxAttempts

LaneMoves == \A c \in Conversations : LaneMove(job[c], job'[c])

\* An attempt keeps its identity and its tries, ends, or is claimed anew.
TryMove(w) ==
    \/ worker'[w] = worker[w]
    \/ worker'[w].pc \in {"idle", "locked"}
    \/ /\ Claimed(w)
       /\ worker'[w].c = worker[w].c /\ worker'[w].epoch = worker[w].epoch
       /\ worker'[w].gen = worker[w].gen /\ worker'[w].tries = worker[w].tries
    \/ /\ worker'[w].c \in Conversations
       /\ worker'[w].epoch = job[worker'[w].c].epoch + 1
       /\ job[worker'[w].c].status # "absent"
       /\ job[worker'[w].c].byok => worker'[w].tries = job[worker'[w].c].attempts

TryMoves == \A w \in Workers : TryMove(w)

\* Whatever enters the queue or the page is a job of the platform's keys.
QueueMoves ==
    /\ \A c \in page' : c \in page \/ (job'[c].status # "absent" /\ ~job'[c].byok)
    /\ \A t \in tasks' : \/ \E u \in tasks : u.c = t.c
                         \/ job'[t.c].status # "absent" /\ ~job'[t.c].byok

LEMMA LaneStep ==
    ASSUME IInv, LaneInv, IInv', LaneMoves, TryMoves, QueueMoves
    PROVE  LaneInv'
<1> USE DEF IInv
<1>1. ASSUME NEW c \in Conversations
      PROVE  /\ LaneMove(job[c], job'[c])
             /\ job[c] \in JobType /\ job'[c] \in JobType
             /\ job[c].attempts \in Nat /\ job[c].epoch \in Nat /\ job'[c].epoch \in Nat
  BY DEF LaneMoves, TypeOK, JobType
<1>2. ByokRows'
  <2>1. ASSUME NEW c \in Conversations, job'[c].byok
        PROVE  job'[c].due = "absent" /\ job'[c].attempts < MaxAttempts
    <3>1. job[c].byok => job[c].due = "absent" /\ job[c].attempts < MaxAttempts
      BY DEF LaneInv, ByokRows
    <3>2. 0 < MaxAttempts
      BY BoundsAssumption
    <3> QED BY <1>1, <2>1, <3>1, <3>2 DEF LaneMove
  <2> QED BY <2>1 DEF ByokRows
<1>3. ASSUME NEW c \in Conversations, job[c].status # "absent", ~job[c].byok
      PROVE  job'[c].status # "absent" /\ ~job'[c].byok
  BY <1>1, <1>3 DEF LaneMove
<1>4. PlatformOnly'
  <2>1. ASSUME NEW c \in page' PROVE job'[c].status # "absent" /\ ~job'[c].byok
    <3>1. page \subseteq Conversations
      BY DEF TypeOK
    <3> QED BY <1>3, <2>1, <3>1 DEF QueueMoves, LaneInv, PlatformOnly
  <2>2. ASSUME NEW t \in tasks' PROVE job'[t.c].status # "absent" /\ ~job'[t.c].byok
    <3>1. \A u \in tasks : u.c \in Conversations
      BY DEF TypeOK, TaskType
    <3>2. \A u \in tasks : job'[u.c].status # "absent" /\ ~job'[u.c].byok
      BY <1>3, <3>1 DEF LaneInv, PlatformOnly
    <3> QED BY <2>2, <3>2 DEF QueueMoves
  <2> QED BY <2>1, <2>2 DEF PlatformOnly
<1>5. TriesCounted'
  <2> SUFFICES ASSUME NEW w \in Workers, Claimed(w)', job'[worker'[w].c].byok, IsCurrentLease(worker[w])'
               PROVE  worker'[w].tries = job'[worker'[w].c].attempts
    BY DEF TriesCounted
  <2> DEFINE c == worker'[w].c
  <2>0. c \in Conversations /\ job'[c].status = "leased" /\ job'[c].gen = worker'[w].gen
        /\ job'[c].epoch = worker'[w].epoch
    BY DEF Busy, Active, Claimed, IsCurrentLease
  <2>1. LaneMove(job[c], job'[c]) /\ job[c].epoch \in Nat
    BY <1>1, <2>0
  <2>2. CASE \/ worker'[w] = worker[w]
             \/ /\ Claimed(w)
                /\ worker'[w].c = worker[w].c /\ worker'[w].epoch = worker[w].epoch
                /\ worker'[w].gen = worker[w].gen /\ worker'[w].tries = worker[w].tries
    <3>1. /\ Claimed(w) /\ worker[w].c = c /\ worker[w].epoch = worker'[w].epoch
          /\ worker[w].gen = worker'[w].gen /\ worker[w].tries = worker'[w].tries
      BY <2>2 DEF Claimed
    <3>2. 1 <= worker[w].epoch /\ worker[w].epoch <= job[c].epoch /\ worker[w].epoch \in Nat
      BY <3>1 DEF Epochs, TypeOK, AttemptType
    <3>3. /\ job[c].byok /\ job[c].status = "leased" /\ job[c].gen = job'[c].gen
          /\ job[c].epoch = job'[c].epoch /\ job[c].attempts = job'[c].attempts
      <4>1. job[c].status # "absent"
        BY <2>0, <3>1, <3>2 DEF BoundRows
      <4>2. job'[c].epoch # job[c].epoch + 1
        BY <2>0, <2>1, <3>1, <3>2
      <4> QED BY <2>0, <2>1, <4>1, <4>2 DEF LaneMove
    <3> QED BY <2>0, <3>1, <3>3 DEF LaneInv, TriesCounted, IsCurrentLease
  <2>3. CASE /\ worker'[w].epoch = job[c].epoch + 1 /\ job[c].status # "absent"
             /\ job[c].byok => worker'[w].tries = job[c].attempts
    BY <2>0, <2>1, <2>3 DEF LaneMove
  <2>4. TryMove(w) /\ worker'[w].pc \notin {"idle", "locked"}
    BY DEF TryMoves, Claimed
  <2> QED BY <2>2, <2>3, <2>4 DEF TryMove
<1> QED BY <1>2, <1>4, <1>5 DEF LaneInv

-----------------------------------------------------------------------------
(* Every action is such a move                                              *)

LEMMA LaneOne ==
    ASSUME TypeOK, NEW c \in Conversations, NEW k, job' = [job EXCEPT ![c] = k], LaneMove(job[c], k)
    PROVE  LaneMoves
<1>1. \A d \in Conversations : job'[d] = IF d = c THEN k ELSE job[d]
  BY DEF TypeOK
<1> QED BY <1>1 DEF LaneMoves, LaneMove

\* What an action leaves alone moves trivially.
LEMMA LaneNone ==
    /\ UNCHANGED job => LaneMoves
    /\ UNCHANGED worker => TryMoves
    /\ tasks' \subseteq tasks /\ page' \subseteq page => QueueMoves
  BY DEF LaneMoves, LaneMove, TryMoves, TryMove, QueueMoves

LEMMA LaneRows ==
    ASSUME TypeOK, NEW c \in Conversations, job[c].status # "absent",
           job[c].byok => job[c].due = "absent"
    PROVE  /\ LaneMove(job[c], ResumedJob(c))
           /\ LaneMove(job[c], LeasedJob(c)) /\ LeasedJob(c).epoch = job[c].epoch + 1
           /\ LaneMove(job[c], FencedJob(c))
           /\ LaneMove(job[c], SucceededJob(c))
           /\ LaneMove(job[c], DeadLetteredJob(c))
           /\ LaneMove(job[c], FanoutCompletedJob(c))
           /\ LaneMove(job[c], ExpiredJob(c))
           /\ LaneMove(job[c], AbandonedJob(c))
           /\ ~job[c].byok => LaneMove(job[c], ReplayedJob(c))
           /\ (job[c].byok => job[c].attempts + 1 < MaxAttempts) => LaneMove(job[c], RetryableJob(c))
<1>0. job[c] \in JobType /\ job[c].epoch \in Nat
  BY DEF TypeOK, JobType
<1> USE <1>0 DEF LaneMove, JobType
<1>1. LaneMove(job[c], ResumedJob(c))
  BY DEF ResumedJob
<1>2. LaneMove(job[c], LeasedJob(c)) /\ LeasedJob(c).epoch = job[c].epoch + 1
  BY DEF LeasedJob, NextEpoch, ReconcileAfter
<1>3. LaneMove(job[c], FencedJob(c))
  BY DEF FencedJob
<1>4. LaneMove(job[c], SucceededJob(c))
  BY DEF SucceededJob
<1>5. LaneMove(job[c], DeadLetteredJob(c))
  BY DEF DeadLetteredJob
<1>6. LaneMove(job[c], FanoutCompletedJob(c))
  BY DEF FanoutCompletedJob
<1>7. LaneMove(job[c], ExpiredJob(c))
  BY DEF ExpiredJob
<1>8. LaneMove(job[c], AbandonedJob(c))
  BY DEF AbandonedJob
<1>9. ~job[c].byok => LaneMove(job[c], ReplayedJob(c))
  BY DEF ReplayedJob
<1>10. (job[c].byok => job[c].attempts + 1 < MaxAttempts) => LaneMove(job[c], RetryableJob(c))
  BY DEF RetryableJob, ReconcileAfter
<1> QED BY <1>1, <1>2, <1>3, <1>4, <1>5, <1>6, <1>7, <1>8, <1>9, <1>10

LEMMA TryOne ==
    ASSUME TypeOK, NEW w \in Workers, NEW a, worker' = [worker EXCEPT ![w] = a],
           \/ a.pc \in {"idle", "locked"}
           \/ /\ Claimed(w) /\ a.c = worker[w].c /\ a.epoch = worker[w].epoch
              /\ a.gen = worker[w].gen /\ a.tries = worker[w].tries
           \/ /\ a.c \in Conversations /\ a.epoch = job[a.c].epoch + 1 /\ job[a.c].status # "absent"
              /\ job[a.c].byok => a.tries = job[a.c].attempts
    PROVE  TryMoves
<1>1. \A v \in Workers : worker'[v] = IF v = w THEN a ELSE worker[v]
  BY DEF TypeOK
<1> QED BY <1>1 DEF TryMoves, TryMove

LEMMA TryGo ==
    ASSUME TypeOK, NEW w \in Workers, Claimed(w), NEW pc, NEW q,
           \/ Go(w, pc)
           \/ worker' = [worker EXCEPT ![w] = [@ EXCEPT !.pc = pc, !.quiet = q]]
    PROVE  TryMoves
<1>1. worker[w] \in AttemptType
  BY DEF TypeOK
<1>2. CASE Go(w, pc)
  <2> DEFINE a == [worker[w] EXCEPT !.pc = pc]
  <2>1. a.c = worker[w].c /\ a.epoch = worker[w].epoch /\ a.gen = worker[w].gen /\ a.tries = worker[w].tries
    BY <1>1 DEF AttemptType
  <2>2. worker' = [worker EXCEPT ![w] = a]
    BY <1>2 DEF Go
  <2> HIDE DEF a
  <2> QED BY <2>1, <2>2, TryOne
<1>3. CASE worker' = [worker EXCEPT ![w] = [@ EXCEPT !.pc = pc, !.quiet = q]]
  <2> DEFINE a == [worker[w] EXCEPT !.pc = pc, !.quiet = q]
  <2>1. a.c = worker[w].c /\ a.epoch = worker[w].epoch /\ a.gen = worker[w].gen /\ a.tries = worker[w].tries
    BY <1>1 DEF AttemptType
  <2>2. worker' = [worker EXCEPT ![w] = a]
    BY <1>3
  <2> HIDE DEF a
  <2> QED BY <2>1, <2>2, TryOne
<1> QED BY <1>2, <1>3

\* A delivery that is retried is still a delivery of its conversation.
LEMMA RetriedSame ==
    ASSUME TypeOK, NEW ts, ts \subseteq tasks
    PROVE  \A t \in Retried(ts) : \E u \in tasks : u.c = t.c
<1> SUFFICES ASSUME NEW t \in Retried(ts) PROVE \E u \in tasks : u.c = t.c
  OBVIOUS
<1>1. CASE t \in tasks
  BY <1>1
<1>2. CASE t \notin tasks
  <2>1. PICK u \in ts : t = [u EXCEPT !.retry = u.retry + 1, !.running = FALSE]
    BY <1>2 DEF Retried
  <2>2. u \in TaskType
    BY DEF TypeOK
  <2>3. t.c = u.c
    BY <2>1, <2>2 DEF TaskType
  <2> QED BY <2>3
<1> QED BY <1>1, <1>2

LEMMA ReturnLanes ==
    ASSUME TypeOK, NEW w \in Workers, Acknowledge(w) \/ Refuse(w), UNCHANGED page
    PROVE  TryMoves /\ QueueMoves
<1>1. worker' = [worker EXCEPT ![w] = IdleAttempt] /\ IdleAttempt.pc = "idle"
  BY DEF Acknowledge, Refuse, Return, IdleAttempt
<1>2. TryMoves
  BY <1>1, TryOne
<1>3. TaskOf(worker[w]) \subseteq tasks
  BY DEF TaskOf
<1>4. tasks' \subseteq tasks \/ tasks' = Retried(TaskOf(worker[w]))
  BY DEF Acknowledge, Refuse
<1> QED BY <1>2, <1>3, <1>4, LaneNone, RetriedSame DEF QueueMoves

LEMMA EnqueueLanes ==
    ASSUME NEW c, NEW g, Enqueue(c, g), UNCHANGED page, job'[c].status # "absent", ~job'[c].byok
    PROVE  QueueMoves
<1>1. ASSUME NEW t \in tasks' PROVE t \in tasks \/ t.c = c
  BY <1>1 DEF Enqueue
<1> QED BY <1>1 DEF QueueMoves

LEMMA HandOffLanes ==
    ASSUME NEW c, NEW g, HandOff(c, g), UNCHANGED page, job'[c].status # "absent", ~job'[c].byok
    PROVE  QueueMoves
<1>1. CASE Enqueue(c, g)
  BY <1>1, EnqueueLanes
<1>2. CASE UNCHANGED tasks
  BY <1>2, LaneNone
<1> QED BY <1>1, <1>2 DEF HandOff, queues

LEMMA RequestLanes ==
    ASSUME IInv, LaneInv, NEW c \in Conversations, Request(c)
    PROVE  LaneMoves /\ TryMoves /\ QueueMoves
<1> USE DEF IInv
<1>0. job[c] \in JobType /\ (job[c].byok => job[c].due = "absent")
  BY DEF TypeOK, LaneInv, ByokRows
<1>1. ASSUME NEW byok \in BOOLEAN, CreateIntent(c, byok) PROVE LaneMoves /\ TryMoves /\ QueueMoves
  <2>1. job[c].status = "absent"
    BY <1>1 DEF CreateIntent, BoundRows
  <2>2. /\ CreatedJob(byok).status # "absent" /\ CreatedJob(byok).epoch = 0
        /\ CreatedJob(byok).attempts = 0 /\ CreatedJob(byok).byok = byok
        /\ byok => CreatedJob(byok).due = "absent"
    BY DEF CreatedJob, NoJob, ReconcileAfter
  <2>3. job' = [job EXCEPT ![c] = CreatedJob(byok)] /\ UNCHANGED <<worker, page>>
    BY <1>1 DEF CreateIntent
  <2>4. LaneMove(job[c], CreatedJob(byok))
    BY <2>1, <2>2 DEF LaneMove
  <2>5. LaneMoves
    BY <2>3, <2>4, LaneOne
  <2>6. job'[c] = CreatedJob(byok)
    BY <2>3 DEF TypeOK
  <2>7. CASE byok
    BY <1>1, <2>3, <2>5, <2>7, LaneNone DEF CreateIntent
  <2>8. CASE ~byok
    <3>1. HandOff(c, 1)
      BY <1>1, <2>8 DEF CreateIntent
    <3>2. job'[c].status # "absent" /\ ~job'[c].byok
      BY <2>2, <2>6, <2>8
    <3> QED BY <2>3, <2>5, <3>1, <3>2, HandOffLanes, LaneNone
  <2> QED BY <2>7, <2>8
<1>2. CASE GetIntent(c)
  <2>1. UNCHANGED <<job, worker, page>> /\ job[c].status # "absent"
    BY <1>2 DEF GetIntent, stores, NONTERMINAL_JOB_STATUSES
  <2>2. CASE job[c].byok
    BY <1>2, <2>1, <2>2, LaneNone DEF GetIntent
  <2>3. CASE ~job[c].byok
    <3>1. HandOff(c, job[c].gen)
      BY <1>2, <2>3 DEF GetIntent
    <3> QED BY <2>1, <2>3, <3>1, HandOffLanes, LaneNone
  <2> QED BY <2>2, <2>3
<1>3. CASE ResumeByok(c)
  <2>1. UNCHANGED <<worker, tasks, page>>
    BY <1>3 DEF ResumeByok
  <2>2. CASE job[c].status = "blocked_byok"
    BY <1>0, <1>3, <2>1, <2>2, LaneNone, LaneRows, LaneOne DEF ResumeByok
  <2>3. CASE job[c].status # "blocked_byok"
    BY <1>3, <2>1, <2>3, LaneNone DEF ResumeByok
  <2> QED BY <2>2, <2>3
<1>4. CASE RequestDies(c)
  BY <1>4, LaneNone DEF RequestDies, stores, queues
<1> QED BY <1>1, <1>2, <1>3, <1>4 DEF Request

LEMMA TimerLanes ==
    ASSUME IInv, LaneInv, NEW c \in Conversations, Timer(c) \/ User(c)
    PROVE  LaneMoves /\ TryMoves /\ QueueMoves
<1> USE DEF IInv
<1>0. job[c] \in JobType /\ (job[c].byok => job[c].due = "absent")
  BY DEF TypeOK, LaneInv, ByokRows
<1>1. UNCHANGED <<worker, tasks, page>>
  BY DEF Timer, LockExpires, LeaseExpires, ReconcileDelayElapses, AbandonmentWindowElapses,
         User, Discard, RestoreDiscarded, DeleteConversation, queues, sweeps
<1>2. CASE UNCHANGED job
  BY <1>1, <1>2, LaneNone
<1>3. CASE LeaseExpires(c)
  BY <1>0, <1>1, <1>3, LaneNone, LaneRows, LaneOne DEF LeaseExpires
<1>4. CASE ReconcileDelayElapses(c)
  <2>1. LaneMove(job[c], [job[c] EXCEPT !.due = "now", !.aged = TRUE])
    BY <1>0, <1>4 DEF ReconcileDelayElapses, LaneMove, JobType
  <2> QED BY <1>1, <1>4, <2>1, LaneNone, LaneOne DEF ReconcileDelayElapses
<1>5. CASE AbandonmentWindowElapses(c)
  <2>1. LaneMove(job[c], [job[c] EXCEPT !.idle = TRUE])
    BY <1>0, <1>5 DEF AbandonmentWindowElapses, LaneMove, JobType
  <2> QED BY <1>1, <1>5, <2>1, LaneNone, LaneOne DEF AbandonmentWindowElapses
<1> QED BY <1>2, <1>3, <1>4, <1>5
        DEF Timer, LockExpires, User, Discard, RestoreDiscarded, DeleteConversation, stores

LEMMA SweepLanes ==
    ASSUME IInv, LaneInv, Sweep
    PROVE  LaneMoves /\ TryMoves /\ QueueMoves
<1> USE DEF IInv
<1>0. \A c \in Conversations : job[c].byok => job[c].due = "absent"
  BY DEF LaneInv, ByokRows
<1>1. CASE ReconcileScan
  <2>1. UNCHANGED <<job, worker, tasks>>
    BY <1>1 DEF ReconcileScan, stores, queues
  <2>2. \A c \in page' : job'[c].status # "absent" /\ ~job'[c].byok
    BY <1>0, <1>1, <2>1 DEF ReconcileScan
  <2> QED BY <2>1, <2>2, LaneNone DEF QueueMoves
<1>2. ASSUME NEW c \in Conversations, Replay(c) PROVE LaneMoves /\ TryMoves /\ QueueMoves
  <2>1. c \in page /\ job[c].status # "absent" /\ ~job[c].byok /\ UNCHANGED worker
    BY <1>2 DEF Replay, LaneInv, PlatformOnly
  <2>2. LaneMoves /\ job'[c].status # "absent" /\ ~job'[c].byok
    <3>1. CASE Replayable(c)
      <4>1. job' = [job EXCEPT ![c] = ReplayedJob(c)] /\ LaneMove(job[c], ReplayedJob(c))
        BY <1>0, <1>2, <2>1, <3>1, LaneRows DEF Replay
      <4>2. job'[c] = ReplayedJob(c)
        BY <4>1 DEF TypeOK
      <4>3. job'[c].status # "absent" /\ ~job'[c].byok
        BY <2>1, <4>1, <4>2 DEF LaneMove
      <4> QED BY <4>1, <4>3, LaneOne
    <3>2. CASE ~Replayable(c)
      BY <1>2, <2>1, <3>2, LaneNone DEF Replay
    <3> QED BY <3>1, <3>2
  <2>3. page' \subseteq page
    BY <1>2 DEF Replay
  <2>4. PICK g : UNCHANGED tasks \/ Enqueue(c, g)
    BY <1>2 DEF Replay
  <2>5. ASSUME NEW t \in tasks' PROVE t \in tasks \/ t.c = c
    <3> DEFINE u == [c |-> c, gen |-> g, retry |-> 0, running |-> FALSE]
    <3>1. u.c = c
      OBVIOUS
    <3>2. t \in tasks \/ t = u
      BY <2>4, <2>5 DEF Enqueue
    <3> QED BY <3>1, <3>2
  <2> QED BY <2>1, <2>2, <2>3, <2>5, LaneNone DEF QueueMoves
<1>3. CASE ByokScan
  BY <1>3, LaneNone DEF ByokScan, stores, queues
<1>4. ASSUME NEW s \in scan, AbandonByok(s) PROVE LaneMoves /\ TryMoves /\ QueueMoves
  <2>0. s.c \in Conversations /\ UNCHANGED <<worker, tasks, page>>
    BY <1>4 DEF TypeOK, CandidateType, AbandonByok, queues
  <2>1. CASE StillAbandoned(s)
    <3>1. job[s.c].status # "absent" /\ job' = [job EXCEPT ![s.c] = AbandonedJob(s.c)]
      BY <1>4, <2>1 DEF AbandonByok, StillAbandoned, Stranded
    <3> QED BY <1>0, <2>0, <3>1, LaneNone, LaneRows, LaneOne
  <2>2. CASE ~StillAbandoned(s)
    BY <1>4, <2>0, <2>2, LaneNone DEF AbandonByok
  <2> QED BY <2>1, <2>2
<1> QED BY <1>1, <1>2, <1>3, <1>4 DEF Sweep

LEMMA DeliveryLanes ==
    ASSUME IInv, LaneInv, Delivery
    PROVE  LaneMoves /\ TryMoves /\ QueueMoves
<1> USE DEF IInv
<1>1. ASSUME NEW f \in frames, LoseFrame(f) PROVE LaneMoves /\ TryMoves /\ QueueMoves
  BY <1>1, LaneNone DEF LoseFrame, stores, sweeps
<1>2. ASSUME NEW f \in frames, NEW w \in Workers, PusherClaim(w, f)
      PROVE  LaneMoves /\ TryMoves /\ QueueMoves
  <2>0. f.c \in Conversations /\ UNCHANGED <<tasks, page>>
    BY <1>2 DEF TypeOK, HandoffType, PusherClaim, sweeps
  <2>1. CASE Claimable(f.c, f.gen, TRUE)
    <3> DEFINE a == [pc |-> "claimed", c |-> f.c, lane |-> "pusher", gen |-> f.gen,
                     epoch |-> NextEpoch(f.c), tries |-> job[f.c].attempts, quiet |-> FALSE]
    <3>1. a.c = f.c /\ a.epoch = job[f.c].epoch + 1 /\ a.tries = job[f.c].attempts
      BY DEF NextEpoch
    <3>2. job[f.c].status # "absent" /\ (job[f.c].byok => job[f.c].due = "absent")
      BY <2>0, <2>1 DEF Claimable, LaneInv, ByokRows
    <3>3. worker' = [worker EXCEPT ![w] = a] /\ job' = [job EXCEPT ![f.c] = LeasedJob(f.c)]
      BY <1>2, <2>1 DEF PusherClaim, Lease
    <3>4. LaneMoves
      BY <2>0, <3>2, <3>3, LaneRows, LaneOne
    <3>5. TryMoves
      <4> HIDE DEF a
      <4> QED BY <2>0, <3>1, <3>2, <3>3, TryOne
    <3> QED BY <2>0, <3>4, <3>5, LaneNone
  <2>2. CASE ~Claimable(f.c, f.gen, TRUE)
    BY <1>2, <2>0, <2>2, LaneNone DEF PusherClaim, stores
  <2> QED BY <2>1, <2>2
<1>3. ASSUME NEW t \in tasks, TaskLockedOut(t) \/ TaskDeadline(t) PROVE LaneMoves /\ TryMoves /\ QueueMoves
  <2>1. tasks' = Retried({t}) /\ UNCHANGED <<job, worker, page>>
    BY <1>3 DEF TaskLockedOut, TaskDeadline, stores, sweeps
  <2> QED BY <2>1, RetriedSame, LaneNone DEF QueueMoves
<1>4. ASSUME NEW t \in tasks, NEW w \in Workers, TaskLocks(w, t) PROVE LaneMoves /\ TryMoves /\ QueueMoves
  <2> DEFINE a == [pc |-> "locked", c |-> t.c, lane |-> "task", gen |-> t.gen,
                   epoch |-> 0, tries |-> t.retry, quiet |-> FALSE]
  <2>1. /\ worker' = [worker EXCEPT ![w] = a] /\ UNCHANGED <<job, page>>
        /\ tasks' = (tasks \ {t}) \union {[t EXCEPT !.running = TRUE]}
    BY <1>4 DEF TaskLocks, stores, sweeps
  <2>2. a.pc = "locked"
    OBVIOUS
  <2>3. TryMoves
    <3> HIDE DEF a
    <3> QED BY <2>1, <2>2, TryOne
  <2>4. [t EXCEPT !.running = TRUE].c = t.c
    BY DEF TypeOK, TaskType
  <2>5. \A u \in tasks' : \E v \in tasks : v.c = u.c
    BY <2>1, <2>4
  <2> QED BY <2>1, <2>3, <2>5, LaneNone DEF QueueMoves
<1> QED BY <1>1, <1>2, <1>3, <1>4 DEF Delivery

LEMMA WorkerLanes ==
    ASSUME IInv, LaneInv, NEW w \in Workers, WorkerStep(w) \/ Crash(w)
    PROVE  LaneMoves /\ TryMoves /\ QueueMoves
<1> USE DEF IInv
<1>0. /\ worker[w] \in AttemptType /\ worker[w].c \in Conversations /\ UNCHANGED page
  BY DEF TypeOK, Busy, Active, WorkerStep, Crash, sweeps, TaskClaims, SkipForCutover, ReadConversation,
         ProcessConversation, ClaimFanout, EmitEffects, CompleteFanout, MarkCompleted, MarkFenced,
         RecordFailure
<1> DEFINE c == worker[w].c
<1>1. job[c].byok => job[c].due = "absent"
  BY <1>0 DEF LaneInv, ByokRows
\* A transaction on the leased row.
<1>2. ASSUME NEW k, job[c].status # "absent", LaneMove(job[c], k),
             UNCHANGED job \/ job' = [job EXCEPT ![c] = k]
      PROVE  LaneMoves
  BY <1>0, <1>2, LaneNone, LaneOne
<1>3. CASE TaskClaims(w)
  <2>1. CASE Claimable(c, worker[w].gen, FALSE)
    <3> DEFINE a == [worker[w] EXCEPT !.pc = "claimed", !.epoch = NextEpoch(c)]
    <3>1. a.c = c /\ a.epoch = job[c].epoch + 1
      BY <1>0 DEF AttemptType, NextEpoch
    <3>2. job[c].status # "absent" /\ ~job[c].byok
      BY <2>1 DEF Claimable
    <3>3. /\ worker' = [worker EXCEPT ![w] = a] /\ job' = [job EXCEPT ![c] = LeasedJob(c)]
          /\ UNCHANGED tasks
      BY <1>3, <2>1 DEF TaskClaims, Lease, queues
    <3>4. LaneMoves
      BY <1>0, <1>1, <3>2, <3>3, LaneRows, LaneOne
    <3>5. TryMoves
      <4> HIDE DEF a
      <4> QED BY <1>0, <3>1, <3>2, <3>3, TryOne
    <3> QED BY <1>0, <3>3, <3>4, <3>5, LaneNone
  <2>2. CASE ~Claimable(c, worker[w].gen, FALSE)
    <3>1. UNCHANGED job /\ (Acknowledge(w) \/ Refuse(w))
      BY <1>3, <2>2 DEF TaskClaims, stores
    <3> QED BY <1>0, <3>1, LaneNone, ReturnLanes
  <2> QED BY <2>1, <2>2
<1>4. CASE SkipForCutover(w)
  <2>1. Claimed(w) /\ Go(w, "fence") /\ UNCHANGED <<job, tasks>>
    BY <1>4 DEF SkipForCutover, Claimed, stores, queues
  <2> QED BY <1>0, <2>1, TryGo, LaneNone
<1>5. CASE ReadConversation(w)
  <2>1. Claimed(w) /\ UNCHANGED <<job, tasks>>
    BY <1>5 DEF ReadConversation, Claimed, stores, queues
  <2>2. PICK pc, q : worker' = [worker EXCEPT ![w] = [@ EXCEPT !.pc = pc, !.quiet = q]]
    BY <1>5 DEF ReadConversation
  <2> QED BY <1>0, <2>1, <2>2, TryGo, LaneNone
<1>6. ASSUME NEW outcome \in Outcomes, ProcessConversation(w, outcome) PROVE LaneMoves /\ TryMoves /\ QueueMoves
  <2>1. Claimed(w) /\ UNCHANGED <<job, tasks>>
    BY <1>6 DEF ProcessConversation, Claimed, queues
  <2>2. PICK pc, q : worker' = [worker EXCEPT ![w] = [@ EXCEPT !.pc = pc, !.quiet = q]]
    BY <1>6 DEF ProcessConversation
  <2> QED BY <1>0, <2>1, <2>2, TryGo, LaneNone
<1>7. CASE ClaimFanout(w)
  <2>1. Claimed(w) /\ UNCHANGED tasks /\ \E pc : Go(w, pc)
    BY <1>7 DEF ClaimFanout, Claimed, queues
  <2>2. LaneMoves
    <3>1. CASE UNCHANGED job
      BY <3>1, LaneNone
    <3>2. CASE job[c].status = "leased" /\ job' = [job EXCEPT ![c] = FencedJob(c)]
      BY <1>0, <1>1, <3>2, LaneRows, LaneOne
    <3>3. CASE job[c].status = "leased" /\ job' = [job EXCEPT ![c] = FanoutClaimedJob(worker[w])]
      <4>1. LaneMove(job[c], FanoutClaimedJob(worker[w]))
        <5>1. job[c] \in JobType
          BY <1>0 DEF TypeOK
        <5> QED BY <1>1, <3>3, <5>1 DEF LaneMove, JobType, FanoutClaimedJob
      <4> QED BY <1>0, <3>3, <4>1, LaneOne
    <3> QED BY <1>7, <3>1, <3>2, <3>3 DEF ClaimFanout, IsCurrentLease
  <2> QED BY <1>0, <2>1, <2>2, TryGo, LaneNone
<1>8. CASE EmitEffects(w)
  <2>1. Claimed(w) /\ UNCHANGED <<job, tasks>> /\ \E pc : Go(w, pc)
    BY <1>8 DEF EmitEffects, Claimed, queues
  <2> QED BY <1>0, <2>1, TryGo, LaneNone
<1>9. CASE CompleteFanout(w)
  <2>1. Claimed(w) /\ UNCHANGED tasks /\ \E pc : Go(w, pc)
    BY <1>9 DEF CompleteFanout, Claimed, queues
  <2>2. \/ UNCHANGED job
        \/ job[c].status = "leased" /\ job' = [job EXCEPT ![c] = FanoutCompletedJob(c)]
    BY <1>9 DEF CompleteFanout, IsCurrentLease
  <2>3. LaneMoves
    BY <1>0, <1>1, <2>2, LaneNone, LaneRows, LaneOne
  <2> QED BY <1>0, <2>1, <2>3, TryGo, LaneNone
<1>10. CASE MarkCompleted(w) \/ MarkFenced(w)
  <2>1. Acknowledge(w) \/ Refuse(w)
    BY <1>10 DEF MarkCompleted, MarkFenced
  <2>2. \/ UNCHANGED job
        \/ job[c].status = "leased" /\ job' = [job EXCEPT ![c] = SucceededJob(c)]
        \/ job[c].status = "leased" /\ job' = [job EXCEPT ![c] = FencedJob(c)]
    BY <1>10 DEF MarkCompleted, MarkFenced, IsCurrentLease
  <2>3. LaneMoves
    BY <1>0, <1>1, <2>2, LaneNone, LaneRows, LaneOne
  <2> QED BY <1>0, <2>1, <2>3, ReturnLanes
<1>11. CASE RecordFailure(w)
  <2>1. Claimed(w) /\ (Acknowledge(w) \/ Refuse(w))
    BY <1>11 DEF RecordFailure, Claimed
  <2>2. CASE UNCHANGED job
    BY <1>0, <2>1, <2>2, LaneNone, ReturnLanes
  <2>3. CASE IsCurrentLease(worker[w]) /\ MarkDeadLetter(c)
    <3>1. job[c].status = "leased" /\ job' = [job EXCEPT ![c] = DeadLetteredJob(c)]
      BY <2>3 DEF MarkDeadLetter, IsCurrentLease
    <3> QED BY <1>0, <1>1, <2>1, <3>1, LaneRows, LaneOne, ReturnLanes
  <2>4. CASE IsCurrentLease(worker[w]) /\ ~FinalAttempt(worker[w]) /\ MarkRetryable(c)
    <3>1. job[c].status = "leased" /\ job' = [job EXCEPT ![c] = RetryableJob(c)]
      BY <2>4 DEF MarkRetryable, IsCurrentLease
    <3>2. worker[w].tries < MaxAttempts - 1
      BY <1>0, <2>4, BoundsAssumption DEF FinalAttempt, AttemptType
    <3>3. job[c].byok => worker[w].tries = job[c].attempts
      BY <2>1, <2>4 DEF LaneInv, TriesCounted
    <3>4. job[c].attempts \in Nat
      BY <1>0 DEF TypeOK, JobType
    <3>5. job[c].byok => job[c].attempts + 1 < MaxAttempts
      BY <3>2, <3>3, <3>4, BoundsAssumption
    <3> QED BY <1>0, <1>1, <2>1, <3>1, <3>5, LaneRows, LaneOne, ReturnLanes
  <2> QED BY <1>11, <2>2, <2>3, <2>4 DEF RecordFailure
<1>12. CASE Crash(w)
  <2>1. /\ worker' = [worker EXCEPT ![w] = IdleAttempt] /\ IdleAttempt.pc = "idle"
        /\ UNCHANGED <<job, tasks>>
    BY <1>12 DEF Crash, IdleAttempt, stores, queues
  <2> QED BY <1>0, <2>1, TryOne, LaneNone
<1> QED BY <1>3, <1>4, <1>5, <1>6, <1>7, <1>8, <1>9, <1>10, <1>11, <1>12 DEF WorkerStep

LEMMA LaneNext ==
    ASSUME IInv, LaneInv, [Next]_vars
    PROVE  LaneInv'
<1>0. IInv'
  BY Step
<1>1. CASE Next
  <2>1. CASE StartCutover
    BY <2>1, LaneNone, LaneStep, <1>0 DEF StartCutover, stores, queues, sweeps
  <2>2. CASE ~StartCutover
    <3>1. LaneMoves /\ TryMoves /\ QueueMoves
      BY <1>1, <2>2, RequestLanes, TimerLanes, WorkerLanes, DeliveryLanes, SweepLanes DEF Next
    <3> QED BY <1>0, <3>1, LaneStep
  <2> QED BY <2>1, <2>2
<1>2. CASE UNCHANGED vars
  BY <1>0, <1>2, LaneNone, LaneStep DEF vars
<1> QED BY <1>1, <1>2

LEMMA LaneInit == Init => LaneInv
<1> SUFFICES ASSUME Init PROVE LaneInv
  OBVIOUS
<1>1. page = {} /\ tasks = {} /\ \A w \in Workers : ~Claimed(w)
  BY DEF Init, IdleAttempt, Claimed
<1>2. \A c \in Conversations : ~job[c].byok
  BY DEF Init, NoJob
<1> QED BY <1>1, <1>2 DEF LaneInv, ByokRows, PlatformOnly, TriesCounted

LEMMA LaneInvariance == Spec => [](IInv /\ LaneInv)
<1>1. Init => IInv /\ LaneInv
  BY InvInit, LaneInit
<1>2. IInv /\ LaneInv /\ [Next]_vars => (IInv /\ LaneInv)'
  BY Step, LaneNext
<1> QED BY <1>1, <1>2, PTL DEF Spec

\* A job that needs the user's own keys never becomes a Cloud Task: neither a
\* request, nor a retry, nor a replay of a page read earlier hands it to the
\* credential-free lane.
THEOREM ByokStaysWithItsSession == Spec => []NoTaskForByok
<1>1. IInv /\ LaneInv => NoTaskForByok
  BY DEF LaneInv, PlatformOnly, NoTaskForByok
<1> QED BY <1>1, LaneInvariance, PTL

\* However often leases of a BYOK job are claimed, lost and reclaimed, its
\* failed attempts stay below the limit: only the owner of the current lease
\* adds one, and its tries were read from the row it claimed.
THEOREM ByokTriesAreBounded == Spec => []ByokAttemptsBounded
<1>1. IInv /\ LaneInv => ByokAttemptsBounded
  BY DEF LaneInv, ByokRows, ByokAttemptsBounded
<1> QED BY <1>1, LaneInvariance, PTL

-----------------------------------------------------------------------------
(* A deleted conversation                                                   *)

\* A step writes the row of one conversation that still exists, or none.
LEMMA LivingRow ==
    ASSUME NEW c, conv[c].exists, NEW k, conv' = conv \/ conv' = [conv EXCEPT ![c] = k], TypeOK
    PROVE  \A d \in Conversations : ~conv[d].exists => conv'[d] = conv[d]
  BY DEF TypeOK

\* Neither a request, a processor's late result, a dead letter nor the
\* abandonment sweep recreates or changes a row that its owner deleted: each
\* of those transactions reads the row it is about to write.
THEOREM DeletionIsFinal == Spec => DeletedStaysDeleted
<1>1. IInv /\ [Next]_vars => [\A c \in Conversations : ~conv[c].exists => conv'[c] = conv[c]]_vars
  <2> SUFFICES ASSUME IInv, [Next]_vars
               PROVE  \A c \in Conversations : ~conv[c].exists => conv'[c] = conv[c]
    OBVIOUS
  <2> DEFINE Kept == \A c \in Conversations : ~conv[c].exists => conv'[c] = conv[c]
  <2>0. TypeOK
    BY DEF IInv
  <2>1. CASE UNCHANGED conv
    BY <2>1
  <2>2. ASSUME NEW c, conv[c].exists, \E k : conv' = [conv EXCEPT ![c] = k] PROVE Kept
    BY <2>0, <2>2, LivingRow
  <2>3. ASSUME NEW c \in Conversations, Request(c) \/ Timer(c) \/ User(c) PROVE Kept
    <3>1. \/ UNCHANGED conv
          \/ conv[c].exists /\ \E k : conv' = [conv EXCEPT ![c] = k]
      <4>1. CASE Request(c)
        BY <4>1 DEF Request, CreateIntent, AdmitsRequest, GetIntent, ResumeByok, RequestDies, stores
      <4>2. CASE Timer(c)
        BY <4>2 DEF Timer, LockExpires, LeaseExpires, ReconcileDelayElapses, AbandonmentWindowElapses, stores
      <4>3. CASE User(c)
        BY <4>3 DEF User, Discard, RestoreDiscarded, DeleteConversation
      <4> QED BY <2>3, <4>1, <4>2, <4>3
    <3> QED BY <2>1, <2>2, <3>1
  <2>4. ASSUME NEW w \in Workers, WorkerStep(w) \/ Crash(w) PROVE Kept
    <3> DEFINE c == worker[w].c
    <3>1. CASE \E outcome \in Outcomes : ProcessConversation(w, outcome)
      <4>1. PICK outcome \in Outcomes : ProcessConversation(w, outcome)
        BY <3>1
      <4>2. CASE conv[c].exists
        <5>1. ASSUME NEW s, NEW h, NEW d, NEW m, conv' = Persisted(c, s, h, d, m) PROVE Kept
          BY <2>2, <4>2, <5>1 DEF Persisted
        <5>2. CASE outcome \in {"keep", "hide", "minimum"}
          <6>1. PICK h, m : conv' = Persisted(c, "completed", h, FALSE, m)
            BY <4>1, <4>2, <5>2 DEF ProcessConversation, PersistAdmits
          <6> QED BY <5>1, <6>1
        <5>3. CASE outcome = "defer"
          <6>1. PICK h : conv' = Persisted(c, "processing", h, TRUE, conv[c].minimal)
            BY <4>1, <4>2, <5>3 DEF ProcessConversation, PersistAdmits
          <6> QED BY <5>1, <6>1
        <5>4. CASE outcome \notin {"keep", "hide", "minimum", "defer"}
          BY <2>1, <4>1, <5>4 DEF ProcessConversation
        <5> QED BY <5>2, <5>3, <5>4
      <4>3. CASE ~conv[c].exists
        BY <2>1, <4>1, <4>3 DEF ProcessConversation, PersistAdmits
      <4> QED BY <4>2, <4>3
    <3>2. CASE RecordFailure(w)
      <4>1. \/ UNCHANGED conv
            \/ conv[c].exists /\ \E k : conv' = [conv EXCEPT ![c] = k]
        BY <3>2 DEF RecordFailure, MarkDeadLetter, MarkRetryable
      <4> QED BY <2>1, <2>2, <4>1
    <3>3. CASE ~(\E outcome \in Outcomes : ProcessConversation(w, outcome)) /\ ~RecordFailure(w)
      <4>1. UNCHANGED conv
        BY <2>4, <3>3 DEF WorkerStep, Crash, TaskClaims, Lease, SkipForCutover, ReadConversation, ClaimFanout,
           EmitEffects, CompleteFanout, MarkCompleted, MarkFenced, stores
      <4> QED BY <2>1, <4>1
    <3> QED BY <3>1, <3>2, <3>3
  <2>5. CASE Delivery
    <3>1. UNCHANGED conv
      BY <2>5 DEF Delivery, LoseFrame, PusherClaim, Lease, TaskLockedOut, TaskDeadline, TaskLocks, stores
    <3> QED BY <2>1, <3>1
  <2>6. CASE Sweep
    <3>1. ASSUME NEW s \in scan, AbandonByok(s) PROVE Kept
      <4>1. \/ UNCHANGED conv
            \/ conv[s.c].exists /\ \E k : conv' = [conv EXCEPT ![s.c] = k]
        BY <3>1 DEF AbandonByok
      <4> QED BY <2>1, <2>2, <4>1
    <3>2. CASE ~\E s \in scan : AbandonByok(s)
      BY <2>1, <2>6, <3>2 DEF Sweep, ReconcileScan, Replay, ByokScan, stores
    <3> QED BY <3>1, <3>2
  <2>7. CASE StartCutover
    BY <2>1, <2>7 DEF StartCutover, stores
  <2>8. CASE UNCHANGED vars
    BY <2>1, <2>8 DEF vars
  <2> QED BY <2>3, <2>4, <2>5, <2>6, <2>7, <2>8 DEF Next
<1> QED BY <1>1, Invariance, PTL DEF Spec, DeletedStaysDeleted

-----------------------------------------------------------------------------
(* The counters of the projection                                           *)

\* Two sets of conversations that agree except on c differ by at most one.
LEMMA CountChange ==
    ASSUME NEW A \in SUBSET Conversations, NEW B \in SUBSET Conversations, NEW c \in Conversations,
           \A d \in Conversations : d # c => (d \in A <=> d \in B)
    PROVE  /\ Cardinality(A) \in Nat
           /\ Cardinality(B) = Cardinality(A) + (IF c \in B THEN 1 ELSE 0) - (IF c \in A THEN 1 ELSE 0)
<1>1. IsFiniteSet(A) /\ IsFiniteSet(B)
  BY ConversationsAssumption, FS_Subset
<1>2. Cardinality(A) \in Nat
  BY <1>1, FS_CardinalityType
<1>3. CASE (c \in A <=> c \in B)
  <2>1. A = B
    BY <1>3
  <2> QED BY <1>2, <2>1
<1>4. CASE c \in A /\ c \notin B
  <2>1. B = A \ {c}
    BY <1>4
  <2>2. Cardinality(A \ {c}) = Cardinality(A) - 1
    BY <1>1, <1>4, FS_RemoveElement
  <2> QED BY <1>2, <1>4, <2>1, <2>2
<1>5. CASE c \notin A /\ c \in B
  <2>1. B = A \union {c}
    BY <1>5
  <2>2. Cardinality(A \union {c}) = Cardinality(A) + 1
    BY <1>1, <1>5, FS_AddElement
  <2> QED BY <1>2, <1>5, <2>1, <2>2
<1> QED BY <1>3, <1>4, <1>5

InStatus(f, s) == {c \in Conversations : f[c].status = s}
Accepted(f) == {c \in Conversations : f[c].status # "absent"}

LEMMA TallyMoves ==
    ASSUME TypeOK, NEW c \in Conversations, NEW k \in JobType, job' = [job EXCEPT ![c] = k], NEW s
    PROVE  /\ Cardinality(InStatus(job', s))
              = Cardinality(InStatus(job, s)) + (IF k.status = s THEN 1 ELSE 0)
                  - (IF job[c].status = s THEN 1 ELSE 0)
           /\ Cardinality(Accepted(job'))
              = Cardinality(Accepted(job)) + (IF k.status # "absent" THEN 1 ELSE 0)
                  - (IF job[c].status # "absent" THEN 1 ELSE 0)
           /\ Cardinality(InStatus(job, s)) \in Nat /\ Cardinality(Accepted(job)) \in Nat
<1>1. \A d \in Conversations : job'[d] = IF d = c THEN k ELSE job[d]
  BY DEF TypeOK
<1>2. /\ InStatus(job, s) \in SUBSET Conversations /\ InStatus(job', s) \in SUBSET Conversations
      /\ c \in InStatus(job, s) <=> job[c].status = s
      /\ c \in InStatus(job', s) <=> k.status = s
      /\ \A d \in Conversations : d # c => (d \in InStatus(job, s) <=> d \in InStatus(job', s))
  BY <1>1 DEF InStatus
<1>3. /\ Accepted(job) \in SUBSET Conversations /\ Accepted(job') \in SUBSET Conversations
      /\ c \in Accepted(job) <=> job[c].status # "absent"
      /\ c \in Accepted(job') <=> k.status # "absent"
      /\ \A d \in Conversations : d # c => (d \in Accepted(job) <=> d \in Accepted(job'))
  BY <1>1 DEF Accepted
<1>4. /\ Cardinality(InStatus(job, s)) \in Nat
      /\ Cardinality(InStatus(job', s))
           = Cardinality(InStatus(job, s)) + (IF c \in InStatus(job', s) THEN 1 ELSE 0)
               - (IF c \in InStatus(job, s) THEN 1 ELSE 0)
  BY <1>2, CountChange
<1>5. /\ Cardinality(Accepted(job)) \in Nat
      /\ Cardinality(Accepted(job'))
           = Cardinality(Accepted(job)) + (IF c \in Accepted(job') THEN 1 ELSE 0)
               - (IF c \in Accepted(job) THEN 1 ELSE 0)
  BY <1>3, CountChange
<1> QED BY <1>2, <1>3, <1>4, <1>5

\* The deltas that go with the transition of one job.
CountMove(from, to) ==
    \/ to = from /\ proj' = proj
    \/ /\ from = "absent" /\ to \in NONTERMINAL_JOB_STATUSES
       /\ proj' = [proj EXCEPT !["accepted"] = @ + 1, ![to] = @ + 1]
    \/ /\ from \in NONTERMINAL_JOB_STATUSES /\ to \in NONTERMINAL_JOB_STATUSES /\ from # to
       /\ proj' = Moved(from, to)
    \/ /\ from \in NONTERMINAL_JOB_STATUSES /\ to = "completed"
       /\ \E o \in {"success", "stale"} : proj' = Closed(from, "completed", o)
    \/ /\ from \in NONTERMINAL_JOB_STATUSES /\ to = "dead_letter"
       /\ proj' = Closed(from, "dead_letter", "failure")

CountMoves ==
    \/ UNCHANGED <<job, proj>>
    \/ \E c \in Conversations, k \in JobType :
         job' = [job EXCEPT ![c] = k] /\ CountMove(job[c].status, k.status)

\* proj is the tally of the statuses, and the outcomes add up.
Tallied(p, f) ==
    /\ \A s \in JobStatus : p[s] = Cardinality(InStatus(f, s))
    /\ p["accepted"] = Cardinality(Accepted(f))
    /\ p["completed"] = p["success"] + p["stale"]
    /\ p["dead_letter"] = p["failure"]

LEMMA TalliedIsAccurate ==
    /\ ProjectionAccurate <=> Tallied(proj, job)
    /\ ProjectionAccurate' <=> Tallied(proj', job')
  BY DEF ProjectionAccurate, Tallied, InStatus, Accepted

\* What one delta does to the counters.
LEMMA DeltaMoves ==
    ASSUME TypeOK, NEW from, NEW to, CountMove(from, to)
    PROVE  /\ \A s \in JobStatus : proj'[s] = proj[s] + (IF to = s THEN 1 ELSE 0) - (IF from = s THEN 1 ELSE 0)
           /\ proj'["accepted"] = proj["accepted"] + (IF to # "absent" THEN 1 ELSE 0)
                                                   - (IF from # "absent" THEN 1 ELSE 0)
           /\ proj["completed"] = proj["success"] + proj["stale"]
                => proj'["completed"] = proj'["success"] + proj'["stale"]
           /\ proj["dead_letter"] = proj["failure"] => proj'["dead_letter"] = proj'["failure"]
<1>0. proj \in [Counters -> Int] /\ JobStatus \subseteq Counters
      /\ {"accepted", "success", "stale", "failure"} \subseteq Counters
  BY DEF TypeOK, Counters
<1>1. \A s \in Counters : proj[s] \in Int
  BY <1>0
<1> USE DEF JobStatus, NONTERMINAL_JOB_STATUSES
<1>2. CASE to = from /\ proj' = proj
  <2>1. \A s \in JobStatus : proj[s] \in Int
    BY <1>0, <1>1
  <2> QED BY <1>0, <1>1, <1>2, <2>1
<1>3. CASE /\ from = "absent" /\ to \in NONTERMINAL_JOB_STATUSES
           /\ proj' = [proj EXCEPT !["accepted"] = @ + 1, ![to] = @ + 1]
  <2>1. \A s \in Counters : proj'[s] = IF s = to \/ s = "accepted" THEN proj[s] + 1 ELSE proj[s]
    BY <1>0, <1>1, <1>3
  <2> QED BY <1>0, <1>1, <1>3, <2>1
<1>4. CASE /\ from \in NONTERMINAL_JOB_STATUSES /\ to \in NONTERMINAL_JOB_STATUSES /\ from # to
           /\ proj' = Moved(from, to)
  <2>1. \A s \in Counters : proj'[s] = IF s = to THEN proj[s] + 1 ELSE IF s = from THEN proj[s] - 1 ELSE proj[s]
    BY <1>0, <1>1, <1>4 DEF Moved
  <2> QED BY <1>0, <1>1, <1>4, <2>1
<1>5. ASSUME NEW o \in {"success", "stale", "failure"}, from \in NONTERMINAL_JOB_STATUSES,
             to \in {"completed", "dead_letter"}, proj' = Closed(from, to, o)
      PROVE  \A s \in Counters : proj'[s] = IF s \in {to, o} THEN proj[s] + 1
                                            ELSE IF s = from THEN proj[s] - 1 ELSE proj[s]
  BY <1>0, <1>1, <1>5 DEF Closed
<1>6. CASE /\ from \in NONTERMINAL_JOB_STATUSES /\ to = "dead_letter"
           /\ proj' = Closed(from, "dead_letter", "failure")
  <2>1. \A s \in Counters : proj'[s] = IF s \in {"dead_letter", "failure"} THEN proj[s] + 1
                                       ELSE IF s = from THEN proj[s] - 1 ELSE proj[s]
    BY <1>5, <1>6
  <2>2. \A s \in JobStatus : proj'[s] = proj[s] + (IF to = s THEN 1 ELSE 0) - (IF from = s THEN 1 ELSE 0)
    BY <1>0, <1>1, <1>6, <2>1
  <2>3. /\ \A s \in {"accepted", "completed", "success", "stale"} : proj'[s] = proj[s]
        /\ \A s \in {"dead_letter", "failure"} : proj'[s] = proj[s] + 1
    BY <1>0, <1>6, <2>1
  <2> QED BY <1>0, <1>1, <1>6, <2>2, <2>3
<1>7. CASE /\ from \in NONTERMINAL_JOB_STATUSES /\ to = "completed"
           /\ \E o \in {"success", "stale"} : proj' = Closed(from, "completed", o)
  <2>1. PICK o \in {"success", "stale"} :
          \A s \in Counters : proj'[s] = IF s \in {"completed", o} THEN proj[s] + 1
                                         ELSE IF s = from THEN proj[s] - 1 ELSE proj[s]
    BY <1>5, <1>7
  <2>2. \A s \in JobStatus : proj'[s] = proj[s] + (IF to = s THEN 1 ELSE 0) - (IF from = s THEN 1 ELSE 0)
    BY <1>0, <1>1, <1>7, <2>1
  <2>3. /\ \A s \in {"accepted", "dead_letter", "failure", "success", "stale"} \ {o} : proj'[s] = proj[s]
        /\ proj'["completed"] = proj["completed"] + 1 /\ proj'[o] = proj[o] + 1
    BY <1>0, <1>7, <2>1
  <2> QED BY <1>0, <1>1, <1>7, <2>2, <2>3
<1> QED BY <1>2, <1>3, <1>4, <1>6, <1>7 DEF CountMove

LEMMA CountStep ==
    ASSUME TypeOK, ProjectionAccurate, CountMoves
    PROVE  ProjectionAccurate'
<1>1. Tallied(proj, job)
  BY TalliedIsAccurate
<1>2. CASE UNCHANGED <<job, proj>>
  BY <1>1, <1>2, TalliedIsAccurate
<1>3. ASSUME NEW c \in Conversations, NEW k \in JobType, job' = [job EXCEPT ![c] = k],
             CountMove(job[c].status, k.status)
      PROVE  ProjectionAccurate'
  <2>1. \A s \in JobStatus : proj'[s] = Cardinality(InStatus(job', s))
    <3> SUFFICES ASSUME NEW s \in JobStatus PROVE proj'[s] = Cardinality(InStatus(job', s))
      OBVIOUS
    <3>1. proj'[s] = proj[s] + (IF k.status = s THEN 1 ELSE 0) - (IF job[c].status = s THEN 1 ELSE 0)
      BY <1>3, DeltaMoves
    <3>2. Cardinality(InStatus(job', s))
            = Cardinality(InStatus(job, s)) + (IF k.status = s THEN 1 ELSE 0) - (IF job[c].status = s THEN 1 ELSE 0)
      BY <1>3, TallyMoves
    <3> QED BY <1>1, <3>1, <3>2 DEF Tallied
  <2>2. proj'["accepted"] = Cardinality(Accepted(job'))
    <3>1. proj'["accepted"] = proj["accepted"] + (IF k.status # "absent" THEN 1 ELSE 0)
                                               - (IF job[c].status # "absent" THEN 1 ELSE 0)
      BY <1>3, DeltaMoves
    <3>2. Cardinality(Accepted(job'))
            = Cardinality(Accepted(job)) + (IF k.status # "absent" THEN 1 ELSE 0)
                - (IF job[c].status # "absent" THEN 1 ELSE 0)
      BY <1>3, TallyMoves
    <3> QED BY <1>1, <3>1, <3>2 DEF Tallied
  <2>3. /\ proj'["completed"] = proj'["success"] + proj'["stale"]
        /\ proj'["dead_letter"] = proj'["failure"]
    BY <1>1, <1>3, DeltaMoves DEF Tallied
  <2>4. Tallied(proj', job')
    BY <2>1, <2>2, <2>3 DEF Tallied
  <2> QED BY <2>4, TalliedIsAccurate
<1> QED BY <1>2, <1>3 DEF CountMoves

\* Every action moves the counters with the job.
LEMMA Counted ==
    ASSUME IInv, [Next]_vars
    PROVE  CountMoves
<1> USE DEF IInv
<1>0. ASSUME NEW c \in Conversations, NEW k, job' = [job EXCEPT ![c] = k], CountMove(job[c].status, k.status)
      PROVE  CountMoves
  <2>1. job' \in [Conversations -> JobType]
    BY Step DEF TypeOK
  <2>2. job'[c] = k
    BY <1>0 DEF TypeOK
  <2> QED BY <1>0, <2>1, <2>2 DEF CountMoves
<1>1. ASSUME UNCHANGED <<job, proj>> PROVE CountMoves
  BY <1>1 DEF CountMoves
<1>2. ASSUME NEW c \in Conversations, job[c] \in JobType
      PROVE  /\ ResumedJob(c).status = "queued" /\ LeasedJob(c).status = "leased"
             /\ FencedJob(c).status = "completed" /\ SucceededJob(c).status = "completed"
             /\ DeadLetteredJob(c).status = "dead_letter" /\ AbandonedJob(c).status = "dead_letter"
             /\ RetryableJob(c).status = "queued" /\ ReplayedJob(c).status = "queued"
             /\ FanoutCompletedJob(c).status = job[c].status /\ ExpiredJob(c).status = job[c].status
  BY <1>2 DEF JobType, ResumedJob, LeasedJob, FencedJob, SucceededJob, DeadLetteredJob, AbandonedJob,
              RetryableJob, ReplayedJob, FanoutCompletedJob, ExpiredJob
<1>3. ASSUME NEW c \in Conversations, NEW k, k.status = job[c].status, job' = [job EXCEPT ![c] = k],
             UNCHANGED proj
      PROVE  CountMoves
  BY <1>0, <1>3 DEF CountMove
<1>4. ASSUME NEW c \in Conversations, job[c].status \in {"queued", "leased"}, Lease(c)
      PROVE  CountMoves
  <2>1. LeasedJob(c).status = "leased"
    BY <1>2 DEF TypeOK
  <2>2. CountMove(job[c].status, LeasedJob(c).status)
    BY <1>4, <2>1 DEF CountMove, Lease, NONTERMINAL_JOB_STATUSES
  <2> QED BY <1>0, <1>4, <2>2 DEF Lease
<1>5. ASSUME NEW c \in Conversations, Request(c) PROVE CountMoves
  <2>1. ASSUME NEW byok \in BOOLEAN, CreateIntent(c, byok) PROVE CountMoves
    <3>1. job[c].status = "absent"
      BY <2>1 DEF CreateIntent, BoundRows
    <3>2. CreatedJob(byok).status \in NONTERMINAL_JOB_STATUSES
      BY DEF CreatedJob, NoJob, NONTERMINAL_JOB_STATUSES
    <3>3. CountMove(job[c].status, CreatedJob(byok).status)
      BY <2>1, <3>1, <3>2 DEF CreateIntent, CountMove
    <3> QED BY <1>0, <2>1, <3>3 DEF CreateIntent
  <2>2. CASE GetIntent(c) \/ RequestDies(c)
    BY <1>1, <2>2 DEF GetIntent, RequestDies, stores
  <2>3. CASE ResumeByok(c)
    <3>1. CASE job[c].status = "blocked_byok"
      <4>1. ResumedJob(c).status = "queued"
        BY <1>2 DEF TypeOK
      <4>2. CountMove(job[c].status, ResumedJob(c).status)
        BY <2>3, <3>1, <4>1 DEF ResumeByok, CountMove, NONTERMINAL_JOB_STATUSES
      <4> QED BY <1>0, <2>3, <3>1, <4>2 DEF ResumeByok
    <3>2. CASE job[c].status # "blocked_byok"
      BY <1>1, <2>3, <3>2 DEF ResumeByok
    <3> QED BY <3>1, <3>2
  <2> QED BY <1>5, <2>1, <2>2, <2>3 DEF Request
<1>6. ASSUME NEW c \in Conversations, Timer(c) \/ User(c) PROVE CountMoves
  <2>0. job[c] \in JobType
    BY DEF TypeOK
  <2>1. CASE UNCHANGED <<job, proj>>
    BY <1>1, <2>1
  <2>2. CASE LeaseExpires(c)
    BY <1>2, <1>3, <2>0, <2>2 DEF LeaseExpires
  <2>3. CASE ReconcileDelayElapses(c)
    <3>1. [job[c] EXCEPT !.due = "now", !.aged = TRUE].status = job[c].status
      BY <2>0 DEF JobType
    <3> QED BY <1>3, <2>3, <3>1 DEF ReconcileDelayElapses
  <2>4. CASE AbandonmentWindowElapses(c)
    <3>1. [job[c] EXCEPT !.idle = TRUE].status = job[c].status
      BY <2>0 DEF JobType
    <3> QED BY <1>3, <2>4, <3>1 DEF AbandonmentWindowElapses
  <2> QED BY <1>6, <2>1, <2>2, <2>3, <2>4
          DEF Timer, LockExpires, User, Discard, RestoreDiscarded, DeleteConversation, stores
<1>7. ASSUME NEW w \in Workers, WorkerStep(w) \/ Crash(w) PROVE CountMoves
  <2> DEFINE c == worker[w].c
  <2>1. CASE UNCHANGED <<job, proj>>
    BY <1>1, <2>1
  <2>2. CASE ~UNCHANGED <<job, proj>>
    <3>0. c \in Conversations /\ job[c] \in JobType
      BY <1>7, <2>2 DEF TypeOK, WorkerStep, Crash, Busy, Active, stores, TaskClaims, SkipForCutover,
         ReadConversation, ProcessConversation, ClaimFanout, CompleteFanout, MarkCompleted, MarkFenced,
         RecordFailure, EmitEffects
    <3>1. CASE TaskClaims(w)
      <4>1. Lease(c) /\ job[c].status \in {"queued", "leased"}
        BY <2>2, <3>1 DEF TaskClaims, Claimable, stores
      <4> QED BY <1>4, <3>0, <4>1
    \* Every other write of a worker needs the current lease.
    <3>2. CASE ~TaskClaims(w)
      <4>1. \/ job' = [job EXCEPT ![c] = FanoutClaimedJob(worker[w])] /\ UNCHANGED proj
            \/ job' = [job EXCEPT ![c] = FanoutCompletedJob(c)] /\ UNCHANGED proj
            \/ /\ job[c].status = "leased" /\ job' = [job EXCEPT ![c] = FencedJob(c)]
               /\ proj' = Closed("leased", "completed", "stale")
            \/ /\ job[c].status = "leased" /\ job' = [job EXCEPT ![c] = SucceededJob(c)]
               /\ proj' = Closed("leased", "completed", "success")
            \/ /\ job[c].status = "leased" /\ job' = [job EXCEPT ![c] = DeadLetteredJob(c)]
               /\ proj' = Closed("leased", "dead_letter", "failure")
            \/ /\ job[c].status = "leased" /\ job' = [job EXCEPT ![c] = RetryableJob(c)]
               /\ proj' = Moved("leased", "queued")
        BY <1>7, <2>2, <3>2 DEF WorkerStep, Crash, stores, SkipForCutover, ReadConversation,
           ProcessConversation, ClaimFanout, EmitEffects, CompleteFanout, MarkCompleted, MarkFenced,
           RecordFailure, MarkDeadLetter, MarkRetryable, IsCurrentLease
      <4>2. FanoutClaimedJob(worker[w]).status = job[c].status
        BY <3>0 DEF FanoutClaimedJob, JobType
      <4>4. CASE \/ /\ job[c].status = "leased" /\ job' = [job EXCEPT ![c] = FencedJob(c)]
                    /\ proj' = Closed("leased", "completed", "stale")
                 \/ /\ job[c].status = "leased" /\ job' = [job EXCEPT ![c] = SucceededJob(c)]
                    /\ proj' = Closed("leased", "completed", "success")
        <5>1. FencedJob(c).status = "completed" /\ SucceededJob(c).status = "completed"
          BY <1>2, <3>0
        <5>2. CountMove(job[c].status, "completed")
          BY <4>4 DEF CountMove, NONTERMINAL_JOB_STATUSES
        <5> QED BY <1>0, <3>0, <4>4, <5>1, <5>2
      <4>5. CASE /\ job[c].status = "leased" /\ job' = [job EXCEPT ![c] = DeadLetteredJob(c)]
                 /\ proj' = Closed("leased", "dead_letter", "failure")
        <5>1. DeadLetteredJob(c).status = "dead_letter"
          BY <1>2, <3>0
        <5>2. CountMove(job[c].status, "dead_letter")
          BY <4>5 DEF CountMove, NONTERMINAL_JOB_STATUSES
        <5> QED BY <1>0, <3>0, <4>5, <5>1, <5>2
      <4>6. CASE /\ job[c].status = "leased" /\ job' = [job EXCEPT ![c] = RetryableJob(c)]
                 /\ proj' = Moved("leased", "queued")
        <5>1. RetryableJob(c).status = "queued"
          BY <1>2, <3>0
        <5>2. CountMove(job[c].status, "queued")
          BY <4>6 DEF CountMove, NONTERMINAL_JOB_STATUSES
        <5> QED BY <1>0, <3>0, <4>6, <5>1, <5>2
      <4>7. CASE job' = [job EXCEPT ![c] = FanoutClaimedJob(worker[w])] /\ UNCHANGED proj
        BY <1>3, <3>0, <4>2, <4>7
      <4>8. CASE job' = [job EXCEPT ![c] = FanoutCompletedJob(c)] /\ UNCHANGED proj
        BY <1>2, <1>3, <3>0, <4>8
      <4> QED BY <4>1, <4>4, <4>5, <4>6, <4>7, <4>8
    <3> QED BY <3>1, <3>2
  <2> QED BY <2>1, <2>2
<1>8. CASE Delivery
  <2>1. CASE UNCHANGED <<job, proj>>
    BY <1>1, <2>1
  <2>2. CASE ~UNCHANGED <<job, proj>>
    <3>1. PICK f \in frames, w \in Workers : PusherClaim(w, f)
      BY <1>8, <2>2 DEF Delivery, LoseFrame, TaskLockedOut, TaskDeadline, TaskLocks, stores
    <3>2. f.c \in Conversations
      BY DEF TypeOK, HandoffType
    <3>3. Lease(f.c) /\ job[f.c].status \in {"queued", "leased"}
      BY <2>2, <3>1 DEF PusherClaim, Claimable, stores
    <3> QED BY <1>4, <3>2, <3>3
  <2> QED BY <2>1, <2>2
<1>9. CASE Sweep
  <2>1. CASE ReconcileScan \/ ByokScan
    BY <1>1, <2>1 DEF ReconcileScan, ByokScan, stores
  <2>2. ASSUME NEW c \in Conversations, Replay(c) PROVE CountMoves
    <3>1. CASE Replayable(c)
      <4>1. ReplayedJob(c).status = "queued"
        BY <1>2 DEF TypeOK
      <4>2. CountMove(job[c].status, ReplayedJob(c).status)
        BY <2>2, <3>1, <4>1 DEF Replay, Replayable, CountMove, NONTERMINAL_JOB_STATUSES
      <4> QED BY <1>0, <2>2, <3>1, <4>2 DEF Replay
    <3>2. CASE ~Replayable(c)
      BY <1>1, <2>2, <3>2 DEF Replay
    <3> QED BY <3>1, <3>2
  <2>3. ASSUME NEW s \in scan, AbandonByok(s) PROVE CountMoves
    <3>0. s.c \in Conversations
      BY DEF TypeOK, CandidateType
    <3>1. CASE StillAbandoned(s)
      <4>1. AbandonedJob(s.c).status = "dead_letter"
        BY <1>2, <3>0 DEF TypeOK
      <4>2. CountMove(job[s.c].status, AbandonedJob(s.c).status)
        BY <2>3, <3>1, <4>1 DEF AbandonByok, StillAbandoned, Stranded, CountMove, NONTERMINAL_JOB_STATUSES
      <4> QED BY <1>0, <2>3, <3>0, <3>1, <4>2 DEF AbandonByok
    <3>2. CASE ~StillAbandoned(s)
      BY <1>1, <2>3, <3>2 DEF AbandonByok
    <3> QED BY <3>1, <3>2
  <2> QED BY <1>9, <2>1, <2>2, <2>3 DEF Sweep
<1>10. CASE StartCutover
  BY <1>1, <1>10 DEF StartCutover, stores
<1>11. CASE UNCHANGED vars
  BY <1>1, <1>11 DEF vars
<1> QED BY <1>5, <1>6, <1>7, <1>8, <1>9, <1>10, <1>11 DEF Next

\* The terminal-outcomes projection never drifts from the outbox, for any
\* number of conversations: each transaction's delta is the one its own
\* transition calls for (a reclaimed lease moves nothing, a replay of a queued
\* job moves nothing), and every closed job is counted under one outcome.
THEOREM ProjectionNeverDrifts == Spec => []ProjectionAccurate
<1>1. Init => ProjectionAccurate
  <2> SUFFICES ASSUME Init PROVE ProjectionAccurate
    OBVIOUS
  <2>1. \A c \in Conversations : job[c].status = "absent"
    BY DEF Init, NoJob
  <2>2. (\A s \in JobStatus : InStatus(job, s) = {}) /\ Accepted(job) = {}
    BY <2>1 DEF InStatus, Accepted, JobStatus
  <2>3. \A s \in Counters : proj[s] = 0
    BY DEF Init
  <2>4. \A s \in JobStatus : proj[s] = Cardinality(InStatus(job, s))
    BY <2>2, <2>3, FS_EmptySet DEF Counters
  <2>5. proj["accepted"] = Cardinality(Accepted(job))
    BY <2>2, <2>3, FS_EmptySet DEF Counters
  <2>6. /\ proj["completed"] = proj["success"] + proj["stale"]
        /\ proj["dead_letter"] = proj["failure"]
    BY <2>3 DEF Counters, JobStatus
  <2> QED BY <2>4, <2>5, <2>6, TalliedIsAccurate DEF Tallied
<1>2. IInv /\ ProjectionAccurate /\ [Next]_vars => ProjectionAccurate'
  BY Counted, CountStep DEF IInv
<1> QED BY <1>1, <1>2, Invariance, PTL DEF Spec

-----------------------------------------------------------------------------
(* Closed rows                                                              *)

\* Nothing postpones or skips the processing of a row, hides a row that is
\* still processing, or fences its job for a cutover.  In each of those four
\* cases the code does close a job over a row that it leaves processing.
Straight ==
    /\ Outcomes \intersect {"defer", "skip"} = {}
    /\ UserActions \intersect {"discard", "cutover"} = {}

Settled(r) == r.exists => r.status \in {"completed", "failed"}

\* A bound row that still processes is open to the transactions that close it.
OpenRows ==
    \A c \in Conversations :
        conv[c].bound => /\ conv[c].status # "in_progress"
                         /\ conv[c].status = "processing" => ~conv[c].discarded /\ ~conv[c].deferred

PastProcessing == {"fanout", "effects", "ack", "complete", "fence"}

\* An attempt past the processor has a row that is settled.
Passed == \A w \in Workers : worker[w].pc \in PastProcessing => Settled(conv[worker[w].c])

SettleInv == ~migrating /\ OpenRows /\ Passed /\ NothingStranded

\* What a step may do to a row, to an attempt and to a job.
RowChange(r, s) ==
    \/ s = r
    \/ ~r.bound /\ s.bound /\ s.status = "processing" /\ ~s.discarded /\ ~s.deferred
    \/ s.bound = r.bound /\ s.status \in {"completed", "failed"}
    \/ /\ s.bound = r.bound /\ s.status = r.status /\ s.deferred = r.deferred
       /\ s.exists => r.exists
       /\ ~s.discarded \/ s.discarded = r.discarded

RowChanges == \A c \in Conversations : RowChange(conv[c], conv'[c])

PassChange(w) ==
    worker'[w].pc \in PastProcessing =>
        \/ Settled(conv'[worker'[w].c])
        \/ worker[w].pc \in PastProcessing /\ worker'[w].c = worker[w].c

PassChanges == \A w \in Workers : PassChange(w)

CloseChanges == \A c \in Conversations : JobTerminal(c)' => JobTerminal(c) \/ Settled(conv'[c])

LEMMA SettleStep ==
    ASSUME IInv, SettleInv, IInv', ~migrating', RowChanges, PassChanges, CloseChanges
    PROVE  SettleInv'
<1> USE DEF IInv, SettleInv
<1>0. \A c \in Conversations : conv[c] \in ConversationType /\ conv'[c] \in ConversationType
  BY DEF TypeOK
<1>1. ASSUME NEW c \in Conversations, conv[c].bound, Settled(conv[c]) PROVE Settled(conv'[c])
  <2>1. RowChange(conv[c], conv'[c])
    BY DEF RowChanges
  <2> QED BY <1>1, <2>1 DEF RowChange, Settled
<1>2. OpenRows'
  <2>1. ASSUME NEW c \in Conversations, conv'[c].bound
        PROVE  /\ conv'[c].status # "in_progress"
               /\ conv'[c].status = "processing" => ~conv'[c].discarded /\ ~conv'[c].deferred
    <3>1. RowChange(conv[c], conv'[c])
      BY DEF RowChanges
    <3>2. conv[c].bound => /\ conv[c].status # "in_progress"
                           /\ conv[c].status = "processing" => ~conv[c].discarded /\ ~conv[c].deferred
      BY DEF OpenRows
    <3> QED BY <1>0, <2>1, <3>1, <3>2 DEF RowChange, ConversationType
  <2> QED BY <2>1 DEF OpenRows
<1>3. Passed'
  <2>1. ASSUME NEW w \in Workers, worker'[w].pc \in PastProcessing PROVE Settled(conv'[worker'[w].c])
    <3>1. CASE worker[w].pc \in PastProcessing /\ worker'[w].c = worker[w].c
      <4> DEFINE c == worker[w].c
      <4>1. Claimed(w) /\ c \in Conversations /\ Settled(conv[c])
        BY <3>1 DEF PastProcessing, Claimed, Busy, Active, Passed
      <4>2. job[c].status # "absent"
        <5>1. 1 <= worker[w].epoch /\ worker[w].epoch <= job[c].epoch
          BY <4>1 DEF Epochs
        <5>2. worker[w].epoch \in Nat /\ job[c].epoch \in Nat
          BY <4>1 DEF TypeOK, AttemptType, JobType
        <5> QED BY <4>1, <5>1, <5>2 DEF BoundRows
      <4>3. conv[c].bound
        BY <4>1, <4>2 DEF BoundRows
      <4> QED BY <1>1, <3>1, <4>1, <4>3
    <3>2. CASE Settled(conv'[worker'[w].c])
      BY <3>2
    <3>3. PassChange(w)
      BY DEF PassChanges
    <3> QED BY <2>1, <3>1, <3>2, <3>3 DEF PassChange
  <2> QED BY <2>1 DEF Passed, Settled
<1>4. NothingStranded'
  <2>1. ASSUME NEW c \in Conversations, JobTerminal(c)' PROVE Settled(conv'[c])
    <3>1. CASE JobTerminal(c)
      <4>1. conv[c].bound /\ Settled(conv[c])
        BY <3>1 DEF NothingStranded, Settled, JobTerminal, BoundRows, TERMINAL_JOB_STATUSES
      <4> QED BY <1>1, <4>1
    <3>2. CASE ~JobTerminal(c)
      BY <2>1, <3>2 DEF CloseChanges
    <3> QED BY <3>1, <3>2
  <2> QED BY <2>1 DEF NothingStranded, Settled, JobTerminal
<1> QED BY <1>2, <1>3, <1>4

LEMMA SettleNone ==
    /\ UNCHANGED conv => RowChanges
    /\ UNCHANGED worker => PassChanges
    /\ UNCHANGED job => CloseChanges
<1>1. UNCHANGED conv => RowChanges
  BY DEF RowChanges, RowChange
<1>2. UNCHANGED worker => PassChanges
  BY DEF PassChanges, PassChange
<1>3. UNCHANGED job => CloseChanges
  BY DEF CloseChanges, JobTerminal
<1> QED BY <1>1, <1>2, <1>3

LEMMA RowOne ==
    ASSUME TypeOK, NEW c \in Conversations, NEW k, conv' = conv \/ conv' = [conv EXCEPT ![c] = k],
           RowChange(conv[c], k)
    PROVE  RowChanges
<1>1. ASSUME NEW d \in Conversations PROVE RowChange(conv[d], conv'[d])
  <2>1. conv'[d] = conv[d] \/ (d = c /\ conv'[d] = k)
    BY DEF TypeOK
  <2> QED BY <2>1 DEF RowChange
<1> QED BY <1>1 DEF RowChanges

LEMMA PassOne ==
    ASSUME TypeOK, NEW w \in Workers, NEW a, worker' = [worker EXCEPT ![w] = a],
           \/ a.pc \notin PastProcessing
           \/ Settled(conv'[a.c])
           \/ worker[w].pc \in PastProcessing /\ a.c = worker[w].c
    PROVE  PassChanges
<1>1. ASSUME NEW v \in Workers PROVE PassChange(v)
  <2>1. worker'[v] = IF v = w THEN a ELSE worker[v]
    BY DEF TypeOK
  <2> QED BY <2>1 DEF PassChange
<1> QED BY <1>1 DEF PassChanges

LEMMA PassGo ==
    ASSUME TypeOK, NEW w \in Workers, NEW pc, Go(w, pc),
           \/ pc \notin PastProcessing
           \/ worker[w].pc \in PastProcessing
    PROVE  PassChanges
<1> DEFINE a == [worker[w] EXCEPT !.pc = pc]
<1>1. worker[w] \in AttemptType
  BY DEF TypeOK
<1>2. a.pc = pc /\ a.c = worker[w].c
  BY <1>1 DEF AttemptType
<1>3. worker' = [worker EXCEPT ![w] = a]
  BY DEF Go
<1> HIDE DEF a
<1> QED BY <1>2, <1>3, PassOne

LEMMA PassReturn ==
    ASSUME TypeOK, NEW w \in Workers, Return(w)
    PROVE  PassChanges
<1>1. worker' = [worker EXCEPT ![w] = IdleAttempt] /\ IdleAttempt.pc \notin PastProcessing
  BY DEF Return, IdleAttempt, PastProcessing
<1> QED BY <1>1, PassOne

LEMMA CloseOne ==
    ASSUME TypeOK, NEW c \in Conversations, NEW k, job' = job \/ job' = [job EXCEPT ![c] = k],
           k.status \in TERMINAL_JOB_STATUSES => Settled(conv'[c])
    PROVE  CloseChanges
<1>1. ASSUME NEW d \in Conversations, JobTerminal(d)' PROVE JobTerminal(d) \/ Settled(conv'[d])
  <2>1. job'[d] = job[d] \/ (d = c /\ job'[d] = k)
    BY DEF TypeOK
  <2> QED BY <1>1, <2>1 DEF JobTerminal
<1> QED BY <1>1 DEF CloseChanges

LEMMA JobRowStatus ==
    ASSUME TypeOK, NEW c \in Conversations
    PROVE  /\ ResumedJob(c).status = "queued" /\ LeasedJob(c).status = "leased"
           /\ RetryableJob(c).status = "queued" /\ ReplayedJob(c).status = "queued"
           /\ FanoutCompletedJob(c).status = job[c].status /\ ExpiredJob(c).status = job[c].status
           /\ \A a : a.c = c => FanoutClaimedJob(a).status = job[c].status
<1>1. job[c] \in JobType
  BY DEF TypeOK
<1> QED BY <1>1 DEF JobType, ResumedJob, LeasedJob, RetryableJob, ReplayedJob, FanoutCompletedJob,
                    ExpiredJob, FanoutClaimedJob

LEMMA RequestSettles ==
    ASSUME IInv, SettleInv, Straight, NEW c \in Conversations, Request(c) \/ Timer(c) \/ User(c)
    PROVE  UNCHANGED migrating /\ RowChanges /\ PassChanges /\ CloseChanges
<1> USE DEF IInv
<1>0. job[c] \in JobType /\ conv[c] \in ConversationType
  BY DEF TypeOK
<1>1. UNCHANGED <<worker, migrating>> /\ PassChanges
  BY SettleNone DEF Request, CreateIntent, GetIntent, ResumeByok, RequestDies, Timer, LockExpires, LeaseExpires,
     ReconcileDelayElapses, AbandonmentWindowElapses, User, Discard, RestoreDiscarded, DeleteConversation
<1>2. ASSUME NEW byok \in BOOLEAN, CreateIntent(c, byok) PROVE RowChanges /\ CloseChanges
  <2> DEFINE r == [conv[c] EXCEPT !.status = "processing", !.bound = TRUE]
  <2>1. conv' = [conv EXCEPT ![c] = r] /\ job' = [job EXCEPT ![c] = CreatedJob(byok)]
    BY <1>2 DEF CreateIntent
  <2>2. RowChange(conv[c], r)
    BY <1>0, <1>2 DEF CreateIntent, AdmitsRequest, TerminalRow, RowChange, ConversationType
  <2>3. CreatedJob(byok).status \notin TERMINAL_JOB_STATUSES
    BY DEF CreatedJob, NoJob, TERMINAL_JOB_STATUSES
  <2> HIDE DEF r
  <2> QED BY <2>1, <2>2, <2>3, RowOne, CloseOne
<1>3. CASE GetIntent(c) \/ RequestDies(c) \/ LockExpires(c)
  BY <1>3, SettleNone DEF GetIntent, RequestDies, LockExpires, stores
<1>4. CASE ResumeByok(c)
  <2>1. UNCHANGED conv /\ (UNCHANGED job \/ job' = [job EXCEPT ![c] = ResumedJob(c)])
    BY <1>4 DEF ResumeByok
  <2>2. ResumedJob(c).status \notin TERMINAL_JOB_STATUSES
    BY JobRowStatus DEF TERMINAL_JOB_STATUSES
  <2> QED BY <1>1, <2>1, <2>2, SettleNone, CloseOne
<1>5. CASE LeaseExpires(c) \/ ReconcileDelayElapses(c) \/ AbandonmentWindowElapses(c)
  <2>1. PICK k : UNCHANGED conv /\ job' = [job EXCEPT ![c] = k] /\ k.status = job[c].status
    <3>1. ExpiredJob(c).status = job[c].status
      BY JobRowStatus
    <3>2. /\ [job[c] EXCEPT !.due = "now", !.aged = TRUE].status = job[c].status
          /\ [job[c] EXCEPT !.idle = TRUE].status = job[c].status
      BY <1>0 DEF JobType
    <3> QED BY <1>5, <3>1, <3>2 DEF LeaseExpires, ReconcileDelayElapses, AbandonmentWindowElapses
  <2>2. job[c].status \notin TERMINAL_JOB_STATUSES
    BY <1>5 DEF LeaseExpires, ReconcileDelayElapses, AbandonmentWindowElapses, TERMINAL_JOB_STATUSES
  <2> QED BY <1>1, <2>1, <2>2, SettleNone, CloseOne
<1>6. CASE Discard(c)
  BY <1>6 DEF Discard, Straight
<1>7. CASE RestoreDiscarded(c)
  <2> DEFINE r == [conv[c] EXCEPT !.discarded = FALSE, !.kept = TRUE]
  <2>1. conv' = [conv EXCEPT ![c] = r] /\ UNCHANGED job
    BY <1>7 DEF RestoreDiscarded
  <2>2. RowChange(conv[c], r)
    BY <1>0 DEF RowChange, ConversationType
  <2> HIDE DEF r
  <2> QED BY <1>1, <2>1, <2>2, RowOne, SettleNone
<1>8. CASE DeleteConversation(c)
  <2> DEFINE r == [conv[c] EXCEPT !.exists = FALSE]
  <2>1. conv' = [conv EXCEPT ![c] = r] /\ UNCHANGED job
    BY <1>8 DEF DeleteConversation
  <2>2. RowChange(conv[c], r)
    BY <1>0 DEF RowChange, ConversationType
  <2> HIDE DEF r
  <2> QED BY <1>1, <2>1, <2>2, RowOne, SettleNone
<1> QED BY <1>1, <1>2, <1>3, <1>4, <1>5, <1>6, <1>7, <1>8 DEF Request, Timer, User

LEMMA QueueSettles ==
    ASSUME IInv, SettleInv, Delivery
    PROVE  UNCHANGED migrating /\ RowChanges /\ PassChanges /\ CloseChanges
<1> USE DEF IInv
<1>1. CASE UNCHANGED <<stores, worker, migrating>>
  BY <1>1, SettleNone DEF stores
<1>2. ASSUME NEW f \in frames, NEW w \in Workers, PusherClaim(w, f), Claimable(f.c, f.gen, TRUE)
      PROVE  UNCHANGED migrating /\ RowChanges /\ PassChanges /\ CloseChanges
  <2> DEFINE a == [pc |-> "claimed", c |-> f.c, lane |-> "pusher", gen |-> f.gen,
                   epoch |-> NextEpoch(f.c), tries |-> job[f.c].attempts, quiet |-> FALSE]
  <2>0. f.c \in Conversations
    BY DEF TypeOK, HandoffType
  <2>1. /\ worker' = [worker EXCEPT ![w] = a] /\ job' = [job EXCEPT ![f.c] = LeasedJob(f.c)]
        /\ UNCHANGED <<conv, migrating>>
    BY <1>2 DEF PusherClaim, Lease
  <2>2. a.pc \notin PastProcessing
    BY DEF PastProcessing
  <2>3. LeasedJob(f.c).status \notin TERMINAL_JOB_STATUSES
    BY <2>0, JobRowStatus DEF TERMINAL_JOB_STATUSES
  <2> HIDE DEF a
  <2> QED BY <2>0, <2>1, <2>2, <2>3, PassOne, CloseOne, SettleNone
<1>3. ASSUME NEW t \in tasks, NEW w \in Workers, TaskLocks(w, t)
      PROVE  UNCHANGED migrating /\ RowChanges /\ PassChanges /\ CloseChanges
  <2> DEFINE a == [pc |-> "locked", c |-> t.c, lane |-> "task", gen |-> t.gen,
                   epoch |-> 0, tries |-> t.retry, quiet |-> FALSE]
  <2>1. worker' = [worker EXCEPT ![w] = a] /\ UNCHANGED <<conv, job, migrating>>
    BY <1>3 DEF TaskLocks, stores
  <2>2. a.pc \notin PastProcessing
    BY DEF PastProcessing
  <2> HIDE DEF a
  <2> QED BY <2>1, <2>2, PassOne, SettleNone
<1> QED BY <1>1, <1>2, <1>3 DEF Delivery, LoseFrame, PusherClaim, TaskLockedOut, TaskDeadline

LEMMA SweepSettles ==
    ASSUME IInv, SettleInv, Sweep
    PROVE  UNCHANGED migrating /\ RowChanges /\ PassChanges /\ CloseChanges
<1> USE DEF IInv
<1>1. CASE ReconcileScan \/ ByokScan
  BY <1>1, SettleNone DEF ReconcileScan, ByokScan, stores
<1>2. ASSUME NEW c \in Conversations, Replay(c)
      PROVE  UNCHANGED migrating /\ RowChanges /\ PassChanges /\ CloseChanges
  <2>1. UNCHANGED <<conv, worker, migrating>> /\ (UNCHANGED job \/ job' = [job EXCEPT ![c] = ReplayedJob(c)])
    BY <1>2 DEF Replay
  <2>2. ReplayedJob(c).status \notin TERMINAL_JOB_STATUSES
    BY JobRowStatus DEF TERMINAL_JOB_STATUSES
  <2> QED BY <2>1, <2>2, CloseOne, SettleNone
<1>3. ASSUME NEW s \in scan, AbandonByok(s)
      PROVE  UNCHANGED migrating /\ RowChanges /\ PassChanges /\ CloseChanges
  <2> DEFINE c == s.c
             r == [conv[c] EXCEPT !.status = "completed"]
  <2>0. c \in Conversations /\ UNCHANGED <<worker, migrating>>
    BY <1>3 DEF TypeOK, CandidateType, AbandonByok
  <2>1. CASE ~StillAbandoned(s)
    BY <1>3, <2>0, <2>1, SettleNone DEF AbandonByok
  <2>2. CASE StillAbandoned(s)
    <3>1. job' = [job EXCEPT ![c] = AbandonedJob(c)]
      BY <1>3, <2>2 DEF AbandonByok
    <3>2. conv[c] \in ConversationType /\ conv[c].bound
      BY <2>0, <2>2 DEF TypeOK, BoundRows, StillAbandoned, Stranded
    <3>3. RowChange(conv[c], r) /\ r.status = "completed"
      BY <3>2 DEF RowChange, ConversationType
    <3>4. conv[c].status # "in_progress" /\ (conv[c].status = "processing" => ~conv[c].discarded /\ ~conv[c].deferred)
      BY <2>0, <3>2 DEF SettleInv, OpenRows
    <3>5. IF conv[c].exists /\ conv[c].status = "processing" THEN conv' = [conv EXCEPT ![c] = r] ELSE conv' = conv
      BY <1>3, <2>2, <3>2, <3>4 DEF AbandonByok
    <3>6. Settled(conv'[c])
      <4>1. CASE conv[c].exists /\ conv[c].status = "processing"
        <5>1. conv'[c] = r
          BY <2>0, <3>5, <4>1 DEF TypeOK
        <5> QED BY <3>3, <5>1 DEF Settled
      <4>2. CASE ~(conv[c].exists /\ conv[c].status = "processing")
        BY <3>2, <3>4, <3>5, <4>2 DEF Settled, ConversationType
      <4> QED BY <4>1, <4>2
    <3>7. RowChanges
      <4> HIDE DEF r
      <4> QED BY <2>0, <3>3, <3>5, RowOne
    <3> QED BY <2>0, <3>1, <3>6, <3>7, CloseOne, SettleNone
  <2> QED BY <2>1, <2>2
<1> QED BY <1>1, <1>2, <1>3 DEF Sweep

LEMMA WorkerSettles ==
    ASSUME IInv, SettleInv, Straight, NEW w \in Workers, WorkerStep(w) \/ Crash(w)
    PROVE  UNCHANGED migrating /\ RowChanges /\ PassChanges /\ CloseChanges
<1> USE DEF IInv
<1>0. worker[w] \in AttemptType /\ worker[w].c \in Conversations /\ UNCHANGED migrating
  BY DEF TypeOK, Busy, Active, WorkerStep, Crash, TaskClaims, SkipForCutover, ReadConversation,
         ProcessConversation, ClaimFanout, EmitEffects, CompleteFanout, MarkCompleted, MarkFenced,
         RecordFailure
<1> DEFINE c == worker[w].c
<1>1. conv[c] \in ConversationType
  BY <1>0 DEF TypeOK
\* A claimed attempt works on a bound row.
<1>2. Claimed(w) => /\ conv[c].bound /\ conv[c].status # "in_progress"
                    /\ conv[c].status = "processing" => ~conv[c].discarded /\ ~conv[c].deferred
  <2> SUFFICES ASSUME Claimed(w) PROVE conv[c].bound
    BY <1>0 DEF SettleInv, OpenRows
  <2>1. 1 <= worker[w].epoch /\ worker[w].epoch <= job[c].epoch
    BY DEF Epochs
  <2>2. worker[w].epoch \in Nat /\ job[c].epoch \in Nat
    BY <1>0 DEF TypeOK, AttemptType, JobType
  <2>3. job[c].status # "absent"
    BY <1>0, <2>1, <2>2 DEF BoundRows
  <2> QED BY <1>0, <2>3 DEF BoundRows
<1>3. worker[w].pc \in PastProcessing => Settled(conv[c])
  BY DEF SettleInv, Passed
<1>4. CASE TaskClaims(w)
  <2>1. CASE Claimable(c, worker[w].gen, FALSE)
    <3> DEFINE a == [worker[w] EXCEPT !.pc = "claimed", !.epoch = NextEpoch(c)]
    <3>1. a.pc \notin PastProcessing
      BY <1>0 DEF AttemptType, PastProcessing
    <3>2. /\ worker' = [worker EXCEPT ![w] = a] /\ job' = [job EXCEPT ![c] = LeasedJob(c)]
          /\ UNCHANGED conv
      BY <1>4, <2>1 DEF TaskClaims, Lease
    <3>3. LeasedJob(c).status \notin TERMINAL_JOB_STATUSES
      BY <1>0, JobRowStatus DEF TERMINAL_JOB_STATUSES
    <3> HIDE DEF a
    <3> QED BY <1>0, <3>1, <3>2, <3>3, PassOne, CloseOne, SettleNone
  <2>2. CASE ~Claimable(c, worker[w].gen, FALSE)
    <3>1. UNCHANGED <<conv, job>> /\ Return(w)
      BY <1>4, <2>2 DEF TaskClaims, stores, Acknowledge, Refuse
    <3> QED BY <1>0, <3>1, PassReturn, SettleNone
  <2> QED BY <2>1, <2>2
<1>5. CASE SkipForCutover(w)
  BY <1>5 DEF SkipForCutover, SettleInv
<1>6. CASE ReadConversation(w)
  <2> DEFINE next == IF ~conv[c].exists \/ conv[c].status = "completed" THEN "fanout"
                     ELSE IF conv[c].status = "processing" THEN "process" ELSE "fence"
             q == next = "fanout" /\ conv[c].exists /\ conv[c].minimal
             a == [worker[w] EXCEPT !.pc = next, !.quiet = q]
  <2>1. worker' = [worker EXCEPT ![w] = a] /\ UNCHANGED <<conv, job>> /\ Claimed(w)
    BY <1>6 DEF ReadConversation, stores, Claimed
  <2>2. a.pc = next /\ a.c = c
    <3> HIDE DEF next, q
    <3> QED BY <1>0 DEF AttemptType
  <2>3. next # "process" => Settled(conv[c])
    BY <1>1, <1>2, <2>1 DEF Settled, ConversationType
  <2>4. next = "process" => next \notin PastProcessing
    BY DEF PastProcessing
  <2> HIDE DEF next, a
  <2>5. PassChanges
    BY <2>1, <2>2, <2>3, <2>4, PassOne
  <2> QED BY <1>0, <2>1, <2>5, SettleNone
<1>7. ASSUME NEW outcome \in Outcomes, ProcessConversation(w, outcome)
      PROVE  UNCHANGED migrating /\ RowChanges /\ PassChanges /\ CloseChanges
  <2> DEFINE stored == outcome \in {"keep", "hide", "minimum"} /\ PersistAdmits(c)
             next == IF stored THEN "fanout" ELSE IF outcome = "error" THEN "fail" ELSE "fence"
             q == stored /\ outcome = "minimum"
             a == [worker[w] EXCEPT !.pc = next, !.quiet = q]
  <2>0. outcome \in {"keep", "hide", "minimum", "error"}
    BY OutcomesAssumption DEF Straight
  <2>1. worker' = [worker EXCEPT ![w] = a] /\ UNCHANGED job /\ Claimed(w)
    BY <1>7 DEF ProcessConversation, Claimed
  <2>2. a.pc = next /\ a.c = c
    <3> HIDE DEF next, q
    <3> QED BY <1>0 DEF AttemptType
  <2>3. CASE stored
    <3>1. PICK h, m : conv' = Persisted(c, "completed", h, FALSE, m)
      BY <1>7, <2>3 DEF ProcessConversation
    <3> DEFINE r == [conv[c] EXCEPT !.status = "completed", !.deferred = FALSE, !.minimal = m,
                                    !.discarded = h /\ ~conv[c].kept]
    <3>2. conv' = [conv EXCEPT ![c] = r]
      BY <3>1 DEF Persisted
    <3>3. r.status = "completed" /\ r.bound = conv[c].bound
      BY <1>1 DEF ConversationType
    <3> HIDE DEF r, a
    <3>4. RowChange(conv[c], r)
      BY <3>3 DEF RowChange
    <3>5. conv'[c] = r
      BY <1>0, <3>2 DEF TypeOK
    <3>6. Settled(conv'[c])
      BY <3>3, <3>5 DEF Settled
    <3> QED BY <1>0, <2>1, <2>2, <3>2, <3>4, <3>6, RowOne, PassOne, SettleNone
  <2>4. CASE ~stored
    <3>1. UNCHANGED conv
      BY <1>7, <2>0, <2>4 DEF ProcessConversation
    <3>2. next = "fail" \/ ~conv[c].exists
      BY <2>0, <2>4 DEF PersistAdmits
    <3>3. next \notin PastProcessing \/ Settled(conv'[c])
      BY <3>1, <3>2 DEF PastProcessing, Settled
    <3> HIDE DEF a, next
    <3> QED BY <1>0, <2>1, <2>2, <3>1, <3>3, PassOne, SettleNone
  <2> QED BY <2>3, <2>4
<1>8. CASE ClaimFanout(w) \/ EmitEffects(w) \/ CompleteFanout(w)
  <2>1. worker[w].pc \in PastProcessing /\ UNCHANGED conv /\ \E pc : Go(w, pc)
    BY <1>8 DEF ClaimFanout, EmitEffects, CompleteFanout, PastProcessing
  <2>2. PICK k : UNCHANGED job \/ job' = [job EXCEPT ![c] = k]
    BY <1>8 DEF ClaimFanout, EmitEffects, CompleteFanout
  <2>3. Settled(conv'[c])
    BY <1>3, <2>1
  <2> QED BY <1>0, <2>1, <2>2, <2>3, PassGo, CloseOne, SettleNone
<1>9. CASE MarkCompleted(w) \/ MarkFenced(w)
  <2>1. worker[w].pc \in PastProcessing /\ UNCHANGED conv /\ Return(w)
    BY <1>9 DEF MarkCompleted, MarkFenced, PastProcessing, Acknowledge, Refuse
  <2>2. PICK k : UNCHANGED job \/ job' = [job EXCEPT ![c] = k]
    BY <1>9 DEF MarkCompleted, MarkFenced
  <2>3. Settled(conv'[c])
    BY <1>3, <2>1
  <2> QED BY <1>0, <2>1, <2>2, <2>3, PassReturn, CloseOne, SettleNone
<1>10. CASE RecordFailure(w)
  <2>1. Claimed(w) /\ Return(w)
    BY <1>10 DEF RecordFailure, Claimed, Acknowledge, Refuse
  <2>2. CASE UNCHANGED <<conv, job>>
    BY <1>0, <2>1, <2>2, PassReturn, SettleNone
  <2>3. CASE MarkRetryable(c)
    <3>1. UNCHANGED conv /\ job' = [job EXCEPT ![c] = RetryableJob(c)]
      BY <2>3 DEF MarkRetryable
    <3>2. RetryableJob(c).status \notin TERMINAL_JOB_STATUSES
      BY <1>0, JobRowStatus DEF TERMINAL_JOB_STATUSES
    <3> QED BY <1>0, <2>1, <3>1, <3>2, PassReturn, CloseOne, SettleNone
  <2>4. CASE MarkDeadLetter(c)
    <3> DEFINE r == [conv[c] EXCEPT !.status = "failed", !.discarded = TRUE]
    <3>1. IF conv[c].exists /\ conv[c].status = "processing" THEN conv' = [conv EXCEPT ![c] = r] ELSE conv' = conv
      BY <1>2, <2>1, <2>4 DEF MarkDeadLetter
    <3>2. r.status = "failed" /\ r.bound = conv[c].bound
      BY <1>1 DEF ConversationType
    <3> HIDE DEF r
    <3>3. RowChange(conv[c], r)
      BY <3>2 DEF RowChange
    <3>4. RowChanges
      BY <1>0, <3>1, <3>3, RowOne
    <3>5. Settled(conv'[c])
      <4>1. CASE conv[c].exists /\ conv[c].status = "processing"
        <5>1. conv'[c] = r
          BY <1>0, <3>1, <4>1 DEF TypeOK
        <5> QED BY <3>2, <5>1 DEF Settled
      <4>2. CASE ~(conv[c].exists /\ conv[c].status = "processing")
        BY <1>1, <1>2, <2>1, <3>1, <4>2 DEF Settled, ConversationType
      <4> QED BY <4>1, <4>2
    <3>6. job' = [job EXCEPT ![c] = DeadLetteredJob(c)]
      BY <2>4 DEF MarkDeadLetter
    <3> QED BY <1>0, <2>1, <3>4, <3>5, <3>6, PassReturn, CloseOne
  <2> QED BY <1>10, <2>2, <2>3, <2>4 DEF RecordFailure
<1>11. CASE Crash(w)
  <2>1. worker' = [worker EXCEPT ![w] = IdleAttempt] /\ IdleAttempt.pc \notin PastProcessing
    BY <1>11 DEF Crash, IdleAttempt, PastProcessing
  <2>2. UNCHANGED <<conv, job>>
    BY <1>11 DEF Crash, stores
  <2> QED BY <1>0, <2>1, <2>2, PassOne, SettleNone
<1> QED BY <1>4, <1>5, <1>6, <1>7, <1>8, <1>9, <1>10, <1>11 DEF WorkerStep

LEMMA SettleNext ==
    ASSUME IInv, SettleInv, Straight, [Next]_vars
    PROVE  SettleInv'
<1>0. IInv'
  BY Step
<1>1. UNCHANGED migrating /\ RowChanges /\ PassChanges /\ CloseChanges
  <2>1. ~StartCutover
    BY DEF StartCutover, Straight
  <2>2. CASE UNCHANGED vars
    BY <2>2, SettleNone DEF vars
  <2> QED BY <2>1, <2>2, RequestSettles, WorkerSettles, QueueSettles, SweepSettles DEF Next
<1> QED BY <1>0, <1>1, SettleStep DEF SettleInv

LEMMA SettleInit == Init => SettleInv
<1> SUFFICES ASSUME Init PROVE SettleInv
  OBVIOUS
<1>1. ~migrating /\ \A w \in Workers : worker[w].pc = "idle"
  BY DEF Init, IdleAttempt
<1>2. \A c \in Conversations : job[c].status = "absent" /\ ~conv[c].bound
  BY DEF Init, NoJob
<1> QED BY <1>1, <1>2 DEF SettleInv, OpenRows, Passed, PastProcessing, NothingStranded, JobTerminal,
                          TERMINAL_JOB_STATUSES

\* Where processing is straight, a closed job never leaves its conversation on
\* processing: whichever of success, fence, dead letter or abandonment closes
\* it, and whatever crashes, duplicate deliveries and replays came before.
THEOREM ClosedJobsCloseRows == ASSUME Straight PROVE Spec => []NothingStranded
<1>1. Init => IInv /\ SettleInv
  BY InvInit, SettleInit
<1>2. IInv /\ SettleInv /\ [Next]_vars => (IInv /\ SettleInv)'
  BY Step, SettleNext
<1>3. SettleInv => NothingStranded
  BY DEF SettleInv
<1> QED BY <1>1, <1>2, <1>3, PTL DEF Spec

=============================================================================
