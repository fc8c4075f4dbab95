------------------------ MODULE FinalizationJobsProofs ------------------------
(***************************************************************************)
(* The safety of FinalizationJobs, for every finite set of conversations,  *)
(* every set of workers, every attempt limit and every number of faults.   *)
(* The argument goes through what one step may do to one outbox row        *)
(* (JobMove) and to one attempt (AttemptMove): each action is shown to be  *)
(* such a move once, and the invariants follow from the moves.             *)
(***************************************************************************)
EXTENDS FinalizationJobsTypeProofs

-----------------------------------------------------------------------------
(* The inductive invariant                                                  *)

Claimed(w) == worker[w].pc \notin {"idle", "locked"}

\* A row points at its job exactly when the job exists.
BoundRows ==
    \A c \in Conversations :
        /\ conv[c].bound <=> job[c].status # "absent"
        /\ job[c].status = "absent" => job[c].epoch = 0

\* No attempt is ahead of its job, and no two hold the same epoch of one job.
Epochs ==
    /\ \A w \in Workers : Claimed(w) => /\ 1 <= worker[w].epoch
                                        /\ worker[w].epoch <= job[worker[w].c].epoch
    /\ \A v, w \in Workers :
         /\ Claimed(v) /\ Claimed(w)
         /\ worker[v].c = worker[w].c /\ worker[v].epoch = worker[w].epoch
         => v = w

\* An outcome is written with the terminal status, and an attempt that is
\* about to record its fanout has dealt with the effects.
Outcomed ==
    /\ \A c \in Conversations : job[c].outcome # "none" <=> JobTerminal(c)
    /\ \A w \in Workers : worker[w].pc = "ack" => effects[worker[w].c] # "none"

IInv == TypeOK /\ Busy /\ BoundRows /\ Epochs /\ Outcomed /\ SuccessMeansFanout

-----------------------------------------------------------------------------
(* What one step may do to one outbox row                                   *)

\* j becomes k while the effects of the conversation are e.
JobMove(j, k, e) ==
    \/ k = j
    \/ /\ j.status = "absent" /\ k.status \in NONTERMINAL_JOB_STATUSES
       /\ k.epoch = 0 /\ k.outcome = "none" /\ k.fanout = "pending"
    \/ /\ j.status \in NONTERMINAL_JOB_STATUSES /\ k.status \in NONTERMINAL_JOB_STATUSES
       /\ k.epoch >= j.epoch /\ k.outcome = j.outcome
       /\ k.fanout = "completed" => j.fanout = "completed" \/ e # "none"
    \/ /\ j.status \in NONTERMINAL_JOB_STATUSES /\ k.status \in TERMINAL_JOB_STATUSES
       /\ k.epoch = j.epoch /\ k.outcome # "none"
       /\ k.fanout = "completed" => j.fanout = "completed"
       /\ k.outcome = "success" => k.fanout = "completed"

JobMoves == \A c \in Conversations : JobMove(job[c], job'[c], effects[c])

LEMMA MoveOne ==
    ASSUME TypeOK, NEW c \in Conversations, NEW k, job' = [job EXCEPT ![c] = k],
           JobMove(job[c], k, effects[c])
    PROVE  JobMoves
<1>1. \A d \in Conversations : job'[d] = IF d = c THEN k ELSE job[d]
  BY DEF TypeOK
<1> QED BY <1>1 DEF JobMoves, JobMove

LEMMA MoveNone == ASSUME job' = job PROVE JobMoves
  BY DEF JobMoves, JobMove

LEMMA RowMoves ==
    ASSUME TypeOK, NEW c \in Conversations, NEW e
    PROVE  /\ job[c].status = "blocked_byok" => JobMove(job[c], ResumedJob(c), e)
           /\ job[c].status \in {"queued", "leased"} => JobMove(job[c], LeasedJob(c), e)
           /\ job[c].status = "leased" => JobMove(job[c], FencedJob(c), e)
           /\ job[c].status = "leased" /\ job[c].fanout = "completed" => JobMove(job[c], SucceededJob(c), e)
           /\ job[c].status = "leased" => JobMove(job[c], RetryableJob(c), e)
           /\ job[c].status = "leased" => JobMove(job[c], DeadLetteredJob(c), e)
           /\ job[c].status = "leased" /\ e # "none" => JobMove(job[c], FanoutCompletedJob(c), e)
           /\ job[c].status = "leased" => JobMove(job[c], ExpiredJob(c), e)
           /\ job[c].status \in {"queued", "leased"} => JobMove(job[c], ReplayedJob(c), e)
           /\ job[c].status \in {"queued", "leased"} => JobMove(job[c], AbandonedJob(c), e)
<1>1. job[c] \in JobType
  BY DEF TypeOK
<1> USE <1>1 DEF JobMove, JobType, NONTERMINAL_JOB_STATUSES, TERMINAL_JOB_STATUSES
<1>2. job[c].status = "blocked_byok" => JobMove(job[c], ResumedJob(c), e)
  BY DEF ResumedJob
<1>3. job[c].status \in {"queued", "leased"} => JobMove(job[c], LeasedJob(c), e)
  BY DEF LeasedJob, NextEpoch
<1>4. job[c].status = "leased" => JobMove(job[c], FencedJob(c), e)
  BY DEF FencedJob
<1>5. job[c].status = "leased" /\ job[c].fanout = "completed" => JobMove(job[c], SucceededJob(c), e)
  BY DEF SucceededJob
<1>6. job[c].status = "leased" => JobMove(job[c], RetryableJob(c), e)
  BY DEF RetryableJob
<1>7. job[c].status = "leased" => JobMove(job[c], DeadLetteredJob(c), e)
  BY DEF DeadLetteredJob
<1>8. job[c].status = "leased" /\ e # "none" => JobMove(job[c], FanoutCompletedJob(c), e)
  BY DEF FanoutCompletedJob
<1>9. job[c].status = "leased" => JobMove(job[c], ExpiredJob(c), e)
  BY DEF ExpiredJob
<1>10. job[c].status \in {"queued", "leased"} => JobMove(job[c], ReplayedJob(c), e)
  BY DEF ReplayedJob
<1>11. job[c].status \in {"queued", "leased"} => JobMove(job[c], AbandonedJob(c), e)
  BY DEF AbandonedJob
<1> QED BY <1>2, <1>3, <1>4, <1>5, <1>6, <1>7, <1>8, <1>9, <1>10, <1>11

LEMMA FanoutClaimMove ==
    ASSUME TypeOK, NEW a, a.c \in Conversations, job[a.c].status = "leased", NEW e
    PROVE  JobMove(job[a.c], FanoutClaimedJob(a), e)
<1>1. job[a.c] \in JobType
  BY DEF TypeOK
<1> QED BY <1>1 DEF JobMove, JobType, NONTERMINAL_JOB_STATUSES, TERMINAL_JOB_STATUSES, FanoutClaimedJob

-----------------------------------------------------------------------------
(* What one step may do to one attempt, and to the rest                     *)

AttemptMove(w) ==
    \/ worker'[w] = worker[w]
    \/ worker'[w].pc \in {"idle", "locked"}
    \/ /\ Claimed(w)
       /\ worker'[w].c = worker[w].c /\ worker'[w].epoch = worker[w].epoch
       /\ worker'[w].pc = "ack" => effects'[worker[w].c] # "none"

AttemptMoves == \A w \in Workers : AttemptMove(w)

\* Effects are never taken back, and only the outbox transaction binds a row.
RowsKept ==
    \A c \in Conversations :
        /\ effects[c] # "none" => effects'[c] # "none"
        /\ conv'[c].bound <=> conv[c].bound \/ (job[c].status = "absent" /\ job'[c].status # "absent")

\* Every step but a claim.
LEMMA QuietStep ==
    ASSUME IInv, TypeOK', Busy', JobMoves, AttemptMoves, RowsKept
    PROVE  IInv'
<1> USE DEF IInv
<1>1. ASSUME NEW c \in Conversations
      PROVE  /\ job'[c].epoch >= job[c].epoch
             /\ job'[c].status = "absent" => job'[c] = job[c]
             /\ job[c].status # "absent" => job'[c].status # "absent"
  <2>1. JobMove(job[c], job'[c], effects[c])
    BY DEF JobMoves
  <2>2. job[c].epoch \in Nat /\ job'[c].epoch \in Nat
    BY DEF TypeOK, JobType
  <2>3. job[c].status = "absent" => job[c].epoch = 0
    BY DEF BoundRows
  <2> QED BY <2>1, <2>2, <2>3
          DEF JobMove, TERMINAL_JOB_STATUSES, NONTERMINAL_JOB_STATUSES
<1>2. BoundRows'
  BY <1>1 DEF BoundRows, RowsKept
<1>3. ASSUME NEW w \in Workers, Claimed(w)'
      PROVE  /\ Claimed(w) /\ worker[w].c \in Conversations
             /\ worker'[w].c = worker[w].c /\ worker'[w].epoch = worker[w].epoch
             /\ worker'[w].pc = "ack" => effects'[worker[w].c] # "none"
  <2>1. AttemptMove(w)
    BY DEF AttemptMoves
  <2>2. Claimed(w) /\ worker'[w].c = worker[w].c /\ worker'[w].epoch = worker[w].epoch
    BY <1>3, <2>1 DEF AttemptMove, Claimed
  <2>3. worker[w].c \in Conversations
    BY <2>2 DEF Busy, Active, Claimed
  <2> QED BY <1>3, <2>1, <2>2, <2>3 DEF AttemptMove, Claimed, Outcomed, RowsKept
<1>4. Epochs'
  <2>1. ASSUME NEW w \in Workers, Claimed(w)'
        PROVE  1 <= worker'[w].epoch /\ worker'[w].epoch <= job'[worker'[w].c].epoch
    <3> DEFINE c == worker[w].c
    <3>1. 1 <= worker[w].epoch /\ worker[w].epoch <= job[c].epoch
      BY <1>3, <2>1 DEF Epochs
    <3>2. worker[w].epoch \in Nat /\ job[c].epoch \in Nat /\ job'[c].epoch \in Nat
      BY <1>3, <2>1 DEF TypeOK, AttemptType, JobType
    <3>3. job'[c].epoch >= job[c].epoch
      BY <1>1, <1>3, <2>1
    <3> QED BY <1>3, <2>1, <3>1, <3>2, <3>3
  <2>2. ASSUME NEW v \in Workers, NEW w \in Workers, Claimed(v)', Claimed(w)',
               worker'[v].c = worker'[w].c, worker'[v].epoch = worker'[w].epoch
        PROVE  v = w
    BY <1>3, <2>2 DEF Epochs
  <2> QED BY <2>1, <2>2 DEF Epochs
<1>5. Outcomed'
  <2>1. ASSUME NEW c \in Conversations PROVE job'[c].outcome # "none" <=> JobTerminal(c)'
    <3>1. JobMove(job[c], job'[c], effects[c])
      BY DEF JobMoves
    <3> QED BY <2>1, <3>1
            DEF JobMove, Outcomed, JobTerminal, TERMINAL_JOB_STATUSES, NONTERMINAL_JOB_STATUSES
  <2>2. ASSUME NEW w \in Workers, worker'[w].pc = "ack" PROVE effects'[worker'[w].c] # "none"
    BY <1>3, <2>2 DEF Claimed
  <2> QED BY <2>1, <2>2 DEF Outcomed
<1>6. SuccessMeansFanout'
  <2>1. ASSUME NEW c \in Conversations
        PROVE  /\ job'[c].outcome = "success" => job'[c].fanout = "completed"
               /\ job'[c].fanout = "completed" => effects'[c] # "none"
    <3>1. JobMove(job[c], job'[c], effects[c])
      BY DEF JobMoves
    <3>2. /\ job[c].outcome = "success" => job[c].fanout = "completed"
          /\ job[c].fanout = "completed" => effects[c] # "none"
      BY DEF SuccessMeansFanout
    <3>3. job[c].outcome = "success" => job[c].status \in TERMINAL_JOB_STATUSES
      BY DEF Outcomed, JobTerminal
    <3>4. effects[c] # "none" => effects'[c] # "none"
      BY DEF RowsKept
    <3> QED BY <3>1, <3>2, <3>3, <3>4 DEF JobMove, TERMINAL_JOB_STATUSES, NONTERMINAL_JOB_STATUSES
  <2> QED BY <2>1 DEF SuccessMeansFanout
<1> QED BY <1>2, <1>4, <1>5, <1>6

\* A claim: its epoch is above that of every attempt on the job.
LEMMA ClaimStep ==
    ASSUME IInv, TypeOK', Busy', NEW w \in Workers, NEW c \in Conversations, NEW a \in AttemptType,
           worker' = [worker EXCEPT ![w] = a], a.pc = "claimed", a.c = c, a.epoch = NextEpoch(c),
           job[c].status \in {"queued", "leased"}, Lease(c)
    PROVE  IInv' /\ JobMoves
<1> USE DEF IInv
<1>1. JobMoves
  BY RowMoves, MoveOne DEF Lease
<1>2. UNCHANGED <<conv, effects>>
  BY DEF Lease
<1>3. \A d \in Conversations : job'[d] = IF d = c THEN LeasedJob(c) ELSE job[d]
  BY DEF Lease, TypeOK
<1>4. /\ LeasedJob(c).epoch = job[c].epoch + 1 /\ LeasedJob(c).status = "leased"
      /\ LeasedJob(c).outcome = job[c].outcome /\ LeasedJob(c).fanout = job[c].fanout
      /\ job[c].epoch \in Nat
  BY DEF LeasedJob, NextEpoch, TypeOK, JobType
<1>5. \A v \in Workers : worker'[v] = IF v = w THEN a ELSE worker[v]
  BY DEF TypeOK
<1>6. a.epoch = job[c].epoch + 1
  BY DEF NextEpoch
<1>7. BoundRows'
  BY <1>2, <1>3, <1>4 DEF BoundRows
<1>8. ASSUME NEW v \in Workers, v # w, Claimed(v)'
      PROVE  /\ Claimed(v) /\ worker'[v] = worker[v] /\ worker[v].c \in Conversations
             /\ worker[v].epoch \in Nat /\ job[worker[v].c].epoch \in Nat
             /\ 1 <= worker[v].epoch /\ worker[v].epoch <= job[worker[v].c].epoch
  <2>1. Claimed(v) /\ worker'[v] = worker[v]
    BY <1>5, <1>8 DEF Claimed
  <2>2. worker[v].c \in Conversations
    BY <2>1 DEF Busy, Active, Claimed
  <2> QED BY <2>1, <2>2 DEF Epochs, TypeOK, JobType, AttemptType
<1>9. Epochs'
  <2>1. ASSUME NEW v \in Workers, Claimed(v)'
        PROVE  1 <= worker'[v].epoch /\ worker'[v].epoch <= job'[worker'[v].c].epoch
    <3>1. CASE v = w
      BY <1>3, <1>4, <1>5, <1>6, <3>1
    <3>2. CASE v # w
      BY <1>3, <1>4, <1>8, <2>1, <3>2
    <3> QED BY <3>1, <3>2
  <2>2. ASSUME NEW v \in Workers, v # w, Claimed(v)', worker'[v].c = c
        PROVE  worker'[v].epoch # a.epoch
    BY <1>4, <1>6, <1>8, <2>2
  <2>3. ASSUME NEW u \in Workers, NEW v \in Workers, Claimed(u)', Claimed(v)',
               worker'[u].c = worker'[v].c, worker'[u].epoch = worker'[v].epoch
        PROVE  u = v
    <3>1. CASE u # w /\ v # w
      BY <1>8, <2>3, <3>1 DEF Epochs
    <3>2. CASE u = w \/ v = w
      BY <1>5, <2>2, <2>3, <3>2
    <3> QED BY <3>1, <3>2
  <2> QED BY <2>1, <2>3 DEF Epochs
<1>10. Outcomed'
  <2>1. ASSUME NEW d \in Conversations PROVE job'[d].outcome # "none" <=> JobTerminal(d)'
    BY <1>3, <1>4, <2>1 DEF Outcomed, JobTerminal, TERMINAL_JOB_STATUSES
  <2>2. ASSUME NEW v \in Workers, worker'[v].pc = "ack" PROVE effects'[worker'[v].c] # "none"
    BY <1>2, <1>5, <2>2 DEF Outcomed
  <2> QED BY <2>1, <2>2 DEF Outcomed
<1>11. SuccessMeansFanout'
  BY <1>2, <1>3, <1>4 DEF SuccessMeansFanout
<1> QED BY <1>1, <1>7, <1>9, <1>10, <1>11

-----------------------------------------------------------------------------
(* Every action is such a move                                              *)

LEMMA RestMoves ==
    /\ UNCHANGED worker => AttemptMoves
    /\ UNCHANGED <<conv, job, effects>> => RowsKept /\ JobMoves
  BY MoveNone DEF AttemptMoves, AttemptMove, RowsKept

\* A transaction on an existing job leaves the binding of every row alone.
LEMMA SameRows ==
    ASSUME IInv, JobMoves, UNCHANGED effects, \A c \in Conversations : conv'[c].bound = conv[c].bound
    PROVE  (\A c \in Conversations : job[c].status = "absent" => job'[c].status = "absent") => RowsKept
  BY DEF IInv, RowsKept

LEMMA RequestMoves ==
    ASSUME IInv, NEW c \in Conversations, Request(c)
    PROVE  JobMoves /\ AttemptMoves /\ RowsKept
<1> USE DEF IInv
<1>1. ASSUME NEW byok \in BOOLEAN, CreateIntent(c, byok) PROVE JobMoves /\ AttemptMoves /\ RowsKept
  <2>1. job[c].status = "absent"
    BY <1>1 DEF CreateIntent, BoundRows
  <2>2. /\ CreatedJob(byok).status \in NONTERMINAL_JOB_STATUSES /\ CreatedJob(byok).epoch = 0
        /\ CreatedJob(byok).outcome = "none" /\ CreatedJob(byok).fanout = "pending"
    BY DEF CreatedJob, NoJob, NONTERMINAL_JOB_STATUSES
  <2>3. JobMove(job[c], CreatedJob(byok), effects[c])
    BY <2>1, <2>2 DEF JobMove
  <2>4. job' = [job EXCEPT ![c] = CreatedJob(byok)]
    BY <1>1 DEF CreateIntent
  <2>5. JobMoves
    BY <2>3, <2>4, MoveOne
  <2>6. RowsKept
    <3>1. \A d \in Conversations : job'[d] = IF d = c THEN CreatedJob(byok) ELSE job[d]
      BY <2>4 DEF TypeOK
    <3>2. UNCHANGED effects /\ conv' = [conv EXCEPT ![c] = [@ EXCEPT !.status = "processing", !.bound = TRUE]]
      BY <1>1 DEF CreateIntent
    <3>3. conv'[c].bound /\ \A d \in Conversations : d # c => conv'[d] = conv[d]
      BY <3>2 DEF TypeOK, ConversationType
    <3> QED BY <2>1, <2>2, <3>1, <3>2, <3>3 DEF RowsKept, NONTERMINAL_JOB_STATUSES
  <2> QED BY <1>1, <2>5, <2>6, RestMoves DEF CreateIntent
<1>2. CASE GetIntent(c)
  BY <1>2, RestMoves DEF GetIntent, stores
<1>3. CASE ResumeByok(c)
  <2>1. UNCHANGED <<conv, effects, worker>>
    BY <1>3 DEF ResumeByok
  <2>2. JobMoves /\ \A d \in Conversations : job[d].status = "absent" => job'[d].status = "absent"
    <3>1. CASE job[c].status = "blocked_byok"
      <4>1. job' = [job EXCEPT ![c] = ResumedJob(c)]
        BY <1>3, <3>1 DEF ResumeByok
      <4>2. JobMove(job[c], ResumedJob(c), effects[c])
        BY <3>1, RowMoves
      <4> QED BY <3>1, <4>1, <4>2, MoveOne DEF TypeOK
    <3>2. CASE job[c].status # "blocked_byok"
      BY <1>3, <3>2, MoveNone DEF ResumeByok
    <3> QED BY <3>1, <3>2
  <2> QED BY <2>1, <2>2, SameRows, RestMoves
<1>4. CASE RequestDies(c)
  BY <1>4, RestMoves DEF RequestDies, stores
<1> QED BY <1>1, <1>2, <1>3, <1>4 DEF Request

LEMMA TimerMoves ==
    ASSUME IInv, NEW c \in Conversations, Timer(c)
    PROVE  JobMoves /\ AttemptMoves /\ RowsKept
<1> USE DEF IInv
<1>0. job[c] \in JobType
  BY DEF TypeOK
<1>1. CASE LockExpires(c)
  BY <1>1, RestMoves DEF LockExpires, stores
<1>2. ASSUME NEW k, job' = [job EXCEPT ![c] = k], JobMove(job[c], k, effects[c]),
             job[c].status # "absent", UNCHANGED <<conv, effects, worker>>
      PROVE  JobMoves /\ AttemptMoves /\ RowsKept
  <2>1. JobMoves
    BY <1>2, MoveOne
  <2>2. \A d \in Conversations : job[d].status = "absent" => job'[d].status = "absent"
    BY <1>2 DEF TypeOK
  <2> QED BY <1>2, <2>1, <2>2, SameRows, RestMoves
<1>3. CASE LeaseExpires(c)
  BY <1>2, <1>3, RowMoves DEF LeaseExpires
<1>4. CASE ReconcileDelayElapses(c)
  <2>1. JobMove(job[c], [job[c] EXCEPT !.due = "now", !.aged = TRUE], effects[c])
    BY <1>0, <1>4 DEF ReconcileDelayElapses, JobMove, JobType, NONTERMINAL_JOB_STATUSES
  <2> QED BY <1>2, <1>4, <2>1 DEF ReconcileDelayElapses
<1>5. CASE AbandonmentWindowElapses(c)
  <2>1. JobMove(job[c], [job[c] EXCEPT !.idle = TRUE], effects[c])
    BY <1>0, <1>5 DEF AbandonmentWindowElapses, JobMove, JobType, NONTERMINAL_JOB_STATUSES
  <2> QED BY <1>2, <1>5, <2>1 DEF AbandonmentWindowElapses
<1> QED BY <1>1, <1>3, <1>4, <1>5 DEF Timer

LEMMA UserMoves ==
    ASSUME IInv, NEW c \in Conversations, User(c)
    PROVE  JobMoves /\ AttemptMoves /\ RowsKept
<1> USE DEF IInv
<1>1. UNCHANGED <<job, effects, worker>>
  BY DEF User, Discard, RestoreDiscarded, DeleteConversation
<1>2. ASSUME NEW k, conv' = [conv EXCEPT ![c] = k], k.bound = conv[c].bound
      PROVE  \A d \in Conversations : conv'[d].bound = conv[d].bound
  BY <1>2 DEF TypeOK
<1>3. conv[c] \in ConversationType
  BY DEF TypeOK
<1>4. CASE Discard(c)
  <2>1. [conv[c] EXCEPT !.discarded = TRUE, !.kept = FALSE].bound = conv[c].bound
    BY <1>3 DEF ConversationType
  <2>2. \A d \in Conversations : conv'[d].bound = conv[d].bound
    BY <1>2, <1>4, <2>1 DEF Discard
  <2> QED BY <1>1, <2>2, MoveNone, SameRows, RestMoves
<1>5. CASE RestoreDiscarded(c)
  <2>1. [conv[c] EXCEPT !.discarded = FALSE, !.kept = TRUE].bound = conv[c].bound
    BY <1>3 DEF ConversationType
  <2>2. \A d \in Conversations : conv'[d].bound = conv[d].bound
    BY <1>2, <1>5, <2>1 DEF RestoreDiscarded
  <2> QED BY <1>1, <2>2, MoveNone, SameRows, RestMoves
<1>6. CASE DeleteConversation(c)
  <2>1. [conv[c] EXCEPT !.exists = FALSE].bound = conv[c].bound
    BY <1>3 DEF ConversationType
  <2>2. \A d \in Conversations : conv'[d].bound = conv[d].bound
    BY <1>2, <1>6, <2>1 DEF DeleteConversation
  <2> QED BY <1>1, <2>2, MoveNone, SameRows, RestMoves
<1> QED BY <1>4, <1>5, <1>6 DEF User

LEMMA SweepMoves ==
    ASSUME IInv, Sweep
    PROVE  JobMoves /\ AttemptMoves /\ RowsKept
<1> USE DEF IInv
<1>0. ASSUME NEW c \in Conversations, NEW k, job' = [job EXCEPT ![c] = k],
             JobMove(job[c], k, effects[c]), job[c].status # "absent", UNCHANGED <<effects, worker>>,
             \A d \in Conversations : conv'[d].bound = conv[d].bound
      PROVE  JobMoves /\ AttemptMoves /\ RowsKept
  <2>1. JobMoves
    BY <1>0, MoveOne
  <2>2. \A d \in Conversations : job[d].status = "absent" => job'[d].status = "absent"
    BY <1>0 DEF TypeOK
  <2> QED BY <1>0, <2>1, <2>2, SameRows, RestMoves
<1>1. CASE ReconcileScan
  BY <1>1, RestMoves DEF ReconcileScan, stores
<1>2. ASSUME NEW c \in Conversations, Replay(c) PROVE JobMoves /\ AttemptMoves /\ RowsKept
  <2>1. UNCHANGED <<conv, effects, worker>>
    BY <1>2 DEF Replay
  <2>2. CASE Replayable(c)
    <3>1. job[c].status \in {"queued", "leased"} /\ job' = [job EXCEPT ![c] = ReplayedJob(c)]
      BY <1>2, <2>2 DEF Replay, Replayable
    <3> QED BY <1>0, <2>1, <3>1, RowMoves
  <2>3. CASE ~Replayable(c)
    BY <1>2, <2>1, <2>3, RestMoves DEF Replay
  <2> QED BY <2>2, <2>3
<1>3. CASE ByokScan
  BY <1>3, RestMoves DEF ByokScan, stores
<1>4. ASSUME NEW s \in scan, AbandonByok(s) PROVE JobMoves /\ AttemptMoves /\ RowsKept
  <2>0. s.c \in Conversations
    BY DEF TypeOK, CandidateType
  <2>1. UNCHANGED <<effects, worker>>
    BY <1>4 DEF AbandonByok
  <2>2. \A d \in Conversations : conv'[d].bound = conv[d].bound
    BY <1>4, <2>0 DEF AbandonByok, TypeOK, ConversationType
  <2>3. CASE StillAbandoned(s)
    <3>1. job[s.c].status \in {"queued", "leased"} /\ job' = [job EXCEPT ![s.c] = AbandonedJob(s.c)]
      BY <1>4, <2>3 DEF AbandonByok, StillAbandoned, Stranded
    <3> QED BY <1>0, <2>0, <2>1, <2>2, <3>1, RowMoves
  <2>4. CASE ~StillAbandoned(s)
    BY <1>4, <2>1, <2>4, RestMoves DEF AbandonByok
  <2> QED BY <2>3, <2>4
<1> QED BY <1>1, <1>2, <1>3, <1>4 DEF Sweep

\* A worker that only moves its program counter keeps its lease identity.
LEMMA GoMoves ==
    ASSUME TypeOK, NEW w \in Workers, NEW a, worker' = [worker EXCEPT ![w] = a],
           \/ a.pc \in {"idle", "locked"}
           \/ /\ Claimed(w) /\ a.c = worker[w].c /\ a.epoch = worker[w].epoch
              /\ a.pc = "ack" => effects'[worker[w].c] # "none"
    PROVE  AttemptMoves
<1>1. \A v \in Workers : worker'[v] = IF v = w THEN a ELSE worker[v]
  BY DEF TypeOK
<1> QED BY <1>1 DEF AttemptMoves, AttemptMove

LEMMA ReturnMoves ==
    ASSUME TypeOK, NEW w \in Workers, Return(w)
    PROVE  AttemptMoves
<1>1. worker' = [worker EXCEPT ![w] = IdleAttempt] /\ IdleAttempt.pc = "idle"
  BY DEF Return, IdleAttempt
<1> QED BY <1>1, GoMoves

LEMMA PcMoves ==
    ASSUME TypeOK, NEW w \in Workers, Claimed(w), NEW pc, Go(w, pc),
           pc = "ack" => effects'[worker[w].c] # "none"
    PROVE  AttemptMoves
<1> DEFINE a == [worker[w] EXCEPT !.pc = pc]
<1>1. worker[w] \in AttemptType
  BY DEF TypeOK
<1>2. a.pc = pc /\ a.c = worker[w].c /\ a.epoch = worker[w].epoch
  BY <1>1 DEF AttemptType
<1>3. worker' = [worker EXCEPT ![w] = a]
  BY DEF Go
<1> HIDE DEF a
<1> QED BY <1>2, <1>3, GoMoves

\* One transaction of a worker on the job it works on.
LEMMA WorkerWrites ==
    ASSUME IInv, NEW c \in Conversations, NEW k, job' = [job EXCEPT ![c] = k],
           JobMove(job[c], k, effects[c]), job[c].status # "absent", UNCHANGED effects,
           \A d \in Conversations : conv'[d].bound = conv[d].bound
    PROVE  JobMoves /\ RowsKept
<1>1. JobMoves
  BY MoveOne DEF IInv
<1>2. \A d \in Conversations : job[d].status = "absent" => job'[d].status = "absent"
  BY DEF IInv, TypeOK
<1> QED BY <1>1, <1>2, SameRows

LEMMA ProcessingMoves ==
    ASSUME IInv, NEW w \in Workers,
           \/ SkipForCutover(w)
           \/ ReadConversation(w)
           \/ \E outcome \in Outcomes : ProcessConversation(w, outcome)
    PROVE  JobMoves /\ AttemptMoves /\ RowsKept
<1> USE DEF IInv
<1>0. worker[w] \in AttemptType /\ worker[w].c \in Conversations /\ Claimed(w)
  BY DEF TypeOK, Busy, Active, Claimed, SkipForCutover, ReadConversation, ProcessConversation
<1> DEFINE c == worker[w].c
<1>1. ASSUME NEW pc, NEW q, pc # "ack", worker' = [worker EXCEPT ![w] = [@ EXCEPT !.pc = pc, !.quiet = q]]
      PROVE  AttemptMoves
  <2> DEFINE a == [worker[w] EXCEPT !.pc = pc, !.quiet = q]
  <2>1. a.pc = pc /\ a.c = worker[w].c /\ a.epoch = worker[w].epoch
    BY <1>0 DEF AttemptType
  <2>2. worker' = [worker EXCEPT ![w] = a]
    BY <1>1
  <2> HIDE DEF a
  <2> QED BY <1>0, <1>1, <2>1, <2>2, GoMoves
<1>2. CASE SkipForCutover(w)
  <2>1. AttemptMoves
    BY <1>0, <1>2, PcMoves DEF SkipForCutover
  <2> QED BY <1>2, <2>1, RestMoves DEF SkipForCutover, stores
<1>3. CASE ReadConversation(w)
  <2> DEFINE next == IF ~conv[c].exists \/ conv[c].status = "completed" THEN "fanout"
                     ELSE IF conv[c].status = "processing" THEN "process" ELSE "fence"
             q == next = "fanout" /\ conv[c].exists /\ conv[c].minimal
  <2>1. worker' = [worker EXCEPT ![w] = [@ EXCEPT !.pc = next, !.quiet = q]]
    BY <1>3 DEF ReadConversation
  <2>2. next # "ack"
    OBVIOUS
  <2>3. AttemptMoves
    <3> HIDE DEF next, q
    <3> QED BY <1>1, <2>1, <2>2
  <2> QED BY <1>3, <2>3, RestMoves DEF ReadConversation, stores
<1>4. ASSUME NEW outcome \in Outcomes, ProcessConversation(w, outcome)
      PROVE  JobMoves /\ AttemptMoves /\ RowsKept
  <2> DEFINE stored == outcome \in {"keep", "hide", "minimum"} /\ PersistAdmits(c)
             next == IF stored THEN "fanout" ELSE IF outcome = "error" THEN "fail" ELSE "fence"
             q == stored /\ outcome = "minimum"
  <2>1. worker' = [worker EXCEPT ![w] = [@ EXCEPT !.pc = next, !.quiet = q]]
    BY <1>4 DEF ProcessConversation
  <2>2. next # "ack"
    OBVIOUS
  <2>3. AttemptMoves
    <3> HIDE DEF next, q
    <3> QED BY <1>1, <2>1, <2>2
  <2>4. ASSUME NEW st, NEW h, NEW d, NEW m, conv' = Persisted(c, st, h, d, m)
        PROVE  \A b \in Conversations : conv'[b].bound = conv[b].bound
    <3> DEFINE k == [conv[c] EXCEPT !.status = st, !.deferred = d, !.minimal = m,
                                    !.discarded = h /\ ~conv[c].kept]
    <3>1. k.bound = conv[c].bound
      BY <1>0 DEF TypeOK, ConversationType
    <3>2. conv' = [conv EXCEPT ![c] = k]
      BY <2>4 DEF Persisted
    <3> HIDE DEF k
    <3> QED BY <1>0, <3>1, <3>2 DEF TypeOK
  <2>5. \A b \in Conversations : conv'[b].bound = conv[b].bound
    <3>1. \/ UNCHANGED conv
          \/ \E h, m \in BOOLEAN : conv' = Persisted(c, "completed", h, FALSE, m)
          \/ \E h \in BOOLEAN : conv' = Persisted(c, "processing", h, TRUE, conv[c].minimal)
      <4>1. conv[c].minimal \in BOOLEAN
        BY <1>0 DEF TypeOK, ConversationType
      <4>2. CASE stored
        BY <1>4, <4>1, <4>2 DEF ProcessConversation
      <4>3. CASE ~stored
        BY <1>4, <4>3 DEF ProcessConversation
      <4> QED BY <4>2, <4>3
    <3> QED BY <2>4, <3>1
  <2> QED BY <1>4, <2>3, <2>5, MoveNone, SameRows DEF ProcessConversation
<1> QED BY <1>2, <1>3, <1>4

LEMMA FanoutMoves ==
    ASSUME IInv, NEW w \in Workers, ClaimFanout(w) \/ EmitEffects(w) \/ CompleteFanout(w)
    PROVE  JobMoves /\ AttemptMoves /\ RowsKept
<1> USE DEF IInv
<1>0. worker[w] \in AttemptType /\ worker[w].c \in Conversations /\ Claimed(w)
  BY DEF TypeOK, Busy, Active, Claimed, ClaimFanout, EmitEffects, CompleteFanout
<1> DEFINE c == worker[w].c
<1>1. CASE ClaimFanout(w)
  <2>1. PICK pc : pc # "ack" /\ Go(w, pc)
    BY <1>1 DEF ClaimFanout
  <2>2. AttemptMoves
    BY <1>0, <2>1, PcMoves
  <2>3. UNCHANGED <<conv, effects>>
    BY <1>1 DEF ClaimFanout
  <2>4. CASE UNCHANGED job
    BY <2>2, <2>3, <2>4, RestMoves
  <2>5. CASE job[c].status = "leased" /\ job' = [job EXCEPT ![c] = FencedJob(c)]
    <3>1. JobMove(job[c], FencedJob(c), effects[c])
      BY <1>0, <2>5, RowMoves
    <3> QED BY <1>0, <2>2, <2>3, <2>5, <3>1, WorkerWrites
  <2>6. CASE job[c].status = "leased" /\ job' = [job EXCEPT ![c] = FanoutClaimedJob(worker[w])]
    <3>1. JobMove(job[c], FanoutClaimedJob(worker[w]), effects[c])
      BY <1>0, <2>6, FanoutClaimMove
    <3> QED BY <1>0, <2>2, <2>3, <2>6, <3>1, WorkerWrites
  <2> QED BY <1>1, <2>4, <2>5, <2>6 DEF ClaimFanout, IsCurrentLease
<1>2. CASE EmitEffects(w)
  <2>1. PICK pc : Go(w, pc) /\ (pc = "ack" => effects'[c] # "none")
    BY <1>0, <1>2 DEF EmitEffects, TypeOK
  <2>2. AttemptMoves
    BY <1>0, <2>1, PcMoves
  <2>3. UNCHANGED <<conv, job>>
    BY <1>2 DEF EmitEffects
  <2>4. \A d \in Conversations : effects[d] # "none" => effects'[d] # "none"
    BY <1>0, <1>2 DEF EmitEffects, TypeOK
  <2> QED BY <2>2, <2>3, <2>4, MoveNone DEF RowsKept
<1>3. CASE CompleteFanout(w)
  <2>1. PICK pc : pc # "ack" /\ Go(w, pc)
    BY <1>3 DEF CompleteFanout
  <2>2. AttemptMoves
    BY <1>0, <2>1, PcMoves
  <2>3. UNCHANGED <<conv, effects>>
    BY <1>3 DEF CompleteFanout
  <2>4. CASE UNCHANGED job
    BY <2>2, <2>3, <2>4, RestMoves
  <2>5. CASE job[c].status = "leased" /\ job' = [job EXCEPT ![c] = FanoutCompletedJob(c)]
    <3>1. effects[c] # "none"
      BY <1>3 DEF CompleteFanout, Outcomed
    <3>2. JobMove(job[c], FanoutCompletedJob(c), effects[c])
      BY <1>0, <2>5, <3>1, RowMoves
    <3> QED BY <1>0, <2>2, <2>3, <2>5, <3>2, WorkerWrites
  <2> QED BY <1>3, <2>4, <2>5 DEF CompleteFanout, IsCurrentLease
<1> QED BY <1>1, <1>2, <1>3

LEMMA CloseMoves ==
    ASSUME IInv, NEW w \in Workers, MarkCompleted(w) \/ MarkFenced(w) \/ RecordFailure(w)
    PROVE  JobMoves /\ AttemptMoves /\ RowsKept
<1> USE DEF IInv
<1>0. worker[w].c \in Conversations
  BY DEF TypeOK, Busy, Active, MarkCompleted, MarkFenced, RecordFailure
<1> DEFINE c == worker[w].c
<1>1. AttemptMoves
  BY ReturnMoves DEF MarkCompleted, MarkFenced, RecordFailure, Acknowledge, Refuse
<1>2. UNCHANGED effects
  BY DEF MarkCompleted, MarkFenced, RecordFailure
<1>3. CASE MarkCompleted(w)
  <2>1. CASE UNCHANGED job
    BY <1>1, <1>2, <1>3, <2>1, RestMoves DEF MarkCompleted
  <2>2. CASE IsCurrentLease(worker[w]) /\ job[c].fanout = "completed"
    <3>1. job[c].status = "leased" /\ job' = [job EXCEPT ![c] = SucceededJob(c)] /\ UNCHANGED conv
      BY <1>3, <2>2 DEF MarkCompleted, IsCurrentLease
    <3>2. JobMove(job[c], SucceededJob(c), effects[c])
      BY <1>0, <2>2, <3>1, RowMoves
    <3> QED BY <1>0, <1>1, <1>2, <3>1, <3>2, WorkerWrites
  <2> QED BY <1>3, <2>1, <2>2 DEF MarkCompleted
<1>4. CASE MarkFenced(w)
  <2>1. CASE UNCHANGED job
    BY <1>1, <1>2, <1>4, <2>1, RestMoves DEF MarkFenced
  <2>2. CASE IsCurrentLease(worker[w]) /\ job[c].fanout = "pending"
    <3>1. job[c].status = "leased" /\ job' = [job EXCEPT ![c] = FencedJob(c)] /\ UNCHANGED conv
      BY <1>4, <2>2 DEF MarkFenced, IsCurrentLease
    <3>2. JobMove(job[c], FencedJob(c), effects[c])
      BY <1>0, <3>1, RowMoves
    <3> QED BY <1>0, <1>1, <1>2, <3>1, <3>2, WorkerWrites
  <2> QED BY <1>4, <2>1, <2>2 DEF MarkFenced
<1>5. CASE RecordFailure(w)
  <2>1. \A d \in Conversations : conv'[d].bound = conv[d].bound
    <3> DEFINE k == [conv[c] EXCEPT !.status = "failed", !.discarded = TRUE]
    <3>1. k.bound = conv[c].bound
      <4>1. conv[c] \in ConversationType
        BY <1>0 DEF TypeOK
      <4> QED BY <4>1 DEF ConversationType
    <3>2. UNCHANGED conv \/ conv' = [conv EXCEPT ![c] = k]
      BY <1>5 DEF RecordFailure, MarkDeadLetter, MarkRetryable
    <3> HIDE DEF k
    <3> QED BY <1>0, <3>1, <3>2 DEF TypeOK
  <2>2. CASE UNCHANGED <<conv, job>>
    BY <1>1, <1>2, <2>2, RestMoves
  <2>3. CASE IsCurrentLease(worker[w]) /\ MarkDeadLetter(c)
    <3>1. job[c].status = "leased" /\ job' = [job EXCEPT ![c] = DeadLetteredJob(c)]
      BY <2>3 DEF MarkDeadLetter, IsCurrentLease
    <3>2. JobMove(job[c], DeadLetteredJob(c), effects[c])
      BY <1>0, <3>1, RowMoves
    <3> QED BY <1>0, <1>1, <1>2, <2>1, <3>1, <3>2, WorkerWrites
  <2>4. CASE IsCurrentLease(worker[w]) /\ MarkRetryable(c)
    <3>1. job[c].status = "leased" /\ job' = [job EXCEPT ![c] = RetryableJob(c)]
      BY <2>4 DEF MarkRetryable, IsCurrentLease
    <3>2. JobMove(job[c], RetryableJob(c), effects[c])
      BY <1>0, <3>1, RowMoves
    <3> QED BY <1>0, <1>1, <1>2, <2>1, <3>1, <3>2, WorkerWrites
  <2> QED BY <1>5, <2>2, <2>3, <2>4 DEF RecordFailure
<1> QED BY <1>3, <1>4, <1>5

LEMMA CrashMoves ==
    ASSUME IInv, NEW w \in Workers, Crash(w)
    PROVE  JobMoves /\ AttemptMoves /\ RowsKept
<1>1. worker' = [worker EXCEPT ![w] = IdleAttempt] /\ IdleAttempt.pc = "idle"
  BY DEF Crash, IdleAttempt
<1>2. AttemptMoves
  BY <1>1, GoMoves DEF IInv
<1> QED BY <1>2, RestMoves DEF Crash, stores

LEMMA TaskClaimsStep ==
    ASSUME IInv, TypeOK', Busy', NEW w \in Workers, TaskClaims(w)
    PROVE  IInv' /\ JobMoves /\ RowsKept
<1> USE DEF IInv
<1>0. worker[w] \in AttemptType /\ worker[w].c \in Conversations
  BY DEF TypeOK, Busy, Active, TaskClaims
<1> DEFINE c == worker[w].c
<1>1. CASE Claimable(c, worker[w].gen, FALSE)
  <2> DEFINE a == [worker[w] EXCEPT !.pc = "claimed", !.epoch = NextEpoch(c)]
  <2>1. NextEpoch(c) \in Nat
    BY <1>0 DEF NextEpoch, TypeOK, JobType
  <2>2. a \in AttemptType /\ a.c = c
    BY <1>0, <2>1, ClaimFields
  <2>3. a.pc = "claimed" /\ a.epoch = NextEpoch(c)
    BY <1>0 DEF AttemptType
  <2>4. worker' = [worker EXCEPT ![w] = a] /\ Lease(c)
    BY <1>1 DEF TaskClaims
  <2>5. job[c].status \in {"queued", "leased"}
    BY <1>1 DEF Claimable
  <2>6. IInv' /\ JobMoves
    <3> HIDE DEF a
    <3> QED BY <1>0, <2>2, <2>3, <2>4, <2>5, ClaimStep
  <2>7. \A d \in Conversations : job[d].status = "absent" => job'[d].status = "absent"
    BY <1>0, <2>4, <2>5 DEF Lease, TypeOK
  <2> QED BY <2>4, <2>6, <2>7, SameRows DEF Lease
<1>2. CASE ~Claimable(c, worker[w].gen, FALSE)
  <2>1. Return(w) /\ UNCHANGED stores
    BY <1>2 DEF TaskClaims, Acknowledge, Refuse
  <2>2. AttemptMoves /\ JobMoves /\ RowsKept
    BY <2>1, ReturnMoves, RestMoves DEF stores
  <2> QED BY <2>2, QuietStep
<1> QED BY <1>1, <1>2

LEMMA DeliveryStep ==
    ASSUME IInv, TypeOK', Busy', Delivery
    PROVE  IInv' /\ JobMoves /\ RowsKept
<1> USE DEF IInv
<1>1. ASSUME UNCHANGED <<stores, worker>> PROVE IInv' /\ JobMoves /\ RowsKept
  <2>1. AttemptMoves /\ JobMoves /\ RowsKept
    BY <1>1, RestMoves DEF stores
  <2> QED BY <2>1, QuietStep
<1>2. ASSUME NEW f \in frames, LoseFrame(f) PROVE IInv' /\ JobMoves /\ RowsKept
  BY <1>1, <1>2 DEF LoseFrame
<1>3. ASSUME NEW f \in frames, NEW w \in Workers, PusherClaim(w, f)
      PROVE  IInv' /\ JobMoves /\ RowsKept
  <2>0. f.c \in Conversations /\ f.gen \in Nat
    BY DEF TypeOK, HandoffType
  <2>1. CASE Claimable(f.c, f.gen, TRUE)
    <3> DEFINE a == [pc |-> "claimed", c |-> f.c, lane |-> "pusher", gen |-> f.gen,
                     epoch |-> NextEpoch(f.c), tries |-> job[f.c].attempts, quiet |-> FALSE]
    <3>1. NextEpoch(f.c) \in Nat /\ job[f.c].attempts \in Nat
      BY <2>0 DEF NextEpoch, TypeOK, JobType
    <3>2. a \in AttemptType /\ a.pc = "claimed" /\ a.c = f.c /\ a.epoch = NextEpoch(f.c)
      BY <2>0, <3>1 DEF AttemptType
    <3>3. worker' = [worker EXCEPT ![w] = a] /\ Lease(f.c)
      BY <1>3, <2>1 DEF PusherClaim
    <3>4. job[f.c].status \in {"queued", "leased"}
      BY <2>1 DEF Claimable
    <3>5. IInv' /\ JobMoves
      <4> HIDE DEF a
      <4> QED BY <2>0, <3>2, <3>3, <3>4, ClaimStep
    <3>6. \A d \in Conversations : job[d].status = "absent" => job'[d].status = "absent"
      BY <2>0, <3>3, <3>4 DEF Lease, TypeOK
    <3> QED BY <3>3, <3>5, <3>6, SameRows DEF Lease
  <2>2. CASE ~Claimable(f.c, f.gen, TRUE)
    BY <1>1, <1>3, <2>2 DEF PusherClaim
  <2> QED BY <2>1, <2>2
<1>4. ASSUME NEW t \in tasks, TaskLockedOut(t) \/ TaskDeadline(t) PROVE IInv' /\ JobMoves /\ RowsKept
  BY <1>1, <1>4 DEF TaskLockedOut, TaskDeadline
<1>5. ASSUME NEW t \in tasks, NEW w \in Workers, TaskLocks(w, t) PROVE IInv' /\ JobMoves /\ RowsKept
  <2> DEFINE a == [pc |-> "locked", c |-> t.c, lane |-> "task", gen |-> t.gen,
                   epoch |-> 0, tries |-> t.retry, quiet |-> FALSE]
  <2>1. worker' = [worker EXCEPT ![w] = a] /\ UNCHANGED stores
    BY <1>5 DEF TaskLocks
  <2>2. a.pc = "locked"
    OBVIOUS
  <2>3. AttemptMoves
    <3> HIDE DEF a
    <3> QED BY <2>1, <2>2, GoMoves
  <2> QED BY <2>1, <2>3, RestMoves, QuietStep DEF stores
<1> QED BY <1>2, <1>3, <1>4, <1>5 DEF Delivery

LEMMA Step ==
    ASSUME IInv, [Next]_vars
    PROVE  IInv' /\ JobMoves /\ RowsKept
<1>0. TypeOK' /\ Busy'
  BY TypeNext DEF IInv
<1>1. ASSUME NEW c \in Conversations, Request(c) \/ Timer(c) \/ User(c)
      PROVE  IInv' /\ JobMoves /\ RowsKept
  BY <1>0, <1>1, RequestMoves, TimerMoves, UserMoves, QuietStep
<1>2. ASSUME NEW w \in Workers, WorkerStep(w) \/ Crash(w) PROVE IInv' /\ JobMoves /\ RowsKept
  <2>1. CASE TaskClaims(w)
    BY <1>0, <2>1, TaskClaimsStep
  <2>2. CASE ~TaskClaims(w)
    <3>1. JobMoves /\ AttemptMoves /\ RowsKept
      BY <1>2, <2>2, ProcessingMoves, FanoutMoves, CloseMoves, CrashMoves DEF WorkerStep
    <3> QED BY <1>0, <3>1, QuietStep
  <2> QED BY <2>1, <2>2
<1>3. CASE Delivery
  BY <1>0, <1>3, DeliveryStep
<1>4. CASE Sweep
  BY <1>0, <1>4, SweepMoves, QuietStep
<1>5. CASE StartCutover
  BY <1>0, <1>5, RestMoves, QuietStep DEF StartCutover, stores
<1>6. CASE UNCHANGED vars
  BY <1>0, <1>6, RestMoves, QuietStep DEF vars
<1> QED BY <1>1, <1>2, <1>3, <1>4, <1>5, <1>6 DEF Next

LEMMA InvInit == Init => IInv
<1> SUFFICES ASSUME Init PROVE IInv
  OBVIOUS
<1>1. TypeOK
  BY TypeInit
<1>2. \A c \in Conversations : job[c] = NoJob /\ effects[c] = "none" /\ conv[c].bound = FALSE
  BY DEF Init
<1>3. \A w \in Workers : worker[w].pc = "idle"
  BY DEF Init, IdleAttempt
<1>4. NoJob.status = "absent" /\ NoJob.epoch = 0 /\ NoJob.outcome = "none" /\ NoJob.fanout = "pending"
  BY DEF NoJob
<1> QED BY <1>1, <1>2, <1>3, <1>4
        DEF IInv, Busy, Active, BoundRows, Epochs, Claimed, Outcomed, SuccessMeansFanout, JobTerminal,
            TERMINAL_JOB_STATUSES

LEMMA Invariance == Spec => []IInv
<1>1. IInv /\ [Next]_vars => IInv'
  BY Step
<1> QED BY <1>1, InvInit, PTL DEF Spec

-----------------------------------------------------------------------------
(* Theorems                                                                 *)

\* At any time at most one attempt can pass _is_current_lease, however many
\* handlers were delivered, crashed, timed out or were overtaken by a replay:
\* every claim raises the epoch above that of every earlier attempt.
THEOREM LeaseExclusion == Spec => []OneLeaseOwner
<1>1. IInv => OneLeaseOwner
  BY DEF IInv, OneLeaseOwner, Epochs, Claimed, Active, IsCurrentLease
<1> QED BY <1>1, Invariance, PTL

\* A job reported as a success has been through its fanout: neither a retry
\* nor a superseded worker can close it early (_mark_finalization_completed_txn
\* behind _claim_finalization_fanout_txn).
THEOREM SuccessAfterFanout == Spec => []SuccessMeansFanout
<1>1. IInv => SuccessMeansFanout
  BY DEF IInv
<1> QED BY <1>1, Invariance, PTL

\* No transaction, sweep or late worker rewrites a job once it is terminal.
THEOREM TerminalJobsStay == Spec => TerminalIsFinal
<1>1. IInv /\ [Next]_vars => [\A c \in Conversations : JobTerminal(c) => job'[c] = job[c]]_vars
  <2> SUFFICES ASSUME IInv, [Next]_vars, NEW c \in Conversations, JobTerminal(c)
               PROVE  job'[c] = job[c]
    OBVIOUS
  <2>1. JobMove(job[c], job'[c], effects[c])
    BY Step DEF JobMoves
  <2> QED BY <2>1 DEF JobMove, JobTerminal, TERMINAL_JOB_STATUSES, NONTERMINAL_JOB_STATUSES
<1> QED BY <1>1, Invariance, PTL DEF Spec, TerminalIsFinal

-----------------------------------------------------------------------------
(* Refinement of FinalizationPromise                                        *)

\* A step writes one job, or the effects of one existing job, or neither.
OneJob == UNCHANGED effects /\ (UNCHANGED job \/ \E c \in Conversations, k \in JobType : job' = [job EXCEPT ![c] = k])
OneEffect ==
    /\ UNCHANGED job
    /\ \E c \in Conversations :
         /\ job[c].status # "absent"
         /\ effects'[c] # "none"
         /\ \A d \in Conversations : d # c => effects'[d] = effects[d]

LEMMA OneAtATime ==
    ASSUME IInv, [Next]_vars
    PROVE  OneJob \/ OneEffect
<1> USE DEF IInv
<1>0. ASSUME NEW c \in Conversations, NEW k, job' = [job EXCEPT ![c] = k], UNCHANGED effects
      PROVE  OneJob
  <2>1. job' \in [Conversations -> JobType]
    BY Step DEF TypeOK
  <2>2. job'[c] = k
    BY <1>0 DEF TypeOK
  <2>3. k \in JobType
    BY <2>1, <2>2
  <2> QED BY <1>0, <2>3 DEF OneJob
<1>1. ASSUME NEW c \in Conversations, Request(c) \/ Timer(c) \/ User(c) PROVE OneJob
  <2>1. CASE UNCHANGED <<job, effects>>
    BY <2>1 DEF OneJob
  <2>2. CASE ~UNCHANGED <<job, effects>>
    <3>1. PICK k : job' = [job EXCEPT ![c] = k] /\ UNCHANGED effects
      BY <1>1, <2>2
         DEF Request, CreateIntent, GetIntent, ResumeByok, RequestDies, Timer, LockExpires,
             LeaseExpires, ReconcileDelayElapses, AbandonmentWindowElapses, User, Discard,
             RestoreDiscarded, DeleteConversation, stores
    <3> QED BY <1>0, <3>1
  <2> QED BY <2>1, <2>2
<1>2. ASSUME NEW w \in Workers, WorkerStep(w) \/ Crash(w) PROVE OneJob \/ OneEffect
  <2>1. CASE EmitEffects(w)
    <3> DEFINE c == worker[w].c
    <3>0. c \in Conversations /\ Claimed(w) /\ UNCHANGED job
      BY <2>1 DEF Busy, Active, Claimed, EmitEffects
    <3>1. job[c].status # "absent"
      <4>1. 1 <= worker[w].epoch /\ worker[w].epoch <= job[c].epoch
        BY <3>0 DEF Epochs
      <4>2. worker[w].epoch \in Nat /\ job[c].epoch \in Nat
        BY <3>0 DEF TypeOK, AttemptType, JobType
      <4> QED BY <3>0, <4>1, <4>2 DEF BoundRows
    <3>2. CASE UNCHANGED effects
      BY <3>0, <3>2 DEF OneJob
    <3>3. CASE ~UNCHANGED effects
      <4>1. effects'[c] # "none" /\ \A d \in Conversations : d # c => effects'[d] = effects[d]
        BY <2>1, <3>0, <3>3 DEF EmitEffects, TypeOK
      <4> QED BY <3>0, <3>1, <4>1 DEF OneEffect
    <3> QED BY <3>2, <3>3
  <2>2. CASE ~EmitEffects(w)
    <3>1. CASE UNCHANGED <<job, effects>>
      BY <3>1 DEF OneJob
    <3>2. CASE ~UNCHANGED <<job, effects>>
      <4>1. worker[w].c \in Conversations
        BY <1>2, <3>2
           DEF WorkerStep, Crash, Busy, Active, stores, TaskClaims, SkipForCutover, ReadConversation,
               ProcessConversation, ClaimFanout, CompleteFanout, MarkCompleted, MarkFenced,
               RecordFailure, EmitEffects
      <4>2. PICK k : job' = [job EXCEPT ![worker[w].c] = k] /\ UNCHANGED effects
        BY <1>2, <2>2, <3>2
           DEF WorkerStep, Crash, stores, TaskClaims, Lease, SkipForCutover, ReadConversation,
               ProcessConversation, ClaimFanout, CompleteFanout, MarkCompleted, MarkFenced,
               RecordFailure, MarkDeadLetter, MarkRetryable
      <4> QED BY <1>0, <4>1, <4>2
    <3> QED BY <3>1, <3>2
  <2> QED BY <2>1, <2>2
<1>3. CASE Delivery
  <2>1. CASE UNCHANGED <<job, effects>>
    BY <2>1 DEF OneJob
  <2>2. CASE ~UNCHANGED <<job, effects>>
    <3>1. PICK f \in frames, w \in Workers : PusherClaim(w, f)
      BY <1>3, <2>2 DEF Delivery, LoseFrame, TaskLockedOut, TaskDeadline, TaskLocks, stores
    <3>2. f.c \in Conversations
      BY DEF TypeOK, HandoffType
    <3>3. PICK k : job' = [job EXCEPT ![f.c] = k] /\ UNCHANGED effects
      BY <2>2, <3>1 DEF PusherClaim, Lease, stores
    <3> QED BY <1>0, <3>2, <3>3
  <2> QED BY <2>1, <2>2
<1>4. CASE Sweep
  <2>1. CASE UNCHANGED <<job, effects>>
    BY <2>1 DEF OneJob
  <2>2. CASE ~UNCHANGED <<job, effects>>
    <3>1. \/ \E c \in Conversations : Replay(c)
          \/ \E s \in scan : AbandonByok(s)
      BY <1>4, <2>2 DEF Sweep, ReconcileScan, ByokScan, stores
    <3>2. PICK c \in Conversations : \E k : job' = [job EXCEPT ![c] = k] /\ UNCHANGED effects
      BY <2>2, <3>1 DEF Replay, AbandonByok, TypeOK, CandidateType
    <3> QED BY <1>0, <3>2
  <2> QED BY <2>1, <2>2
<1>5. CASE StartCutover
  BY <1>5 DEF StartCutover, stores, OneJob
<1>6. CASE UNCHANGED vars
  BY <1>6 DEF vars, OneJob
<1> QED BY <1>1, <1>2, <1>3, <1>4, <1>5, <1>6 DEF Next

\* What a move of a row looks like from outside.
LEMMA PhaseMoves ==
    ASSUME NEW j \in JobType, NEW k \in JobType, NEW e, JobMove(j, k, e),
           k.outcome # "none" <=> k.status \in TERMINAL_JOB_STATUSES
    PROVE  \/ PhaseOf(k) = PhaseOf(j)
           \/ PhaseOf(j) = "none" /\ PhaseOf(k) = "open"
           \/ /\ PhaseOf(j) = "open" /\ PhaseOf(k) \in {"success", "stale", "failure"}
              /\ PhaseOf(k) = "success" => j.fanout = "completed"
  BY DEF JobMove, JobType, JobStatus, TerminalOutcomes, PhaseOf, TERMINAL_JOB_STATUSES,
         NONTERMINAL_JOB_STATUSES

\* The detailed protocol implements FinalizationPromise: through any crash,
\* duplicate delivery, replay or abandonment a conversation settles at most
\* once, and as a success only after its effects were dealt with.
THEOREM Refinement == Spec => KeepsPromise
<1> DEFINE ph == [c \in Conversations |-> PhaseOf(job[c])]
           ha == [c \in Conversations |-> effects[c] # "none"]
<1>1. ASSUME Init PROVE Promise!Init
  <2>1. ph = [c \in Conversations |-> "none"]
    BY <1>1 DEF Init, PhaseOf, NoJob
  <2>2. ha = [c \in Conversations |-> FALSE]
    BY <1>1 DEF Init
  <2> QED BY <2>1, <2>2 DEF Promise!Init
<1>2. IInv /\ [Next]_vars => [Promise!Next]_<<ph, ha>>
  <2> SUFFICES ASSUME IInv, [Next]_vars PROVE Promise!Next \/ UNCHANGED <<ph, ha>>
    OBVIOUS
  <2>1. IInv' /\ JobMoves
    BY Step
  <2>2. CASE OneJob
    <3>1. CASE UNCHANGED job
      BY <2>2, <3>1 DEF OneJob
    <3>2. ASSUME NEW c \in Conversations, NEW k \in JobType, job' = [job EXCEPT ![c] = k]
          PROVE  Promise!Next \/ UNCHANGED <<ph, ha>>
      <4>1. job[c] \in JobType /\ job'[c] = k /\ ha' = ha /\ \A d \in Conversations : d # c => job'[d] = job[d]
        BY <2>2, <3>2 DEF IInv, TypeOK, OneJob
      <4>2. JobMove(job[c], k, effects[c])
        BY <2>1, <4>1 DEF JobMoves
      <4>3. k.outcome # "none" <=> k.status \in TERMINAL_JOB_STATUSES
        BY <2>1, <4>1 DEF IInv, Outcomed, JobTerminal
      <4>5. ph' = [ph EXCEPT ![c] = PhaseOf(k)] /\ ph[c] = PhaseOf(job[c])
        BY <4>1
      <4>6. ha[c] <=> effects[c] # "none"
        OBVIOUS
      <4>7. job[c].fanout = "completed" => ha[c]
        BY <4>6 DEF IInv, SuccessMeansFanout
      <4>8. CASE PhaseOf(k) = PhaseOf(job[c])
        BY <4>1, <4>5, <4>8
      <4>9. CASE PhaseOf(job[c]) = "none" /\ PhaseOf(k) = "open"
        BY <4>1, <4>5, <4>9 DEF Promise!Next, Promise!Admit
      <4>10. CASE /\ PhaseOf(job[c]) = "open" /\ PhaseOf(k) \in {"success", "stale", "failure"}
                  /\ PhaseOf(k) = "success" => job[c].fanout = "completed"
        <5>1. Promise!Settle(c, PhaseOf(k))
          BY <4>1, <4>5, <4>7, <4>10 DEF Promise!Settle
        <5> QED BY <4>10, <5>1 DEF Promise!Next
      <4> QED BY <4>1, <4>2, <4>3, <4>8, <4>9, <4>10, PhaseMoves
    <3> QED BY <2>2, <3>1, <3>2 DEF OneJob
  <2>3. CASE OneEffect
    <3>1. PICK c \in Conversations : /\ job[c].status # "absent" /\ effects'[c] # "none"
                                    /\ \A d \in Conversations : d # c => effects'[d] = effects[d]
      BY <2>3 DEF OneEffect
    <3>2. ph' = ph /\ ph[c] # "none"
      <4>1. job[c].outcome # "none" <=> job[c].status \in TERMINAL_JOB_STATUSES
        BY DEF IInv, Outcomed, JobTerminal
      <4>2. PhaseOf(job[c]) # "none"
        BY <3>1, <4>1 DEF PhaseOf
      <4> QED BY <2>3, <4>2 DEF OneEffect
    <3>3. ha' = [ha EXCEPT ![c] = TRUE]
      BY <3>1
    <3> QED BY <3>2, <3>3 DEF Promise!Next, Promise!Handle
  <2> QED BY <2>2, <2>3, OneAtATime
<1> QED BY <1>1, <1>2, Invariance, PTL DEF Spec, KeepsPromise, Promise!Spec
=============================================================================
