--------------------------- MODULE SyncUploadProofs ---------------------------
(***************************************************************************)
(* What the upload pipeline guarantees for every set of uploads, workers   *)
(* and segments and every number of faults: a durable completion is        *)
(* proven and kept, the device drops nothing that is not accounted for,    *)
(* and a worker that bound the ledger cannot lose it to a delayed one.     *)
(* What is said of the segments needs FailuresLand.                        *)
(***************************************************************************)
EXTENDS SyncUploadTypeProofs

-----------------------------------------------------------------------------
(* The inductive invariant: what is recorded                                *)

\* A worker knows of no segment that is not accounted for, ends its work with none
\* left, and publishes or adopts a completion only after the ledger has it.
RunProven(w, k, v, status) ==
    /\ FailuresLand /\ w.pc \in {"work", "mark", "tail"} => Segments \ (w.left \union w.errs) \subseteq k \union v
    /\ w.pc = "tail" => w.left = {}
    /\ w.pc = "converge" \/ (w.pc = "publish" /\ w.errs = {}) => status = "completed"

\* What a worker carries from step to step.
Carries(w, k) ==
    /\ w.done \subseteq k
    /\ w.next = "budget" => "budget" \in Outcomes

WorkProven == \A r \in Runs : RunProven(run[r], kept, waived, ledger.status) /\ Carries(run[r], kept)

\* What a device may drop, and what a poll that read "completed" will tell it.
Safe == FailuresLand => Accounted \/ job[wal.job].superseded
AnswersProven ==
    /\ wal.state = "synced" => Safe
    /\ poll.pc # "idle" /\ poll.seen.status = "completed" => Safe

\* CompletionProven, with every segment accounted for as long as failures land.
LedgerSound ==
    /\ \A j \in Jobs : job[j].status = "completed" => ledger.status = "completed" \/ job[j].superseded
    /\ FailuresLand /\ ledger.status = "completed" => Accounted
    /\ ledger.segs \subseteq kept

DataInv == LedgerSound /\ WorkProven /\ AnswersProven

-----------------------------------------------------------------------------
(* The inductive invariant: who owns the ledger                             *)

\* Nobody has heard of a job id that is free, or whose upload is being handled.
Fresh(j) == job[j].status = "unused" \/ (upload.pc # "idle" /\ upload.job = j)
Untouched ==
    \A j \in Jobs : Fresh(j) =>
        /\ \A r \in Runs : run[r].job # j
        /\ ~task[j].pending /\ lock[j] = NoToken /\ wal.job # j
UploadQueued == upload.pc # "idle" => job[upload.job].status = "queued"

\* A token names the worker it was made for.
TokensOwn == \A r \in Runs : run[r].token = NoToken \/ run[r].token.run = r

\* Cleaning up and telling the device of a failure come after the job ended.
PollEnded ==
    /\ poll.pc \in {"release", "answer"} /\ poll.seen.status \notin Live => job[wal.job].status \notin Live
    /\ poll.pc = "release" => poll.seen.status \notin Live
EndedFirst ==
    /\ \A r \in Runs : run[r].pc \in {"cleanup", "finish"} => job[run[r].job].status \notin Live
    /\ PollEnded

\* While a fenced job lives its epoch is not forgotten: the lock has the newest.
EpochsGrow ==
    \A j \in Jobs : Fenced(j) /\ job[j].status \in Live =>
        /\ lock[j] = NoToken \/ lock[j].epoch = epoch[j]
        /\ \A r \in Runs : run[r].job = j => run[r].token.epoch <= epoch[j]

\* HolderOwnsLedger, and the claim is not stale.  A worker that rejects its job for
\* the budget may yet go on.
BoundSteps == {"start", "work", "mark", "tail"}
Works(w) == w.pc \in BoundSteps \/ (w.pc = "fail" /\ w.next = "budget")
BoundRun(r) ==
    Holder(r) /\ Fenced(run[r].job) /\ Works(run[r]) /\ job[run[r].job].status \in Live
Bound == \A r \in Runs : BoundRun(r) => LedgerOwner(r) /\ ~ledger.old

FenceInv == Untouched /\ UploadQueued /\ TokensOwn /\ EndedFirst /\ EpochsGrow /\ Bound

Inv == TypeInv /\ DataInv /\ FenceInv

-----------------------------------------------------------------------------
(* What a step of a worker may do                                           *)

\* The blob c may replace b under a worker.
Lawful(b, c) ==
    /\ c.fence = b.fence
    /\ c.status # "unused"
    /\ b.status \notin Live => c.status \notin Live
    /\ b.superseded => c.superseded
    /\ c.status = "completed" => b.status = "completed" \/ ledger.status = "completed" \/ c.superseded

\* The claim of every bound worker but r survives, and r's too while r works on.
ClaimsSurvive(r, n) ==
    \A q \in Runs :
        BoundRun(q) /\ (q = r => Works(n)) =>
            /\ ledger'.status = "processing" /\ ledger'.job = ledger.job /\ ledger'.token = ledger.token
            /\ ~ledger'.old

\* A fenced worker starts only with the claim in its name.
BindsFirst(r, n) ==
    Works(n) =>
        \/ Works(run[r])
        \/ ~Fenced(run[r].job)
        \/ /\ ledger'.status = "processing" /\ ledger'.job = run[r].job /\ ledger'.token = run[r].token
           /\ ~ledger'.old

\* What the ledger says stays true, and a completion stays.
LedgerGrows ==
    /\ ledger.status = "completed" => ledger'.status = "completed"
    /\ FailuresLand /\ ledger'.status = "completed" => Accounted'
    /\ ledger'.segs \subseteq kept'

\* No transcript disappears, and a segment that is accounted for remains so.
RecordsGrow ==
    /\ kept \subseteq kept' /\ kept \union waived \subseteq kept' \union waived'
    /\ kept' \subseteq Segments /\ waived' \subseteq Segments

LEMMA RecordsKept ==
    ASSUME Inv, UNCHANGED <<kept, waived>>
    PROVE  RecordsGrow
  BY DEF Inv, TypeInv, TypeOK, RecordsGrow

LEMMA LedgerUnchanged ==
    ASSUME Inv, NEW r \in Runs, NEW n, UNCHANGED ledger, RecordsGrow
    PROVE  ClaimsSurvive(r, n) /\ LedgerGrows
<1>1. ClaimsSurvive(r, n)
  BY DEF Inv, FenceInv, Bound, LedgerOwner, ClaimsSurvive
<1>2. LedgerGrows
  BY DEF Inv, DataInv, LedgerSound, Accounted, RecordsGrow, LedgerGrows
<1> QED BY <1>1, <1>2

LEMMA RunMoves ==
    ASSUME Inv, NEW r \in Runs, run[r].pc # "idle", NEW n \in RunType, NEW b \in JobType,
           run' = [run EXCEPT ![r] = n], job' = [job EXCEPT ![run[r].job] = b],
           n = IdleRun \/ (n.job = run[r].job /\ n.token = run[r].token),
           Lawful(job[run[r].job], b),
           n.pc \in {"cleanup", "finish"} => b.status \notin Live,
           BindsFirst(r, n),
           RunProven(n, kept', waived', ledger'.status), Carries(n, kept'),
           \A j \in Jobs : lock'[j] \in {lock[j], NoToken},
           \A j \in Jobs : epoch'[j] = epoch[j] \/ job[j].status \notin Live,
           \A j \in Jobs : task'[j].pending => task[j].pending,
           ClaimsSurvive(r, n), LedgerGrows, RecordsGrow,
           UNCHANGED <<upload, poll, wal>>
    PROVE  DataInv' /\ FenceInv'
<1> DEFINE j == run[r].job
<1>1. /\ j \in Jobs /\ run \in [Runs -> RunType] /\ job \in [Jobs -> JobType] /\ Nobody \notin Jobs
      /\ wal.state # "local" => wal.job \in Jobs
      /\ upload.pc # "idle" => upload.job \in Jobs
      /\ poll.pc # "idle" => wal.state = "uploaded"
  BY WorkerFields, NobodyAssumption DEF Inv, TypeInv, TypeOK, RequestsOK
<1>2. run'[r] = n /\ \A q \in Runs \ {r} : run'[q] = run[q]
  BY <1>1
<1>3. job'[j] = b /\ \A i \in Jobs \ {j} : job'[i] = job[i]
  BY <1>1
<1>4. \A q \in Runs : run'[q] = IdleRun \/ (run'[q].job = run[q].job /\ run'[q].token = run[q].token)
  BY <1>2
<1>5. IdleRun.job = Nobody /\ IdleRun.token = NoToken /\ IdleRun.pc = "idle"
  BY DEF IdleRun
<1>6. ~Fresh(j)
  BY <1>1 DEF Inv, FenceInv, Untouched
<1>7. \A i \in Jobs : /\ job[i].status \notin Live => job'[i].status \notin Live
                      /\ job'[i].fence = job[i].fence
                      /\ job[i].superseded => job'[i].superseded
                      /\ job'[i].status = "unused" => job[i].status = "unused"
  BY <1>1, <1>3 DEF Lawful
<1>8. DataInv'
  <2>1. LedgerSound'
    <3>1. \A i \in Jobs : job'[i].status = "completed" => ledger'.status = "completed" \/ job'[i].superseded
      BY <1>1, <1>3 DEF Inv, DataInv, LedgerSound, Lawful, LedgerGrows
    <3> QED BY <3>1 DEF LedgerSound, LedgerGrows
  <2>2. WorkProven'
    <3>1. \A q \in Runs \ {r} : RunProven(run[q], kept', waived', ledger'.status) /\ Carries(run[q], kept')
      BY DEF Inv, DataInv, WorkProven, RunProven, Carries, RecordsGrow, LedgerGrows
    <3> QED BY <1>2, <3>1 DEF WorkProven
  <2>3. AnswersProven'
    BY <1>1, <1>7 DEF Inv, DataInv, AnswersProven, Safe, Accounted, RecordsGrow, TypeInv, TypeOK
  <2> QED BY <2>1, <2>2, <2>3 DEF DataInv
<1>9. Untouched'
  <2> SUFFICES ASSUME NEW i \in Jobs, Fresh(i)'
               PROVE  /\ \A q \in Runs : run'[q].job # i
                      /\ ~task'[i].pending /\ lock'[i] = NoToken /\ wal'.job # i
    BY DEF Untouched
  <2>1. Fresh(i)
    BY <1>7 DEF Fresh
  <2>2. (\A q \in Runs : run[q].job # i) /\ ~task[i].pending /\ lock[i] = NoToken /\ wal.job # i
    BY <2>1 DEF Inv, FenceInv, Untouched
  <2> QED BY <1>1, <1>4, <1>5, <2>2
<1>10. UploadQueued'
  <2>1. upload.pc # "idle" => upload.job # j
    BY <1>6 DEF Fresh
  <2> QED BY <1>1, <1>3, <2>1 DEF Inv, FenceInv, UploadQueued
<1>11. TokensOwn'
  BY <1>4, <1>5 DEF Inv, FenceInv, TokensOwn
<1>12. EndedFirst'
  <2>1. \A q \in Runs : run'[q].pc \in {"cleanup", "finish"} => job'[run'[q].job].status \notin Live
    <3> SUFFICES ASSUME NEW q \in Runs, run'[q].pc \in {"cleanup", "finish"}
                 PROVE  job'[run'[q].job].status \notin Live
      OBVIOUS
    <3>1. CASE q = r
      BY <1>2, <1>3, <1>5, <3>1
    <3>2. CASE q # r
      <4>1. run'[q] = run[q] /\ run[q].pc # "idle"
        BY <1>2, <3>2
      <4>2. run[q].job \in Jobs /\ job[run[q].job].status \notin Live
        BY <4>1, WorkerFields DEF Inv, FenceInv, EndedFirst
      <4> QED BY <1>7, <4>1, <4>2
    <3> QED BY <3>1, <3>2
  <2>2. poll.pc # "idle" => wal.job \in Jobs
    BY <1>1
  <2> QED BY <1>7, <2>1, <2>2 DEF Inv, FenceInv, EndedFirst, PollEnded
<1>13. EpochsGrow'
  <2> SUFFICES ASSUME NEW i \in Jobs, Fenced(i)', job'[i].status \in Live
               PROVE  /\ lock'[i] = NoToken \/ lock'[i].epoch = epoch'[i]
                      /\ \A q \in Runs : run'[q].job = i => run'[q].token.epoch <= epoch'[i]
    BY DEF EpochsGrow
  <2>1. Fenced(i) /\ job[i].status \in Live
    BY <1>7 DEF Fenced
  <2>2. epoch'[i] = epoch[i]
    BY <2>1
  <2>3. /\ lock[i] = NoToken \/ lock[i].epoch = epoch[i]
        /\ \A q \in Runs : run[q].job = i => run[q].token.epoch <= epoch[i]
    BY <2>1 DEF Inv, FenceInv, EpochsGrow
  <2> QED BY <1>1, <1>4, <1>5, <2>2, <2>3
<1>14. Bound'
  <2> SUFFICES ASSUME NEW q \in Runs, BoundRun(q)'
               PROVE  LedgerOwner(q)' /\ ~ledger'.old
    BY DEF Bound
  <2>1. Works(run'[q]) /\ run'[q].pc # "idle"
    BY DEF BoundRun, Works, BoundSteps
  <2>2. run'[q].job = run[q].job /\ run'[q].token = run[q].token
    BY <1>2, <1>4, <1>5, <2>1
  <2>3. run[q].pc # "idle" /\ run[q].job \in Jobs
    BY <1>1, <1>2, <2>1, <2>2, WorkerFields DEF Inv
  <2>4. Holder(q) /\ Fenced(run[q].job) /\ job[run[q].job].status \in Live
    BY <1>7, <2>2, <2>3 DEF BoundRun, Holder, Fenced
  <2>5. CASE Works(run[q])
    <3>1. BoundRun(q)
      BY <2>4, <2>5 DEF BoundRun
    <3>2. /\ ledger'.status = "processing" /\ ledger'.job = ledger.job /\ ledger'.token = ledger.token
          /\ ~ledger'.old
      BY <1>2, <2>1, <3>1 DEF ClaimsSurvive
    <3>3. LedgerOwner(q)
      BY <3>1 DEF Inv, FenceInv, Bound
    <3> QED BY <1>7, <2>2, <2>3, <3>2, <3>3 DEF LedgerOwner, RunToken, Fenced
  <2>6. CASE ~Works(run[q])
    <3>1. q = r
      BY <1>2, <2>1, <2>6
    <3>2. /\ ledger'.status = "processing" /\ ledger'.job = run[r].job /\ ledger'.token = run[r].token
          /\ ~ledger'.old
      BY <1>2, <2>1, <2>4, <2>6, <3>1 DEF BindsFirst
    <3> QED BY <1>7, <2>2, <2>3, <2>4, <3>1, <3>2 DEF LedgerOwner, RunToken, Fenced
  <2> QED BY <2>5, <2>6
<1> QED BY <1>8, <1>9, <1>10, <1>11, <1>12, <1>13, <1>14 DEF FenceInv

LEMMA RunningJob ==
    ASSUME Inv, NEW r \in Runs, run[r].pc # "idle"
    PROVE  /\ run[r].job \in Jobs /\ job[run[r].job] \in JobType /\ job[run[r].job].status # "unused"
           /\ job = [job EXCEPT ![run[r].job] = job[run[r].job]]
<1>1. run[r].job \in Jobs /\ job[run[r].job] \in JobType /\ job \in [Jobs -> JobType]
  BY WorkerFields DEF Inv, TypeInv, TypeOK
<1>2. ~Fresh(run[r].job)
  BY <1>1 DEF Inv, FenceInv, Untouched
<1> QED BY <1>1, <1>2 DEF Fresh

LEMMA LawfulWrites ==
    ASSUME NEW b \in JobType, b.status # "unused"
    PROVE  /\ Lawful(b, b) /\ Lawful(b, Healed(b))
           /\ Lawful(b, Written(b, "failed")) /\ Lawful(b, Written(b, "partial_failure"))
           /\ ledger.status = "completed" => Lawful(b, Written(b, "completed"))
           /\ b.status \in Live => Lawful(b, [Written(b, "processing") EXCEPT !.started = TRUE])
           /\ b.status \in Live => Lawful(b, [Written(b, "queued") EXCEPT !.started = TRUE])
           /\ Lawful(b, [Written(b, "completed") EXCEPT !.superseded = TRUE])
           /\ Lawful(b, [b EXCEPT !.silent = FALSE])
  BY DEF Lawful, Healed, Written, JobType, Live, Terminal

\* The fields of a worker that goes to another step, in the pipeline or out of it.
Going(r, p, n) ==
    /\ run' = [run EXCEPT ![r] = n]
    /\ n.pc = p /\ n.job = run[r].job /\ n.token = run[r].token /\ n.next = run[r].next
    /\ n.done = run[r].done \/ n.done = {}

LEMMA StepGoes ==
    ASSUME Inv, NEW r \in Runs, run[r].pc # "idle", NEW p \in PlainSteps, Step(r, p)
    PROVE  /\ [run[r] EXCEPT !.pc = p] \in RunType /\ Going(r, p, [run[r] EXCEPT !.pc = p])
           /\ [run[r] EXCEPT !.pc = p].left = run[r].left /\ [run[r] EXCEPT !.pc = p].errs = run[r].errs
<1> DEFINE n == [run[r] EXCEPT !.pc = p]
<1>1. run[r] \in RunType /\ run \in [Runs -> RunType]
  BY WorkerFields DEF Inv, TypeInv, TypeOK
<1>2. /\ n \in RunType /\ n.pc = p /\ n.job = run[r].job /\ n.token = run[r].token /\ n.next = run[r].next
      /\ n.done = run[r].done /\ n.left = run[r].left /\ n.errs = run[r].errs
  BY <1>1 DEF RunType, PlainSteps
<1>3. run' = [run EXCEPT ![r] = n]
  BY DEF Step
<1> HIDE DEF n
<1>4. n \in RunType /\ Going(r, p, n) /\ n.left = run[r].left /\ n.errs = run[r].errs
  BY <1>2, <1>3 DEF Going
<1> QED BY <1>4 DEF n

LEMMA LeaveGoes ==
    ASSUME Inv, NEW r \in Runs, run[r].pc # "idle", NEW p \in PlainSteps, Leave(r, p)
    PROVE  LeftRun(r, p) \in RunType /\ Going(r, p, LeftRun(r, p))
<1>1. /\ LeftRun(r, p) \in RunType /\ run' = [run EXCEPT ![r] = LeftRun(r, p)]
      /\ LeftRun(r, p).pc = p /\ LeftRun(r, p).job = run[r].job /\ LeftRun(r, p).token = run[r].token
  BY LeaveMoves DEF Inv
<1>2. LeftRun(r, p).next = run[r].next /\ LeftRun(r, p).done = {}
  BY WorkerFields DEF Inv, LeftRun, RunType
<1> QED BY <1>1, <1>2 DEF Going

LEMMA GoGoes ==
    ASSUME Inv, NEW r \in Runs, run[r].pc # "idle", NEW p \in PlainSteps, Step(r, p) \/ Leave(r, p)
    PROVE  \E n \in RunType : Going(r, p, n)
  BY StepGoes, LeaveGoes

LEMMA GoingCarries ==
    ASSUME Inv, NEW r \in Runs, NEW p, NEW n, Going(r, p, n), RecordsGrow
    PROVE  Carries(n, kept')
  BY DEF Inv, DataInv, WorkProven, Carries, Going, RecordsGrow

LEMMA PlainMove ==
    ASSUME Inv, NEW r \in Runs, run[r].pc # "idle", NEW p \in PlainSteps, NEW n \in RunType, Going(r, p, n),
           NEW b \in JobType, job' = [job EXCEPT ![run[r].job] = b], Lawful(job[run[r].job], b),
           p \in {"cleanup", "finish"} => b.status \notin Live,
           BindsFirst(r, n),
           RunProven(n, kept', waived', ledger'.status),
           ClaimsSurvive(r, n), LedgerGrows,
           UNCHANGED <<lock, epoch, task, upload, poll, wal, kept, waived>>
    PROVE  DataInv' /\ FenceInv'
<1>1. RecordsGrow
  BY RecordsKept
<1>2. Carries(n, kept')
  BY <1>1, GoingCarries
<1>3. run' = [run EXCEPT ![r] = n] /\ n.pc = p /\ n.job = run[r].job /\ n.token = run[r].token
  BY DEF Going
<1>4. \A j \in Jobs : lock'[j] \in {lock[j], NoToken}
  OBVIOUS
<1>5. \A j \in Jobs : epoch'[j] = epoch[j] \/ job[j].status \notin Live
  OBVIOUS
<1>6. \A j \in Jobs : task'[j].pending => task[j].pending
  OBVIOUS
<1> QED BY <1>1, <1>2, <1>3, <1>4, <1>5, <1>6, RunMoves

LEMMA EndMove ==
    ASSUME Inv, NEW r \in Runs, run[r].pc # "idle", End(r),
           NEW b \in JobType, job' = [job EXCEPT ![run[r].job] = b], Lawful(job[run[r].job], b),
           UNCHANGED lock \/ Unlock(r),
           \A j \in Jobs : epoch'[j] = epoch[j] \/ job[j].status \notin Live,
           \A j \in Jobs : task'[j].pending => task[j].pending,
           UNCHANGED <<ledger, upload, poll, wal, kept, waived>>
    PROVE  DataInv' /\ FenceInv'
<1>1. run[r].job \in Jobs /\ lock \in [Jobs -> Token] /\ kept \subseteq Segments
  BY WorkerFields DEF Inv, TypeInv, TypeOK
<1>2. /\ IdleRun \in RunType /\ IdleRun.pc = "idle" /\ run' = [run EXCEPT ![r] = IdleRun]
      /\ Carries(IdleRun, kept')
  BY ConstantsTyped DEF End, IdleRun, Carries
<1>3. \A j \in Jobs : lock'[j] \in {lock[j], NoToken}
  BY <1>1 DEF Unlock
<1>4. RunProven(IdleRun, kept', waived', ledger'.status)
  BY <1>2 DEF RunProven
<1>5. BindsFirst(r, IdleRun) /\ IdleRun.pc \notin {"cleanup", "finish"}
  BY <1>2 DEF Works, BoundSteps, BindsFirst
<1>6. RecordsGrow
  BY RecordsKept
<1>7. ClaimsSurvive(r, IdleRun) /\ LedgerGrows
  BY <1>6, LedgerUnchanged
<1> QED BY <1>2, <1>3, <1>4, <1>5, <1>6, <1>7, RunMoves

\* A worker that only goes to another step, and records nothing.
LEMMA QuietStep ==
    ASSUME Inv, NEW r \in Runs, run[r].pc # "idle",
           NEW p \in {"lock", "raised", "superseded", "lost"}, Step(r, p) \/ Leave(r, p),
           UNCHANGED <<job, lock, epoch, ledger, task, upload, poll, wal, kept, waived>>
    PROVE  DataInv' /\ FenceInv'
<1> DEFINE b == job[run[r].job]
<1>1. p \in PlainSteps /\ p \notin BoundSteps /\ p \notin {"cleanup", "finish"}
  BY DEF PlainSteps, BoundSteps
<1>2. PICK n \in RunType : Going(r, p, n)
  BY <1>1, GoGoes
<1>3. b \in JobType /\ Lawful(b, b) /\ job' = [job EXCEPT ![run[r].job] = b]
  BY RunningJob, LawfulWrites
<1>4. RunProven(n, kept', waived', ledger'.status) /\ BindsFirst(r, n)
  BY <1>1, <1>2 DEF Going, RunProven, BindsFirst, Works
<1>5. ClaimsSurvive(r, n) /\ LedgerGrows
  BY RecordsKept, LedgerUnchanged
<1> QED BY <1>1, <1>2, <1>3, <1>4, <1>5, PlainMove

LEMMA QuietEnd ==
    ASSUME Inv, NEW r \in Runs, run[r].pc # "idle", End(r), UNCHANGED lock \/ Unlock(r),
           UNCHANGED <<job, epoch, ledger, task, upload, poll, wal, kept, waived>>
    PROVE  DataInv' /\ FenceInv'
<1> DEFINE b == job[run[r].job]
<1>1. b \in JobType /\ Lawful(b, b) /\ job' = [job EXCEPT ![run[r].job] = b]
  BY RunningJob, LawfulWrites
<1> QED BY <1>1, EndMove

-----------------------------------------------------------------------------
(* The steps of a worker                                                    *)

LEMMA WorkEndsInv ==
    ASSUME Inv, NEW r \in Runs, WorkEnds(r)
    PROVE  DataInv' /\ FenceInv'
<1>1. run[r].pc = "work" /\ UNCHANGED <<job, lock, epoch, ledger, task, upload, poll, wal, kept, waived, faults>>
  BY DEF WorkEnds
<1>2. CASE Superseded(r) \/ Raises(r)
  <2>1. Leave(r, "raised") \/ Leave(r, "superseded")
    BY <1>2 DEF Superseded, Raises
  <2> QED BY <1>1, <2>1, QuietStep
<1>3. CASE run[r].left = {} /\ Step(r, "tail")
  <2> DEFINE n == [run[r] EXCEPT !.pc = "tail"]
             b == job[run[r].job]
  <2>1. b \in JobType /\ Lawful(b, b) /\ job' = [job EXCEPT ![run[r].job] = b]
    BY <1>1, RunningJob, LawfulWrites
  <2>2. "tail" \in PlainSteps
    BY DEF PlainSteps
  <2>3. n \in RunType /\ Going(r, "tail", n) /\ n.left = run[r].left /\ n.errs = run[r].errs
    BY <1>1, <1>3, <2>2, StepGoes
  <2> HIDE DEF n
  <2>4. RunProven(run[r], kept, waived, ledger.status)
    BY DEF Inv, DataInv, WorkProven
  <2>5. RunProven(n, kept', waived', ledger'.status)
    BY <1>1, <1>3, <2>3, <2>4 DEF Going, RunProven
  <2>6. ClaimsSurvive(r, n) /\ LedgerGrows
    BY <1>1, RecordsKept, LedgerUnchanged
  <2>7. BindsFirst(r, n)
    BY <1>1 DEF Works, BoundSteps, BindsFirst
  <2> QED BY <1>1, <2>1, <2>2, <2>3, <2>5, <2>6, <2>7, PlainMove
<1> QED BY <1>2, <1>3 DEF WorkEnds

\* A worker that writes its job, leaves the ledger alone and does not bind.
LEMMA WritingStep ==
    ASSUME Inv, NEW r \in Runs, run[r].pc # "idle", NEW p \in {"lock", "cleanup", "finish"},
           Step(r, p) \/ Leave(r, p),
           NEW b \in JobType, job' = [job EXCEPT ![run[r].job] = b], Lawful(job[run[r].job], b),
           b.status \notin Live,
           UNCHANGED <<lock, epoch, ledger, task, upload, poll, wal, kept, waived>>
    PROVE  DataInv' /\ FenceInv'
<1>1. p \in PlainSteps /\ p \notin BoundSteps
  BY DEF PlainSteps, BoundSteps
<1>2. PICK n \in RunType : Going(r, p, n)
  BY <1>1, GoGoes
<1>3. RunProven(n, kept', waived', ledger'.status) /\ BindsFirst(r, n)
  BY <1>1, <1>2 DEF Going, RunProven, BindsFirst, Works
<1>4. ClaimsSurvive(r, n) /\ LedgerGrows
  BY RecordsKept, LedgerUnchanged
<1> QED BY <1>1, <1>2, <1>3, <1>4, PlainMove

LEMMA RunHealsInv ==
    ASSUME Inv, NEW r \in Runs, RunHeals(r)
    PROVE  DataInv' /\ FenceInv'
<1> DEFINE j == run[r].job
           b == Healed(job[j])
<1>1. run[r].pc = "heal" /\ job' = [job EXCEPT ![j] = b]
      /\ UNCHANGED <<epoch, ledger, task, upload, poll, wal, kept, waived>>
  BY DEF RunHeals
<1>2. /\ j \in Jobs /\ job[j] \in JobType /\ job[j].status # "unused"
      /\ run[r].next \in {"lock", "cleanup", "nack"}
  BY <1>1, RunningJob, WorkerFields DEF Inv, WellFormed
<1>3. b \in JobType /\ Lawful(job[j], b)
  BY <1>2, BlobWrites, LawfulWrites
<1>4. b.status \notin Live
  BY <1>2 DEF Healed, JobType, Live
<1> HIDE DEF b
<1>5. CASE run[r].next = "nack"
  <2>1. End(r) /\ Unlock(r)
    BY <1>5 DEF RunHeals
  <2> QED BY <1>1, <1>3, <2>1, EndMove
<1>6. CASE run[r].next # "nack"
  <2>1. Step(r, run[r].next) /\ UNCHANGED lock
    BY <1>6 DEF RunHeals
  <2>2. run[r].next \in {"lock", "cleanup", "finish"}
    BY <1>2, <1>6
  <2> QED BY <1>1, <1>3, <1>4, <2>1, <2>2, WritingStep
<1> QED BY <1>5, <1>6


LEMMA ConvergeInv ==
    ASSUME Inv, NEW r \in Runs, Converge(r)
    PROVE  DataInv' /\ FenceInv'
<1> DEFINE j == run[r].job
           b == Written(job[j], "completed")
<1>1. run[r].pc = "converge" /\ UNCHANGED <<lock, epoch, ledger, task, upload, poll, wal, kept, waived>>
  BY DEF Converge
<1>2. j \in Jobs /\ job[j] \in JobType /\ job[j].status # "unused"
  BY <1>1, RunningJob
<1>3. ledger.status = "completed"
  BY <1>1 DEF Inv, DataInv, WorkProven, RunProven
<1>4. b \in JobType /\ Lawful(job[j], b)
  BY <1>2, <1>3, BlobWrites, LawfulWrites DEF Terminal
<1>5. b.status \notin Live
  BY <1>2 DEF Written, JobType, Live
<1> HIDE DEF b
<1>6. CASE job' = [job EXCEPT ![j] = b] /\ Step(r, "finish")
  BY <1>1, <1>4, <1>5, <1>6, WritingStep
<1>7. CASE Step(r, "lost") /\ UNCHANGED job
  BY <1>1, <1>7, QuietStep
<1> QED BY <1>6, <1>7 DEF Converge, b

\* A worker that is about to fail its job, for the budget only with its claim.
LEMMA RejectingStep ==
    ASSUME Inv, NEW r \in Runs, run[r].pc # "idle", NEW reason \in {"reject", "budget", "fail"},
           Reject(r, reason), reason = "budget" => run[r].pc \in BoundSteps /\ "budget" \in Outcomes,
           NEW b \in JobType, job' = [job EXCEPT ![run[r].job] = b], Lawful(job[run[r].job], b),
           UNCHANGED <<lock, epoch, ledger, task, upload, poll, wal, kept, waived>>
    PROVE  DataInv' /\ FenceInv'
<1> DEFINE n == RejectedRun(r, reason)
<1>1. /\ run' = [run EXCEPT ![r] = n] /\ n \in RunType /\ n.pc = "fail" /\ n.next = reason
      /\ n.job = run[r].job /\ n.token = run[r].token
  BY RejectMoves DEF Inv
<1>2. n.done = run[r].done
  BY WorkerFields DEF Inv, RejectedRun, RunType
<1> HIDE DEF n
<1>3. RunProven(n, kept', waived', ledger'.status) /\ BindsFirst(r, n) /\ n.pc \notin {"cleanup", "finish"}
  BY <1>1 DEF RunProven, BindsFirst, Works, BoundSteps
<1>4. Carries(n, kept')
  BY <1>1, <1>2 DEF Inv, DataInv, WorkProven, Carries
<1>5. RecordsGrow
  BY RecordsKept
<1>6. ClaimsSurvive(r, n) /\ LedgerGrows
  BY <1>5, LedgerUnchanged
<1>7. \A j \in Jobs : lock'[j] \in {lock[j], NoToken}
  OBVIOUS
<1>8. \A j \in Jobs : epoch'[j] = epoch[j] \/ job[j].status \notin Live
  OBVIOUS
<1>9. \A j \in Jobs : task'[j].pending => task[j].pending
  OBVIOUS
<1> QED BY <1>1, <1>3, <1>4, <1>5, <1>6, <1>7, <1>8, <1>9, RunMoves

LEMMA StartInv ==
    ASSUME Inv, NEW r \in Runs, Start(r)
    PROVE  DataInv' /\ FenceInv'
<1> DEFINE j == run[r].job
           b == [Written(job[j], "processing") EXCEPT !.started = TRUE]
           n == StartedRun(r)
<1>1. run[r].pc = "start" /\ UNCHANGED <<lock, epoch, ledger, task, upload, poll, wal, kept, waived, faults>>
  BY DEF Start
<1>2. j \in Jobs /\ job[j] \in JobType /\ job[j].status # "unused"
  BY <1>1, RunningJob
<1>3. job[j].status \in Live => b \in JobType /\ Lawful(job[j], b)
  BY <1>2, BlobWrites, LawfulWrites DEF Live
<1> HIDE DEF b
<1>4. CASE /\ MayWrite(r, Live)
           /\ job' = [job EXCEPT ![j] = b]
           /\ run' = [run EXCEPT ![r].pc = "work", ![r].left = Segments \ ledger.segs]
  <2>1. b \in JobType /\ Lawful(job[j], b)
    BY <1>3, <1>4 DEF MayWrite
  <2>2. run' = [run EXCEPT ![r] = n] /\ n \in RunType
    BY <1>1, <1>4, StartMoves DEF Inv
  <2>3. /\ n.pc = "work" /\ n.left = Segments \ ledger.segs /\ n.job = j /\ n.token = run[r].token
        /\ n.done = run[r].done /\ n.next = run[r].next
    BY <1>1, WorkerFields DEF Inv, StartedRun, RunType
  <2> HIDE DEF n
  <2>4. ledger.segs \subseteq kept
    BY DEF Inv, DataInv, LedgerSound
  <2>5. RunProven(n, kept', waived', ledger'.status)
    BY <1>1, <2>3, <2>4 DEF RunProven
  <2>6. n.pc \notin {"cleanup", "finish"} /\ BindsFirst(r, n)
    BY <1>1, <2>3 DEF Works, BoundSteps, BindsFirst
  <2>7. RecordsGrow
    BY <1>1, RecordsKept
  <2>8. ClaimsSurvive(r, n) /\ LedgerGrows
    BY <1>1, <2>7, LedgerUnchanged
  <2>9. Carries(n, kept')
    BY <1>1, <2>3 DEF Inv, DataInv, WorkProven, Carries
  <2> QED BY <1>1, <1>4, <2>1, <2>2, <2>3, <2>5, <2>6, <2>7, <2>8, <2>9, RunMoves
<1>5. CASE Reject(r, "fail") /\ UNCHANGED job
  <2> DEFINE c == job[j]
  <2>1. c \in JobType /\ Lawful(c, c) /\ job' = [job EXCEPT ![j] = c]
    BY <1>1, <1>5, RunningJob, LawfulWrites
  <2> QED BY <1>1, <1>5, <2>1, RejectingStep
<1>6. CASE MayWrite(r, Live) /\ Reject(r, "reject") /\ job' = [job EXCEPT ![j] = b]
  <2>1. b \in JobType /\ Lawful(job[j], b)
    BY <1>3, <1>6 DEF MayWrite
  <2> QED BY <1>1, <1>6, <2>1, RejectingStep
<1>7. CASE MayWrite(r, Live) /\ "budget" \in Outcomes /\ Reject(r, "budget") /\ job' = [job EXCEPT ![j] = b]
  <2>1. b \in JobType /\ Lawful(job[j], b)
    BY <1>3, <1>7 DEF MayWrite
  <2>2. run[r].pc \in BoundSteps
    BY <1>1 DEF BoundSteps
  <2> QED BY <1>1, <1>7, <2>1, <2>2, RejectingStep
<1>8. CASE Step(r, "lost") /\ UNCHANGED job
  BY <1>1, <1>8, QuietStep
<1> QED BY <1>4, <1>5, <1>6, <1>7, <1>8 DEF Start, b

LEMMA TranscribeInv ==
    ASSUME Inv, NEW r \in Runs, NEW s \in Segments, Transcribe(r, s)
    PROVE  DataInv' /\ FenceInv'
<1>1. run[r].pc = "work" /\ UNCHANGED <<job, lock, epoch, ledger, task, upload, poll, wal, faults>>
  BY DEF Transcribe
<1>2. PICK e, d \in SUBSET Segments :
        run' = [run EXCEPT ![r] = MarkingRun(r, s, e, d)] /\ SegmentEnds(r, s, e, d)
  BY TranscribeMoves DEF Inv
<1> DEFINE n == MarkingRun(r, s, e, d)
           b == job[run[r].job]
           l == run[r].left \ {s}
<1>3. run[r] \in RunType /\ l \in SUBSET Segments /\ n = [run[r] EXCEPT !.pc = "mark", !.left = l, !.errs = e, !.done = d]
  BY <1>1, WorkerFields DEF Inv, MarkingRun
<1> HIDE DEF l
<1>4. /\ n \in RunType /\ n.pc = "mark" /\ n.left = l /\ n.errs = e /\ n.done = d
      /\ n.job = run[r].job /\ n.token = run[r].token /\ n.next = run[r].next
  <2> HIDE DEF n
  <2> QED BY <1>3 DEF RunType
<1>5. run' = [run EXCEPT ![r] = n]
  BY <1>2
<1> HIDE DEF n
<1>6. RecordsGrow
  BY <1>2 DEF Inv, TypeInv, TypeOK, SegmentEnds, RecordsGrow
<1>7. /\ FailuresLand => Segments \ (run[r].left \union run[r].errs) \subseteq kept \union waived
      /\ run[r].done \subseteq kept /\ (run[r].next = "budget" => "budget" \in Outcomes)
  BY <1>1 DEF Inv, DataInv, WorkProven, RunProven, Carries
<1>8. RunProven(n, kept', waived', ledger'.status)
  BY <1>2, <1>4, <1>7 DEF RunProven, SegmentEnds, l
<1>9. Carries(n, kept')
  BY <1>2, <1>4, <1>7 DEF Carries, SegmentEnds
<1>10. n.pc \notin {"cleanup", "finish"} /\ BindsFirst(r, n)
  BY <1>1, <1>4 DEF Works, BoundSteps, BindsFirst
<1>11. ClaimsSurvive(r, n) /\ LedgerGrows
  BY <1>1, <1>6, LedgerUnchanged
<1>12. b \in JobType /\ Lawful(b, b) /\ job' = [job EXCEPT ![run[r].job] = b]
  BY <1>1, RunningJob, LawfulWrites
<1> QED BY <1>1, <1>4, <1>5, <1>6, <1>8, <1>9, <1>10, <1>11, <1>12, RunMoves

LEMMA MarkInv ==
    ASSUME Inv, NEW r \in Runs, Mark(r)
    PROVE  DataInv' /\ FenceInv'
<1> DEFINE j == run[r].job
<1>1. run[r].pc = "mark" /\ UNCHANGED <<lock, epoch, task, upload, poll, wal, kept, waived, faults>>
  BY DEF Mark
<1>2. j \in Jobs /\ job[j] \in JobType /\ job[j].status # "unused" /\ job \in [Jobs -> JobType]
  BY <1>1, RunningJob DEF Inv, TypeInv, TypeOK
<1>3. PICK b \in JobType : Lawful(job[j], b) /\ job' = [job EXCEPT ![j] = b]
  <2>1. CASE job' = job
    BY <1>1, <1>2, <2>1, RunningJob, LawfulWrites
  <2>2. CASE job' = [job EXCEPT ![j].silent = FALSE]
    <3> DEFINE c == [job[j] EXCEPT !.silent = FALSE]
    <3>1. c \in JobType /\ Lawful(job[j], c)
      BY <1>2, BlobWrites, LawfulWrites
    <3>2. job' = [job EXCEPT ![j] = c]
      BY <1>2, <2>2
    <3> QED BY <3>1, <3>2
  <2> QED BY <2>1, <2>2 DEF Mark
<1>4. /\ ledger \in LedgerType /\ ledger.segs \subseteq kept
      /\ FailuresLand /\ ledger.status = "completed" => Accounted
  BY DEF Inv, TypeInv, TypeOK, DataInv, LedgerSound
<1>5. /\ FailuresLand => Segments \ (run[r].left \union run[r].errs) \subseteq kept \union waived
      /\ run[r].done \subseteq kept /\ (run[r].next = "budget" => "budget" \in Outcomes)
  BY <1>1 DEF Inv, DataInv, WorkProven, RunProven, Carries
<1>6. CASE UNCHANGED ledger /\ Leave(r, "lost")
  <2>1. "lost" \in PlainSteps /\ "lost" \notin BoundSteps /\ "lost" \notin {"cleanup", "finish"}
    BY DEF PlainSteps, BoundSteps
  <2>2. PICK n \in RunType : Going(r, "lost", n)
    BY <1>1, <1>6, <2>1, GoGoes
  <2>3. RunProven(n, kept', waived', ledger'.status) /\ BindsFirst(r, n)
    BY <2>1, <2>2 DEF Going, RunProven, BindsFirst, Works
  <2>4. ClaimsSurvive(r, n) /\ LedgerGrows
    BY <1>1, <1>6, RecordsKept, LedgerUnchanged
  <2> QED BY <1>1, <1>3, <2>1, <2>2, <2>3, <2>4, PlainMove
<1>7. CASE /\ run' = [run EXCEPT ![r].pc = "work", ![r].done = {}]
           /\ \/ UNCHANGED ledger
              \/ ledger' = [ledger EXCEPT !.segs = ledger.segs \union run[r].done, !.old = FALSE]
  <2> DEFINE n == MarkedRun(r)
  <2>1. /\ run' = [run EXCEPT ![r] = n] /\ n \in RunType /\ n.pc = "work" /\ n.job = run[r].job
        /\ n.token = run[r].token /\ n.left = run[r].left /\ n.errs = run[r].errs /\ n.done = {}
    BY <1>1, <1>7, MarkedMoves DEF Inv
  <2>2. n.next = run[r].next
    BY <1>1, WorkerFields DEF Inv, MarkedRun, RunType
  <2> HIDE DEF n
  <2>3. "work" \in PlainSteps /\ BindsFirst(r, n) /\ Going(r, "work", n)
    BY <1>1, <2>1, <2>2 DEF PlainSteps, Works, BoundSteps, BindsFirst, Going
  <2>4. /\ ledger'.status = ledger.status /\ ledger'.job = ledger.job /\ ledger'.token = ledger.token
        /\ ledger'.segs \in {ledger.segs, ledger.segs \union run[r].done}
        /\ ledger'.old \in {ledger.old, FALSE}
    BY <1>4, <1>7 DEF LedgerType
  <2>5. Accounted' = Accounted
    BY <1>1 DEF Accounted
  <2>6. LedgerGrows
    BY <1>1, <1>4, <1>5, <2>4, <2>5 DEF LedgerGrows
  <2>7. ClaimsSurvive(r, n)
    BY <2>4 DEF ClaimsSurvive, Inv, FenceInv, Bound, LedgerOwner
  <2>8. RunProven(n, kept', waived', ledger'.status)
    BY <1>1, <1>5, <2>1 DEF RunProven
  <2> QED BY <1>1, <1>3, <2>1, <2>3, <2>6, <2>7, <2>8, PlainMove
<1> QED BY <1>6, <1>7 DEF Mark

\* Two bound workers never own the same claim.
LEMMA OneOwner ==
    ASSUME Inv, NEW q \in Runs, NEW r \in Runs, run[r].pc # "idle", BoundRun(q), LedgerOwner(r)
    PROVE  q = r
<1>1. LedgerOwner(q)
  BY DEF Inv, FenceInv, Bound
<1>2. ledger.job = run[q].job /\ ledger.job = run[r].job /\ Fenced(run[q].job)
  BY <1>1 DEF LedgerOwner, BoundRun
<1>3. ledger.token = run[q].token /\ ledger.token = run[r].token
  BY <1>1, <1>2 DEF LedgerOwner, RunToken
<1>4. run[q].token # NoToken
  BY DEF BoundRun, Holder
<1> QED BY <1>3, <1>4 DEF Inv, FenceInv, TokensOwn

LEMMA TailInv ==
    ASSUME Inv, NEW r \in Runs, Tail(r)
    PROVE  DataInv' /\ FenceInv'
<1> DEFINE b == job[run[r].job]
           n == [run[r] EXCEPT !.pc = "publish"]
<1>1. run[r].pc = "tail" /\ UNCHANGED <<job, lock, epoch, task, upload, poll, wal, kept, waived, faults>>
  BY DEF Tail
<1>2. b \in JobType /\ Lawful(b, b) /\ job' = [job EXCEPT ![run[r].job] = b]
  BY <1>1, RunningJob, LawfulWrites
<1>3. ledger \in LedgerType /\ ledger.segs \subseteq kept
  BY DEF Inv, TypeInv, TypeOK, DataInv, LedgerSound
<1>4. "publish" \in PlainSteps /\ "publish" \notin BoundSteps /\ "publish" \notin {"cleanup", "finish"}
  BY DEF PlainSteps, BoundSteps
<1>5. ASSUME Step(r, "publish")
      PROVE  /\ n \in RunType /\ Going(r, "publish", n) /\ n.errs = run[r].errs
             /\ n.pc = "publish" /\ ~Works(n) /\ BindsFirst(r, n)
  <2>1. n \in RunType /\ Going(r, "publish", n) /\ n.errs = run[r].errs
    BY <1>1, <1>4, <1>5, StepGoes
  <2> HIDE DEF n
  <2>2. n.pc = "publish" /\ ~Works(n)
    BY <1>4, <2>1 DEF Going, Works
  <2> QED BY <2>1, <2>2 DEF BindsFirst
<1> HIDE DEF n
<1>6. CASE UNCHANGED ledger /\ (Superseded(r) \/ Raises(r) \/ Leave(r, "lost"))
  <2>1. Leave(r, "raised") \/ Leave(r, "superseded") \/ Leave(r, "lost")
    BY <1>6 DEF Superseded, Raises
  <2> QED BY <1>1, <1>6, <2>1, QuietStep
<1>7. CASE run[r].errs # {} /\ Step(r, "publish") /\ UNCHANGED ledger
  <2>1. RunProven(n, kept', waived', ledger'.status)
    BY <1>5, <1>7 DEF RunProven
  <2>2. ClaimsSurvive(r, n) /\ LedgerGrows
    BY <1>1, <1>7, RecordsKept, LedgerUnchanged
  <2> QED BY <1>1, <1>2, <1>4, <1>5, <1>7, <2>1, <2>2, PlainMove
<1>8. CASE /\ run[r].errs = {} /\ LedgerOwner(r)
           /\ ledger' = [ledger EXCEPT !.status = "completed"]
           /\ Step(r, "publish")
  <2>1. FailuresLand => kept \union waived = Segments
    BY <1>1, <1>8 DEF Inv, DataInv, WorkProven, RunProven, TypeInv, TypeOK
  <2>2. ledger'.status = "completed" /\ ledger'.segs = ledger.segs
    BY <1>3, <1>8 DEF LedgerType
  <2>3. LedgerGrows
    BY <1>1, <1>3, <2>1, <2>2 DEF LedgerGrows, Accounted
  <2>4. RunProven(n, kept', waived', ledger'.status)
    BY <1>5, <1>8, <2>2 DEF RunProven
  <2>5. ClaimsSurvive(r, n)
    BY <1>1, <1>5, <1>8, OneOwner DEF ClaimsSurvive
  <2> QED BY <1>1, <1>2, <1>4, <1>5, <1>8, <2>3, <2>4, <2>5, PlainMove
<1> QED BY <1>6, <1>7, <1>8 DEF Tail

LEMMA PublishInv ==
    ASSUME Inv, NEW r \in Runs, Publish(r)
    PROVE  DataInv' /\ FenceInv'
<1> DEFINE j == run[r].job
           b == Written(job[j], FinalStatus(run[r].errs))
<1>1. run[r].pc = "publish" /\ UNCHANGED <<lock, epoch, ledger, task, upload, poll, wal, kept, waived>>
  BY DEF Publish
<1>2. j \in Jobs /\ job[j] \in JobType /\ job[j].status # "unused"
  BY <1>1, RunningJob
<1>3. run[r].errs = {} => ledger.status = "completed"
  BY <1>1 DEF Inv, DataInv, WorkProven, RunProven
<1>4. b \in JobType /\ Lawful(job[j], b)
  BY <1>2, <1>3, BlobWrites, LawfulWrites DEF Terminal, FinalStatus
<1>5. b.status \notin Live
  BY <1>2 DEF Written, JobType, Live, FinalStatus
<1> HIDE DEF b
<1>6. CASE job' = [job EXCEPT ![j] = b] /\ (Leave(r, "finish") \/ Leave(r, "cleanup"))
  BY <1>1, <1>4, <1>5, <1>6, WritingStep
<1>7. CASE (Leave(r, "lost") \/ Leave(r, "raised")) /\ UNCHANGED job
  BY <1>1, <1>7, QuietStep
<1> QED BY <1>6, <1>7 DEF Publish, b

\* A worker that will heal its job and then answer with an error.
LEMMA NackingStep ==
    ASSUME Inv, NEW r \in Runs, run[r].pc # "idle",
           run' = [run EXCEPT ![r].pc = "heal", ![r].next = "nack"],
           UNCHANGED <<job, lock, epoch, ledger, task, upload, poll, wal, kept, waived>>
    PROVE  DataInv' /\ FenceInv'
<1> DEFINE n == [run[r] EXCEPT !.pc = "heal", !.next = "nack"]
           b == job[run[r].job]
<1>1. run[r] \in RunType /\ run \in [Runs -> RunType] /\ kept \subseteq Segments
  BY WorkerFields DEF Inv, TypeInv, TypeOK
<1>2. n \in RunType /\ n.pc = "heal" /\ n.job = run[r].job /\ n.token = run[r].token
      /\ n.done = run[r].done /\ n.next = "nack"
  BY <1>1 DEF RunType
<1>3. run' = [run EXCEPT ![r] = n]
  BY <1>1
<1>4. b \in JobType /\ Lawful(b, b) /\ job' = [job EXCEPT ![run[r].job] = b]
  BY RunningJob, LawfulWrites
<1> HIDE DEF n
<1>5. RunProven(n, kept', waived', ledger'.status) /\ BindsFirst(r, n) /\ n.pc \notin {"cleanup", "finish"}
  BY <1>2 DEF RunProven, Works, BoundSteps, BindsFirst
<1>6. RecordsGrow
  BY RecordsKept
<1>7. ClaimsSurvive(r, n) /\ LedgerGrows
  BY <1>6, LedgerUnchanged
<1>8. Carries(n, kept')
  BY <1>2 DEF Inv, DataInv, WorkProven, Carries
<1> QED BY <1>2, <1>3, <1>4, <1>5, <1>6, <1>7, <1>8, RunMoves

LEMMA RaisedInv ==
    ASSUME Inv, NEW r \in Runs, Raised(r)
    PROVE  DataInv' /\ FenceInv'
<1> DEFINE j == run[r].job
           b == [Written(job[j], "queued") EXCEPT !.started = TRUE]
<1>1. run[r].pc = "raised" /\ UNCHANGED <<epoch, ledger, task, upload, poll, wal, kept, waived, faults>>
  BY DEF Raised
<1>2. j \in Jobs /\ job[j] \in JobType /\ job[j].status # "unused"
  BY <1>1, RunningJob
<1>3. CASE run' = [run EXCEPT ![r].pc = "heal", ![r].next = "nack"] /\ UNCHANGED <<job, lock>>
  BY <1>1, <1>3, NackingStep
<1>4. CASE End(r) /\ Unlock(r) /\ UNCHANGED job
  BY <1>1, <1>4, QuietEnd
<1>5. CASE /\ run' = [run EXCEPT ![r].pc = IF run[r].last /\ Fenced(j) THEN "bind" ELSE "fail", ![r].next = "fail"]
           /\ UNCHANGED <<job, lock>>
  <2> DEFINE n == GivingUpRun(r)
             c == job[j]
  <2>1. /\ run' = [run EXCEPT ![r] = n] /\ n \in RunType /\ n.pc \in {"bind", "fail"}
        /\ n.job = run[r].job /\ n.token = run[r].token
    BY <1>1, <1>5, GivingUpMoves DEF Inv
  <2>2. n.next = "fail" /\ n.done = run[r].done
    BY <1>1, WorkerFields DEF Inv, GivingUpRun, RunType
  <2> HIDE DEF n
  <2>3. Carries(n, kept')
    BY <1>1, <2>2 DEF Inv, DataInv, WorkProven, Carries
  <2>4. RunProven(n, kept', waived', ledger'.status) /\ BindsFirst(r, n) /\ n.pc \notin {"cleanup", "finish"}
    BY <2>1, <2>2 DEF RunProven, Works, BoundSteps, BindsFirst
  <2>5. c \in JobType /\ Lawful(c, c) /\ job' = [job EXCEPT ![run[r].job] = c]
    BY <1>1, <1>5, RunningJob, LawfulWrites
  <2>6. RecordsGrow
    BY <1>1, RecordsKept
  <2>7. ClaimsSurvive(r, n) /\ LedgerGrows
    BY <1>1, <2>6, LedgerUnchanged
  <2> QED BY <1>1, <1>5, <2>1, <2>4, <2>5, <2>6, <2>7, <2>3, RunMoves
<1>6. CASE job[j].status \in Live /\ job' = [job EXCEPT ![j] = b] /\ End(r) /\ Unlock(r)
  <2>1. b \in JobType /\ Lawful(job[j], b)
    BY <1>2, <1>6, BlobWrites, LawfulWrites DEF Live
  <2> HIDE DEF b
  <2> QED BY <1>1, <1>6, <2>1, EndMove
<1>7. CASE Step(r, "lost") /\ UNCHANGED <<job, lock>>
  BY <1>1, <1>7, QuietStep
<1> QED BY <1>3, <1>4, <1>5, <1>6, <1>7 DEF Raised

LEMMA RaisedInlineInv ==
    ASSUME Inv, NEW r \in Runs, RaisedInline(r)
    PROVE  DataInv' /\ FenceInv'
<1> DEFINE b == job[run[r].job]
<1>1. /\ run[r].pc = "raised" /\ Reject(r, "fail")
      /\ UNCHANGED <<job, lock, epoch, ledger, task, upload, poll, wal, kept, waived, faults>>
  BY DEF RaisedInline
<1>2. b \in JobType /\ Lawful(b, b) /\ job' = [job EXCEPT ![run[r].job] = b]
  BY <1>1, RunningJob, LawfulWrites
<1> QED BY <1>1, <1>2, RejectingStep

LEMMA FailInv ==
    ASSUME Inv, NEW r \in Runs, Fail(r)
    PROVE  DataInv' /\ FenceInv'
<1> DEFINE j == run[r].job
           b == Written(job[j], "failed")
<1>1. run[r].pc = "fail" /\ UNCHANGED <<epoch, ledger, task, upload, poll, wal, kept, waived>>
  BY DEF Fail
<1>2. j \in Jobs /\ job[j] \in JobType /\ job[j].status # "unused"
  BY <1>1, RunningJob
<1>3. b \in JobType /\ Lawful(job[j], b)
  BY <1>2, BlobWrites, LawfulWrites DEF Terminal
<1>4. b.status \notin Live
  BY <1>2 DEF Written, JobType, Live
<1> HIDE DEF b
<1>5. CASE job' = [job EXCEPT ![j] = b] /\ Step(r, "cleanup") /\ UNCHANGED lock
  BY <1>1, <1>3, <1>4, <1>5, WritingStep
<1>6. CASE (Step(r, "lost") \/ Step(r, "raised")) /\ UNCHANGED <<job, lock>>
  BY <1>1, <1>6, QuietStep
<1>7. CASE Fault("store") /\ run[r].next = "budget" /\ Step(r, "mark") /\ UNCHANGED <<job, lock>>
  <2> DEFINE n == [run[r] EXCEPT !.pc = "mark"]
             c == job[j]
  <2>1. c \in JobType /\ Lawful(c, c) /\ job' = [job EXCEPT ![j] = c]
    BY <1>1, <1>7, RunningJob, LawfulWrites
  <2>2. "mark" \in PlainSteps /\ "mark" \notin {"cleanup", "finish"}
    BY DEF PlainSteps
  <2>3. n \in RunType /\ Going(r, "mark", n)
    BY <1>1, <1>7, <2>2, StepGoes
  <2> HIDE DEF n
  <2>4. ~FailuresLand
    BY <1>7 DEF Fault, FailuresLand, Inv, DataInv, WorkProven, Carries
  <2>5. RunProven(n, kept', waived', ledger'.status)
    BY <2>3, <2>4 DEF Going, RunProven
  <2>6. BindsFirst(r, n)
    BY <1>1, <1>7 DEF BindsFirst, Works
  <2>7. ClaimsSurvive(r, n) /\ LedgerGrows
    BY <1>1, RecordsKept, LedgerUnchanged
  <2> QED BY <1>1, <1>7, <2>1, <2>2, <2>3, <2>5, <2>6, <2>7, PlainMove
<1>8. CASE End(r) /\ (UNCHANGED lock \/ Unlock(r)) /\ UNCHANGED job
  BY <1>1, <1>8, QuietEnd
<1> QED BY <1>5, <1>6, <1>7, <1>8 DEF Fail, b

LEMMA SupersedeInv ==
    ASSUME Inv, NEW r \in Runs, Supersede(r)
    PROVE  DataInv' /\ FenceInv'
<1> DEFINE j == run[r].job
           b == [Written(job[j], "completed") EXCEPT !.superseded = TRUE]
<1>1. run[r].pc = "superseded" /\ UNCHANGED <<lock, epoch, ledger, task, upload, poll, wal, kept, waived, faults>>
  BY DEF Supersede
<1>2. j \in Jobs /\ job[j] \in JobType /\ job[j].status # "unused"
  BY <1>1, RunningJob
<1>3. CASE run' = [run EXCEPT ![r].pc = "heal", ![r].next = "nack"] /\ UNCHANGED job
  BY <1>1, <1>3, NackingStep
<1>4. CASE job' = [job EXCEPT ![j] = b] /\ run' = [run EXCEPT ![r].pc = "cleanup", ![r].next = "keep"]
  <2> DEFINE n == KeepingRun(r)
  <2>1. run' = [run EXCEPT ![r] = n] /\ n \in RunType
    BY <1>1, <1>4, KeepingMoves DEF Inv
  <2>2. n.pc = "cleanup" /\ n.job = j /\ n.token = run[r].token /\ n.done = run[r].done /\ n.next = "keep"
    BY <1>1, WorkerFields DEF Inv, KeepingRun, RunType
  <2>3. b \in JobType /\ Lawful(job[j], b)
    BY <1>2, BlobWrites, LawfulWrites DEF Terminal
  <2>4. b.status \notin Live
    BY <1>2 DEF Written, JobType, Live
  <2> HIDE DEF n, b
  <2>5. RunProven(n, kept', waived', ledger'.status) /\ BindsFirst(r, n)
    BY <2>2 DEF RunProven, Works, BoundSteps, BindsFirst
  <2>6. RecordsGrow
    BY <1>1, RecordsKept
  <2>7. ClaimsSurvive(r, n) /\ LedgerGrows
    BY <1>1, <2>6, LedgerUnchanged
  <2>8. Carries(n, kept')
    BY <1>1, <2>2 DEF Inv, DataInv, WorkProven, Carries
  <2> QED BY <1>1, <1>4, <2>1, <2>2, <2>3, <2>4, <2>5, <2>6, <2>7, <2>8, RunMoves
<1>5. CASE Step(r, "lost") /\ UNCHANGED job
  BY <1>1, <1>5, QuietStep
<1> QED BY <1>3, <1>4, <1>5 DEF Supersede

\* Releasing the claim of a job none of whose workers is bound disturbs nobody.
LEMMA ReleaseHarmless ==
    ASSUME Inv, NEW j \in Jobs, ledger' \in {ledger, ReleasedBy(j), ReleasedUnbound(j)}, UNCHANGED <<kept, waived>>,
           \A q \in Runs : BoundRun(q) => run[q].job # j
    PROVE  /\ \A q \in Runs : BoundRun(q) => ledger' = ledger
           /\ LedgerGrows
<1>1. /\ ledger \in LedgerType /\ ledger.segs \subseteq kept
      /\ FailuresLand /\ ledger.status = "completed" => Accounted
      /\ Accounted' = Accounted
  BY DEF Inv, Accounted, TypeInv, TypeOK, DataInv, LedgerSound
<1>2. \A q \in Runs : BoundRun(q) => ledger.job # j
  BY DEF Inv, FenceInv, Bound, LedgerOwner
<1>3. \A q \in Runs : BoundRun(q) => ledger' = ledger
  BY <1>2 DEF ReleasedBy, ReleasedUnbound
<1>4. ledger' = ledger \/ (ledger.status = "processing" /\ ledger'.status = "retryable" /\ ledger'.segs = ledger.segs)
  BY <1>1 DEF ReleasedBy, ReleasedUnbound, LedgerType
<1>5. LedgerGrows
  BY <1>1, <1>4 DEF LedgerGrows
<1> QED BY <1>3, <1>5

LEMMA CleanupInv ==
    ASSUME Inv, NEW r \in Runs, Cleanup(r)
    PROVE  DataInv' /\ FenceInv'
<1> DEFINE j == run[r].job
           n == [run[r] EXCEPT !.pc = "finish"]
           b == job[j]
<1>1. run[r].pc = "cleanup" /\ UNCHANGED <<job, epoch, task, upload, poll, wal, kept, waived>>
  BY DEF Cleanup
<1>2. j \in Jobs /\ b.status \notin Live /\ b \in JobType /\ Lawful(b, b) /\ job' = [job EXCEPT ![j] = b]
  BY <1>1, RunningJob, LawfulWrites DEF Inv, FenceInv, EndedFirst
<1>3. CASE /\ ledger' = IF Fenced(j) THEN ReleasedBy(j) ELSE ReleasedUnbound(j)
           /\ Step(r, "finish")
           /\ UNCHANGED <<lock, faults>>
  <2>1. (\A q \in Runs : BoundRun(q) => ledger' = ledger) /\ LedgerGrows
    <3>1. ledger' \in {ledger, ReleasedBy(j), ReleasedUnbound(j)}
      BY <1>3
    <3>2. \A q \in Runs : BoundRun(q) => run[q].job # j
      BY <1>2 DEF BoundRun
    <3> QED BY <1>1, <1>2, <3>1, <3>2, ReleaseHarmless
  <2>2. ClaimsSurvive(r, n)
    BY <2>1 DEF ClaimsSurvive, Inv, FenceInv, Bound, LedgerOwner
  <2>3. "finish" \in PlainSteps /\ n \in RunType /\ Going(r, "finish", n)
    BY <1>1, <1>3, StepGoes DEF PlainSteps
  <2> HIDE DEF n
  <2>4. RunProven(n, kept', waived', ledger'.status) /\ BindsFirst(r, n)
    BY <2>3 DEF Going, RunProven, BindsFirst, Works, BoundSteps
  <2> QED BY <1>1, <1>2, <1>3, <2>1, <2>2, <2>3, <2>4, PlainMove
<1>4. CASE End(r) /\ (UNCHANGED lock \/ Unlock(r)) /\ UNCHANGED ledger
  BY <1>1, <1>4, QuietEnd
<1> QED BY <1>3, <1>4 DEF Cleanup

LEMMA FinishInv ==
    ASSUME Inv, NEW r \in Runs, Finish(r)
    PROVE  DataInv' /\ FenceInv'
<1> DEFINE j == run[r].job
           b == job[j]
<1>1. /\ run[r].pc = "finish" /\ UNCHANGED <<job, ledger, upload, poll, wal, kept, waived>>
      /\ End(r) /\ Unlock(r) /\ Acked(r)
      /\ epoch' = IF Fenced(j) /\ run[r].next # "keep" THEN [epoch EXCEPT ![j] = 0] ELSE epoch
  BY DEF Finish
<1>2. j \in Jobs /\ b.status \notin Live /\ b \in JobType /\ Lawful(b, b) /\ job' = [job EXCEPT ![j] = b]
  BY <1>1, RunningJob, LawfulWrites DEF Inv, FenceInv, EndedFirst
<1>3. \A i \in Jobs : epoch'[i] = epoch[i] \/ job[i].status \notin Live
  BY <1>1, <1>2 DEF Inv, TypeInv, TypeOK
<1>4. \A i \in Jobs : task'[i].pending => task[i].pending
  BY <1>1, <1>2 DEF Acked, Inv, TypeInv, TypeOK, TaskType
<1> QED BY <1>1, <1>2, <1>3, <1>4, EndMove

LEMMA LostInv ==
    ASSUME Inv, NEW r \in Runs, Lost(r)
    PROVE  DataInv' /\ FenceInv'
<1>1. run[r].pc = "lost" /\ UNCHANGED <<job, epoch, ledger, task, upload, poll, wal, kept, waived, faults>>
  BY DEF Lost
<1>2. CASE run' = [run EXCEPT ![r].pc = "heal", ![r].next = "nack"] /\ UNCHANGED lock
  BY <1>1, <1>2, NackingStep
<1>3. CASE End(r) /\ (UNCHANGED lock \/ Unlock(r))
  BY <1>1, <1>3, QuietEnd
<1> QED BY <1>2, <1>3 DEF Lost

LEMMA CrashInv ==
    ASSUME Inv, NEW r \in Runs, Crash(r)
    PROVE  DataInv' /\ FenceInv'
  BY QuietEnd DEF Crash

\* The second read of a job sends only a legacy worker straight to its work.
LEMMA ReadUnderLockInv ==
    ASSUME Inv, NEW r \in Runs, ReadUnderLock(r)
    PROVE  DataInv' /\ FenceInv'
<1> DEFINE j == run[r].job
           b == job[j]
           n == ReadRun(r)
<1>1. run[r].pc = "read" /\ UNCHANGED <<job, lock, epoch, ledger, task, upload, poll, wal, kept, waived, faults>>
  BY DEF ReadUnderLock
<1>2. b \in JobType /\ Lawful(b, b) /\ job' = [job EXCEPT ![j] = b]
  BY <1>1, RunningJob, LawfulWrites
<1>3. /\ run' = [run EXCEPT ![r] = n] /\ n \in RunType /\ n.pc = ReadOutcome(j)
      /\ n.job = j /\ n.token = run[r].token
  BY ReadMoves DEF Inv
<1>4. n.done = run[r].done /\ n.next # "budget"
  BY <1>1, WorkerFields DEF Inv, ReadRun, RunType
<1> HIDE DEF n
<1>5. Carries(n, kept')
  BY <1>1, <1>4 DEF Inv, DataInv, WorkProven, Carries
<1>6. n.pc \in {"heal", "bind", "start", "finish", "cleanup"} /\ (n.pc = "start" => ~Fenced(j))
      /\ (n.pc \in {"cleanup", "finish"} => b.status \notin Live)
  BY <1>3 DEF ReadOutcome
<1>7. RunProven(n, kept', waived', ledger'.status) /\ BindsFirst(r, n)
  BY <1>6 DEF RunProven, BindsFirst, Works, BoundSteps
<1>8. RecordsGrow
  BY <1>1, RecordsKept
<1>9. ClaimsSurvive(r, n) /\ LedgerGrows
  BY <1>1, <1>8, LedgerUnchanged
<1> QED BY <1>1, <1>2, <1>3, <1>6, <1>7, <1>8, <1>9, <1>5, RunMoves

\* A worker with an older token than the one that holds the lock cannot bind.
LEMMA DelayedBindLoses ==
    ASSUME Inv, NEW r \in Runs, NEW q \in Runs, q # r, run[r].pc # "idle", BoundRun(q), run[r].job = run[q].job
    PROVE  BindLost(r)
<1> DEFINE j == run[q].job
<1>1. j \in Jobs /\ run[q].token \in Token /\ run[r].token \in Token /\ epoch[j] \in Nat
  <2>1. run[q].pc # "idle"
    BY DEF BoundRun, Works, BoundSteps
  <2> QED BY <2>1, WorkerFields DEF Inv, TypeInv, TypeOK
<1>2. Fenced(j) /\ job[j].status \in Live /\ lock[j] = run[q].token /\ run[q].token # NoToken
  BY DEF BoundRun, Holder
<1>3. ledger.status = "processing" /\ ledger.job = j /\ ledger.token = run[q].token
  BY <1>2 DEF Inv, FenceInv, Bound, LedgerOwner, RunToken
<1>4. run[q].token.epoch = epoch[j] /\ run[r].token.epoch <= epoch[j]
  BY <1>1, <1>2 DEF Inv, FenceInv, EpochsGrow
<1>5. run[r].token # run[q].token
  BY <1>2 DEF Inv, FenceInv, TokensOwn
<1>6. run[q].token.epoch \in Nat /\ run[r].token.epoch \in Nat
  BY <1>1 DEF Token
<1>7. ledger.token.epoch > run[r].token.epoch \/ ledger.token.epoch = run[r].token.epoch
  BY <1>3, <1>4, <1>6
<1> QED BY <1>3, <1>5, <1>7 DEF BindLost

LEMMA BindInv ==
    ASSUME Inv, NEW r \in Runs, Bind(r)
    PROVE  DataInv' /\ FenceInv'
<1> DEFINE j == run[r].job
           b == job[j]
<1>1. run[r].pc = "bind" /\ UNCHANGED <<job, lock, epoch, task, upload, poll, wal, kept, waived, faults>>
  BY DEF Bind
<1>2. /\ b \in JobType /\ Lawful(b, b) /\ job' = [job EXCEPT ![j] = b] /\ j \in Jobs
      /\ run[r].next \in {"start", "fail"}
  BY <1>1, RunningJob, LawfulWrites, WorkerFields DEF Inv, WellFormed
<1>3. CASE Step(r, "lost") /\ UNCHANGED ledger
  BY <1>1, <1>3, QuietStep
<1>4. CASE ledger.status = "completed" /\ Step(r, "converge") /\ UNCHANGED ledger
  <2> DEFINE n == [run[r] EXCEPT !.pc = "converge"]
  <2>1. "converge" \in PlainSteps /\ "converge" \notin {"cleanup", "finish"}
    BY DEF PlainSteps
  <2>2. n \in RunType /\ Going(r, "converge", n)
    BY <1>1, <1>4, <2>1, StepGoes
  <2> HIDE DEF n
  <2>3. RunProven(n, kept', waived', ledger'.status) /\ BindsFirst(r, n)
    BY <1>4, <2>2 DEF Going, RunProven, BindsFirst, Works, BoundSteps
  <2>4. ClaimsSurvive(r, n) /\ LedgerGrows
    BY <1>1, <1>4, RecordsKept, LedgerUnchanged
  <2> QED BY <1>1, <1>2, <1>4, <2>1, <2>2, <2>3, <2>4, PlainMove
<1>5. CASE /\ ~BindLost(r) /\ ledger.status # "completed"
           /\ Step(r, run[r].next)
           /\ ledger' = [ledger EXCEPT !.token = run[r].token, !.old = FALSE]
  <2> DEFINE p == run[r].next
             n == [run[r] EXCEPT !.pc = p]
  <2>1. p \in {"start", "fail"} /\ p \in PlainSteps /\ p \notin {"cleanup", "finish"}
    BY <1>2 DEF PlainSteps
  <2>2. n \in RunType /\ Going(r, p, n) /\ p = run[r].next
    BY <1>1, <1>5, <2>1, StepGoes
  <2> HIDE DEF n
  <2>3. ledger.status = "processing" /\ ledger.job = j
    BY <1>5 DEF BindLost
  <2>4. ledger \in LedgerType /\ ledger.segs \subseteq kept
    BY DEF Inv, TypeInv, TypeOK, DataInv, LedgerSound
  <2>5. /\ ledger'.status = "processing" /\ ledger'.job = j /\ ledger'.token = run[r].token /\ ~ledger'.old
        /\ ledger'.segs = ledger.segs
    BY <1>5, <2>3, <2>4 DEF LedgerType
  <2>6. RunProven(n, kept', waived', ledger'.status) /\ BindsFirst(r, n)
    BY <2>1, <2>5, <2>2 DEF Going, RunProven, BindsFirst
  <2>7. LedgerGrows
    BY <1>1, <2>3, <2>4, <2>5 DEF LedgerGrows
  <2>8. \A q \in Runs : ~BoundRun(q)
    <3> SUFFICES ASSUME NEW q \in Runs, BoundRun(q) PROVE FALSE
      OBVIOUS
    <3>1. q # r
      BY <1>1 DEF BoundRun, Works, BoundSteps
    <3>2. run[q].job = j
      BY <2>3 DEF Inv, FenceInv, Bound, LedgerOwner
    <3> QED BY <1>1, <1>5, <3>1, <3>2, DelayedBindLoses
  <2>9. ClaimsSurvive(r, n)
    BY <2>8 DEF ClaimsSurvive
  <2> QED BY <1>1, <1>2, <2>1, <2>6, <2>7, <2>9, <2>2, PlainMove
<1> QED BY <1>3, <1>4, <1>5 DEF Bind

-----------------------------------------------------------------------------
(* A worker that begins, or takes the lock                                  *)

LEMMA BeginMoves ==
    ASSUME Inv, NEW r \in Runs, NEW n \in RunType, NEW j \in Jobs, run' = [run EXCEPT ![r] = n], n.job = j,
           n.pc \in {"heal", "lock", "read", "bind", "start"}, n.pc = "start" => ~Fenced(j), Carries(n, kept),
           \/ n.token = NoToken /\ UNCHANGED <<lock, epoch>>
           \/ /\ n.token = NewToken(r, j) /\ lock[j] = NoToken
              /\ lock' = [lock EXCEPT ![j] = NewToken(r, j)]
              /\ \A i \in Jobs \ {j} : epoch'[i] = epoch[i]
              /\ Fenced(j) => epoch'[j] = NewToken(r, j).epoch,
           \A i \in Jobs : task'[i].pending => task[i].pending,
           job[j].status # "unused",
           \/ UNCHANGED <<upload, wal>> /\ ~Fresh(j)
           \/ upload' = IdleUpload /\ poll.pc = "idle" /\ (wal' = wal \/ wal' = [state |-> "uploaded", job |-> j]),
           UNCHANGED <<job, ledger, poll, kept, waived>>
    PROVE  DataInv' /\ FenceInv'
<1>1. /\ run \in [Runs -> RunType] /\ lock \in [Jobs -> Token] /\ epoch \in [Jobs -> Nat] /\ Nobody \notin Jobs
      /\ r # Nobody
  BY NobodyAssumption DEF Inv, TypeInv, TypeOK
<1>2. run'[r] = n /\ \A q \in Runs \ {r} : run'[q] = run[q]
  BY <1>1
<1>3. \A i \in Jobs \ {j} : lock'[i] = lock[i] /\ epoch'[i] = epoch[i]
  BY <1>1
<1>4. NewToken(r, j).run = r /\ (Fenced(j) => NewToken(r, j).epoch = epoch[j] + 1)
  BY DEF NewToken
<1>5. DataInv'
  <2>1. LedgerSound'
    BY DEF Inv, DataInv, LedgerSound, Accounted
  <2>2. WorkProven'
    <3>1. RunProven(n, kept, waived, ledger.status)
      BY DEF RunProven
    <3>2. \A q \in Runs : RunProven(run'[q], kept, waived, ledger.status) /\ Carries(run'[q], kept)
      BY <1>2, <3>1 DEF Inv, DataInv, WorkProven
    <3> QED BY <3>2 DEF WorkProven
  <2>3. AnswersProven'
    BY DEF Inv, DataInv, AnswersProven, Safe, Accounted
  <2> QED BY <2>1, <2>2, <2>3 DEF DataInv
<1>6. Untouched'
  <2> SUFFICES ASSUME NEW i \in Jobs, Fresh(i)'
               PROVE  /\ \A q \in Runs : run'[q].job # i
                      /\ ~task'[i].pending /\ lock'[i] = NoToken /\ wal'.job # i
    BY DEF Untouched
  <2>1. Fresh(i) /\ i # j
    BY DEF Fresh, IdleUpload
  <2>2. (\A q \in Runs : run[q].job # i) /\ ~task[i].pending /\ lock[i] = NoToken /\ wal.job # i
    BY <2>1 DEF Inv, FenceInv, Untouched
  <2>3. wal'.job \in {wal.job, j}
    OBVIOUS
  <2> QED BY <1>2, <1>3, <2>1, <2>2, <2>3
<1>7. UploadQueued'
  BY DEF Inv, FenceInv, UploadQueued, IdleUpload
<1>8. TokensOwn'
  BY <1>2, <1>4 DEF Inv, FenceInv, TokensOwn
<1>9. EndedFirst'
  <2>1. \A q \in Runs : run'[q].pc \in {"cleanup", "finish"} => job'[run'[q].job].status \notin Live
    BY <1>2 DEF Inv, FenceInv, EndedFirst
  <2>2. PollEnded'
    BY DEF Inv, FenceInv, EndedFirst, PollEnded
  <2> QED BY <2>1, <2>2 DEF EndedFirst
<1>10. EpochsGrow'
  <2> SUFFICES ASSUME NEW i \in Jobs, Fenced(i)', job'[i].status \in Live
               PROVE  /\ lock'[i] = NoToken \/ lock'[i].epoch = epoch'[i]
                      /\ \A q \in Runs : run'[q].job = i => run'[q].token.epoch <= epoch'[i]
    BY DEF EpochsGrow
  <2>1. Fenced(i) /\ job[i].status \in Live /\ epoch[i] \in Nat
    BY <1>1 DEF Fenced
  <2>2. /\ lock[i] = NoToken \/ lock[i].epoch = epoch[i]
        /\ \A q \in Runs : run[q].job = i => run[q].token.epoch <= epoch[i]
    BY <2>1 DEF Inv, FenceInv, EpochsGrow
  <2>3. CASE i # j
    BY <1>2, <1>3, <2>2, <2>3
  <2>4. CASE i = j /\ n.token = NoToken /\ UNCHANGED <<lock, epoch>>
    <3>1. NoToken.epoch = 0
      BY DEF NoToken
    <3> QED BY <1>2, <2>1, <2>2, <2>4, <3>1
  <2>5. CASE i = j /\ n.token = NewToken(r, j) /\ lock' = [lock EXCEPT ![j] = NewToken(r, j)]
             /\ (Fenced(j) => epoch'[j] = NewToken(r, j).epoch)
    <3>1. lock'[j] = NewToken(r, j) /\ epoch'[j] = NewToken(r, j).epoch /\ epoch'[j] = epoch[j] + 1
      BY <1>1, <1>4, <2>1, <2>5
    <3>2. \A q \in Runs : run[q].token.epoch \in Nat
      BY <1>1 DEF RunType, Token
    <3>3. \A q \in Runs : run'[q].job = j => run'[q].token.epoch <= epoch'[j]
      <4> SUFFICES ASSUME NEW q \in Runs, run'[q].job = j PROVE run'[q].token.epoch <= epoch'[j]
        OBVIOUS
      <4>1. CASE q = r
        <5>1. run'[q].token = NewToken(r, j)
          BY <1>2, <2>5, <4>1
        <5>2. epoch[j] + 1 \in Nat
          BY <1>1
        <5>3. run'[q].token.epoch = epoch[j] + 1
          BY <3>1, <5>1
        <5>4. epoch'[j] = epoch[j] + 1
          BY <3>1
        <5> QED BY <5>2, <5>3, <5>4
      <4>2. CASE q # r
        <5>1. run[q].token.epoch <= epoch[j] /\ run[q].token.epoch \in Nat
          BY <1>2, <2>2, <2>5, <3>2, <4>2
        <5> QED BY <1>1, <1>2, <3>1, <4>2, <5>1
      <4> QED BY <4>1, <4>2
    <3> QED BY <2>5, <3>1, <3>3
  <2> QED BY <2>3, <2>4, <2>5
<1>11. Bound'
  <2> SUFFICES ASSUME NEW q \in Runs, BoundRun(q)'
               PROVE  LedgerOwner(q)' /\ ~ledger'.old
    BY DEF Bound
  <2>1. q # r
    BY <1>2 DEF BoundRun, Works, BoundSteps, Fenced
  <2>2. run'[q] = run[q]
    BY <1>2, <2>1
  <2>3. lock'[run[q].job] = run[q].token /\ run[q].token # NoToken /\ run[q].job \in Jobs
    <3>1. run[q].pc # "idle"
      BY <2>2 DEF BoundRun, Works, BoundSteps
    <3> QED BY <2>2, <3>1, WorkerFields DEF Inv, BoundRun, Holder
  <2>4. run[q].token.run = q
    BY <2>3 DEF Inv, FenceInv, TokensOwn
  <2>5. lock[run[q].job] = run[q].token
    <3>1. CASE run[q].job # j
      BY <1>3, <2>3, <3>1
    <3>2. CASE run[q].job = j
      BY <1>1, <1>4, <2>1, <2>3, <2>4, <3>2
    <3> QED BY <3>1, <3>2
  <2>6. BoundRun(q)
    BY <2>2, <2>5 DEF BoundRun, Holder, Fenced
  <2> QED BY <2>2, <2>6 DEF Inv, FenceInv, Bound, LedgerOwner, RunToken, Fenced
<1> QED BY <1>5, <1>6, <1>7, <1>8, <1>9, <1>10, <1>11 DEF FenceInv

LEMMA TakeLockInv ==
    ASSUME Inv, NEW r \in Runs, TakeLock(r)
    PROVE  DataInv' /\ FenceInv'
<1> DEFINE j == run[r].job
<1>1. run[r].pc = "lock" /\ UNCHANGED <<job, ledger, task, upload, poll, wal, kept, waived, faults>>
  BY DEF TakeLock
<1>2. j \in Jobs /\ job[j].status # "unused" /\ ~Fresh(j) /\ epoch \in [Jobs -> Nat]
  BY <1>1, RunningJob DEF Inv, FenceInv, Untouched, TypeInv, TypeOK
<1>3. CASE Held(j)
  BY <1>1, <1>3, QuietEnd DEF TakeLock
<1>4. CASE ~Held(j)
  <2> DEFINE n == LockedRun(r, j)
  <2>1. /\ run' = [run EXCEPT ![r] = n] /\ n \in RunType /\ n.token = NewToken(r, j) /\ n.job = j
        /\ n.pc = "read"
    BY <1>4, LockTaken DEF Inv
  <2>2. n.done = run[r].done /\ n.next = run[r].next
    BY <1>1, WorkerFields, NewTokenTyped DEF Inv, TypeInv, LockedRun, RunType
  <2>3. /\ lock' = [lock EXCEPT ![j] = NewToken(r, j)] /\ lock[j] = NoToken
        /\ epoch' = IF Fenced(j) THEN [epoch EXCEPT ![j] = @ + 1] ELSE epoch
    BY <1>4 DEF TakeLock, Held
  <2>4. /\ \A i \in Jobs \ {j} : epoch'[i] = epoch[i]
        /\ Fenced(j) => epoch'[j] = NewToken(r, j).epoch
    BY <1>2, <2>3 DEF NewToken
  <2>5. \A i \in Jobs : task'[i].pending => task[i].pending
    BY <1>1
  <2>6. \/ UNCHANGED <<upload, wal>> /\ ~Fresh(j)
        \/ upload' = IdleUpload /\ poll.pc = "idle" /\ (wal' = wal \/ wal' = [state |-> "uploaded", job |-> j])
    BY <1>1, <1>2
  <2>7. n.pc \in {"heal", "lock", "read", "bind", "start"} /\ n.pc # "start"
    BY <2>1
  <2>8. UNCHANGED <<job, ledger, poll, kept, waived>>
    BY <1>1
  <2> HIDE DEF n
  <2>9. Carries(n, kept)
    BY <2>2 DEF Inv, DataInv, WorkProven, Carries
  <2> QED BY <1>2, <2>1, <2>3, <2>4, <2>5, <2>6, <2>7, <2>8, <2>9, BeginMoves
<1> QED BY <1>3, <1>4

LEMMA DeliverInv ==
    ASSUME Inv, NEW j \in Jobs, Deliver(j)
    PROVE  DataInv' /\ FenceInv'
<1> DEFINE n == DeliveredRun(j)
<1>1. NewRun \in Runs
  BY FreeRun DEF Deliver
<1>2. run' = [run EXCEPT ![NewRun] = n] /\ UNCHANGED <<job, lock, epoch, ledger, upload, poll, wal, kept, waived>>
  BY DEF Deliver, DeliveredRun
<1>3. n \in RunType /\ n.pc \in {"heal", "lock"} /\ n.job = j /\ n.token = NoToken
  BY DeliveredRunTyped DEF Inv
<1>4. task[j].pending /\ task' = [task EXCEPT ![j].tries = @ + 1]
  BY DEF Deliver
<1>5. \A i \in Jobs : task'[i].pending => task[i].pending
  BY <1>4 DEF Inv, TypeInv, TypeOK, TaskType
<1>6. ~Fresh(j) /\ job[j].status # "unused"
  BY <1>4 DEF Inv, FenceInv, Untouched, Fresh
<1>7. \/ UNCHANGED <<upload, wal>> /\ ~Fresh(j)
      \/ upload' = IdleUpload /\ poll.pc = "idle" /\ (wal' = wal \/ wal' = [state |-> "uploaded", job |-> j])
  BY <1>2, <1>6
<1>8. n.pc \in {"heal", "lock", "read", "bind", "start"} /\ n.pc # "start"
  BY <1>3
<1>9. UNCHANGED <<job, ledger, poll, kept, waived>> /\ UNCHANGED <<lock, epoch>>
  BY <1>2
<1>10. n.done = {} /\ n.next # "budget"
  BY ConstantsTyped DEF DeliveredRun, IdleRun
<1> HIDE DEF n
<1>11. Carries(n, kept)
  BY <1>10 DEF Carries
<1> QED BY <1>1, <1>2, <1>3, <1>5, <1>6, <1>7, <1>8, <1>9, <1>11, BeginMoves

LEMMA DispatchInlineInv ==
    ASSUME Inv, DispatchInline
    PROVE  DataInv' /\ FenceInv'
<1> DEFINE j == upload.job
<1>1. PICK r \in Runs :
        /\ run' = [run EXCEPT ![r] = InlineRun(r, j)]
        /\ lock' = [lock EXCEPT ![j] = NewToken(r, j)]
        /\ epoch' = [epoch EXCEPT ![j] = NewToken(r, j).epoch]
        /\ j \in Jobs /\ upload.pc = "dispatch" /\ ~Held(j)
        /\ Reply(j)
        /\ UNCHANGED <<job, ledger, task, poll, kept, waived>>
  BY InlineStarts DEF Inv
<1> DEFINE n == InlineRun(r, j)
<1>2. n \in RunType /\ n.token = NewToken(r, j) /\ n.job = j
  BY <1>1, InlineRunTyped DEF Inv
<1>3. n.pc = IF Fenced(j) THEN "bind" ELSE "start"
  BY ConstantsTyped DEF InlineRun, RunType
<1>4. poll.pc = "idle" /\ job[j].status = "queued" /\ lock[j] = NoToken /\ epoch \in [Jobs -> Nat]
  BY <1>1 DEF Inv, TypeInv, TypeOK, RequestsOK, FenceInv, UploadQueued, Held
<1>5. upload' = IdleUpload /\ (wal' = wal \/ wal' = [state |-> "uploaded", job |-> j])
  BY <1>1 DEF Reply
<1>6. (\A i \in Jobs \ {j} : epoch'[i] = epoch[i]) /\ epoch'[j] = NewToken(r, j).epoch
  BY <1>1, <1>4
<1>7. \A i \in Jobs : task'[i].pending => task[i].pending
  BY <1>1
<1>8. n.pc \in {"heal", "lock", "read", "bind", "start"} /\ (n.pc = "start" => ~Fenced(j))
  BY <1>3
<1>9. n.done = {} /\ n.next # "budget"
  BY ConstantsTyped DEF InlineRun, IdleRun
<1>10. run' = [run EXCEPT ![r] = n]
  BY <1>1
<1> HIDE DEF n
<1>11. Carries(n, kept)
  BY <1>9 DEF Carries
<1> QED BY <1>1, <1>2, <1>4, <1>5, <1>6, <1>7, <1>8, <1>10, <1>11, BeginMoves

-----------------------------------------------------------------------------
(* The steps of the requests, and time                                      *)

\* A job that lives after the step lived before it with the same fence, or is
\* one nobody has heard of.
StaysEnded ==
    \A i \in Jobs :
        job'[i].status \in Live => Fresh(i) \/ (job[i].status \in Live /\ job'[i].fence = job[i].fence)

\* A job that is completed after the step was so before it, or rightly is now.
CompletesRightly ==
    \A i \in Jobs :
        job'[i].status = "completed" =>
            \/ job[i].status = "completed" /\ (job[i].superseded => job'[i].superseded)
            \/ ledger.status = "completed"

LEMMA RequestMoves ==
    ASSUME Inv, UNCHANGED <<run, kept, waived>>, StaysEnded, CompletesRightly, LedgerGrows,
           \A q \in Runs : BoundRun(q) =>
               /\ ledger'.status = "processing" /\ ledger'.job = ledger.job /\ ledger'.token = ledger.token
               /\ ~ledger'.old,
           \A j \in Jobs : lock'[j] \in {lock[j], NoToken},
           \A j \in Jobs : epoch'[j] = epoch[j] \/ job'[j].status \notin Live,
           AnswersProven', Untouched', UploadQueued', PollEnded'
    PROVE  DataInv' /\ FenceInv'
<1>1. \A q \in Runs : run[q].pc # "idle" => run[q].job \in Jobs /\ ~Fresh(run[q].job)
  BY WorkerFields DEF Inv, FenceInv, Untouched
<1>2. LedgerSound'
  BY DEF Inv, DataInv, LedgerSound, CompletesRightly, LedgerGrows
<1>3. WorkProven'
  BY DEF Inv, DataInv, WorkProven, RunProven, Carries, LedgerGrows
<1>4. TokensOwn'
  BY DEF Inv, FenceInv, TokensOwn
<1>5. EndedFirst'
  <2>1. \A q \in Runs : run'[q].pc \in {"cleanup", "finish"} => job'[run'[q].job].status \notin Live
    BY <1>1 DEF Inv, FenceInv, EndedFirst, StaysEnded
  <2> QED BY <2>1 DEF EndedFirst
<1>6. EpochsGrow'
  <2> SUFFICES ASSUME NEW i \in Jobs, Fenced(i)', job'[i].status \in Live
               PROVE  /\ lock'[i] = NoToken \/ lock'[i].epoch = epoch'[i]
                      /\ \A q \in Runs : run'[q].job = i => run'[q].token.epoch <= epoch'[i]
    BY DEF EpochsGrow
  <2>1. epoch'[i] = epoch[i]
    OBVIOUS
  <2>2. CASE Fresh(i)
    BY <2>2 DEF Inv, FenceInv, Untouched
  <2>3. CASE job[i].status \in Live /\ Fenced(i)
    BY <2>1, <2>3 DEF Inv, FenceInv, EpochsGrow
  <2> QED BY <2>2, <2>3 DEF StaysEnded, Fenced
<1>7. Bound'
  <2> SUFFICES ASSUME NEW q \in Runs, BoundRun(q)'
               PROVE  LedgerOwner(q)' /\ ~ledger'.old
    BY DEF Bound
  <2>1. run[q].job \in Jobs /\ ~Fresh(run[q].job) /\ run[q].token # NoToken
        /\ Works(run[q])
    BY <1>1 DEF BoundRun, Holder, Works
  <2>2. Holder(q) /\ Fenced(run[q].job) /\ job[run[q].job].status \in Live
    BY <2>1 DEF BoundRun, Holder, Fenced, StaysEnded
  <2>3. BoundRun(q)
    BY <2>1, <2>2 DEF BoundRun
  <2>4. LedgerOwner(q) /\ Fenced(run[q].job)'
    BY <2>3 DEF Inv, FenceInv, Bound, BoundRun
  <2> QED BY <2>2, <2>3, <2>4 DEF LedgerOwner, RunToken
<1> QED BY <1>2, <1>3, <1>4, <1>5, <1>6, <1>7 DEF DataInv, FenceInv

\* RequestMoves when neither the ledger nor a lock changes.
LEMMA LedgerKept ==
    ASSUME Inv, UNCHANGED <<ledger, kept, waived>>
    PROVE  /\ LedgerGrows
           /\ \A q \in Runs : BoundRun(q) =>
               /\ ledger'.status = "processing" /\ ledger'.job = ledger.job /\ ledger'.token = ledger.token
               /\ ~ledger'.old
<1>1. LedgerGrows
  BY DEF Inv, DataInv, LedgerSound, Accounted, LedgerGrows
<1> QED BY <1>1 DEF Inv, FenceInv, Bound, LedgerOwner

LEMMA ClaimReleased ==
    ASSUME Inv, NEW j \in Jobs, ledger' \in {ledger, ReleasedBy(j), ReleasedUnbound(j)}, UNCHANGED <<kept, waived>>,
           Fresh(j) \/ job[j].status \notin Live
    PROVE  /\ LedgerGrows
           /\ \A q \in Runs : BoundRun(q) =>
               /\ ledger'.status = "processing" /\ ledger'.job = ledger.job /\ ledger'.token = ledger.token
               /\ ~ledger'.old
<1>1. \A q \in Runs : BoundRun(q) => run[q].job # j
  BY DEF Inv, FenceInv, Untouched, BoundRun
<1>2. (\A q \in Runs : BoundRun(q) => ledger' = ledger) /\ LedgerGrows
  BY <1>1, ReleaseHarmless
<1> QED BY <1>2 DEF Inv, FenceInv, Bound, LedgerOwner

LEMMA UploadInv ==
    ASSUME Inv, Upload
    PROVE  DataInv' /\ FenceInv'
<1> DEFINE j == CHOOSE i \in Jobs : job[i].status = "unused"
<1>1. j \in Jobs /\ job[j].status = "unused"
  BY DEF Upload
<1>2. PICK m \in Modes, f \in Fences :
        job' = [job EXCEPT ![j] = [NoJob EXCEPT !.status = "queued", !.mode = m, !.fence = f]]
  BY DEF Upload
<1>3. /\ upload' = [pc |-> "claim", job |-> j] /\ wal.state = "local" /\ upload = IdleUpload
      /\ UNCHANGED <<lock, epoch, ledger, task, run, poll, wal, kept, waived, faults>>
  BY DEF Upload
<1> HIDE DEF j
<1>4. job \in [Jobs -> JobType] /\ poll.pc = "idle"
  BY <1>3 DEF Inv, TypeInv, TypeOK, RequestsOK
<1>5. job'[j].status = "queued" /\ \A i \in Jobs \ {j} : job'[i] = job[i]
  <2>1. [NoJob EXCEPT !.status = "queued", !.mode = m, !.fence = f].status = "queued"
    BY ConstantsTyped DEF JobType
  <2> QED BY <1>1, <1>2, <1>4, <2>1
<1>6. Fresh(j)
  BY <1>1 DEF Fresh
<1>7. StaysEnded
  BY <1>5, <1>6 DEF StaysEnded
<1>8. CompletesRightly
  BY <1>5 DEF CompletesRightly
<1>9. AnswersProven'
  BY <1>3, <1>4 DEF AnswersProven
<1>10. Untouched'
  <2>1. \A i \in Jobs : Fresh(i)' => Fresh(i)
    BY <1>3, <1>5, <1>6 DEF Fresh
  <2> QED BY <1>3, <2>1 DEF Inv, FenceInv, Untouched
<1>11. UploadQueued'
  BY <1>3, <1>5 DEF UploadQueued
<1>12. PollEnded'
  BY <1>3, <1>4 DEF PollEnded
<1>13. \A i \in Jobs : lock'[i] \in {lock[i], NoToken}
  BY <1>3
<1>14. \A i \in Jobs : epoch'[i] = epoch[i] \/ job'[i].status \notin Live
  BY <1>3
<1> QED BY <1>3, <1>7, <1>8, <1>9, <1>10, <1>11, <1>12, <1>13, <1>14, LedgerKept, RequestMoves

\* What an upload that is being handled has: a queued job of its own, and a
\* device that waits.
LEMMA UploadFacts ==
    ASSUME Inv, upload.pc # "idle"
    PROVE  /\ upload.job \in Jobs /\ job[upload.job].status = "queued" /\ Fresh(upload.job)
           /\ job[upload.job] \in JobType /\ wal.state = "local" /\ poll.pc = "idle"
           /\ \A q \in Runs : run[q].job # upload.job
<1>1. upload.job \in Jobs /\ wal.state = "local" /\ poll.pc = "idle"
  BY DEF Inv, TypeInv, RequestsOK
<1>2. Fresh(upload.job) /\ job[upload.job].status = "queued" /\ job[upload.job] \in JobType
  BY <1>1 DEF Fresh, Inv, FenceInv, UploadQueued, TypeInv, TypeOK
<1> QED BY <1>1, <1>2 DEF Inv, FenceInv, Untouched

\* The end of an upload request that leaves a job of its own.
LEMMA UploadEnds ==
    ASSUME Inv, upload.pc # "idle", upload' = IdleUpload,
           wal' = wal \/ wal' = [state |-> "uploaded", job |-> upload.job],
           NEW b \in JobType, job' = [job EXCEPT ![upload.job] = b], b.status # "unused",
           b.fence = job[upload.job].fence, b.status = "completed" => ledger.status = "completed",
           LedgerGrows,
           \A q \in Runs : BoundRun(q) =>
               /\ ledger'.status = "processing" /\ ledger'.job = ledger.job /\ ledger'.token = ledger.token
               /\ ~ledger'.old,
           \A i \in Jobs : i # upload.job => task'[i].pending = task[i].pending,
           UNCHANGED <<lock, epoch, run, poll, kept, waived>>
    PROVE  DataInv' /\ FenceInv'
<1> DEFINE j == upload.job
<1>1. /\ j \in Jobs /\ job[j].status = "queued" /\ Fresh(j) /\ wal.state = "local" /\ poll.pc = "idle"
      /\ job \in [Jobs -> JobType]
  BY UploadFacts DEF Inv, TypeInv, TypeOK
<1>2. job'[j] = b /\ \A i \in Jobs \ {j} : job'[i] = job[i]
  BY <1>1
<1>3. StaysEnded /\ CompletesRightly
  BY <1>1, <1>2 DEF StaysEnded, CompletesRightly, Live
<1>4. AnswersProven'
  BY <1>1 DEF AnswersProven
<1>5. Untouched'
  <2>1. \A i \in Jobs : Fresh(i)' => Fresh(i) /\ i # j
    BY <1>1, <1>2 DEF Fresh, IdleUpload
  <2>2. wal'.job \in {wal.job, j}
    OBVIOUS
  <2> QED BY <2>1, <2>2 DEF Inv, FenceInv, Untouched
<1>6. UploadQueued'
  BY DEF UploadQueued, IdleUpload
<1>7. PollEnded'
  BY <1>1 DEF PollEnded
<1>8. \A i \in Jobs : lock'[i] \in {lock[i], NoToken}
  OBVIOUS
<1>9. \A i \in Jobs : epoch'[i] = epoch[i] \/ job'[i].status \notin Live
  OBVIOUS
<1> QED BY <1>3, <1>4, <1>5, <1>6, <1>7, <1>8, <1>9, RequestMoves

LEMMA ClaimInv ==
    ASSUME Inv, Claim
    PROVE  DataInv' /\ FenceInv'
<1> DEFINE j == upload.job
<1>1. upload.pc = "claim" /\ UNCHANGED <<lock, epoch, task, run, poll, kept, waived>>
  BY DEF Claim
<1>2. /\ j \in Jobs /\ job[j].status = "queued" /\ Fresh(j) /\ wal.state = "local" /\ poll.pc = "idle"
      /\ job[j] \in JobType /\ job \in [Jobs -> JobType] /\ upload \in [pc : {"idle", "claim", "dispatch"}, job : Jobs \union {Nobody}]
  BY <1>1, UploadFacts DEF Inv, TypeInv, TypeOK
<1>3. CASE /\ Proven
           /\ job' = IF job[j].status \in Live THEN [job EXCEPT ![j] = Written(@, "completed")] ELSE job
           /\ Reply(j)
           /\ UNCHANGED ledger
  <2> DEFINE b == Written(job[j], "completed")
  <2>1. b \in JobType
    BY <1>2, BlobWrites DEF Terminal
  <2>2. b.status = "completed" /\ b.fence = job[j].fence
    BY <1>2 DEF Written, JobType
  <2>3. job' = [job EXCEPT ![j] = b]
    BY <1>2, <1>3 DEF Live
  <2>4. ledger.status = "completed"
    BY <1>3 DEF Proven
  <2>5. upload' = IdleUpload /\ (wal' = wal \/ wal' = [state |-> "uploaded", job |-> j])
    BY <1>3 DEF Reply
  <2>6. LedgerGrows /\ \A q \in Runs : BoundRun(q) =>
               /\ ledger'.status = "processing" /\ ledger'.job = ledger.job /\ ledger'.token = ledger.token
               /\ ~ledger'.old
    BY <1>1, <1>3, LedgerKept
  <2>7. \A i \in Jobs : i # upload.job => task'[i].pending = task[i].pending
    BY <1>1
  <2> HIDE DEF b
  <2> QED BY <1>1, <2>1, <2>2, <2>3, <2>4, <2>5, <2>6, <2>7, UploadEnds
<1>4. CASE /\ job' = [job EXCEPT ![j] = NoJob]
           /\ upload' = IdleUpload
           /\ UNCHANGED <<ledger, wal, faults>>
  <2>1. job'[j].status = "unused" /\ \A i \in Jobs \ {j} : job'[i] = job[i]
    BY <1>2, <1>4 DEF NoJob
  <2>2. StaysEnded /\ CompletesRightly
    BY <2>1 DEF StaysEnded, CompletesRightly, Live
  <2>3. AnswersProven'
    BY <1>1, <1>2, <1>4 DEF AnswersProven
  <2>4. Untouched'
    <3>1. \A i \in Jobs : Fresh(i)' => Fresh(i)
      BY <1>2, <1>4, <2>1 DEF Fresh, IdleUpload
    <3> QED BY <1>1, <1>4, <3>1 DEF Inv, FenceInv, Untouched
  <2>5. UploadQueued'
    BY <1>4 DEF UploadQueued, IdleUpload
  <2>6. PollEnded'
    BY <1>1, <1>2 DEF PollEnded
  <2>7. \A i \in Jobs : lock'[i] \in {lock[i], NoToken}
    BY <1>1
  <2>8. \A i \in Jobs : epoch'[i] = epoch[i] \/ job'[i].status \notin Live
    BY <1>1
  <2> QED BY <1>1, <1>4, <2>2, <2>3, <2>4, <2>5, <2>6, <2>7, <2>8, LedgerKept, RequestMoves
<1>5. CASE /\ ~Proven /\ ~Busy
           /\ ledger' = ClaimedBy(j)
           /\ upload' = [upload EXCEPT !.pc = "dispatch"]
           /\ UNCHANGED <<job, wal, faults>>
  <2>1. \A q \in Runs : ~BoundRun(q)
    BY <1>5 DEF Inv, FenceInv, Bound, LedgerOwner, Busy
  <2>2. ledger \in LedgerType /\ ledger.segs \subseteq kept
    BY DEF Inv, TypeInv, TypeOK, DataInv, LedgerSound
  <2>3. ledger'.status = "processing" /\ ledger'.segs \in {ledger.segs, {}}
    BY <1>5, <2>2 DEF ClaimedBy, LedgerType
  <2>4. LedgerGrows
    BY <1>1, <1>5, <2>2, <2>3 DEF LedgerGrows, Proven
  <2>5. upload'.job = j /\ upload'.pc = "dispatch"
    BY <1>2, <1>5
  <2>6. StaysEnded /\ CompletesRightly
    BY <1>5 DEF StaysEnded, CompletesRightly
  <2>7. AnswersProven'
    BY <1>1, <1>2, <1>5 DEF AnswersProven
  <2>8. Untouched'
    <3>1. \A i \in Jobs : Fresh(i)' => Fresh(i)
      BY <1>2, <1>5, <2>5 DEF Fresh
    <3> QED BY <1>1, <1>5, <3>1 DEF Inv, FenceInv, Untouched
  <2>9. UploadQueued'
    BY <1>2, <1>5, <2>5 DEF UploadQueued
  <2>10. PollEnded'
    BY <1>1, <1>2 DEF PollEnded
  <2>11. \A i \in Jobs : lock'[i] \in {lock[i], NoToken}
    BY <1>1
  <2>12. \A i \in Jobs : epoch'[i] = epoch[i] \/ job'[i].status \notin Live
    BY <1>1
  <2> QED BY <1>1, <2>1, <2>4, <2>6, <2>7, <2>8, <2>9, <2>10, <2>11, <2>12, RequestMoves
<1> QED BY <1>3, <1>4, <1>5 DEF Claim

LEMMA DispatchTaskInv ==
    ASSUME Inv, DispatchTask
    PROVE  DataInv' /\ FenceInv'
<1> DEFINE j == upload.job
           b == job[j]
<1>1. upload.pc = "dispatch" /\ UNCHANGED <<job, lock, epoch, ledger, run, poll, kept, waived>>
  BY DEF DispatchTask
<1>2. j \in Jobs /\ b.status = "queued" /\ b \in JobType /\ job' = [job EXCEPT ![j] = b]
  BY <1>1, UploadFacts DEF Inv, TypeInv, TypeOK
<1>3. upload' = IdleUpload /\ (wal' = wal \/ wal' = [state |-> "uploaded", job |-> j])
  BY DEF DispatchTask, Reply
<1>4. \A i \in Jobs : i # upload.job => task'[i].pending = task[i].pending
  BY <1>2 DEF DispatchTask, Inv, TypeInv, TypeOK
<1>5. LedgerGrows /\ \A q \in Runs : BoundRun(q) =>
             /\ ledger'.status = "processing" /\ ledger'.job = ledger.job /\ ledger'.token = ledger.token
             /\ ~ledger'.old
  BY <1>1, LedgerKept
<1> QED BY <1>1, <1>2, <1>3, <1>4, <1>5, UploadEnds

LEMMA StagingFailsInv ==
    ASSUME Inv, StagingFails
    PROVE  DataInv' /\ FenceInv'
<1> DEFINE j == upload.job
           b == Written(job[j], "failed")
<1>1. upload.pc = "dispatch" /\ upload' = IdleUpload /\ job' = [job EXCEPT ![j] = b]
      /\ ledger' = ReleasedUnbound(j) /\ UNCHANGED <<lock, epoch, task, run, poll, wal, kept, waived>>
  BY DEF StagingFails
<1>2. j \in Jobs /\ job[j] \in JobType /\ Fresh(j)
  BY <1>1, UploadFacts
<1>3. b \in JobType
  BY <1>2, BlobWrites DEF Terminal
<1>4. b.status = "failed" /\ b.fence = job[j].fence
  BY <1>2 DEF Written, JobType
<1>5. LedgerGrows /\ \A q \in Runs : BoundRun(q) =>
             /\ ledger'.status = "processing" /\ ledger'.job = ledger.job /\ ledger'.token = ledger.token
             /\ ~ledger'.old
  BY <1>1, <1>2, ClaimReleased
<1>6. \A i \in Jobs : i # upload.job => task'[i].pending = task[i].pending
  BY <1>1
<1> HIDE DEF b
<1> QED BY <1>1, <1>3, <1>4, <1>5, <1>6, UploadEnds

LEMMA UploadDiesInv ==
    ASSUME Inv, UploadDies
    PROVE  DataInv' /\ FenceInv'
<1> DEFINE j == upload.job
           b == job[j]
<1>1. upload.pc # "idle" /\ upload' = IdleUpload /\ UNCHANGED <<job, lock, epoch, task, run, poll, wal, kept, waived>>
  BY DEF UploadDies
<1>2. j \in Jobs /\ b.status = "queued" /\ b \in JobType /\ Fresh(j) /\ job' = [job EXCEPT ![j] = b]
  BY <1>1, UploadFacts DEF Inv, TypeInv, TypeOK
<1>3. ledger' \in {ledger, ReleasedBy(j), ReleasedUnbound(j)}
  BY DEF UploadDies
<1>4. LedgerGrows /\ \A q \in Runs : BoundRun(q) =>
             /\ ledger'.status = "processing" /\ ledger'.job = ledger.job /\ ledger'.token = ledger.token
             /\ ~ledger'.old
  BY <1>1, <1>2, <1>3, ClaimReleased
<1>5. \A i \in Jobs : i # upload.job => task'[i].pending = task[i].pending
  BY <1>1
<1> QED BY <1>1, <1>2, <1>4, <1>5, UploadEnds

\* A device that polls has no upload running, and its job is known.
LEMMA PollFacts ==
    ASSUME Inv, wal.state = "uploaded"
    PROVE  wal.job \in Jobs /\ job[wal.job] \in JobType /\ upload.pc = "idle" /\ job[wal.job].status # "unused"
<1>1. wal.job \in Jobs /\ job[wal.job] \in JobType /\ upload.pc = "idle"
  BY DEF Inv, TypeInv, TypeOK, RequestsOK
<1>2. ~Fresh(wal.job)
  BY <1>1 DEF Inv, FenceInv, Untouched
<1> QED BY <1>1, <1>2 DEF Fresh

LEMMA PollInv ==
    ASSUME Inv, Poll
    PROVE  DataInv' /\ FenceInv'
<1> DEFINE b == job[wal.job]
           p == IF Stale(b) THEN "heal" ELSE AfterRead(b)
<1>1. /\ wal.state = "uploaded" /\ poll' = [pc |-> p, seen |-> b]
      /\ UNCHANGED <<job, lock, epoch, ledger, task, run, upload, wal, kept, waived, faults>>
  BY DEF Poll
<1>2. wal.job \in Jobs
  BY <1>1, PollFacts
<1>3. poll'.pc = p /\ poll'.seen = b
  BY <1>1
<1>4. StaysEnded /\ CompletesRightly
  BY <1>1 DEF StaysEnded, CompletesRightly
<1>5. AnswersProven'
  BY <1>1, <1>2, <1>3 DEF AnswersProven, Safe, Accounted, Inv, DataInv, LedgerSound
<1>6. Untouched'
  BY <1>1 DEF Inv, FenceInv, Untouched, Fresh
<1>7. UploadQueued'
  BY <1>1 DEF Inv, FenceInv, UploadQueued
<1>8. PollEnded'
  BY <1>1, <1>3 DEF PollEnded, AfterRead, Live
<1>9. \A i \in Jobs : lock'[i] \in {lock[i], NoToken}
  BY <1>1
<1>10. \A i \in Jobs : epoch'[i] = epoch[i] \/ job'[i].status \notin Live
  BY <1>1
<1> QED BY <1>1, <1>4, <1>5, <1>6, <1>7, <1>8, <1>9, <1>10, LedgerKept, RequestMoves

LEMMA PollHealsInv ==
    ASSUME Inv, PollHeals
    PROVE  DataInv' /\ FenceInv'
<1> DEFINE b == Healed(poll.seen)
           p == AfterRead(b)
<1>1. /\ poll.pc = "heal" /\ job' = [job EXCEPT ![wal.job] = b] /\ poll' = [pc |-> p, seen |-> b]
      /\ UNCHANGED <<lock, epoch, ledger, task, run, upload, wal, kept, waived, faults>>
  BY DEF PollHeals
<1>2. wal.state = "uploaded" /\ wal.job \in Jobs /\ upload.pc = "idle" /\ poll.seen \in JobType
      /\ job \in [Jobs -> JobType]
  BY <1>1, PollFacts DEF Inv, TypeInv, TypeOK, RequestsOK
<1>3. b.status = "failed"
  BY <1>2 DEF Healed, JobType
<1> HIDE DEF b, p
<1>4. job'[wal.job] = b /\ (\A i \in Jobs \ {wal.job} : job'[i] = job[i]) /\ poll'.seen = b
  BY <1>1, <1>2
<1>5. StaysEnded /\ CompletesRightly
  BY <1>3, <1>4 DEF StaysEnded, CompletesRightly, Live
<1>6. AnswersProven'
  BY <1>1, <1>2, <1>3, <1>4 DEF AnswersProven
<1>7. Untouched'
  <2>1. \A i \in Jobs : Fresh(i)' => Fresh(i)
    BY <1>1, <1>3, <1>4 DEF Fresh
  <2> QED BY <1>1, <2>1 DEF Inv, FenceInv, Untouched
<1>8. UploadQueued'
  BY <1>1, <1>2 DEF UploadQueued
<1>9. PollEnded'
  BY <1>1, <1>3, <1>4 DEF PollEnded, Live
<1>10. \A i \in Jobs : lock'[i] \in {lock[i], NoToken}
  BY <1>1
<1>11. \A i \in Jobs : epoch'[i] = epoch[i] \/ job'[i].status \notin Live
  BY <1>1
<1> QED BY <1>1, <1>5, <1>6, <1>7, <1>8, <1>9, <1>10, <1>11, LedgerKept, RequestMoves

LEMMA PollReleasesInv ==
    ASSUME Inv, PollReleases
    PROVE  DataInv' /\ FenceInv'
<1>1. /\ poll.pc = "release" /\ ledger' \in {ledger, ReleasedBy(wal.job), ReleasedUnbound(wal.job)}
      /\ poll' = [poll EXCEPT !.pc = "answer"] \/ poll' = IdlePoll
      /\ UNCHANGED <<job, lock, epoch, task, run, upload, wal, kept, waived>>
  BY DEF PollReleases
<1>2. wal.state = "uploaded" /\ wal.job \in Jobs /\ upload.pc = "idle"
  BY <1>1, PollFacts DEF Inv, TypeInv, RequestsOK
<1>3. job[wal.job].status \notin Live /\ poll.seen.status \notin Live
  BY <1>1 DEF Inv, FenceInv, EndedFirst, PollEnded
<1>4. poll'.pc = "idle" \/ (poll'.pc = "answer" /\ poll'.seen = poll.seen)
  BY <1>1 DEF Inv, TypeInv, TypeOK, IdlePoll
<1>5. StaysEnded /\ CompletesRightly
  BY <1>1 DEF StaysEnded, CompletesRightly
<1>6. AnswersProven'
  BY <1>1, <1>4 DEF Inv, DataInv, AnswersProven, Safe, Accounted
<1>7. Untouched' /\ UploadQueued'
  BY <1>1 DEF Inv, FenceInv, Untouched, Fresh, UploadQueued
<1>8. PollEnded'
  BY <1>1, <1>3, <1>4 DEF PollEnded
<1>9. \A i \in Jobs : lock'[i] \in {lock[i], NoToken}
  BY <1>1
<1>10. \A i \in Jobs : epoch'[i] = epoch[i] \/ job'[i].status \notin Live
  BY <1>1
<1>11. LedgerGrows /\ \A q \in Runs : BoundRun(q) =>
             /\ ledger'.status = "processing" /\ ledger'.job = ledger.job /\ ledger'.token = ledger.token
             /\ ~ledger'.old
  BY <1>1, <1>2, <1>3, ClaimReleased
<1> QED BY <1>1, <1>5, <1>6, <1>7, <1>8, <1>9, <1>10, <1>11, RequestMoves

LEMMA PollAnswersInv ==
    ASSUME Inv, PollAnswers
    PROVE  DataInv' /\ FenceInv'
<1>1. /\ poll.pc = "answer" /\ poll' = IdlePoll
      /\ epoch' = IF AfterRead(poll.seen) = "release" THEN [epoch EXCEPT ![wal.job] = 0] ELSE epoch
      /\ UNCHANGED <<job, lock, ledger, task, run, upload, kept, waived, faults>>
  BY DEF PollAnswers
<1>2. wal.state = "uploaded" /\ wal.job \in Jobs /\ upload.pc = "idle" /\ epoch \in [Jobs -> Nat]
      /\ wal \in [state : {"local", "uploaded", "synced"}, job : Jobs \union {Nobody}]
  BY <1>1, PollFacts DEF Inv, TypeInv, TypeOK, RequestsOK
<1>3. \/ Done(poll.seen) /\ wal' = [wal EXCEPT !.state = "synced"]
      \/ wal' = wal
      \/ wal' = [state |-> "local", job |-> Nobody]
  BY DEF PollAnswers
<1>4. /\ wal'.job \in {wal.job, Nobody}
      /\ wal'.state = "synced" => wal'.job = wal.job /\ poll.seen.status = "completed"
  BY <1>2, <1>3 DEF Done
<1>5. StaysEnded /\ CompletesRightly
  BY <1>1 DEF StaysEnded, CompletesRightly
<1>6. AnswersProven'
  BY <1>1, <1>4 DEF Inv, DataInv, AnswersProven, Safe, Accounted, IdlePoll
<1>7. Untouched'
  <2>1. \A i \in Jobs : Fresh(i)' => Fresh(i)
    BY <1>1 DEF Fresh
  <2> QED BY <1>1, <1>4, <2>1, NobodyAssumption DEF Inv, FenceInv, Untouched
<1>8. UploadQueued'
  BY <1>1, <1>2 DEF UploadQueued
<1>9. PollEnded'
  BY <1>1 DEF PollEnded, IdlePoll
<1>10. \A i \in Jobs : lock'[i] \in {lock[i], NoToken}
  BY <1>1
<1>11. \A i \in Jobs : epoch'[i] = epoch[i] \/ job'[i].status \notin Live
  <2>1. AfterRead(poll.seen) = "release" => poll.seen.status \notin Live
    BY DEF AfterRead, Live
  <2>2. AfterRead(poll.seen) = "release" => job[wal.job].status \notin Live
    BY <1>1, <2>1 DEF Inv, FenceInv, EndedFirst, PollEnded
  <2> QED BY <1>1, <1>2, <2>2
<1> QED BY <1>1, <1>5, <1>6, <1>7, <1>8, <1>9, <1>10, <1>11, LedgerKept, RequestMoves

-----------------------------------------------------------------------------
(* Time                                                                     *)

\* Whatever elapses, nobody hears of a free job id and no upload loses its job.
LEMMA TimeMoves ==
    ASSUME Inv, NEW j \in Jobs, NEW b \in JobType, job' = [job EXCEPT ![j] = b],
           b.fence = job[j].fence, b.superseded = job[j].superseded,
           b.status = job[j].status
           \/ (job[j].status # "unused" /\ b.status = "gone" /\ upload.pc = "idle" /\ poll.pc = "idle"),
           \A i \in Jobs : lock'[i] \in {lock[i], NoToken},
           UNCHANGED <<epoch, ledger, task, run, upload, poll, wal, kept, waived>>
    PROVE  DataInv' /\ FenceInv'
<1>1. /\ job \in [Jobs -> JobType]
      /\ wal.state # "local" => wal.job \in Jobs
      /\ upload.pc # "idle" => upload.job \in Jobs
      /\ poll.pc # "idle" => wal.state = "uploaded"
      /\ wal \in [state : {"local", "uploaded", "synced"}, job : Jobs \union {Nobody}]
  BY DEF Inv, TypeInv, TypeOK, RequestsOK
<1>2. job'[j] = b /\ \A i \in Jobs \ {j} : job'[i] = job[i]
  BY <1>1
<1>3. \A i \in Jobs : /\ job'[i].fence = job[i].fence /\ job'[i].superseded = job[i].superseded
                      /\ job'[i].status = job[i].status
                         \/ (job[i].status # "unused" /\ job'[i].status = "gone"
                             /\ upload.pc = "idle" /\ poll.pc = "idle")
  BY <1>2
<1>4. StaysEnded
  BY <1>3 DEF StaysEnded, Live
<1>5. CompletesRightly
  BY <1>3 DEF CompletesRightly
<1>6. AnswersProven'
  BY <1>1, <1>3 DEF Inv, DataInv, AnswersProven, Safe, Accounted
<1>7. Untouched'
  <2>1. \A i \in Jobs : Fresh(i)' => Fresh(i)
    BY <1>3 DEF Fresh
  <2> QED BY <2>1 DEF Inv, FenceInv, Untouched
<1>8. UploadQueued'
  BY <1>1, <1>3 DEF Inv, FenceInv, UploadQueued
<1>9. PollEnded'
  BY <1>1, <1>3 DEF Inv, FenceInv, EndedFirst, PollEnded
<1>10. \A i \in Jobs : epoch'[i] = epoch[i] \/ job'[i].status \notin Live
  OBVIOUS
<1>11. LedgerGrows /\ \A q \in Runs : BoundRun(q) =>
             /\ ledger'.status = "processing" /\ ledger'.job = ledger.job /\ ledger'.token = ledger.token
             /\ ~ledger'.old
  BY LedgerKept
<1> QED BY <1>4, <1>5, <1>6, <1>7, <1>8, <1>9, <1>10, <1>11, RequestMoves

LEMMA SilenceInv ==
    ASSUME Inv, NEW j \in Jobs, Silence(j)
    PROVE  DataInv' /\ FenceInv'
<1> DEFINE b == [job[j] EXCEPT !.silent = TRUE]
<1>1. job[j] \in JobType /\ job \in [Jobs -> JobType]
  BY DEF Inv, TypeInv, TypeOK
<1>2. /\ b \in JobType /\ b.fence = job[j].fence /\ b.superseded = job[j].superseded
      /\ b.status = job[j].status
  BY <1>1 DEF JobType
<1>3. job' = [job EXCEPT ![j] = b] /\ UNCHANGED <<lock, epoch, ledger, task, run, upload, poll, wal, kept, waived>>
  BY <1>1 DEF Silence
<1>4. \A i \in Jobs : lock'[i] \in {lock[i], NoToken}
  BY <1>3
<1> HIDE DEF b
<1> QED BY <1>2, <1>3, <1>4, TimeMoves

LEMMA LeaseExpiresInv ==
    ASSUME Inv, NEW j \in Jobs, LeaseExpires(j)
    PROVE  DataInv' /\ FenceInv'
<1> DEFINE b == job[j]
<1>1. b \in JobType /\ job \in [Jobs -> JobType] /\ lock \in [Jobs -> Token]
  BY DEF Inv, TypeInv, TypeOK
<1>2. /\ lock' = [lock EXCEPT ![j] = NoToken]
      /\ UNCHANGED <<job, epoch, ledger, task, run, upload, poll, wal, kept, waived>>
  BY DEF LeaseExpires
<1>3. job' = [job EXCEPT ![j] = b]
  BY <1>1, <1>2
<1>4. \A i \in Jobs : lock'[i] \in {lock[i], NoToken}
  BY <1>1, <1>2
<1> QED BY <1>1, <1>2, <1>3, <1>4, TimeMoves

LEMMA JobExpiresInv ==
    ASSUME Inv, NEW j \in Jobs, JobExpires(j)
    PROVE  DataInv' /\ FenceInv'
<1> DEFINE b == [job[j] EXCEPT !.status = "gone"]
<1>1. job[j] \in JobType /\ job \in [Jobs -> JobType]
  BY DEF Inv, TypeInv, TypeOK
<1>2. b \in JobType /\ b.fence = job[j].fence /\ b.superseded = job[j].superseded /\ b.status = "gone"
  BY <1>1 DEF JobType
<1>3. upload.pc = "idle" /\ poll.pc = "idle" /\ job[j].status # "unused"
  BY DEF JobExpires, Quiet, IdleUpload, IdlePoll, Live, Terminal
<1>4. job' = [job EXCEPT ![j] = b] /\ UNCHANGED <<lock, epoch, ledger, task, run, upload, poll, wal, kept, waived>>
  BY <1>1 DEF JobExpires
<1>5. \A i \in Jobs : lock'[i] \in {lock[i], NoToken}
  BY <1>4
<1> HIDE DEF b
<1> QED BY <1>2, <1>3, <1>4, <1>5, TimeMoves

LEMMA ClaimAgesInv ==
    ASSUME Inv, ClaimAges
    PROVE  DataInv' /\ FenceInv'
<1>1. /\ ledger.status = "processing" /\ ledger' = [ledger EXCEPT !.old = TRUE] /\ Quiet
      /\ UNCHANGED <<job, lock, epoch, task, run, upload, poll, wal, kept, waived>>
  BY DEF ClaimAges
<1>2. ledger \in LedgerType
  BY DEF Inv, TypeInv, TypeOK
<1>3. ledger'.status = ledger.status /\ ledger'.segs = ledger.segs
  BY <1>1, <1>2 DEF LedgerType
<1>4. LedgerGrows
  BY <1>1, <1>3 DEF Inv, DataInv, LedgerSound, Accounted, LedgerGrows
<1>5. \A q \in Runs : ~BoundRun(q)
  <2>1. \A q \in Runs : run[q].pc # "idle" => run[q].job \in Jobs
    BY WorkerFields DEF Inv
  <2> QED BY <1>1, <2>1 DEF Quiet, Working, BoundRun, Holder
<1>6. StaysEnded /\ CompletesRightly
  BY <1>1 DEF StaysEnded, CompletesRightly
<1>7. AnswersProven' /\ Untouched' /\ UploadQueued' /\ PollEnded'
  BY <1>1 DEF Inv, DataInv, FenceInv, EndedFirst, AnswersProven, Safe, Accounted, Untouched, Fresh, UploadQueued, PollEnded
<1>8. \A i \in Jobs : lock'[i] \in {lock[i], NoToken}
  BY <1>1
<1>9. \A i \in Jobs : epoch'[i] = epoch[i] \/ job'[i].status \notin Live
  BY <1>1
<1> QED BY <1>1, <1>4, <1>5, <1>6, <1>7, <1>8, <1>9, RequestMoves

-----------------------------------------------------------------------------
(* The invariant is inductive                                               *)

LEMMA InvInit == Init => Inv
<1> SUFFICES ASSUME Init PROVE Inv
  OBVIOUS
<1>1. TypeInv
  BY TypeInit
<1>2. /\ \A j \in Jobs : job[j].status = "unused" /\ lock[j] = NoToken /\ ~task[j].pending
      /\ \A r \in Runs : run[r] = IdleRun
      /\ upload.pc = "idle" /\ poll.pc = "idle" /\ wal.state = "local" /\ wal.job = Nobody
  BY DEF Init, NoJob, IdleUpload, IdlePoll
<1>3. ledger.status \in {"none", "malformed"} /\ ledger.segs = {}
  BY ProtocolAssumption DEF Init
<1>4. IdleRun.pc = "idle" /\ IdleRun.job = Nobody /\ IdleRun.token = NoToken
      /\ IdleRun.done = {} /\ IdleRun.next = "none"
  BY DEF IdleRun
<1>5. DataInv
  BY <1>2, <1>3, <1>4 DEF DataInv, LedgerSound, WorkProven, RunProven, Carries, AnswersProven
<1>6. Untouched
  BY <1>2, <1>4, NobodyAssumption DEF Untouched
<1>7. UploadQueued /\ TokensOwn /\ EndedFirst
  BY <1>2, <1>4 DEF UploadQueued, TokensOwn, EndedFirst, PollEnded
<1>8. EpochsGrow /\ Bound
  BY <1>2, <1>4 DEF EpochsGrow, Live, Bound, BoundRun, Holder
<1> QED BY <1>1, <1>5, <1>6, <1>7, <1>8 DEF Inv, FenceInv

LEMMA InvStep == Inv /\ [Next]_vars => Inv'
<1> SUFFICES ASSUME Inv, [Next]_vars PROVE Inv'
  OBVIOUS
<1>1. TypeInv'
  BY TypeStep DEF Inv
<1> SUFFICES DataInv' /\ FenceInv'
  BY <1>1 DEF Inv
<1>2. CASE UploadStep
  BY <1>2, UploadInv, ClaimInv, DispatchTaskInv, DispatchInlineInv DEF UploadStep
<1>3. CASE StagingFails \/ UploadDies
  BY <1>3, StagingFailsInv, UploadDiesInv
<1>4. CASE PollStep
  BY <1>4, PollInv, PollHealsInv, PollReleasesInv, PollAnswersInv DEF PollStep
<1>5. CASE \E r \in Runs : RunStep(r) \/ Crash(r)
  <2>1. PICK r \in Runs : RunStep(r) \/ Crash(r)
    BY <1>5
  <2>2. CASE RunHeals(r) \/ TakeLock(r) \/ ReadUnderLock(r) \/ Bind(r) \/ Converge(r) \/ Start(r)
    BY <2>2, RunHealsInv, TakeLockInv, ReadUnderLockInv, BindInv, ConvergeInv, StartInv
  <2>3. CASE WorkEnds(r) \/ (\E s \in Segments : Transcribe(r, s)) \/ Mark(r) \/ Tail(r) \/ Publish(r)
    BY <2>3, WorkEndsInv, TranscribeInv, MarkInv, TailInv, PublishInv
  <2>4. CASE Raised(r) \/ RaisedInline(r) \/ Fail(r) \/ Supersede(r) \/ Cleanup(r) \/ Finish(r) \/ Lost(r)
             \/ Crash(r)
    BY <2>4, RaisedInv, RaisedInlineInv, FailInv, SupersedeInv, CleanupInv, FinishInv, LostInv, CrashInv
  <2> QED BY <2>1, <2>2, <2>3, <2>4 DEF RunStep
<1>6. CASE \E j \in Jobs : Deliver(j) \/ TimeStep(j)
  BY <1>6, DeliverInv, SilenceInv, LeaseExpiresInv, JobExpiresInv DEF TimeStep
<1>7. CASE ClaimAges
  BY <1>7, ClaimAgesInv
<1>8. CASE UNCHANGED vars
  <2>1. DataInv'
    BY <1>8 DEF vars, Inv, DataInv, LedgerSound, Accounted, WorkProven, RunProven, Carries, AnswersProven, Safe
  <2>2. Untouched' /\ UploadQueued' /\ TokensOwn' /\ EndedFirst'
    BY <1>8 DEF vars, Inv, FenceInv, Untouched, Fresh, UploadQueued, TokensOwn, EndedFirst, PollEnded
  <2>3. EpochsGrow' /\ Bound'
    BY <1>8 DEF vars, Inv, FenceInv, EpochsGrow, Fenced, Bound, BoundRun, Works, Holder, LedgerOwner, RunToken
  <2> QED BY <2>1, <2>2, <2>3 DEF FenceInv
<1> QED BY <1>2, <1>3, <1>4, <1>5, <1>6, <1>7, <1>8 DEF Next

\* Inv is an invariant of the specification.
THEOREM InvInvariant == Spec => []Inv
<1>1. Init => Inv
  BY InvInit
<1>2. Inv /\ [Next]_vars => Inv'
  BY InvStep
<1> QED BY <1>1, <1>2, PTL DEF Spec

-----------------------------------------------------------------------------
(* The guarantees                                                           *)

\* Whatever workers overlap, die or repeat each other, a job says completed only
\* after complete_sync_content made the ledger say so (or a newer generation
\* superseded it), the ledger names only segments that are in a conversation, and it
\* completes no recording with a segment that is neither in one nor without speech
\* nor overruled by the user: as long as the store lets the budget's rejections land.
THEOREM CompletionIsProven ==
    ASSUME FailuresLand
    PROVE  Spec => []CompletionProven
<1>1. Inv => CompletionProven
  BY DEF Inv, DataInv, LedgerSound, CompletionProven
<1> QED BY <1>1, InvInvariant, PTL

\* The device that polls get_sync_job_status drops a recording only if every
\* segment is accounted for or the conversation was superseded, for every number
\* of uploads, workers, segments and faults, although a reader may overwrite the
\* job with a blob that it read earlier: as long as the store lets the budget's
\* rejections land.
THEOREM AudioIsNotLost ==
    ASSUME FailuresLand
    PROVE  Spec => []NoAudioLost
<1>1. Inv => NoAudioLost
  BY DEF Inv, DataInv, AnswersProven, Safe, NoAudioLost
<1> QED BY <1>1, InvInvariant, PTL

\* A fenced worker that bound its token (bind_sync_content_run_token) owns the
\* ledger's claim for as long as it holds the run lock of a live job: a delayed
\* worker with an older token loses the bind and cannot release the claim.
THEOREM HolderKeepsLedger == Spec => []HolderOwnsLedger
<1>1. Inv => HolderOwnsLedger
  BY DEF Inv, FenceInv, Bound, BoundRun, Works, BoundSteps, HolderOwnsLedger
<1> QED BY <1>1, InvInvariant, PTL

\* No step takes a completion back: a claim asks whether one is proven, a release
\* and the ageing of a claim ask for "processing", and a bind converges instead.
LEMMA CompletionStays ==
    ASSUME TypeInv, Next, ledger.status = "completed"
    PROVE  ledger'.status = "completed"
<1>1. ledger \in LedgerType
  BY DEF TypeInv, TypeOK
<1>2. \A j : ReleasedBy(j) = ledger /\ ReleasedUnbound(j) = ledger
  BY DEF ReleasedBy, ReleasedUnbound
<1>3. CASE UploadStep
  BY <1>3 DEF UploadStep, Upload, Claim, Proven, Busy, DispatchTask, DispatchInline
<1>4. CASE StagingFails \/ UploadDies
  BY <1>2, <1>4 DEF StagingFails, UploadDies
<1>5. CASE PollStep
  BY <1>2, <1>5 DEF PollStep, Poll, PollHeals, PollReleases, PollAnswers
<1>6. ASSUME NEW r \in Runs, RunStep(r) \/ Crash(r)
      PROVE  ledger'.status = "completed"
  <2>1. CASE RunHeals(r) \/ TakeLock(r) \/ ReadUnderLock(r) \/ Converge(r) \/ Start(r) \/ WorkEnds(r)
             \/ (\E s \in Segments : Transcribe(r, s)) \/ Publish(r)
    BY <2>1 DEF RunHeals, TakeLock, ReadUnderLock, Converge, Start, WorkEnds, Transcribe, Publish
  <2>2. CASE Raised(r) \/ RaisedInline(r) \/ Fail(r) \/ Supersede(r) \/ Finish(r) \/ Lost(r) \/ Crash(r)
    BY <2>2 DEF Raised, RaisedInline, Fail, Supersede, Finish, Lost, Crash
  <2>3. CASE Bind(r)
    BY <2>3 DEF Bind
  <2>4. CASE Mark(r)
    BY <2>4 DEF Mark, LedgerOwner
  <2>5. CASE Tail(r)
    BY <1>1, <2>5 DEF Tail, LedgerType
  <2>6. CASE Cleanup(r)
    BY <1>2, <2>6 DEF Cleanup
  <2> QED BY <1>6, <2>1, <2>2, <2>3, <2>4, <2>5, <2>6 DEF RunStep
<1>7. CASE \E j \in Jobs : Deliver(j) \/ TimeStep(j)
  BY <1>7 DEF Deliver, TimeStep, Silence, LeaseExpires, JobExpires
<1>8. CASE ClaimAges
  BY <1>8 DEF ClaimAges
<1> QED BY <1>3, <1>4, <1>5, <1>6, <1>7, <1>8 DEF Next

\* A durable completion of a recording is never taken back by a late release,
\* claim, bind or checkpoint of another upload or another run.
THEOREM CompletionIsKept == Spec => CompletionKept
<1>1. TypeInv /\ [Next]_vars => [ledger.status = "completed" => ledger'.status = "completed"]_vars
  BY CompletionStays
<1> QED BY <1>1, TypeInvariant, PTL DEF Spec, CompletionKept

=============================================================================
