------------------------- MODULE SyncUploadTypeProofs -------------------------
(***************************************************************************)
(* Type correctness of SyncUpload, for every set of uploads, workers and   *)
(* segments, every mix of dispatch and fence modes, every outcome of the   *)
(* pipeline and every number of faults.                                    *)
(***************************************************************************)
EXTENDS SyncUpload, TLAPS

-----------------------------------------------------------------------------
(* The inductive invariant                                                  *)

\* A worker that runs has a job, and a heal or a bind knows where it continues.
WellFormed(w) ==
    /\ w.pc = "idle" => w = IdleRun
    /\ w.pc # "idle" => w.job \in Jobs
    /\ w.pc = "heal" => w.next \in {"lock", "cleanup", "nack"}
    /\ w.pc = "bind" => w.next \in {"start", "fail"}

WorkersOK == \A r \in Runs : WellFormed(run[r])

\* A device waits for one answer at a time: it uploads what it has only itself,
\* and polls only the job it was told of.
RequestsOK ==
    /\ upload.pc # "idle" => upload.job \in Jobs /\ wal.state = "local"
    /\ poll.pc # "idle" => wal.state = "uploaded"
    /\ wal.state # "local" => wal.job \in Jobs

TypeInv == TypeOK /\ WorkersOK /\ RequestsOK

-----------------------------------------------------------------------------
(* The records                                                              *)

LEMMA BoundsTyped == MaxFaults \in Nat /\ MaxAttempts \in Nat /\ MaxAttempts > 0
  BY BoundsAssumption

LEMMA ConstantsTyped ==
    /\ NoJob \in JobType /\ NoToken \in Token
    /\ IdleRun \in RunType
    /\ IdlePoll \in [pc : {"idle", "heal", "release", "answer"}, seen : JobType]
    /\ IdleUpload \in [pc : {"idle", "claim", "dispatch"}, job : Jobs \union {Nobody}]
<1>1. NoJob \in JobType
  BY DEF NoJob, JobType, Live, Terminal
<1>2. NoToken \in Token
  BY DEF NoToken, Token
<1>3. IdleRun \in RunType
  BY <1>2 DEF IdleRun, RunType
<1>4. IdlePoll \in [pc : {"idle", "heal", "release", "answer"}, seen : JobType]
  BY <1>1 DEF IdlePoll
<1>5. IdleUpload \in [pc : {"idle", "claim", "dispatch"}, job : Jobs \union {Nobody}]
  BY DEF IdleUpload
<1> QED BY <1>1, <1>2, <1>3, <1>4, <1>5

\* Every write to a job blob.
LEMMA BlobWrites ==
    ASSUME NEW b \in JobType
    PROVE  /\ Healed(b) \in JobType
           /\ \A s \in Live \union Terminal : Written(b, s) \in JobType
           /\ \A s \in Live \union Terminal : [Written(b, s) EXCEPT !.started = TRUE] \in JobType
           /\ \A s \in Live \union Terminal : [Written(b, s) EXCEPT !.superseded = TRUE] \in JobType
           /\ [b EXCEPT !.silent = TRUE] \in JobType
           /\ [b EXCEPT !.silent = FALSE] \in JobType
           /\ [b EXCEPT !.status = "gone"] \in JobType
  BY DEF Healed, Written, JobType, Live, Terminal

LEMMA NewBlobTyped ==
    ASSUME NEW m \in Modes, NEW f \in Fences
    PROVE  [NoJob EXCEPT !.status = "queued", !.mode = m, !.fence = f] \in JobType
<1>1. m \in {"inline", "cloud_tasks"} /\ f \in {"legacy", "active"}
  BY ProtocolAssumption
<1> QED BY <1>1 DEF NoJob, JobType, Live, Terminal

\* Every write to the ledger that does not depend on a worker.
LEMMA LedgerWrites ==
    ASSUME TypeOK, NEW j \in Jobs
    PROVE  ClaimedBy(j) \in LedgerType /\ ReleasedBy(j) \in LedgerType /\ ReleasedUnbound(j) \in LedgerType
<1>1. ledger \in LedgerType /\ NoToken \in Token
  BY ConstantsTyped DEF TypeOK
<1>2. ClaimedBy(j) \in LedgerType
  <2>1. CASE ledger.status = "malformed"
    <3>1. ClaimedBy(j) = [ledger EXCEPT !.status = "processing", !.job = j, !.token = NoToken, !.old = FALSE,
                                        !.segs = {}]
      BY <2>1 DEF ClaimedBy
    <3> QED BY <1>1, <3>1 DEF LedgerType
  <2>2. CASE ledger.status # "malformed"
    <3>1. ClaimedBy(j) = [ledger EXCEPT !.status = "processing", !.job = j, !.token = NoToken, !.old = FALSE]
      BY <1>1, <2>2 DEF ClaimedBy, LedgerType
    <3> QED BY <1>1, <3>1 DEF LedgerType
  <2> QED BY <2>1, <2>2
<1>3. ReleasedBy(j) \in LedgerType
  BY <1>1 DEF ReleasedBy, LedgerType
<1> QED BY <1>1, <1>2, <1>3 DEF ReleasedUnbound

LEMMA NewTokenTyped ==
    ASSUME TypeOK, NEW j \in Jobs, NEW r \in Runs
    PROVE  NewToken(r, j) \in Token /\ NewToken(r, j).epoch \in Nat
<1>1. epoch[j] \in Nat
  BY DEF TypeOK
<1> QED BY <1>1 DEF NewToken, Token

LEMMA FreeRun ==
    ASSUME \E q \in Runs : Free(q)
    PROVE  NewRun \in Runs /\ Free(NewRun)
  BY DEF NewRun

LEMMA FaultTyped ==
    ASSUME TypeOK, UNCHANGED faults \/ \E f \in Faults : Fault(f)
    PROVE  faults' \in 0..MaxFaults
  BY BoundsTyped DEF TypeOK, Fault

LEMMA FaultNamed ==
    ASSUME NEW f, Fault(f)
    PROVE  \E g \in Faults : Fault(g)
  BY DEF Fault

\* The parts of TypeInv that a step of a worker cannot touch.
LEMMA Assemble ==
    ASSUME TypeInv, UNCHANGED <<upload, poll, wal>>, run' \in [Runs -> RunType], WorkersOK',
           job' \in [Jobs -> JobType], lock' \in [Jobs -> Token], epoch' \in [Jobs -> Nat],
           ledger' \in LedgerType, task' \in [Jobs -> TaskType], kept' \in SUBSET Segments,
           waived' \in SUBSET Segments, faults' \in 0..MaxFaults
    PROVE  TypeInv'
  BY DEF TypeInv, TypeOK, RequestsOK

-----------------------------------------------------------------------------
(* How a worker moves                                                       *)

\* The steps that are neither an end nor a heal nor a bind.
PlainSteps ==
    {"lock", "read", "converge", "start", "work", "mark", "tail", "publish", "raised", "fail", "superseded",
     "cleanup", "finish", "lost"}

LEMMA RunSet ==
    ASSUME TypeInv, NEW r \in Runs, NEW n \in RunType, WellFormed(n), run' = [run EXCEPT ![r] = n]
    PROVE  /\ run' \in [Runs -> RunType] /\ WorkersOK'
           /\ run'[r] = n /\ \A q \in Runs \ {r} : run'[q] = run[q]
<1>1. run \in [Runs -> RunType] /\ \A q \in Runs : WellFormed(run[q])
  BY DEF TypeInv, TypeOK, WorkersOK
<1>2. run'[r] = n /\ \A q \in Runs \ {r} : run'[q] = run[q]
  BY <1>1
<1>3. \A q \in Runs : WellFormed(run'[q])
  BY <1>1, <1>2
<1>4. WorkersOK'
  BY <1>3 DEF WorkersOK, WellFormed
<1> QED BY <1>1, <1>2, <1>4

LEMMA StepMoves ==
    ASSUME TypeInv, NEW r \in Runs, NEW pc \in PlainSteps, run[r].pc # "idle", Step(r, pc)
    PROVE  /\ run' \in [Runs -> RunType] /\ WorkersOK'
           /\ run'[r] = [run[r] EXCEPT !.pc = pc] /\ \A q \in Runs \ {r} : run'[q] = run[q]
<1> DEFINE n == [run[r] EXCEPT !.pc = pc]
<1>1. run[r] \in RunType /\ run[r].job \in Jobs
  BY DEF TypeInv, TypeOK, WorkersOK, WellFormed
<1>2. n \in RunType /\ WellFormed(n)
  BY <1>1 DEF RunType, WellFormed, PlainSteps
<1>3. run' = [run EXCEPT ![r] = n]
  BY DEF Step
<1> HIDE DEF n
<1>4. /\ run' \in [Runs -> RunType] /\ WorkersOK'
      /\ run'[r] = n /\ \A q \in Runs \ {r} : run'[q] = run[q]
  BY <1>2, <1>3, RunSet
<1> QED BY <1>4 DEF n

\* The run that has left the pipeline.
LeftRun(r, pc) == [run[r] EXCEPT !.pc = pc, !.left = {}, !.errs = {}, !.done = {}]

LEMMA LeaveMoves ==
    ASSUME TypeInv, NEW r \in Runs, NEW pc \in PlainSteps, run[r].pc # "idle", Leave(r, pc)
    PROVE  /\ run' = [run EXCEPT ![r] = LeftRun(r, pc)]
           /\ LeftRun(r, pc) \in RunType /\ WellFormed(LeftRun(r, pc))
           /\ LeftRun(r, pc).pc = pc /\ LeftRun(r, pc).job = run[r].job /\ LeftRun(r, pc).token = run[r].token
           /\ LeftRun(r, pc).errs = {}
<1>1. run[r] \in RunType /\ run[r].job \in Jobs /\ run \in [Runs -> RunType]
  BY DEF TypeInv, TypeOK, WorkersOK, WellFormed
<1>2. LeftRun(r, pc) \in RunType
  BY <1>1 DEF LeftRun, RunType, PlainSteps
<1>3. /\ LeftRun(r, pc).pc = pc /\ LeftRun(r, pc).job = run[r].job /\ LeftRun(r, pc).token = run[r].token
      /\ LeftRun(r, pc).errs = {}
  BY <1>1 DEF LeftRun, RunType
<1>4. WellFormed(LeftRun(r, pc))
  BY <1>1, <1>3 DEF WellFormed, PlainSteps
<1>5. run' = [run EXCEPT ![r] = LeftRun(r, pc)]
  BY <1>1 DEF Leave, LeftRun
<1> QED BY <1>2, <1>3, <1>4, <1>5

\* The run that is about to fail its job.
RejectedRun(r, reason) == [run[r] EXCEPT !.pc = "fail", !.next = reason]

LEMMA RejectMoves ==
    ASSUME TypeInv, NEW r \in Runs, run[r].pc # "idle", NEW reason \in {"reject", "budget", "fail"},
           Reject(r, reason)
    PROVE  /\ run' = [run EXCEPT ![r] = RejectedRun(r, reason)]
           /\ RejectedRun(r, reason) \in RunType /\ WellFormed(RejectedRun(r, reason))
           /\ RejectedRun(r, reason).pc = "fail" /\ RejectedRun(r, reason).next = reason
           /\ RejectedRun(r, reason).job = run[r].job /\ RejectedRun(r, reason).token = run[r].token
<1>1. run[r] \in RunType /\ run[r].job \in Jobs /\ run \in [Runs -> RunType]
  BY DEF TypeInv, TypeOK, WorkersOK, WellFormed
<1>2. RejectedRun(r, reason) \in RunType
  BY <1>1 DEF RejectedRun, RunType
<1>3. /\ RejectedRun(r, reason).pc = "fail" /\ RejectedRun(r, reason).next = reason
      /\ RejectedRun(r, reason).job = run[r].job /\ RejectedRun(r, reason).token = run[r].token
  BY <1>1 DEF RejectedRun, RunType
<1>4. WellFormed(RejectedRun(r, reason))
  BY <1>1, <1>3 DEF WellFormed
<1>5. run' = [run EXCEPT ![r] = RejectedRun(r, reason)]
  BY <1>1 DEF Reject, RejectedRun
<1> QED BY <1>2, <1>3, <1>4, <1>5

\* A worker that goes to another step, in the pipeline or out of it.
LEMMA GoMoves ==
    ASSUME TypeInv, NEW r \in Runs, run[r].pc # "idle", NEW pc \in PlainSteps, Step(r, pc) \/ Leave(r, pc)
    PROVE  run' \in [Runs -> RunType] /\ WorkersOK'
<1>1. CASE Step(r, pc)
  BY <1>1, StepMoves
<1>2. CASE Leave(r, pc)
  BY <1>2, LeaveMoves, RunSet
<1> QED BY <1>1, <1>2

LEMMA EndMoves ==
    ASSUME TypeInv, NEW r \in Runs, End(r)
    PROVE  /\ run' \in [Runs -> RunType] /\ WorkersOK'
           /\ run'[r] = IdleRun /\ \A q \in Runs \ {r} : run'[q] = run[q]
<1>1. IdleRun \in RunType /\ WellFormed(IdleRun)
  BY ConstantsTyped DEF WellFormed, IdleRun
<1>2. run' = [run EXCEPT ![r] = IdleRun]
  BY DEF End
<1> QED BY <1>1, <1>2, RunSet

LEMMA HealMoves ==
    ASSUME TypeInv, NEW r \in Runs, run[r].pc # "idle",
           run' = [run EXCEPT ![r].pc = "heal", ![r].next = "nack"]
    PROVE  /\ run' \in [Runs -> RunType] /\ WorkersOK'
           /\ run'[r] = [run[r] EXCEPT !.pc = "heal", !.next = "nack"]
           /\ \A q \in Runs \ {r} : run'[q] = run[q]
<1> DEFINE n == [run[r] EXCEPT !.pc = "heal", !.next = "nack"]
<1>1. run[r] \in RunType /\ run[r].job \in Jobs /\ run \in [Runs -> RunType]
  BY DEF TypeInv, TypeOK, WorkersOK, WellFormed
<1>2. n \in RunType /\ WellFormed(n)
  BY <1>1 DEF RunType, WellFormed
<1>3. run' = [run EXCEPT ![r] = n]
  BY <1>1
<1> HIDE DEF n
<1>4. /\ run' \in [Runs -> RunType] /\ WorkersOK'
      /\ run'[r] = n /\ \A q \in Runs \ {r} : run'[q] = run[q]
  BY <1>2, <1>3, RunSet
<1> QED BY <1>4 DEF n

LEMMA WorkerFields ==
    ASSUME TypeInv, NEW r \in Runs, run[r].pc # "idle"
    PROVE  /\ run[r].job \in Jobs /\ run[r] \in RunType /\ WellFormed(run[r])
           /\ job[run[r].job] \in JobType
           /\ run[r].token \in Token /\ run[r].left \subseteq Segments /\ run[r].errs \subseteq Segments
           /\ run[r].done \subseteq Segments
<1>1. run[r] \in RunType /\ WellFormed(run[r]) /\ run[r].job \in Jobs
  BY DEF TypeInv, TypeOK, WorkersOK, WellFormed
<1>2. job[run[r].job] \in JobType
  BY <1>1 DEF TypeInv, TypeOK
<1>3. /\ run[r].token \in Token /\ run[r].left \subseteq Segments /\ run[r].errs \subseteq Segments
      /\ run[r].done \subseteq Segments
  BY <1>1 DEF RunType
<1> QED BY <1>1, <1>2, <1>3

LEMMA UnlockTyped ==
    ASSUME TypeInv, NEW r \in Runs, run[r].pc # "idle", Unlock(r)
    PROVE  lock' \in [Jobs -> Token]
<1>1. run[r].job \in Jobs /\ lock \in [Jobs -> Token] /\ NoToken \in Token
  BY WorkerFields, ConstantsTyped DEF TypeInv, TypeOK
<1> QED BY <1>1 DEF Unlock

-----------------------------------------------------------------------------
(* The steps of the upload request                                          *)

LEMMA ReplyTyped ==
    ASSUME TypeInv, NEW j \in Jobs, upload.pc # "idle", Reply(j)
    PROVE  /\ upload' = IdleUpload
           /\ wal' \in [state : {"local", "uploaded", "synced"}, job : Jobs \union {Nobody}]
           /\ faults' \in 0..MaxFaults
           /\ wal'.state # "local" => wal'.job \in Jobs
           /\ poll.pc # "idle" => wal'.state = "uploaded"
<1>1. upload' = IdleUpload
  BY DEF Reply
<1>2. /\ wal \in [state : {"local", "uploaded", "synced"}, job : Jobs \union {Nobody}] /\ wal.state = "local"
      /\ poll.pc = "idle"
  BY DEF TypeInv, TypeOK, RequestsOK
<1>3. CASE wal' = [state |-> "uploaded", job |-> j] /\ UNCHANGED faults
  BY <1>1, <1>2, <1>3 DEF TypeInv, TypeOK
<1>4. CASE Fault("reply") /\ UNCHANGED wal
  <2>1. faults' \in 0..MaxFaults
    BY <1>4, FaultNamed, FaultTyped DEF TypeInv
  <2> QED BY <1>1, <1>2, <1>4, <2>1
<1> QED BY <1>3, <1>4 DEF Reply

\* What is left of TypeInv when the workers do nothing.
LEMMA AssembleRequest ==
    ASSUME TypeInv, UNCHANGED run, RequestsOK',
           upload' \in [pc : {"idle", "claim", "dispatch"}, job : Jobs \union {Nobody}],
           poll' \in [pc : {"idle", "heal", "release", "answer"}, seen : JobType],
           wal' \in [state : {"local", "uploaded", "synced"}, job : Jobs \union {Nobody}],
           job' \in [Jobs -> JobType], lock' \in [Jobs -> Token], epoch' \in [Jobs -> Nat],
           ledger' \in LedgerType, task' \in [Jobs -> TaskType], kept' \in SUBSET Segments,
           waived' \in SUBSET Segments, faults' \in 0..MaxFaults
    PROVE  TypeInv'
  BY DEF TypeInv, TypeOK, WorkersOK

LEMMA UploadType == TypeInv /\ Upload => TypeInv'
<1> SUFFICES ASSUME TypeInv, Upload PROVE TypeInv'
  OBVIOUS
<1> DEFINE j == CHOOSE i \in Jobs : job[i].status = "unused"
<1>1. j \in Jobs
  BY DEF Upload
<1>2. PICK m \in Modes, f \in Fences :
        job' = [job EXCEPT ![j] = [NoJob EXCEPT !.status = "queued", !.mode = m, !.fence = f]]
  BY DEF Upload
<1>3. upload' = [pc |-> "claim", job |-> j] /\ wal.state = "local"
      /\ UNCHANGED <<lock, epoch, ledger, task, run, poll, wal, kept, waived, faults>>
  BY DEF Upload
<1> HIDE DEF j
<1>4. job' \in [Jobs -> JobType]
  <2> DEFINE b == [NoJob EXCEPT !.status = "queued", !.mode = m, !.fence = f]
  <2>1. b \in JobType
    BY NewBlobTyped
  <2>2. job' = [job EXCEPT ![j] = b] /\ job \in [Jobs -> JobType]
    BY <1>2 DEF TypeInv, TypeOK
  <2> HIDE DEF b
  <2> QED BY <2>1, <2>2
<1>5. RequestsOK'
  BY <1>1, <1>3 DEF TypeInv, RequestsOK
<1> QED BY <1>1, <1>3, <1>4, <1>5, AssembleRequest DEF TypeInv, TypeOK

LEMMA ClaimType == TypeInv /\ Claim => TypeInv'
<1> SUFFICES ASSUME TypeInv, Claim PROVE TypeInv'
  OBVIOUS
<1> DEFINE j == upload.job
<1>1. j \in Jobs /\ upload.pc # "idle" /\ wal.state = "local" /\ poll.pc = "idle"
      /\ UNCHANGED <<lock, epoch, task, run, poll, kept, waived>>
  BY DEF Claim, TypeInv, RequestsOK
<1>2. job[j] \in JobType /\ job \in [Jobs -> JobType]
  BY <1>1 DEF TypeInv, TypeOK
<1>3. CASE /\ job' = IF job[j].status \in Live THEN [job EXCEPT ![j] = Written(@, "completed")] ELSE job
           /\ Reply(j)
           /\ UNCHANGED ledger
  <2>1. Written(job[j], "completed") \in JobType
    BY <1>2, BlobWrites DEF Terminal
  <2>2. job' \in [Jobs -> JobType]
    BY <1>2, <1>3, <2>1
  <2>3. /\ upload' = IdleUpload
        /\ wal' \in [state : {"local", "uploaded", "synced"}, job : Jobs \union {Nobody}]
        /\ faults' \in 0..MaxFaults
        /\ wal'.state # "local" => wal'.job \in Jobs
    BY <1>1, <1>3, ReplyTyped
  <2>4. RequestsOK'
    BY <1>1, <2>3 DEF RequestsOK, IdleUpload
  <2> QED BY <1>1, <1>3, <2>2, <2>3, <2>4, ConstantsTyped, AssembleRequest DEF TypeInv, TypeOK
<1>4. CASE /\ job' = [job EXCEPT ![j] = NoJob]
           /\ upload' = IdleUpload
           /\ UNCHANGED <<ledger, wal, faults>>
  <2>1. job' \in [Jobs -> JobType]
    BY <1>2, <1>4, ConstantsTyped
  <2>2. RequestsOK'
    BY <1>1, <1>4 DEF RequestsOK, IdleUpload
  <2> QED BY <1>1, <1>4, <2>1, <2>2, ConstantsTyped, AssembleRequest DEF TypeInv, TypeOK
<1>5. CASE /\ ledger' = ClaimedBy(j)
           /\ upload' = [upload EXCEPT !.pc = "dispatch"]
           /\ UNCHANGED <<job, wal, faults>>
  <2>1. ledger' \in LedgerType
    BY <1>1, <1>5, LedgerWrites DEF TypeInv
  <2>2. /\ upload' \in [pc : {"idle", "claim", "dispatch"}, job : Jobs \union {Nobody}]
        /\ upload'.job = j
    BY <1>1, <1>5 DEF TypeInv, TypeOK
  <2>3. RequestsOK'
    BY <1>1, <1>5, <2>2 DEF RequestsOK
  <2> QED BY <1>1, <1>5, <2>1, <2>2, <2>3, AssembleRequest DEF TypeInv, TypeOK
<1> QED BY <1>3, <1>4, <1>5 DEF Claim

LEMMA DispatchTaskType == TypeInv /\ DispatchTask => TypeInv'
<1> SUFFICES ASSUME TypeInv, DispatchTask PROVE TypeInv'
  OBVIOUS
<1> DEFINE j == upload.job
<1>1. j \in Jobs /\ upload.pc # "idle" /\ wal.state = "local" /\ poll.pc = "idle"
      /\ UNCHANGED <<job, lock, epoch, ledger, run, poll, kept, waived>>
  BY DEF DispatchTask, TypeInv, RequestsOK
<1>2. CASE task' = [task EXCEPT ![j].pending = TRUE] /\ Reply(j)
  <2>1. task' \in [Jobs -> TaskType]
    BY <1>1, <1>2 DEF TypeInv, TypeOK, TaskType
  <2>2. /\ upload' = IdleUpload
        /\ wal' \in [state : {"local", "uploaded", "synced"}, job : Jobs \union {Nobody}]
        /\ faults' \in 0..MaxFaults
        /\ wal'.state # "local" => wal'.job \in Jobs
    BY <1>1, <1>2, ReplyTyped
  <2>3. RequestsOK'
    BY <1>1, <2>2 DEF RequestsOK, IdleUpload
  <2> QED BY <1>1, <2>1, <2>2, <2>3, ConstantsTyped, AssembleRequest DEF TypeInv, TypeOK
<1>3. CASE Fault("enqueue") /\ upload' = IdleUpload /\ wal' = [state |-> "uploaded", job |-> j] /\ UNCHANGED task
  <2>1. faults' \in 0..MaxFaults
    BY <1>3, FaultNamed, FaultTyped DEF TypeInv
  <2>2. RequestsOK'
    BY <1>1, <1>3 DEF RequestsOK, IdleUpload
  <2>3. wal' \in [state : {"local", "uploaded", "synced"}, job : Jobs \union {Nobody}]
    BY <1>1, <1>3
  <2> QED BY <1>1, <1>3, <2>1, <2>2, <2>3, ConstantsTyped, AssembleRequest DEF TypeInv, TypeOK
<1> QED BY <1>2, <1>3 DEF DispatchTask

LEMMA StagingFailsType == TypeInv /\ StagingFails => TypeInv'
<1> SUFFICES ASSUME TypeInv, StagingFails PROVE TypeInv'
  OBVIOUS
<1> DEFINE j == upload.job
<1>1. j \in Jobs /\ upload.pc # "idle" /\ wal.state = "local" /\ poll.pc = "idle"
      /\ UNCHANGED <<lock, epoch, task, run, poll, wal, kept, waived>> /\ upload' = IdleUpload
  BY DEF StagingFails, TypeInv, RequestsOK
<1>2. job \in [Jobs -> JobType] /\ job[j] \in JobType /\ Written(job[j], "failed") \in JobType
  BY <1>1, BlobWrites DEF TypeInv, TypeOK, Terminal
<1>3. job' \in [Jobs -> JobType]
  BY <1>2 DEF StagingFails
<1>4. ledger' \in LedgerType
  BY <1>1, LedgerWrites DEF StagingFails, TypeInv
<1>5. faults' \in 0..MaxFaults
  BY FaultNamed, FaultTyped DEF StagingFails, TypeInv
<1>6. RequestsOK'
  BY <1>1 DEF RequestsOK, IdleUpload
<1> QED BY <1>1, <1>3, <1>4, <1>5, <1>6, ConstantsTyped, AssembleRequest DEF TypeInv, TypeOK

LEMMA UploadDiesType == TypeInv /\ UploadDies => TypeInv'
<1> SUFFICES ASSUME TypeInv, UploadDies PROVE TypeInv'
  OBVIOUS
<1>1. upload.job \in Jobs /\ wal.state = "local" /\ poll.pc = "idle" /\ upload' = IdleUpload
      /\ UNCHANGED <<job, lock, epoch, task, run, poll, wal, kept, waived>>
  BY DEF UploadDies, TypeInv, RequestsOK
<1>2. faults' \in 0..MaxFaults
  BY FaultNamed, FaultTyped DEF UploadDies, TypeInv
<1>3. ledger' \in LedgerType
  <2>1. ReleasedUnbound(upload.job) \in LedgerType /\ ledger \in LedgerType
    BY <1>1, LedgerWrites DEF TypeInv, TypeOK
  <2> QED BY <2>1 DEF UploadDies
<1>4. RequestsOK'
  BY <1>1 DEF RequestsOK, IdleUpload
<1> QED BY <1>1, <1>2, <1>3, <1>4, ConstantsTyped, AssembleRequest DEF TypeInv, TypeOK

\* The run that an upload starts in its own process.
InlineRun(r, j) ==
    [IdleRun EXCEPT !.pc = IF Fenced(j) THEN "bind" ELSE "start", !.next = "start", !.job = j,
                    !.token = NewToken(r, j)]

LEMMA InlineRunTyped ==
    ASSUME TypeInv, NEW r \in Runs, NEW j \in Jobs
    PROVE  /\ InlineRun(r, j) \in RunType /\ WellFormed(InlineRun(r, j))
           /\ InlineRun(r, j).token = NewToken(r, j) /\ InlineRun(r, j).job = j
<1>1. NewToken(r, j) \in Token /\ IdleRun \in RunType
  BY NewTokenTyped, ConstantsTyped DEF TypeInv
<1> DEFINE t == NewToken(r, j)
<1> HIDE DEF t
<1>2. CASE Fenced(j)
  <2>1. InlineRun(r, j) = [IdleRun EXCEPT !.pc = "bind", !.next = "start", !.job = j, !.token = t]
    BY <1>2 DEF InlineRun, t
  <2>2. t \in Token
    BY <1>1 DEF t
  <2>3. InlineRun(r, j) \in RunType /\ InlineRun(r, j).token = t /\ InlineRun(r, j).job = j
    BY <1>1, <2>1, <2>2 DEF RunType
  <2>4. WellFormed(InlineRun(r, j))
    BY <1>1, <2>1, <2>2 DEF RunType, WellFormed
  <2> QED BY <2>3, <2>4 DEF t
<1>3. CASE ~Fenced(j)
  <2>1. InlineRun(r, j) = [IdleRun EXCEPT !.pc = "start", !.next = "start", !.job = j, !.token = t]
    BY <1>3 DEF InlineRun, t
  <2>2. t \in Token
    BY <1>1 DEF t
  <2>3. InlineRun(r, j) \in RunType /\ InlineRun(r, j).token = t /\ InlineRun(r, j).job = j
    BY <1>1, <2>1, <2>2 DEF RunType
  <2>4. WellFormed(InlineRun(r, j))
    BY <1>1, <2>1, <2>2 DEF RunType, WellFormed
  <2> QED BY <2>3, <2>4 DEF t
<1> QED BY <1>2, <1>3

\* What DispatchInline does, by name.
LEMMA InlineStarts ==
    ASSUME TypeInv, DispatchInline
    PROVE  \E r \in Runs :
             /\ Free(r)
             /\ run' = [run EXCEPT ![r] = InlineRun(r, upload.job)]
             /\ lock' = [lock EXCEPT ![upload.job] = NewToken(r, upload.job)]
             /\ epoch' = [epoch EXCEPT ![upload.job] = NewToken(r, upload.job).epoch]
             /\ upload.job \in Jobs /\ upload.pc = "dispatch" /\ ~Held(upload.job)
             /\ Reply(upload.job)
             /\ UNCHANGED <<job, ledger, task, poll, kept, waived>>
<1>1. NewRun \in Runs /\ Free(NewRun)
  BY FreeRun DEF DispatchInline
<1>2. upload.job \in Jobs
  BY DEF DispatchInline, TypeInv, RequestsOK
<1>3. InlineRun(NewRun, upload.job).token = NewToken(NewRun, upload.job)
  BY <1>1, <1>2, InlineRunTyped
<1>4. /\ run' = [run EXCEPT ![NewRun] = InlineRun(NewRun, upload.job)]
      /\ lock' = [lock EXCEPT ![upload.job] = InlineRun(NewRun, upload.job).token]
      /\ epoch' = [epoch EXCEPT ![upload.job] = InlineRun(NewRun, upload.job).token.epoch]
      /\ upload.pc = "dispatch" /\ ~Held(upload.job)
      /\ Reply(upload.job)
      /\ UNCHANGED <<job, ledger, task, poll, kept, waived>>
  BY DEF DispatchInline, InlineRun
<1> QED BY <1>1, <1>2, <1>3, <1>4

LEMMA DispatchInlineType == TypeInv /\ DispatchInline => TypeInv'
<1> SUFFICES ASSUME TypeInv, DispatchInline PROVE TypeInv'
  OBVIOUS
<1> DEFINE j == upload.job
<1>1. PICK r \in Runs :
        /\ run' = [run EXCEPT ![r] = InlineRun(r, j)]
        /\ lock' = [lock EXCEPT ![j] = NewToken(r, j)]
        /\ epoch' = [epoch EXCEPT ![j] = NewToken(r, j).epoch]
        /\ j \in Jobs /\ upload.pc = "dispatch"
        /\ Reply(j)
        /\ UNCHANGED <<job, ledger, task, poll, kept, waived>>
  BY InlineStarts
<1>2. wal.state = "local" /\ poll.pc = "idle"
  BY <1>1 DEF TypeInv, RequestsOK
<1>3. run' \in [Runs -> RunType] /\ WorkersOK'
  BY <1>1, InlineRunTyped, RunSet
<1>4. lock' \in [Jobs -> Token] /\ epoch' \in [Jobs -> Nat]
  <2>1. NewToken(r, j) \in Token /\ NewToken(r, j).epoch \in Nat
    BY <1>1, NewTokenTyped DEF TypeInv
  <2> QED BY <1>1, <2>1 DEF TypeInv, TypeOK
<1>5. /\ upload' = IdleUpload
      /\ wal' \in [state : {"local", "uploaded", "synced"}, job : Jobs \union {Nobody}]
      /\ faults' \in 0..MaxFaults
      /\ wal'.state # "local" => wal'.job \in Jobs
  BY <1>1, ReplyTyped
<1>6. RequestsOK'
  BY <1>1, <1>2, <1>5 DEF RequestsOK, IdleUpload
<1>7. TypeOK'
  BY <1>1, <1>3, <1>4, <1>5, ConstantsTyped DEF TypeInv, TypeOK
<1> QED BY <1>3, <1>6, <1>7 DEF TypeInv

-----------------------------------------------------------------------------
(* The steps of a worker                                                    *)

LEMMA JobSet ==
    ASSUME TypeInv, NEW j \in Jobs, NEW b \in JobType, job' = [job EXCEPT ![j] = b]
    PROVE  job' \in [Jobs -> JobType] /\ job'[j] = b /\ \A i \in Jobs \ {j} : job'[i] = job[i]
  BY DEF TypeInv, TypeOK

\* A delivery's run before it holds the lock.
DeliveredRun(j) ==
    [IdleRun EXCEPT !.pc = IF Stale(job[j]) THEN "heal" ELSE "lock", !.next = "lock", !.job = j,
                    !.last = (task[j].tries + 1 = MaxAttempts)]

LEMMA DeliveredRunTyped ==
    ASSUME TypeInv, NEW j \in Jobs
    PROVE  /\ DeliveredRun(j) \in RunType /\ WellFormed(DeliveredRun(j))
           /\ DeliveredRun(j).pc \in {"heal", "lock"} /\ DeliveredRun(j).job = j
           /\ DeliveredRun(j).token = NoToken
<1> DEFINE l == (task[j].tries + 1 = MaxAttempts)
<1>1. l \in BOOLEAN
  OBVIOUS
<1>2. IdleRun \in RunType /\ IdleRun.token = NoToken
  BY ConstantsTyped DEF IdleRun
<1> HIDE DEF l
<1>3. ASSUME NEW p \in {"heal", "lock"},
             DeliveredRun(j) = [IdleRun EXCEPT !.pc = p, !.next = "lock", !.job = j, !.last = l]
      PROVE  /\ DeliveredRun(j) \in RunType /\ WellFormed(DeliveredRun(j))
             /\ DeliveredRun(j).pc \in {"heal", "lock"} /\ DeliveredRun(j).job = j
             /\ DeliveredRun(j).token = NoToken
  <2>1. DeliveredRun(j) \in RunType
    BY <1>1, <1>2, <1>3 DEF RunType
  <2> QED BY <1>2, <1>3, <2>1 DEF RunType, WellFormed
<1>4. CASE Stale(job[j])
  <2>1. DeliveredRun(j) = [IdleRun EXCEPT !.pc = "heal", !.next = "lock", !.job = j, !.last = l]
    BY <1>4 DEF DeliveredRun, l
  <2> QED BY <1>3, <2>1
<1>5. CASE ~Stale(job[j])
  <2>1. DeliveredRun(j) = [IdleRun EXCEPT !.pc = "lock", !.next = "lock", !.job = j, !.last = l]
    BY <1>5 DEF DeliveredRun, l
  <2> QED BY <1>3, <2>1
<1> QED BY <1>4, <1>5

LEMMA DeliverType ==
    ASSUME TypeInv, NEW j \in Jobs, Deliver(j)
    PROVE  TypeInv'
<1>1. NewRun \in Runs
  BY FreeRun DEF Deliver
<1>2. run' = [run EXCEPT ![NewRun] = DeliveredRun(j)]
  BY DEF Deliver, DeliveredRun
<1>3. run' \in [Runs -> RunType] /\ WorkersOK'
  BY <1>1, <1>2, DeliveredRunTyped, RunSet
<1>4. task' \in [Jobs -> TaskType]
  BY BoundsTyped DEF Deliver, AttemptsLeft, TypeInv, TypeOK, TaskType
<1>5. faults' \in 0..MaxFaults
  BY FaultNamed, FaultTyped DEF Deliver, TypeInv
<1> QED BY <1>3, <1>4, <1>5, Assemble DEF Deliver, TypeInv, TypeOK

LEMMA RunHealsType ==
    ASSUME TypeInv, NEW r \in Runs, RunHeals(r)
    PROVE  TypeInv'
<1> DEFINE j == run[r].job
<1>1. run[r].pc = "heal" /\ UNCHANGED <<epoch, ledger, task, upload, poll, wal, kept, waived, faults>>
  BY DEF RunHeals
<1>2. j \in Jobs /\ job[j] \in JobType /\ run[r].next \in {"lock", "cleanup", "nack"}
  BY <1>1, WorkerFields DEF WellFormed
<1>3. job' \in [Jobs -> JobType]
  BY <1>2, BlobWrites, JobSet DEF RunHeals
<1>4. run' \in [Runs -> RunType] /\ WorkersOK' /\ lock' \in [Jobs -> Token]
  <2>1. CASE run[r].next = "nack"
    <3>1. End(r) /\ Unlock(r)
      BY <2>1 DEF RunHeals
    <3> QED BY <1>1, <3>1, EndMoves, UnlockTyped
  <2>2. CASE run[r].next # "nack"
    <3>1. Step(r, run[r].next) /\ UNCHANGED lock
      BY <2>2 DEF RunHeals
    <3>2. run[r].next \in PlainSteps
      BY <1>2, <2>2 DEF PlainSteps
    <3> QED BY <1>1, <3>1, <3>2, StepMoves DEF TypeInv, TypeOK
  <2> QED BY <2>1, <2>2
<1> QED BY <1>1, <1>3, <1>4, Assemble DEF TypeInv, TypeOK

\* The run that takes the lock.
LockedRun(r, j) == [run[r] EXCEPT !.pc = "read", !.token = NewToken(r, j)]

LEMMA LockTaken ==
    ASSUME TypeInv, NEW r \in Runs, TakeLock(r), ~Held(run[r].job)
    PROVE  /\ run' = [run EXCEPT ![r] = LockedRun(r, run[r].job)]
           /\ LockedRun(r, run[r].job) \in RunType /\ WellFormed(LockedRun(r, run[r].job))
           /\ LockedRun(r, run[r].job).token = NewToken(r, run[r].job)
           /\ LockedRun(r, run[r].job).job = run[r].job /\ LockedRun(r, run[r].job).pc = "read"
<1>1. run[r].job \in Jobs /\ run[r] \in RunType /\ run \in [Runs -> RunType]
  BY WorkerFields DEF TakeLock, TypeInv, TypeOK
<1> DEFINE t == NewToken(r, run[r].job)
<1>2. t \in Token
  BY <1>1, NewTokenTyped DEF TypeInv
<1>3. run' = [run EXCEPT ![r].pc = "read", ![r].token = t]
  BY DEF TakeLock
<1>4. LockedRun(r, run[r].job) = [run[r] EXCEPT !.pc = "read", !.token = t]
  BY DEF LockedRun
<1> HIDE DEF t
<1>5. /\ LockedRun(r, run[r].job) \in RunType /\ LockedRun(r, run[r].job).token = t
      /\ LockedRun(r, run[r].job).job = run[r].job /\ LockedRun(r, run[r].job).pc = "read"
  BY <1>1, <1>2, <1>4 DEF RunType
<1>6. WellFormed(LockedRun(r, run[r].job))
  BY <1>1, <1>5 DEF WellFormed
<1>7. run' = [run EXCEPT ![r] = LockedRun(r, run[r].job)]
  BY <1>1, <1>3, <1>4
<1> QED BY <1>5, <1>6, <1>7 DEF t

LEMMA TakeLockType ==
    ASSUME TypeInv, NEW r \in Runs, TakeLock(r)
    PROVE  TypeInv'
<1> DEFINE j == run[r].job
<1>1. run[r].pc = "lock" /\ UNCHANGED <<job, ledger, task, upload, poll, wal, kept, waived, faults>>
  BY DEF TakeLock
<1>2. j \in Jobs
  BY <1>1, WorkerFields
<1>3. CASE Held(j)
  <2>1. End(r) /\ UNCHANGED <<lock, epoch>>
    BY <1>3 DEF TakeLock
  <2> QED BY <1>1, <2>1, EndMoves, Assemble DEF TypeInv, TypeOK
<1>4. CASE ~Held(j)
  <2>1. run' \in [Runs -> RunType] /\ WorkersOK'
    BY <1>4, LockTaken, RunSet
  <2>2. NewToken(r, j) \in Token
    BY <1>2, NewTokenTyped DEF TypeInv
  <2>3. lock' = [lock EXCEPT ![j] = NewToken(r, j)]
        /\ epoch' = IF Fenced(j) THEN [epoch EXCEPT ![j] = @ + 1] ELSE epoch
    BY <1>4 DEF TakeLock
  <2>4. lock' \in [Jobs -> Token] /\ epoch' \in [Jobs -> Nat]
    BY <1>2, <2>2, <2>3 DEF TypeInv, TypeOK
  <2> QED BY <1>1, <2>1, <2>4, Assemble DEF TypeInv, TypeOK
<1> QED BY <1>3, <1>4

\* Where the second read of the job sends a run.
ReadOutcome(j) ==
    IF Stale(job[j]) THEN "heal"
    ELSE IF job[j].status \in Live THEN IF Fenced(j) THEN "bind" ELSE "start"
    ELSE IF job[j].status = "completed" THEN "finish" ELSE "cleanup"
ReadRun(r) ==
    LET j == run[r].job IN
    [run[r] EXCEPT !.pc = ReadOutcome(j), !.next = IF Stale(job[j]) THEN "cleanup" ELSE "start"]

LEMMA ReadMoves ==
    ASSUME TypeInv, NEW r \in Runs, ReadUnderLock(r)
    PROVE  /\ run' = [run EXCEPT ![r] = ReadRun(r)]
           /\ ReadRun(r) \in RunType /\ WellFormed(ReadRun(r))
           /\ ReadRun(r).pc = ReadOutcome(run[r].job)
           /\ ReadRun(r).job = run[r].job /\ ReadRun(r).token = run[r].token
<1> DEFINE j == run[r].job
           p == ReadOutcome(j)
           n == IF Stale(job[j]) THEN "cleanup" ELSE "start"
<1>1. run[r].pc = "read" /\ j \in Jobs /\ run[r] \in RunType /\ run \in [Runs -> RunType]
  BY WorkerFields DEF ReadUnderLock, TypeInv, TypeOK
<1>2. p \in {"heal", "bind", "start", "finish", "cleanup"} /\ n \in {"cleanup", "start"}
      /\ (p = "heal" => n = "cleanup") /\ (p = "bind" => n = "start")
  BY DEF ReadOutcome
<1>3. Stale(job[j]) => job[j].status \in Live
  BY DEF Stale, Live
<1>4. p = CASE Stale(job[j]) -> "heal"
            [] job[j].status \in Live /\ ~Stale(job[j]) -> IF Fenced(j) THEN "bind" ELSE "start"
            [] job[j].status = "completed" -> "finish"
            [] OTHER -> "cleanup"
  BY <1>3 DEF ReadOutcome, Live
<1>5. run' = [run EXCEPT ![r].pc = p, ![r].next = n]
  BY <1>4 DEF ReadUnderLock
<1>6. ReadRun(r) = [run[r] EXCEPT !.pc = p, !.next = n]
  BY DEF ReadRun
<1> HIDE DEF p, n
<1>7. /\ ReadRun(r) \in RunType /\ ReadRun(r).pc = p /\ ReadRun(r).next = n
      /\ ReadRun(r).job = j /\ ReadRun(r).token = run[r].token
  BY <1>1, <1>2, <1>6 DEF RunType
<1>8. WellFormed(ReadRun(r))
  BY <1>1, <1>2, <1>7 DEF WellFormed
<1>9. run' = [run EXCEPT ![r] = ReadRun(r)]
  BY <1>1, <1>5, <1>6
<1> QED BY <1>7, <1>8, <1>9 DEF p

LEMMA ReadUnderLockType ==
    ASSUME TypeInv, NEW r \in Runs, ReadUnderLock(r)
    PROVE  TypeInv'
  BY ReadMoves, RunSet, Assemble DEF ReadUnderLock, TypeInv, TypeOK

LEMMA BindType ==
    ASSUME TypeInv, NEW r \in Runs, Bind(r)
    PROVE  TypeInv'
<1>1. run[r].pc = "bind" /\ UNCHANGED <<job, lock, epoch, task, upload, poll, wal, kept, waived, faults>>
  BY DEF Bind
<1>2. run[r].next \in {"start", "fail"} /\ run[r].token \in Token /\ ledger \in LedgerType
  BY <1>1, WorkerFields DEF WellFormed, TypeInv, TypeOK
<1>3. PICK p \in PlainSteps : Step(r, p)
  BY <1>2 DEF Bind, PlainSteps
<1>4. ledger' \in LedgerType
  BY <1>2 DEF Bind, LedgerType
<1> QED BY <1>1, <1>3, <1>4, StepMoves, Assemble DEF TypeInv, TypeOK

LEMMA ConvergeType ==
    ASSUME TypeInv, NEW r \in Runs, Converge(r)
    PROVE  TypeInv'
<1> DEFINE j == run[r].job
<1>1. run[r].pc = "converge" /\ UNCHANGED <<lock, epoch, ledger, task, upload, poll, wal, kept, waived, faults>>
  BY DEF Converge
<1>2. j \in Jobs /\ Written(job[j], "completed") \in JobType
  BY <1>1, WorkerFields, BlobWrites DEF Terminal
<1>3. job' = [job EXCEPT ![j] = Written(job[j], "completed")] \/ job' = job
  BY DEF Converge
<1>4. job' \in [Jobs -> JobType]
  BY <1>2, <1>3, JobSet DEF TypeInv, TypeOK
<1>5. PICK p \in PlainSteps : Step(r, p)
  BY DEF Converge, PlainSteps
<1> QED BY <1>1, <1>4, <1>5, StepMoves, Assemble DEF TypeInv, TypeOK

\* The run that was told to transcribe what the ledger does not have.
StartedRun(r) == [run[r] EXCEPT !.pc = "work", !.left = Segments \ ledger.segs]

LEMMA StartMoves ==
    ASSUME TypeInv, NEW r \in Runs, run[r].pc = "start",
           run' = [run EXCEPT ![r].pc = "work", ![r].left = Segments \ ledger.segs]
    PROVE  /\ run' = [run EXCEPT ![r] = StartedRun(r)]
           /\ StartedRun(r) \in RunType /\ WellFormed(StartedRun(r))
<1> DEFINE s == Segments \ ledger.segs
<1>1. run[r] \in RunType /\ run[r].job \in Jobs /\ run \in [Runs -> RunType] /\ s \in SUBSET Segments
  BY WorkerFields DEF TypeInv, TypeOK
<1>2. run' = [run EXCEPT ![r].pc = "work", ![r].left = s] /\ StartedRun(r) = [run[r] EXCEPT !.pc = "work", !.left = s]
  BY DEF StartedRun
<1> HIDE DEF s
<1>3. StartedRun(r) \in RunType /\ WellFormed(StartedRun(r))
  BY <1>1, <1>2 DEF RunType, WellFormed
<1>4. run' = [run EXCEPT ![r] = StartedRun(r)]
  BY <1>1, <1>2
<1> QED BY <1>3, <1>4

LEMMA StartType ==
    ASSUME TypeInv, NEW r \in Runs, Start(r)
    PROVE  TypeInv'
<1> DEFINE j == run[r].job
<1>1. run[r].pc = "start" /\ UNCHANGED <<lock, epoch, ledger, task, upload, poll, wal, kept, waived, faults>>
  BY DEF Start
<1>2. j \in Jobs /\ job[j] \in JobType
  BY <1>1, WorkerFields
<1>3. job' \in [Jobs -> JobType]
  <2> DEFINE b == [Written(job[j], "processing") EXCEPT !.started = TRUE]
  <2>1. b \in JobType
    BY <1>2, BlobWrites DEF Live
  <2>2. job' = [job EXCEPT ![j] = b] \/ job' = job
    BY DEF Start
  <2> HIDE DEF b
  <2> QED BY <1>2, <2>1, <2>2, JobSet DEF TypeInv, TypeOK
<1>4. run' \in [Runs -> RunType] /\ WorkersOK'
  <2>1. CASE run' = [run EXCEPT ![r].pc = "work", ![r].left = Segments \ ledger.segs]
    BY <1>1, <2>1, StartMoves, RunSet
  <2>2. CASE Step(r, "lost")
    BY <1>1, <2>2, StepMoves DEF PlainSteps
  <2>3. CASE Reject(r, "fail") \/ Reject(r, "reject") \/ Reject(r, "budget")
    <3>1. PICK reason \in {"reject", "budget", "fail"} : Reject(r, reason)
      BY <2>3
    <3> QED BY <1>1, <3>1, RejectMoves, RunSet
  <2> QED BY <2>1, <2>2, <2>3 DEF Start
<1> QED BY <1>1, <1>3, <1>4, Assemble DEF TypeInv, TypeOK

LEMMA WorkEndsType ==
    ASSUME TypeInv, NEW r \in Runs, WorkEnds(r)
    PROVE  TypeInv'
<1>1. PICK p \in PlainSteps : Step(r, p) \/ Leave(r, p)
  BY DEF WorkEnds, Superseded, Raises, PlainSteps
<1> QED BY <1>1, GoMoves, Assemble DEF WorkEnds, TypeInv, TypeOK

\* The run that has tried a segment, with the errors and transcripts it has now.
MarkingRun(r, s, e, d) == [run[r] EXCEPT !.pc = "mark", !.left = run[r].left \ {s}, !.errs = e, !.done = d]

\* The three ends of a segment.
SegmentEnds(r, s, e, d) ==
    \/ e = run[r].errs /\ d = {s} /\ kept' = kept \union {s} /\ waived' = waived \ {s}
    \/ e = run[r].errs /\ d = run[r].done /\ kept' = kept /\ waived' = waived \union ({s} \ kept)
    \/ e = run[r].errs \union {s} /\ d = run[r].done /\ kept' = kept /\ waived' = waived

LEMMA MarkingTyped ==
    ASSUME TypeInv, NEW r \in Runs, run[r].pc # "idle", NEW s \in Segments, NEW e \in SUBSET Segments,
           NEW d \in SUBSET Segments
    PROVE  /\ MarkingRun(r, s, e, d) \in RunType /\ WellFormed(MarkingRun(r, s, e, d))
           /\ MarkingRun(r, s, e, d).pc = "mark" /\ MarkingRun(r, s, e, d).left = run[r].left \ {s}
           /\ MarkingRun(r, s, e, d).errs = e /\ MarkingRun(r, s, e, d).done = d
           /\ MarkingRun(r, s, e, d).job = run[r].job /\ MarkingRun(r, s, e, d).token = run[r].token
           /\ MarkingRun(r, s, e, d).next = run[r].next
<1> DEFINE l == run[r].left \ {s}
<1>1. run[r] \in RunType /\ run[r].job \in Jobs /\ l \in SUBSET Segments
  BY WorkerFields
<1>2. MarkingRun(r, s, e, d) = [run[r] EXCEPT !.pc = "mark", !.left = l, !.errs = e, !.done = d]
  BY DEF MarkingRun
<1> HIDE DEF l
<1>3. /\ MarkingRun(r, s, e, d) \in RunType
      /\ MarkingRun(r, s, e, d).pc = "mark" /\ MarkingRun(r, s, e, d).left = l
      /\ MarkingRun(r, s, e, d).errs = e /\ MarkingRun(r, s, e, d).done = d
      /\ MarkingRun(r, s, e, d).job = run[r].job /\ MarkingRun(r, s, e, d).token = run[r].token
      /\ MarkingRun(r, s, e, d).next = run[r].next
  BY <1>1, <1>2 DEF RunType
<1>4. WellFormed(MarkingRun(r, s, e, d))
  BY <1>1, <1>3 DEF WellFormed
<1> QED BY <1>3, <1>4 DEF l

LEMMA TranscribeMoves ==
    ASSUME TypeInv, NEW r \in Runs, NEW s \in Segments, Transcribe(r, s)
    PROVE  \E e, d \in SUBSET Segments :
             run' = [run EXCEPT ![r] = MarkingRun(r, s, e, d)] /\ SegmentEnds(r, s, e, d)
<1> DEFINE l == run[r].left \ {s}
           f == run[r].errs \union {s}
<1>1. /\ run[r] \in RunType /\ run \in [Runs -> RunType] /\ {s} \in SUBSET Segments
      /\ run[r].errs \in SUBSET Segments /\ f \in SUBSET Segments /\ run[r].done \in SUBSET Segments
  BY WorkerFields DEF Transcribe, TypeInv, TypeOK
<1>2. CASE /\ run' = [run EXCEPT ![r].pc = "mark", ![r].left = @ \ {s}, ![r].done = {s}]
           /\ kept' = kept \union {s}
           /\ waived' = waived \ {s}
  <2>1. run' = [run EXCEPT ![r] = [run[r] EXCEPT !.pc = "mark", !.left = l, !.done = {s}]]
    BY <1>1, <1>2
  <2>2. MarkingRun(r, s, run[r].errs, {s}) = [run[r] EXCEPT !.pc = "mark", !.left = l, !.done = {s}]
    BY <1>1 DEF MarkingRun, RunType
  <2>3. run' = [run EXCEPT ![r] = MarkingRun(r, s, run[r].errs, {s})]
    BY <2>1, <2>2
  <2>4. SegmentEnds(r, s, run[r].errs, {s})
    BY <1>2 DEF SegmentEnds
  <2> QED BY <1>1, <2>3, <2>4
<1>3. CASE /\ run' = [run EXCEPT ![r].pc = "mark", ![r].left = @ \ {s}]
           /\ waived' = waived \union ({s} \ kept)
           /\ UNCHANGED kept
  <2>1. run' = [run EXCEPT ![r] = [run[r] EXCEPT !.pc = "mark", !.left = l]]
    BY <1>1, <1>3
  <2>2. MarkingRun(r, s, run[r].errs, run[r].done) = [run[r] EXCEPT !.pc = "mark", !.left = l]
    BY <1>1 DEF MarkingRun, RunType
  <2>3. run' = [run EXCEPT ![r] = MarkingRun(r, s, run[r].errs, run[r].done)]
    BY <2>1, <2>2
  <2>4. SegmentEnds(r, s, run[r].errs, run[r].done)
    BY <1>3 DEF SegmentEnds
  <2> QED BY <1>1, <2>3, <2>4
<1>4. CASE /\ run' = [run EXCEPT ![r].pc = "mark", ![r].left = @ \ {s}, ![r].errs = @ \union {s}]
           /\ UNCHANGED <<kept, waived>>
  <2>1. run' = [run EXCEPT ![r] = [run[r] EXCEPT !.pc = "mark", !.left = l, !.errs = f]]
    BY <1>1, <1>4
  <2>2. MarkingRun(r, s, f, run[r].done) = [run[r] EXCEPT !.pc = "mark", !.left = l, !.errs = f]
    BY <1>1 DEF MarkingRun, RunType
  <2>3. run' = [run EXCEPT ![r] = MarkingRun(r, s, f, run[r].done)]
    BY <2>1, <2>2
  <2>4. SegmentEnds(r, s, f, run[r].done)
    BY <1>4 DEF SegmentEnds
  <2> QED BY <1>1, <2>3, <2>4
<1> QED BY <1>2, <1>3, <1>4 DEF Transcribe

LEMMA TranscribeType ==
    ASSUME TypeInv, NEW r \in Runs, NEW s \in Segments, Transcribe(r, s)
    PROVE  TypeInv'
<1>1. run' \in [Runs -> RunType] /\ WorkersOK'
  <2>1. PICK e, d \in SUBSET Segments : run' = [run EXCEPT ![r] = MarkingRun(r, s, e, d)]
    BY TranscribeMoves
  <2>2. run[r].pc # "idle"
    BY DEF Transcribe
  <2> QED BY <2>1, <2>2, MarkingTyped, RunSet
<1>2. kept' \in SUBSET Segments /\ waived' \in SUBSET Segments
  BY DEF Transcribe, TypeInv, TypeOK
<1> QED BY <1>1, <1>2, Assemble DEF Transcribe, TypeInv, TypeOK

\* The run whose transcript is in the ledger.
MarkedRun(r) == [run[r] EXCEPT !.pc = "work", !.done = {}]

LEMMA MarkedMoves ==
    ASSUME TypeInv, NEW r \in Runs, run[r].pc = "mark",
           run' = [run EXCEPT ![r].pc = "work", ![r].done = {}]
    PROVE  /\ run' = [run EXCEPT ![r] = MarkedRun(r)]
           /\ MarkedRun(r) \in RunType /\ WellFormed(MarkedRun(r))
           /\ MarkedRun(r).pc = "work" /\ MarkedRun(r).job = run[r].job /\ MarkedRun(r).token = run[r].token
           /\ MarkedRun(r).left = run[r].left /\ MarkedRun(r).errs = run[r].errs /\ MarkedRun(r).done = {}
<1>1. run[r] \in RunType /\ run[r].job \in Jobs /\ run \in [Runs -> RunType]
  BY WorkerFields DEF TypeInv, TypeOK
<1>2. MarkedRun(r) \in RunType
  BY <1>1 DEF MarkedRun, RunType
<1>3. /\ MarkedRun(r).pc = "work" /\ MarkedRun(r).job = run[r].job /\ MarkedRun(r).token = run[r].token
      /\ MarkedRun(r).left = run[r].left /\ MarkedRun(r).errs = run[r].errs /\ MarkedRun(r).done = {}
  BY <1>1 DEF MarkedRun, RunType
<1>4. WellFormed(MarkedRun(r))
  BY <1>1, <1>3 DEF WellFormed
<1>5. run' = [run EXCEPT ![r] = MarkedRun(r)]
  BY <1>1 DEF MarkedRun
<1> QED BY <1>2, <1>3, <1>4, <1>5

LEMMA MarkType ==
    ASSUME TypeInv, NEW r \in Runs, Mark(r)
    PROVE  TypeInv'
<1> DEFINE j == run[r].job
<1>1. run[r].pc = "mark" /\ UNCHANGED <<lock, epoch, task, upload, poll, wal, kept, waived, faults>>
  BY DEF Mark
<1>2. /\ j \in Jobs /\ job[j] \in JobType /\ job \in [Jobs -> JobType] /\ ledger \in LedgerType
      /\ run[r].done \in SUBSET Segments
  BY <1>1, WorkerFields DEF TypeInv, TypeOK
<1>3. job' \in [Jobs -> JobType]
  <2>1. job' = [job EXCEPT ![j] = [job[j] EXCEPT !.silent = FALSE]] \/ job' = job
    BY <1>2 DEF Mark
  <2> QED BY <1>2, <2>1, BlobWrites, JobSet
<1>4. run' \in [Runs -> RunType] /\ WorkersOK'
  <2>1. CASE run' = [run EXCEPT ![r].pc = "work", ![r].done = {}]
    BY <1>1, <2>1, MarkedMoves, RunSet
  <2>2. CASE Leave(r, "lost")
    BY <1>1, <2>2, GoMoves DEF PlainSteps
  <2> QED BY <2>1, <2>2 DEF Mark
<1>5. ledger' \in LedgerType
  <2> DEFINE s == ledger.segs \union run[r].done
  <2>1. s \in SUBSET Segments
    BY <1>2 DEF LedgerType
  <2>2. ledger' = ledger \/ ledger' = [ledger EXCEPT !.segs = s, !.old = FALSE]
    BY DEF Mark
  <2> HIDE DEF s
  <2> QED BY <1>2, <2>1, <2>2 DEF LedgerType
<1> QED BY <1>1, <1>3, <1>4, <1>5, Assemble DEF TypeInv, TypeOK

LEMMA TailType ==
    ASSUME TypeInv, NEW r \in Runs, Tail(r)
    PROVE  TypeInv'
<1>1. run[r].pc = "tail" /\ UNCHANGED <<job, lock, epoch, task, upload, poll, wal, kept, waived, faults>>
  BY DEF Tail
<1>2. PICK p \in PlainSteps : Step(r, p) \/ Leave(r, p)
  BY DEF Tail, Superseded, Raises, PlainSteps
<1>3. ledger' \in LedgerType
  BY DEF Tail, TypeInv, TypeOK, LedgerType
<1> QED BY <1>1, <1>2, <1>3, GoMoves, Assemble DEF TypeInv, TypeOK

LEMMA PublishType ==
    ASSUME TypeInv, NEW r \in Runs, Publish(r)
    PROVE  TypeInv'
<1> DEFINE j == run[r].job
<1>1. run[r].pc = "publish" /\ UNCHANGED <<lock, epoch, ledger, task, upload, poll, wal, kept, waived>>
  BY DEF Publish
<1>2. j \in Jobs /\ Written(job[j], FinalStatus(run[r].errs)) \in JobType
  BY <1>1, WorkerFields, BlobWrites DEF Terminal, FinalStatus
<1>3. job' = [job EXCEPT ![j] = Written(job[j], FinalStatus(run[r].errs))] \/ job' = job
  BY DEF Publish
<1>4. job' \in [Jobs -> JobType]
  BY <1>2, <1>3, JobSet DEF TypeInv, TypeOK
<1>5. PICK p \in PlainSteps : Leave(r, p)
  BY DEF Publish, PlainSteps
<1>6. faults' \in 0..MaxFaults
  BY FaultNamed, FaultTyped DEF Publish, TypeInv
<1> QED BY <1>1, <1>4, <1>5, <1>6, GoMoves, Assemble DEF TypeInv, TypeOK

LEMMA RaisedInlineType ==
    ASSUME TypeInv, NEW r \in Runs, RaisedInline(r)
    PROVE  TypeInv'
<1>1. run[r].pc = "raised" /\ Reject(r, "fail")
  BY DEF RaisedInline
<1> QED BY <1>1, RejectMoves, RunSet, Assemble DEF RaisedInline, TypeInv, TypeOK

\* A run that gives up for good: the last attempt asks the ledger once more.
GivingUpRun(r) ==
    [run[r] EXCEPT !.pc = IF run[r].last /\ Fenced(run[r].job) THEN "bind" ELSE "fail", !.next = "fail"]

LEMMA GivingUpMoves ==
    ASSUME TypeInv, NEW r \in Runs, run[r].pc # "idle",
           run' = [run EXCEPT ![r].pc = IF run[r].last /\ Fenced(run[r].job) THEN "bind" ELSE "fail",
                              ![r].next = "fail"]
    PROVE  /\ run' = [run EXCEPT ![r] = GivingUpRun(r)]
           /\ GivingUpRun(r) \in RunType /\ WellFormed(GivingUpRun(r))
           /\ GivingUpRun(r).pc \in {"bind", "fail"}
           /\ GivingUpRun(r).job = run[r].job /\ GivingUpRun(r).token = run[r].token
<1> DEFINE p == IF run[r].last /\ Fenced(run[r].job) THEN "bind" ELSE "fail"
<1>1. run[r] \in RunType /\ run[r].job \in Jobs /\ run \in [Runs -> RunType] /\ p \in {"bind", "fail"}
  BY WorkerFields DEF TypeInv, TypeOK
<1>2. /\ run' = [run EXCEPT ![r].pc = p, ![r].next = "fail"]
      /\ GivingUpRun(r) = [run[r] EXCEPT !.pc = p, !.next = "fail"]
  BY DEF GivingUpRun
<1> HIDE DEF p
<1>3. /\ GivingUpRun(r) \in RunType /\ GivingUpRun(r).pc = p /\ GivingUpRun(r).next = "fail"
      /\ GivingUpRun(r).job = run[r].job /\ GivingUpRun(r).token = run[r].token
  BY <1>1, <1>2 DEF RunType
<1>4. WellFormed(GivingUpRun(r))
  BY <1>1, <1>3 DEF WellFormed
<1>5. run' = [run EXCEPT ![r] = GivingUpRun(r)]
  BY <1>1, <1>2
<1> QED BY <1>1, <1>3, <1>4, <1>5

LEMMA RaisedType ==
    ASSUME TypeInv, NEW r \in Runs, Raised(r)
    PROVE  TypeInv'
<1> DEFINE j == run[r].job
<1>1. run[r].pc = "raised" /\ UNCHANGED <<epoch, ledger, task, upload, poll, wal, kept, waived, faults>>
  BY DEF Raised
<1>2. j \in Jobs /\ job[j] \in JobType /\ job \in [Jobs -> JobType] /\ lock \in [Jobs -> Token]
  BY <1>1, WorkerFields DEF TypeInv, TypeOK
<1> DEFINE b == [Written(job[j], "queued") EXCEPT !.started = TRUE]
<1>3. b \in JobType
  BY <1>2, BlobWrites DEF Live
<1>4. CASE run' = [run EXCEPT ![r].pc = "heal", ![r].next = "nack"] /\ UNCHANGED <<job, lock>>
  BY <1>1, <1>2, <1>4, HealMoves, Assemble DEF TypeInv, TypeOK
<1>5. CASE End(r) /\ Unlock(r) /\ UNCHANGED job
  BY <1>1, <1>2, <1>5, EndMoves, UnlockTyped, Assemble DEF TypeInv, TypeOK
<1>6. CASE /\ run' = [run EXCEPT ![r].pc = IF run[r].last /\ Fenced(j) THEN "bind" ELSE "fail", ![r].next = "fail"]
           /\ UNCHANGED <<job, lock>>
  <2>1. run' \in [Runs -> RunType] /\ WorkersOK'
    BY <1>1, <1>6, GivingUpMoves, RunSet
  <2> QED BY <1>1, <1>2, <1>6, <2>1, Assemble DEF TypeInv, TypeOK
<1>7. CASE job' = [job EXCEPT ![j] = b] /\ End(r) /\ Unlock(r)
  <2> HIDE DEF b
  <2>1. job' \in [Jobs -> JobType]
    BY <1>2, <1>3, <1>7, JobSet
  <2> QED BY <1>1, <1>2, <1>7, <2>1, EndMoves, UnlockTyped, Assemble DEF TypeInv, TypeOK
<1>8. CASE Step(r, "lost") /\ UNCHANGED <<job, lock>>
  <2>1. run' \in [Runs -> RunType] /\ WorkersOK'
    BY <1>1, <1>8, StepMoves DEF PlainSteps
  <2> QED BY <1>1, <1>2, <1>8, <2>1, Assemble DEF TypeInv, TypeOK
<1> QED BY <1>4, <1>5, <1>6, <1>7, <1>8 DEF Raised

LEMMA FailType ==
    ASSUME TypeInv, NEW r \in Runs, Fail(r)
    PROVE  TypeInv'
<1> DEFINE j == run[r].job
<1>1. run[r].pc = "fail" /\ UNCHANGED <<epoch, ledger, task, upload, poll, wal, kept, waived>>
  BY DEF Fail
<1>2. j \in Jobs /\ Written(job[j], "failed") \in JobType
  BY <1>1, WorkerFields, BlobWrites DEF Terminal
<1>3. job' = [job EXCEPT ![j] = Written(job[j], "failed")] \/ job' = job
  BY DEF Fail
<1>4. job' \in [Jobs -> JobType]
  BY <1>2, <1>3, JobSet DEF TypeInv, TypeOK
<1>5. faults' \in 0..MaxFaults
  BY FaultNamed, FaultTyped DEF Fail, TypeInv
<1>6. lock' \in [Jobs -> Token]
  BY <1>1, UnlockTyped DEF Fail, TypeInv, TypeOK
<1>7. run' \in [Runs -> RunType] /\ WorkersOK'
  <2>1. CASE End(r)
    BY <2>1, EndMoves
  <2>2. CASE \E p \in PlainSteps : Step(r, p)
    BY <1>1, <2>2, StepMoves
  <2> QED BY <2>1, <2>2 DEF Fail, PlainSteps
<1> QED BY <1>1, <1>4, <1>5, <1>6, <1>7, Assemble DEF TypeInv, TypeOK

\* The run that has completed its job for a newer generation.
KeepingRun(r) == [run[r] EXCEPT !.pc = "cleanup", !.next = "keep"]

LEMMA KeepingMoves ==
    ASSUME TypeInv, NEW r \in Runs, run[r].pc # "idle",
           run' = [run EXCEPT ![r].pc = "cleanup", ![r].next = "keep"]
    PROVE  /\ run' = [run EXCEPT ![r] = KeepingRun(r)]
           /\ KeepingRun(r) \in RunType /\ WellFormed(KeepingRun(r))
<1>1. run[r] \in RunType /\ run[r].job \in Jobs /\ run \in [Runs -> RunType]
  BY WorkerFields DEF TypeInv, TypeOK
<1>2. KeepingRun(r) \in RunType /\ WellFormed(KeepingRun(r))
  BY <1>1 DEF KeepingRun, RunType, WellFormed
<1>3. run' = [run EXCEPT ![r] = KeepingRun(r)]
  BY <1>1 DEF KeepingRun
<1> QED BY <1>2, <1>3

LEMMA SupersedeType ==
    ASSUME TypeInv, NEW r \in Runs, Supersede(r)
    PROVE  TypeInv'
<1> DEFINE j == run[r].job
           b == [Written(job[j], "completed") EXCEPT !.superseded = TRUE]
<1>1. run[r].pc = "superseded" /\ UNCHANGED <<lock, epoch, ledger, task, upload, poll, wal, kept, waived, faults>>
  BY DEF Supersede
<1>2. j \in Jobs /\ job[j] \in JobType /\ job \in [Jobs -> JobType]
  BY <1>1, WorkerFields DEF TypeInv, TypeOK
<1>3. b \in JobType
  BY <1>2, BlobWrites DEF Terminal
<1>4. job' = [job EXCEPT ![j] = b] \/ job' = job
  BY DEF Supersede
<1>5. run' \in [Runs -> RunType] /\ WorkersOK'
  <2>1. CASE run' = [run EXCEPT ![r].pc = "heal", ![r].next = "nack"]
    BY <1>1, <2>1, HealMoves
  <2>2. CASE run' = [run EXCEPT ![r].pc = "cleanup", ![r].next = "keep"]
    BY <1>1, <2>2, KeepingMoves, RunSet
  <2>3. CASE Step(r, "lost")
    BY <1>1, <2>3, StepMoves DEF PlainSteps
  <2> QED BY <2>1, <2>2, <2>3 DEF Supersede
<1> HIDE DEF b
<1>6. job' \in [Jobs -> JobType]
  BY <1>2, <1>3, <1>4, JobSet
<1> QED BY <1>1, <1>5, <1>6, Assemble DEF TypeInv, TypeOK

LEMMA CleanupType ==
    ASSUME TypeInv, NEW r \in Runs, Cleanup(r)
    PROVE  TypeInv'
<1> DEFINE j == run[r].job
<1>1. run[r].pc = "cleanup" /\ UNCHANGED <<job, epoch, task, upload, poll, wal, kept, waived>>
  BY DEF Cleanup
<1>2. j \in Jobs /\ lock \in [Jobs -> Token] /\ ledger \in LedgerType
  BY <1>1, WorkerFields DEF TypeInv, TypeOK
<1>3. CASE /\ ledger' = IF Fenced(j) THEN ReleasedBy(j) ELSE ReleasedUnbound(j)
           /\ Step(r, "finish")
           /\ UNCHANGED <<lock, faults>>
  <2>1. ledger' \in LedgerType
    BY <1>2, <1>3, LedgerWrites DEF TypeInv
  <2>2. run' \in [Runs -> RunType] /\ WorkersOK'
    BY <1>1, <1>3, StepMoves DEF PlainSteps
  <2> QED BY <1>1, <1>3, <2>1, <2>2, Assemble DEF TypeInv, TypeOK
<1>4. CASE /\ Fault("store")
           /\ End(r)
           /\ IF job[j].mode = "inline" THEN UNCHANGED lock ELSE Unlock(r)
           /\ UNCHANGED ledger
  <2>1. faults' \in 0..MaxFaults
    BY <1>4, FaultNamed, FaultTyped DEF TypeInv
  <2>2. lock' \in [Jobs -> Token]
    BY <1>1, <1>2, <1>4, UnlockTyped
  <2>3. run' \in [Runs -> RunType] /\ WorkersOK'
    BY <1>4, EndMoves
  <2> QED BY <1>1, <1>4, <2>1, <2>2, <2>3, Assemble DEF TypeInv, TypeOK
<1> QED BY <1>3, <1>4 DEF Cleanup

LEMMA FinishType ==
    ASSUME TypeInv, NEW r \in Runs, Finish(r)
    PROVE  TypeInv'
<1> DEFINE j == run[r].job
<1>1. run[r].pc = "finish" /\ UNCHANGED <<job, ledger, upload, poll, wal, kept, waived, faults>>
      /\ Unlock(r) /\ Acked(r) /\ End(r)
  BY DEF Finish
<1>2. j \in Jobs
  BY <1>1, WorkerFields
<1>3. epoch' \in [Jobs -> Nat]
  BY <1>2 DEF Finish, TypeInv, TypeOK
<1>4. task' \in [Jobs -> TaskType]
  BY <1>1, <1>2 DEF Acked, TypeInv, TypeOK, TaskType
<1> QED BY <1>1, <1>3, <1>4, UnlockTyped, EndMoves, Assemble DEF TypeInv, TypeOK

LEMMA LostType ==
    ASSUME TypeInv, NEW r \in Runs, Lost(r)
    PROVE  TypeInv'
<1>1. run[r].pc = "lost" /\ UNCHANGED <<job, epoch, ledger, task, upload, poll, wal, kept, waived, faults>>
  BY DEF Lost
<1>2. lock' \in [Jobs -> Token]
  BY <1>1, UnlockTyped DEF Lost, TypeInv, TypeOK
<1>3. run' \in [Runs -> RunType] /\ WorkersOK'
  BY <1>1, HealMoves, EndMoves DEF Lost
<1> QED BY <1>1, <1>2, <1>3, Assemble DEF TypeInv, TypeOK

LEMMA CrashType ==
    ASSUME TypeInv, NEW r \in Runs, Crash(r)
    PROVE  TypeInv'
<1>1. faults' \in 0..MaxFaults
  BY FaultNamed, FaultTyped DEF Crash, TypeInv
<1> QED BY <1>1, EndMoves, Assemble DEF Crash, TypeInv, TypeOK

-----------------------------------------------------------------------------
(* The steps of a poll, and time                                            *)

LEMMA PollType == TypeInv /\ Poll => TypeInv'
<1> SUFFICES ASSUME TypeInv, Poll PROVE TypeInv'
  OBVIOUS
<1> DEFINE b == job[wal.job]
           p == IF Stale(b) THEN "heal" ELSE AfterRead(b)
<1>1. wal.state = "uploaded" /\ wal.job \in Jobs /\ poll' = [pc |-> p, seen |-> b]
      /\ UNCHANGED <<job, lock, epoch, ledger, task, run, upload, wal, kept, waived, faults>>
  BY DEF Poll, TypeInv, RequestsOK
<1>2. b \in JobType /\ p \in {"heal", "release", "answer"}
  BY <1>1 DEF TypeInv, TypeOK, AfterRead
<1> HIDE DEF b, p
<1>3. poll' \in [pc : {"idle", "heal", "release", "answer"}, seen : JobType]
  BY <1>1, <1>2
<1>4. RequestsOK'
  BY <1>1 DEF TypeInv, RequestsOK
<1> QED BY <1>1, <1>3, <1>4, AssembleRequest DEF TypeInv, TypeOK

LEMMA PollHealsType == TypeInv /\ PollHeals => TypeInv'
<1> SUFFICES ASSUME TypeInv, PollHeals PROVE TypeInv'
  OBVIOUS
<1> DEFINE b == Healed(poll.seen)
           p == AfterRead(b)
<1>1. wal.state = "uploaded" /\ wal.job \in Jobs /\ poll' = [pc |-> p, seen |-> b]
      /\ job' = [job EXCEPT ![wal.job] = b]
      /\ UNCHANGED <<lock, epoch, ledger, task, run, upload, wal, kept, waived, faults>>
  BY DEF PollHeals, TypeInv, RequestsOK
<1>2. b \in JobType /\ p \in {"release", "answer"}
  BY BlobWrites DEF TypeInv, TypeOK, AfterRead
<1> HIDE DEF b, p
<1>3. poll' \in [pc : {"idle", "heal", "release", "answer"}, seen : JobType]
  BY <1>1, <1>2
<1>4. RequestsOK'
  BY <1>1 DEF TypeInv, RequestsOK
<1>5. job' \in [Jobs -> JobType]
  BY <1>1, <1>2, JobSet
<1> QED BY <1>1, <1>3, <1>4, <1>5, AssembleRequest DEF TypeInv, TypeOK

LEMMA PollReleasesType == TypeInv /\ PollReleases => TypeInv'
<1> SUFFICES ASSUME TypeInv, PollReleases PROVE TypeInv'
  OBVIOUS
<1>1. wal.state = "uploaded" /\ wal.job \in Jobs
      /\ UNCHANGED <<job, lock, epoch, task, run, upload, wal, kept, waived>>
  BY DEF PollReleases, TypeInv, RequestsOK
<1>2. ledger' \in LedgerType
  BY <1>1, LedgerWrites DEF PollReleases, TypeInv, TypeOK
<1>3. faults' \in 0..MaxFaults
  BY FaultNamed, FaultTyped DEF PollReleases, TypeInv
<1>4. poll' \in [pc : {"idle", "heal", "release", "answer"}, seen : JobType]
  BY ConstantsTyped DEF PollReleases, TypeInv, TypeOK
<1>5. RequestsOK'
  BY <1>1 DEF TypeInv, RequestsOK
<1> QED BY <1>1, <1>2, <1>3, <1>4, <1>5, AssembleRequest DEF TypeInv, TypeOK

LEMMA PollAnswersType == TypeInv /\ PollAnswers => TypeInv'
<1> SUFFICES ASSUME TypeInv, PollAnswers PROVE TypeInv'
  OBVIOUS
<1>1. wal.state = "uploaded" /\ wal.job \in Jobs /\ poll' = IdlePoll
      /\ upload.pc = "idle"
      /\ UNCHANGED <<job, lock, ledger, task, run, upload, kept, waived, faults>>
  BY DEF PollAnswers, TypeInv, TypeOK, RequestsOK
<1>2. epoch' \in [Jobs -> Nat]
  BY <1>1 DEF PollAnswers, TypeInv, TypeOK
<1>3. \/ wal' = [wal EXCEPT !.state = "synced"] \/ wal' = wal
      \/ wal' = [state |-> "local", job |-> Nobody]
  BY DEF PollAnswers
<1>4. /\ wal' \in [state : {"local", "uploaded", "synced"}, job : Jobs \union {Nobody}]
      /\ wal'.state # "local" => wal'.job \in Jobs
  BY <1>1, <1>3 DEF TypeInv, TypeOK
<1>5. RequestsOK'
  BY <1>1, <1>4 DEF RequestsOK, IdlePoll
<1> QED BY <1>1, <1>2, <1>4, <1>5, ConstantsTyped, AssembleRequest DEF TypeInv, TypeOK

LEMMA TimeType ==
    ASSUME TypeInv, NEW j \in Jobs, TimeStep(j)
    PROVE  TypeInv'
<1>1. job[j] \in JobType /\ job \in [Jobs -> JobType] /\ lock \in [Jobs -> Token]
  BY DEF TypeInv, TypeOK
<1>2. CASE Silence(j)
  <2>1. job' = [job EXCEPT ![j] = [job[j] EXCEPT !.silent = TRUE]]
    BY <1>1, <1>2 DEF Silence
  <2>2. job' \in [Jobs -> JobType]
    BY <1>1, <2>1, BlobWrites, JobSet
  <2>3. faults' \in 0..MaxFaults
    BY <1>2, FaultNamed, FaultTyped DEF Silence, TypeInv
  <2> QED BY <1>2, <2>2, <2>3, AssembleRequest DEF Silence, TypeInv, TypeOK, RequestsOK
<1>3. CASE LeaseExpires(j)
  <2>1. lock' \in [Jobs -> Token]
    BY <1>1, <1>3, ConstantsTyped DEF LeaseExpires
  <2>2. faults' \in 0..MaxFaults
    BY <1>3, FaultNamed, FaultTyped DEF LeaseExpires, TypeInv
  <2> QED BY <1>3, <2>1, <2>2, AssembleRequest DEF LeaseExpires, TypeInv, TypeOK, RequestsOK
<1>4. CASE JobExpires(j)
  <2>1. job' = [job EXCEPT ![j] = [job[j] EXCEPT !.status = "gone"]]
    BY <1>1, <1>4 DEF JobExpires
  <2>2. job' \in [Jobs -> JobType]
    BY <1>1, <2>1, BlobWrites, JobSet
  <2> QED BY <1>4, <2>2, AssembleRequest DEF JobExpires, TypeInv, TypeOK, RequestsOK
<1> QED BY <1>2, <1>3, <1>4 DEF TimeStep

LEMMA ClaimAgesType == TypeInv /\ ClaimAges => TypeInv'
<1> SUFFICES ASSUME TypeInv, ClaimAges PROVE TypeInv'
  OBVIOUS
<1>1. ledger' \in LedgerType
  BY DEF ClaimAges, TypeInv, TypeOK, LedgerType
<1> QED BY <1>1, AssembleRequest DEF ClaimAges, TypeInv, TypeOK, RequestsOK

-----------------------------------------------------------------------------
(* Type correctness                                                         *)

LEMMA TypeInit == Init => TypeInv
<1> SUFFICES ASSUME Init PROVE TypeInv
  OBVIOUS
<1> USE BoundsTyped, ConstantsTyped
<1>1. ledger \in LedgerType
  <2>1. PICK s \in StartLedgers :
          ledger = [status |-> s, job |-> Nobody, token |-> NoToken, segs |-> {}, old |-> FALSE]
    BY DEF Init
  <2>2. s \in {"none", "malformed"}
    BY ProtocolAssumption
  <2> QED BY <2>1, <2>2 DEF LedgerType
<1>2. task \in [Jobs -> TaskType]
  BY DEF Init, TaskType
<1>3. TypeOK
  BY <1>1, <1>2 DEF Init, TypeOK
<1>4. WorkersOK
  BY DEF Init, WorkersOK, WellFormed, IdleRun
<1>5. RequestsOK
  BY DEF Init, RequestsOK, IdleUpload, IdlePoll
<1> QED BY <1>3, <1>4, <1>5 DEF TypeInv

LEMMA TypeStep == TypeInv /\ [Next]_vars => TypeInv'
<1> SUFFICES ASSUME TypeInv, [Next]_vars PROVE TypeInv'
  OBVIOUS
<1>1. CASE UploadStep
  BY <1>1, UploadType, ClaimType, DispatchTaskType, DispatchInlineType DEF UploadStep
<1>2. CASE StagingFails \/ UploadDies
  BY <1>2, StagingFailsType, UploadDiesType
<1>3. CASE PollStep
  BY <1>3, PollType, PollHealsType, PollReleasesType, PollAnswersType DEF PollStep
<1>4. CASE \E r \in Runs : RunStep(r) \/ Crash(r)
  <2>1. PICK r \in Runs : RunStep(r) \/ Crash(r)
    BY <1>4
  <2>2. CASE RunHeals(r) \/ TakeLock(r) \/ ReadUnderLock(r) \/ Bind(r) \/ Converge(r) \/ Start(r)
    BY <2>2, RunHealsType, TakeLockType, ReadUnderLockType, BindType, ConvergeType, StartType
  <2>3. CASE WorkEnds(r) \/ (\E s \in Segments : Transcribe(r, s)) \/ Mark(r) \/ Tail(r) \/ Publish(r)
    BY <2>3, WorkEndsType, TranscribeType, MarkType, TailType, PublishType
  <2>4. CASE Raised(r) \/ RaisedInline(r) \/ Fail(r) \/ Supersede(r) \/ Cleanup(r) \/ Finish(r) \/ Lost(r)
             \/ Crash(r)
    BY <2>4, RaisedType, RaisedInlineType, FailType, SupersedeType, CleanupType, FinishType, LostType, CrashType
  <2> QED BY <2>1, <2>2, <2>3, <2>4 DEF RunStep
<1>5. CASE \E j \in Jobs : Deliver(j) \/ TimeStep(j)
  BY <1>5, DeliverType, TimeType
<1>6. CASE ClaimAges
  BY <1>6, ClaimAgesType
<1>7. CASE UNCHANGED vars
  BY <1>7 DEF vars, TypeInv, TypeOK, WorkersOK, WellFormed, RequestsOK
<1> QED BY <1>1, <1>2, <1>3, <1>4, <1>5, <1>6, <1>7 DEF Next

\* TypeInv is an invariant of the specification: the other proofs start from it.
THEOREM TypeInvariant == Spec => []TypeInv
<1>1. Init => TypeInv
  BY TypeInit
<1>2. TypeInv /\ [Next]_vars => TypeInv'
  BY TypeStep
<1> QED BY <1>1, <1>2, PTL DEF Spec

\* Type correctness: every job, lock, ledger document, task, worker, request and
\* device record of the upload pipeline keeps its shape, with every attempt
\* within the queue's limit, whatever fails and however often.
THEOREM SyncTypeCorrect == Spec => []TypeOK
<1>1. TypeInv => TypeOK
  BY DEF TypeInv
<1> QED BY <1>1, TypeInvariant, PTL

=============================================================================
