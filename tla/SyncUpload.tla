------------------------------ MODULE SyncUpload ------------------------------
(***************************************************************************)
(* Offline recordings: upload, background transcription and polling        *)
(* (backend/routers/sync.py, backend/utils/sync/pipeline.py,               *)
(* backend/database/sync_jobs.py, backend/database/sync_ledger.py).        *)
(*                                                                         *)
(* A device keeps a recording until the server answers that its job is     *)
(* completed.  Every upload creates a job blob in Redis and claims the     *)
(* recording's content in a Firestore ledger; a Cloud Tasks delivery or a  *)
(* coroutine of the uploading process (inline) takes the job's run lock,   *)
(* binds its lock token to the ledger claim, transcribes the segments that *)
(* the ledger does not name yet, completes the ledger and then the job.    *)
(* The device polls the job and uploads again when it failed or is gone.   *)
(*                                                                         *)
(* The model is of one recording.  Jobs are its uploads, Runs the workers  *)
(* (a worker that is idle and whose token nothing stores may be reused: a  *)
(* new run has a new token).  A job is silent when its updated_at is older *)
(* than the threshold of is_sync_job_stale for the state it is in.  A      *)
(* recording in which VAD finds no speech is one without Segments.         *)
(***************************************************************************)
EXTENDS Naturals, FiniteSets

CONSTANTS
    Jobs, Runs, Segments,
    Nobody,       \* no job, no run
    Modes,        \* dispatch_mode of the jobs that get created
    Fences,       \* ledger_fence_mode of the jobs that get created
    StartLedgers, \* ledger documents earlier releases may have left
    Outcomes,     \* how the steps of the pipeline may end
    Faults,       \* what the environment may do, MaxFaults times in all
    MaxFaults,
    MaxAttempts,  \* get_sync_tasks_max_attempts
    LongTimers    \* whether the one day and two day retentions elapse

ASSUME NobodyAssumption == Nobody \notin Jobs /\ Nobody \notin Runs
ASSUME BoundsAssumption == MaxFaults \in Nat /\ MaxAttempts \in Nat \ {0}
ASSUME ProtocolAssumption ==
    /\ Modes \subseteq {"inline", "cloud_tasks"}
    /\ Fences \subseteq {"legacy", "active"}
    /\ StartLedgers \subseteq {"none", "malformed"}
    /\ LongTimers \in BOOLEAN
ASSUME EnvironmentAssumption ==
    /\ Outcomes \subseteq {"empty", "error", "reject", "budget", "fatal", "retryable", "superseded"}
    /\ Faults \subseteq {"crash", "stall", "leaf", "duplicate", "enqueue", "staging", "reply", "store"}

VARIABLES
    job,     \* the Redis job blobs
    lock,    \* sync_job_lock: the token that owns a job's run
    epoch,   \* sync_job_lock_epoch: the counter the tokens are numbered from
    ledger,  \* the recording's document in sync_content_ledger
    task,    \* the named Cloud Tasks task of each job
    run,     \* the workers
    upload,  \* the upload request being handled
    poll,    \* the status request being handled
    wal,     \* the device: has it the recording only, uploaded, or dropped it
    kept,    \* segments whose transcript is in a conversation
    waived,  \* segments in none, that held no speech or that the user overruled
    faults   \* faults so far

vars == <<job, lock, epoch, ledger, task, run, upload, poll, wal, kept, waived, faults>>

-----------------------------------------------------------------------------
(* State                                                                    *)

Terminal == {"completed", "partial_failure", "failed"}
Live == {"queued", "processing"}

\* started: started_at or attempt is set.  superseded: a newer generation owns
\* the conversation, and the job was completed without segments.
JobType ==
    [status : {"unused", "gone"} \union Live \union Terminal, mode : {"inline", "cloud_tasks"},
     fence : {"legacy", "active"}, started : BOOLEAN, silent : BOOLEAN, superseded : BOOLEAN]

Token == [epoch : Nat, run : Runs \union {Nobody}]
NoToken == [epoch |-> 0, run |-> Nobody]

\* malformed: "completed" with a result that proves nothing.  old: not written
\* for CLAIM_STALE_SECONDS.
LedgerType ==
    [status : {"none", "processing", "retryable", "completed", "malformed"}, job : Jobs \union {Nobody},
     token : Token, segs : SUBSET Segments, old : BOOLEAN]

TaskType == [pending : BOOLEAN, tries : 0..MaxAttempts]

\* next: where a heal or a bind continues, or what a worker fails its job for.
\* left, errs: segments to transcribe and segments that failed.  done: transcribed,
\* not yet in the ledger.  last: this is the final delivery.
RunType ==
    [pc : {"idle", "heal", "lock", "read", "bind", "converge", "start", "work", "mark", "tail", "publish",
           "raised", "fail", "superseded", "cleanup", "finish", "lost"},
     next : {"none", "lock", "cleanup", "nack", "start", "reject", "budget", "fail", "keep"}, job : Jobs \union {Nobody},
     token : Token, left : SUBSET Segments, errs : SUBSET Segments, done : SUBSET Segments, last : BOOLEAN]

TypeOK ==
    /\ job \in [Jobs -> JobType]
    /\ lock \in [Jobs -> Token]
    /\ epoch \in [Jobs -> Nat]
    /\ ledger \in LedgerType
    /\ task \in [Jobs -> TaskType]
    /\ run \in [Runs -> RunType]
    /\ upload \in [pc : {"idle", "claim", "dispatch"}, job : Jobs \union {Nobody}]
    /\ poll \in [pc : {"idle", "heal", "release", "answer"}, seen : JobType]
    /\ wal \in [state : {"local", "uploaded", "synced"}, job : Jobs \union {Nobody}]
    /\ kept \in SUBSET Segments
    /\ waived \in SUBSET Segments
    /\ faults \in 0..MaxFaults

NoJob ==
    [status |-> "unused", mode |-> "inline", fence |-> "legacy", started |-> FALSE, silent |-> FALSE,
     superseded |-> FALSE]
IdleRun ==
    [pc |-> "idle", next |-> "none", job |-> Nobody, token |-> NoToken, left |-> {}, errs |-> {}, done |-> {},
     last |-> FALSE]
IdleUpload == [pc |-> "idle", job |-> Nobody]
IdlePoll == [pc |-> "idle", seen |-> NoJob]

Init ==
    /\ job = [j \in Jobs |-> NoJob]
    /\ lock = [j \in Jobs |-> NoToken]
    /\ epoch = [j \in Jobs |-> 0]
    /\ \E s \in StartLedgers :
         ledger = [status |-> s, job |-> Nobody, token |-> NoToken, segs |-> {}, old |-> FALSE]
    /\ task = [j \in Jobs |-> [pending |-> FALSE, tries |-> 0]]
    /\ run = [r \in Runs |-> IdleRun]
    /\ upload = IdleUpload
    /\ poll = IdlePoll
    /\ wal = [state |-> "local", job |-> Nobody]
    /\ kept = {}
    /\ waived = {}
    /\ faults = 0

Fault(f) == f \in Faults /\ faults < MaxFaults /\ faults' = faults + 1

-----------------------------------------------------------------------------
(* The job blob                                                             *)

\* is_sync_job_stale: silent jobs that are processing, or that Cloud Tasks
\* never started.
Stale(b) ==
    /\ b.silent
    /\ \/ b.status = "processing"
       \/ b.status = "queued" /\ b.mode = "cloud_tasks" /\ ~b.started

\* The write of get_sync_job: the blob it read, failed.  Nothing is compared.
Healed(b) == [b EXCEPT !.status = "failed"]

Written(b, status) == [b EXCEPT !.status = status, !.silent = FALSE]

Fenced(j) == job[j].fence = "active"

\* update_sync_job and fenced_update_sync_job: never from a terminal status; a
\* fenced job also asks for the current lock token and for an expected status.
MayWrite(r, expected) ==
    LET j == run[r].job IN
    /\ job[j].status \in Live
    /\ Fenced(j) => job[j].status \in expected /\ lock[j] = run[r].token

\* _sync_job_finalization_updates
FinalStatus(errs) ==
    IF errs = {} THEN "completed" ELSE IF errs = Segments THEN "failed" ELSE "partial_failure"

Held(j) == lock[j] # NoToken
Holder(r) == run[r].pc # "idle" /\ run[r].job # Nobody /\ run[r].token # NoToken
             /\ lock[run[r].job] = run[r].token

Working(j) == \E r \in Runs : run[r].job = j

\* A worker whose token no lock and no ledger stores, for a new invocation.
Free(r) ==
    /\ run[r].pc = "idle"
    /\ ledger.token.run # r
    /\ \A j \in Jobs : lock[j].run # r

NewRun == CHOOSE r \in Runs : Free(r)

\* try_acquire_sync_job_run_lock numbers the token, try_acquire_job_run_lock does not.
NewToken(r, j) == [epoch |-> IF Fenced(j) THEN epoch[j] + 1 ELSE 0, run |-> r]

-----------------------------------------------------------------------------
(* The content ledger                                                       *)

\* The token a worker's ledger calls carry: none before the fence.
RunToken(r) == IF Fenced(run[r].job) THEN run[r].token ELSE NoToken

\* _ledger_owner_matches
LedgerOwner(r) ==
    /\ ledger.status = "processing"
    /\ ledger.job = run[r].job
    /\ ledger.token = RunToken(r)

\* _processing_claim_updates; a malformed completion loses its checkpoints.
ClaimedBy(j) ==
    [ledger EXCEPT !.status = "processing", !.job = j, !.token = NoToken, !.old = FALSE,
                   !.segs = IF ledger.status = "malformed" THEN {} ELSE @]

\* Mutant: a completion is believed whatever its result says.
ClaimsCompleted == ledger.status \in {"completed", "malformed"}

\* is_valid_completed_sync_result
Proven == ledger.status = "completed"

\* Mutant: a claim never becomes stale.
Claimed == ledger.status = "processing"

\* _claim_transaction for a job that does not hold the claim yet
Busy == ledger.status = "processing" /\ ~ledger.old

\* Mutant: a late release does not look at the status.
ReleasedAnyhow(j) ==
    IF ledger.job = j
    THEN [ledger EXCEPT !.status = "retryable", !.job = Nobody, !.token = NoToken, !.old = FALSE]
    ELSE ledger

\* _release_claim_after_job_retired_transaction compares the job alone.
ReleasedBy(j) ==
    IF ledger.status = "processing" /\ ledger.job = j
    THEN [ledger EXCEPT !.status = "retryable", !.job = Nobody, !.token = NoToken, !.old = FALSE]
    ELSE ledger

\* release_sync_content_claim without a token: only a claim no run is bound to.
ReleasedUnbound(j) == IF ledger.token = NoToken THEN ReleasedBy(j) ELSE ledger

\* Mutant: the run epochs are not compared.
BindLostToJob(r) ==
    \/ ledger.status \notin {"processing", "completed"}
    \/ ledger.status = "processing" /\ ledger.job # run[r].job

\* _bind_run_token_transaction
BindLost(r) ==
    \/ ledger.status \notin {"processing", "completed"}
    \/ /\ ledger.status = "processing"
       /\ \/ ledger.job # run[r].job
          \/ ledger.token.epoch > run[r].token.epoch
          \/ ledger.token.epoch = run[r].token.epoch /\ ledger.token # run[r].token

-----------------------------------------------------------------------------
(* POST /v2/sync-local-files                                                *)

\* create_sync_job, with a new job id
Upload ==
    LET j == CHOOSE i \in Jobs : job[i].status = "unused" IN
    /\ upload = IdleUpload
    /\ wal.state = "local"
    /\ \E i \in Jobs : job[i].status = "unused"
    /\ \E m \in Modes, f \in Fences :
         job' = [job EXCEPT ![j] = [NoJob EXCEPT !.status = "queued", !.mode = m, !.fence = f]]
    /\ upload' = [pc |-> "claim", job |-> j]
    /\ UNCHANGED <<lock, epoch, ledger, task, run, poll, wal, kept, waived, faults>>

\* The answer of the upload: the device waits for job j, or never hears of it.
Reply(j) ==
    /\ upload' = IdleUpload
    /\ \/ wal' = [state |-> "uploaded", job |-> j] /\ UNCHANGED faults
       \/ Fault("reply") /\ UNCHANGED wal

\* claim_sync_content: a completed recording completes the new job at once, a
\* claim of another upload turns this one away.
Claim ==
    LET j == upload.job IN
    /\ upload.pc = "claim"
    /\ \/ /\ Proven
          /\ job' = IF job[j].status \in Live THEN [job EXCEPT ![j] = Written(@, "completed")] ELSE job
          /\ Reply(j)
          /\ UNCHANGED ledger
       \/ /\ Busy
          /\ job' = [job EXCEPT ![j] = NoJob]
          /\ upload' = IdleUpload
          /\ UNCHANGED <<ledger, wal, faults>>
       \/ /\ ~Proven /\ ~Busy
          /\ ledger' = ClaimedBy(j)
          /\ upload' = [upload EXCEPT !.pc = "dispatch"]
          /\ UNCHANGED <<job, wal, faults>>
    /\ UNCHANGED <<lock, epoch, task, run, poll, kept, waived>>

\* Stage the files and enqueue the task.  A lost acknowledgement leaves the
\* task in the queue or not, and is answered like an accepted one.
DispatchTask ==
    LET j == upload.job IN
    /\ upload.pc = "dispatch" /\ job[j].mode = "cloud_tasks"
    /\ \/ task' = [task EXCEPT ![j].pending = TRUE] /\ Reply(j)
       \/ /\ Fault("enqueue")
          /\ upload' = IdleUpload
          /\ wal' = [state |-> "uploaded", job |-> j]
          /\ UNCHANGED task
    /\ UNCHANGED <<job, lock, epoch, ledger, run, poll, kept, waived>>

\* Staging failed: _finalize_sync_job_failure without a token.  A fenced claim
\* no run is bound to is released all the same.
StagingFails ==
    LET j == upload.job IN
    /\ upload.pc = "dispatch" /\ job[j].mode = "cloud_tasks"
    /\ Fault("staging")
    /\ job' = [job EXCEPT ![j] = Written(@, "failed")]
    /\ ledger' = ReleasedUnbound(j)
    /\ upload' = IdleUpload
    /\ UNCHANGED <<lock, epoch, task, run, poll, wal, kept, waived>>

\* Take the run lock and start the coordinator in this process.
DispatchInline ==
    LET j == upload.job
        r == NewRun
        start == [IdleRun EXCEPT !.pc = IF Fenced(j) THEN "bind" ELSE "start", !.next = "start", !.job = j,
                                 !.token = NewToken(r, j)]
    IN
    /\ upload.pc = "dispatch" /\ job[j].mode = "inline"
    /\ \E q \in Runs : Free(q)
    /\ ~Held(j)
    /\ run' = [run EXCEPT ![r] = start]
    /\ lock' = [lock EXCEPT ![j] = start.token]
    /\ epoch' = [epoch EXCEPT ![j] = start.token.epoch]
    /\ Reply(j)
    /\ UNCHANGED <<job, ledger, task, poll, kept, waived>>

\* The process that handles the upload dies, or the handler raises: then it
\* releases its claim and leaves the job as it is.
UploadDies ==
    /\ upload.pc # "idle"
    /\ \/ Fault("crash") /\ UNCHANGED ledger
       \/ Fault("store") /\ ledger' = ReleasedUnbound(upload.job)
    /\ upload' = IdleUpload
    /\ UNCHANGED <<job, lock, epoch, task, run, poll, wal, kept, waived>>

-----------------------------------------------------------------------------
(* POST /v2/sync-jobs/run and the inline coordinator                        *)

Step(r, pc) == run' = [run EXCEPT ![r].pc = pc]

\* The same, out of the pipeline: what it knew of the segments is gone.
Leave(r, pc) == run' = [run EXCEPT ![r].pc = pc, ![r].left = {}, ![r].errs = {}, ![r].done = {}]

\* The three ends of a run.  A 2xx consumes the task; anything else leaves it
\* for another delivery while the queue has attempts left.
Unlock(r) ==
    LET j == run[r].job IN
    lock' = IF lock[j] = run[r].token THEN [lock EXCEPT ![j] = NoToken] ELSE lock
End(r) == run' = [run EXCEPT ![r] = IdleRun]
Acked(r) == task' = [task EXCEPT ![run[r].job].pending = FALSE]

\* A delivery of j whose request has not ended: it has no lock yet, or has it.
InRequest(j) == \E r \in Runs : run[r].job = j /\ (run[r].token = NoToken \/ Holder(r))

\* Mutant: the attempts are counted from one.
OneMoreAttempt(j) == task[j].tries <= MaxAttempts

\* What the queue has left of get_sync_tasks_max_attempts.
AttemptsLeft(j) == task[j].tries < MaxAttempts

\* A delivery reads the job before it takes the lock.
Deliver(j) ==
    /\ \E r \in Runs : Free(r)
    /\ task[j].pending /\ AttemptsLeft(j)
    /\ IF InRequest(j) THEN Fault("duplicate") ELSE UNCHANGED faults
    /\ task' = [task EXCEPT ![j].tries = @ + 1]
    /\ run' = [run EXCEPT ![NewRun] =
                 [IdleRun EXCEPT !.pc = IF Stale(job[j]) THEN "heal" ELSE "lock", !.next = "lock", !.job = j,
                                 !.last = (task[j].tries + 1 = MaxAttempts)]]
    /\ UNCHANGED <<job, lock, epoch, ledger, upload, poll, wal, kept, waived>>

\* The write of get_sync_job, after its read.  A failed blob is never written
\* again, so what else it restores of the blob that was read makes no difference.
RunHeals(r) ==
    LET j == run[r].job IN
    /\ run[r].pc = "heal"
    /\ job' = [job EXCEPT ![j] = Healed(@)]
    /\ IF run[r].next = "nack" THEN End(r) /\ Unlock(r) ELSE Step(r, run[r].next) /\ UNCHANGED lock
    /\ UNCHANGED <<epoch, ledger, task, upload, poll, wal, kept, waived, faults>>

\* A held lock is answered 409.
TakeLock(r) ==
    LET j == run[r].job IN
    /\ run[r].pc = "lock"
    /\ IF Held(j)
       THEN End(r) /\ UNCHANGED <<lock, epoch>>
       ELSE /\ run' = [run EXCEPT ![r].pc = "read", ![r].token = NewToken(r, j)]
            /\ lock' = [lock EXCEPT ![j] = NewToken(r, j)]
            /\ epoch' = IF Fenced(j) THEN [epoch EXCEPT ![j] = @ + 1] ELSE epoch
    /\ UNCHANGED <<job, ledger, task, upload, poll, wal, kept, waived, faults>>

\* Re-read under the lock: a job that is gone or terminal is only cleaned up.
ReadUnderLock(r) ==
    LET j == run[r].job IN
    /\ run[r].pc = "read"
    /\ run' = [run EXCEPT ![r].pc = CASE Stale(job[j]) -> "heal"
                                      [] job[j].status \in Live /\ ~Stale(job[j]) -> IF Fenced(j) THEN "bind" ELSE "start"
                                      [] job[j].status = "completed" -> "finish"
                                      [] OTHER -> "cleanup",
                          ![r].next = IF Stale(job[j]) THEN "cleanup" ELSE "start"]
    /\ UNCHANGED <<job, lock, epoch, ledger, task, upload, poll, wal, kept, waived, faults>>

\* bind_or_converge_sync_ledger_completion, its ledger half.  (The upload handler
\* binds for an inline run, whose claim nobody else can have bound or completed.)
Bind(r) ==
    /\ run[r].pc = "bind"
    /\ \/ BindLost(r) /\ Step(r, "lost") /\ UNCHANGED ledger
       \/ ledger.status = "completed" /\ Step(r, "converge") /\ UNCHANGED ledger
       \/ /\ ~BindLost(r) /\ ledger.status # "completed"
          /\ Step(r, run[r].next)
          /\ ledger' = [ledger EXCEPT !.token = run[r].token, !.old = FALSE]
    /\ UNCHANGED <<job, lock, epoch, task, upload, poll, wal, kept, waived, faults>>

\* its Redis half: the job takes the result of a completion that is durable
Converge(r) ==
    LET j == run[r].job IN
    /\ run[r].pc = "converge"
    /\ IF MayWrite(r, Live)
       THEN job' = [job EXCEPT ![j] = Written(@, "completed")] /\ Step(r, "finish")
       ELSE Step(r, "lost") /\ UNCHANGED job
    /\ UNCHANGED <<lock, epoch, ledger, task, upload, poll, wal, kept, waived, faults>>

\* The worker is about to fail its job.
Reject(r, reason) == run' = [run EXCEPT ![r].pc = "fail", ![r].next = reason]

\* Account cutover or staged audio that expired refuse a delivery.  Otherwise the
\* job is marked processing; decoding, VAD or the backfill budget may reject it,
\* and so may the restricted budget, after it has emptied the list of segments.
\* The segments the ledger has are not transcribed again.
Start(r) ==
    LET j == run[r].job
        processing == [job EXCEPT ![j] = [Written(@, "processing") EXCEPT !.started = TRUE]]
    IN
    /\ run[r].pc = "start"
    /\ \/ "reject" \in Outcomes /\ job[j].mode = "cloud_tasks" /\ Reject(r, "fail") /\ UNCHANGED job
       \/ MayWrite(r, Live) /\ "reject" \in Outcomes /\ Reject(r, "reject") /\ job' = processing
       \/ MayWrite(r, Live) /\ "budget" \in Outcomes /\ Reject(r, "budget") /\ job' = processing
       \/ /\ MayWrite(r, Live)
          /\ run' = [run EXCEPT ![r].pc = "work", ![r].left = Segments \ ledger.segs]
          /\ job' = processing
       \/ ~MayWrite(r, Live) /\ Step(r, "lost") /\ UNCHANGED job
    /\ UNCHANGED <<lock, epoch, ledger, task, upload, poll, wal, kept, waived, faults>>

\* Where a fenced conversation (SyncConversationPersistenceFenced) takes a run:
\* only the handler of a delivery knows what it means.
Superseded(r) ==
    /\ "superseded" \in Outcomes
    /\ Leave(r, IF job[run[r].job].mode = "inline" THEN "raised" ELSE "superseded")

\* Any step may raise.
Raises(r) == {"fatal", "retryable"} \intersect Outcomes # {} /\ Leave(r, "raised")

WorkEnds(r) ==
    /\ run[r].pc = "work"
    /\ \/ Superseded(r)
       \/ Raises(r)
       \/ run[r].left = {} /\ Step(r, "tail")
    /\ UNCHANGED <<job, lock, epoch, ledger, task, upload, poll, wal, kept, waived, faults>>

\* process_segment: the transcript is in a conversation before anything says so;
\* a segment without speech, or one whose conversation the user deleted or took
\* over (SyncAssignmentSuperseded), is no error and is never recorded as done.
Transcribe(r, s) ==
    /\ run[r].pc = "work" /\ s \in run[r].left
    /\ \/ /\ run' = [run EXCEPT ![r].pc = "mark", ![r].left = @ \ {s}, ![r].done = {s}]
          /\ kept' = kept \union {s}
          /\ waived' = waived \ {s}
       \/ /\ "empty" \in Outcomes
          /\ run' = [run EXCEPT ![r].pc = "mark", ![r].left = @ \ {s}]
          /\ waived' = waived \union ({s} \ kept)
          /\ UNCHANGED kept
       \/ /\ "error" \in Outcomes
          /\ run' = [run EXCEPT ![r].pc = "mark", ![r].left = @ \ {s}, ![r].errs = @ \union {s}]
          /\ UNCHANGED <<kept, waived>>
    /\ UNCHANGED <<job, lock, epoch, ledger, task, upload, poll, wal, faults>>

\* The job's progress, then the ledger's checkpoint and processed segment.
Mark(r) ==
    LET j == run[r].job IN
    /\ run[r].pc = "mark"
    /\ job' = IF MayWrite(r, {"processing"}) THEN [job EXCEPT ![j].silent = FALSE] ELSE job
    /\ IF MayWrite(r, {"processing"}) /\ (LedgerOwner(r) \/ run[r].done = {})
       THEN /\ run' = [run EXCEPT ![r].pc = "work", ![r].done = {}]
            /\ ledger' = IF run[r].done = {} THEN ledger
                         ELSE [ledger EXCEPT !.segs = @ \union run[r].done, !.old = FALSE]
       ELSE Leave(r, "lost") /\ UNCHANGED ledger
    /\ UNCHANGED <<lock, epoch, task, upload, poll, wal, kept, waived, faults>>

\* Reprocess what was merged, meter, and complete the ledger if nothing failed.
Tail(r) ==
    /\ run[r].pc = "tail"
    /\ \/ (Superseded(r) \/ Raises(r)) /\ UNCHANGED ledger
       \/ run[r].errs # {} /\ Step(r, "publish") /\ UNCHANGED ledger
       \/ /\ run[r].errs = {} /\ LedgerOwner(r)
          /\ ledger' = [ledger EXCEPT !.status = "completed"]
          /\ Step(r, "publish")
       \/ run[r].errs = {} /\ ~LedgerOwner(r) /\ Leave(r, "lost") /\ UNCHANGED ledger
    /\ UNCHANGED <<job, lock, epoch, task, upload, poll, wal, kept, waived, faults>>

\* _finalize_sync_job_for_run; Redis may fail after the ledger was completed.
Publish(r) ==
    LET j == run[r].job IN
    /\ run[r].pc = "publish"
    /\ \/ /\ MayWrite(r, {"processing"})
          /\ job' = [job EXCEPT ![j] = Written(@, FinalStatus(run[r].errs))]
          /\ Leave(r, IF run[r].errs = {} THEN "finish" ELSE "cleanup")
          /\ UNCHANGED faults
       \/ ~MayWrite(r, {"processing"}) /\ Leave(r, "lost") /\ UNCHANGED <<job, faults>>
       \/ Fault("store") /\ Leave(r, "raised") /\ UNCHANGED job
    /\ UNCHANGED <<lock, epoch, ledger, task, upload, poll, wal, kept, waived>>

\* The handler's answer to an exception.  A terminal job is left to the next
\* delivery; the last attempt asks the ledger once more; a retryable failure
\* puts the job back to queued, which no reader finds stale.
Raised(r) ==
    LET j == run[r].job IN
    /\ run[r].pc = "raised" /\ job[j].mode = "cloud_tasks"
    /\ \/ /\ Stale(job[j])
          /\ run' = [run EXCEPT ![r].pc = "heal", ![r].next = "nack"]
          /\ UNCHANGED <<job, lock>>
       \/ job[j].status \notin Live /\ End(r) /\ Unlock(r) /\ UNCHANGED job
       \/ /\ job[j].status \in Live /\ ~Stale(job[j])
          /\ run[r].last \/ "fatal" \in Outcomes
          /\ run' = [run EXCEPT ![r].pc = IF run[r].last /\ Fenced(j) THEN "bind" ELSE "fail", ![r].next = "fail"]
          /\ UNCHANGED <<job, lock>>
       \/ /\ job[j].status \in Live /\ ~Stale(job[j])
          /\ ~run[r].last
          /\ IF MayWrite(r, Live)
             THEN /\ job' = [job EXCEPT ![j] = [Written(@, "queued") EXCEPT !.started = TRUE]]
                  /\ End(r) /\ Unlock(r)
             ELSE Step(r, "lost") /\ UNCHANGED <<job, lock>>
    /\ UNCHANGED <<epoch, ledger, task, upload, poll, wal, kept, waived, faults>>

\* The inline coordinator has no retry: it fails the job.
RaisedInline(r) ==
    /\ run[r].pc = "raised" /\ job[run[r].job].mode = "inline"
    /\ Reject(r, "fail")
    /\ UNCHANGED <<job, lock, epoch, ledger, task, upload, poll, wal, kept, waived, faults>>

\* finalize_sync_job_failure_now.  When its write fails, the budget's rejection is
\* forgotten (its handler swallows every exception) and the run goes on without a
\* segment; a rejection by decoding or VAD is an exception like any other; and the
\* last resort ends the run, a delivery with a 500, the coordinator with its lock.
\* (A lease loss the budget's handler swallows shows again at the next write.)
Fail(r) ==
    LET j == run[r].job IN
    /\ run[r].pc = "fail"
    /\ \/ /\ MayWrite(r, Live)
          /\ job' = [job EXCEPT ![j] = Written(@, "failed")]
          /\ Step(r, "cleanup")
          /\ UNCHANGED <<lock, faults>>
       \/ ~MayWrite(r, Live) /\ Step(r, "lost") /\ UNCHANGED <<job, lock, faults>>
       \/ /\ Fault("store")
          /\ \/ run[r].next = "budget" /\ Step(r, "mark") /\ UNCHANGED lock
             \/ run[r].next = "reject" /\ Step(r, "raised") /\ UNCHANGED lock
             \/ /\ run[r].next \notin {"budget", "reject"}
                /\ End(r)
                /\ IF job[j].mode = "inline" THEN UNCHANGED lock ELSE Unlock(r)
          /\ UNCHANGED job
    /\ UNCHANGED <<epoch, ledger, task, upload, poll, wal, kept, waived>>

\* finalize_sync_job_superseded, after one more get_sync_job
Supersede(r) ==
    LET j == run[r].job IN
    /\ run[r].pc = "superseded"
    /\ \/ /\ Stale(job[j])
          /\ run' = [run EXCEPT ![r].pc = "heal", ![r].next = "nack"]
          /\ UNCHANGED job
       \/ /\ ~Stale(job[j]) /\ MayWrite(r, {"processing"})
          /\ job' = [job EXCEPT ![j] = [Written(@, "completed") EXCEPT !.superseded = TRUE]]
          /\ run' = [run EXCEPT ![r].pc = "cleanup", ![r].next = "keep"]
       \/ ~Stale(job[j]) /\ ~MayWrite(r, {"processing"}) /\ Step(r, "lost") /\ UNCHANGED job
    /\ UNCHANGED <<lock, epoch, ledger, task, upload, poll, wal, kept, waived, faults>>

\* Make the claim of a job that ended available to the next upload.  When that
\* fails a delivery answers 500, and the inline coordinator keeps its lock.
Cleanup(r) ==
    LET j == run[r].job IN
    /\ run[r].pc = "cleanup"
    /\ \/ /\ ledger' = IF Fenced(j) THEN ReleasedBy(j) ELSE ReleasedUnbound(j)
          /\ Step(r, "finish")
          /\ UNCHANGED <<lock, faults>>
       \/ /\ Fault("store")
          /\ End(r)
          /\ IF job[j].mode = "inline" THEN UNCHANGED lock ELSE Unlock(r)
          /\ UNCHANGED ledger
    /\ UNCHANGED <<job, epoch, task, upload, poll, wal, kept, waived>>

\* Forget the epoch, release the lock, consume the task.
Finish(r) ==
    LET j == run[r].job IN
    /\ run[r].pc = "finish"
    /\ epoch' = IF Fenced(j) /\ run[r].next # "keep" THEN [epoch EXCEPT ![j] = 0] ELSE epoch
    /\ Unlock(r) /\ Acked(r) /\ End(r)
    /\ UNCHANGED <<job, ledger, upload, poll, wal, kept, waived, faults>>

\* SyncJobRunLeaseLost: the lock is kept until it expires, unless the job is
\* found terminal.
Lost(r) ==
    LET j == run[r].job IN
    /\ run[r].pc = "lost"
    /\ \/ /\ job[j].mode = "cloud_tasks" /\ Stale(job[j])
          /\ run' = [run EXCEPT ![r].pc = "heal", ![r].next = "nack"]
          /\ UNCHANGED lock
       \/ job[j].mode = "cloud_tasks" /\ job[j].status \in Terminal /\ End(r) /\ Unlock(r)
       \/ /\ \/ job[j].mode = "inline"
             \/ job[j].status \notin Terminal /\ ~Stale(job[j])
          /\ End(r) /\ UNCHANGED lock
    /\ UNCHANGED <<job, epoch, ledger, task, upload, poll, wal, kept, waived, faults>>

\* A worker dies; its lock and its task stay.
Crash(r) ==
    /\ run[r].pc # "idle"
    /\ Fault("crash")
    /\ End(r)
    /\ UNCHANGED <<job, lock, epoch, ledger, task, upload, poll, wal, kept, waived>>

-----------------------------------------------------------------------------
(* GET /v2/sync-local-files/{job_id}                                        *)

\* Mutant: no answer waits for the ledger.
AnswersAtOnce(b) == IF b.fence = "none" THEN "release" ELSE "answer"

\* After get_sync_job, a failed fenced job must have its claim released before
\* the device hears of it.  (The branch that takes the run lock for a stale job
\* cannot be entered: get_sync_job never returns a stale job.)
AfterRead(b) ==
    IF b.status \in {"failed", "partial_failure"} /\ b.fence = "active" THEN "release" ELSE "answer"

Poll ==
    LET b == job[wal.job] IN
    /\ wal.state = "uploaded" /\ poll.pc = "idle"
    /\ poll' = [pc |-> IF Stale(b) THEN "heal" ELSE AfterRead(b), seen |-> b]
    /\ UNCHANGED <<job, lock, epoch, ledger, task, run, upload, wal, kept, waived, faults>>

PollHeals ==
    /\ poll.pc = "heal"
    /\ job' = [job EXCEPT ![wal.job] = Healed(poll.seen)]
    /\ poll' = [pc |-> AfterRead(Healed(poll.seen)), seen |-> Healed(poll.seen)]
    /\ UNCHANGED <<lock, epoch, ledger, task, run, upload, wal, kept, waived, faults>>

\* A claim that cannot be released answers 503, and the device polls again.
PollReleases ==
    /\ poll.pc = "release"
    /\ \/ /\ ledger' = ReleasedBy(wal.job)
          /\ poll' = [poll EXCEPT !.pc = "answer"]
          /\ UNCHANGED faults
       \/ Fault("store") /\ poll' = IdlePoll /\ UNCHANGED ledger
    /\ UNCHANGED <<job, lock, epoch, task, run, upload, wal, kept, waived>>

\* Mutant: a job that transcribed something is reported as done.
DoneWithErrors(b) == b.status \in {"completed", "partial_failure"}

\* The status on which a device gives its copy up.
Done(b) == b.status = "completed"

\* The epoch of a failed fenced job is forgotten with the answer.  The device
\* drops a completed recording, and uploads a failed or unknown one again.
PollAnswers ==
    /\ poll.pc = "answer"
    /\ epoch' = IF AfterRead(poll.seen) = "release" THEN [epoch EXCEPT ![wal.job] = 0] ELSE epoch
    /\ poll' = IdlePoll
    /\ wal' = CASE Done(poll.seen) -> [wal EXCEPT !.state = "synced"]
                [] poll.seen.status \in Live -> wal
                [] OTHER -> [state |-> "local", job |-> Nobody]
    /\ UNCHANGED <<job, lock, ledger, task, run, upload, kept, waived, faults>>

-----------------------------------------------------------------------------
(* Time                                                                     *)

\* updated_at passes the threshold; under a worker only if that worker stalls.
Silence(j) ==
    /\ ~job[j].silent
    /\ Stale([job[j] EXCEPT !.silent = TRUE])
    /\ IF Working(j) THEN Fault("stall") ELSE UNCHANGED faults
    /\ job' = [job EXCEPT ![j].silent = TRUE]
    /\ UNCHANGED <<lock, epoch, ledger, task, run, upload, poll, wal, kept, waived>>

\* RUN_LOCK_TTL_SECONDS pass.  The holder is gone, unless a thread of it
\* outlives the cancelled coordinator.
LeaseExpires(j) ==
    /\ Held(j)
    /\ IF \E r \in Runs : Holder(r) /\ run[r].job = j THEN Fault("leaf") ELSE UNCHANGED faults
    /\ lock' = [lock EXCEPT ![j] = NoToken]
    /\ UNCHANGED <<job, epoch, ledger, task, run, upload, poll, wal, kept, waived>>

\* No request is being handled, and no lock is left: both end within the hour.
Quiet == upload = IdleUpload /\ poll = IdlePoll /\ \A j \in Jobs : ~Working(j) /\ ~Held(j)

\* JOB_TTL_SECONDS pass without a write.
JobExpires(j) ==
    /\ LongTimers /\ Quiet
    /\ job[j].status \in Live \union Terminal
    /\ job' = [job EXCEPT ![j].status = "gone"]
    /\ UNCHANGED <<lock, epoch, ledger, task, run, upload, poll, wal, kept, waived, faults>>

\* CLAIM_STALE_SECONDS pass without a write.
ClaimAges ==
    /\ LongTimers /\ Quiet
    /\ ledger.status = "processing" /\ ~ledger.old
    /\ ledger' = [ledger EXCEPT !.old = TRUE]
    /\ UNCHANGED <<job, lock, epoch, task, run, upload, poll, wal, kept, waived, faults>>

-----------------------------------------------------------------------------
(* Specification                                                            *)

UploadStep == Upload \/ Claim \/ DispatchTask \/ DispatchInline
PollStep == Poll \/ PollHeals \/ PollReleases \/ PollAnswers
RunStep(r) ==
    \/ RunHeals(r) \/ TakeLock(r) \/ ReadUnderLock(r) \/ Bind(r) \/ Converge(r) \/ Start(r)
    \/ WorkEnds(r) \/ (\E s \in Segments : Transcribe(r, s)) \/ Mark(r) \/ Tail(r) \/ Publish(r)
    \/ Raised(r) \/ RaisedInline(r) \/ Fail(r) \/ Supersede(r) \/ Cleanup(r) \/ Finish(r) \/ Lost(r)
TimeStep(j) == Silence(j) \/ LeaseExpires(j) \/ JobExpires(j)

Next ==
    \/ UploadStep \/ StagingFails \/ UploadDies
    \/ PollStep
    \/ \E r \in Runs : RunStep(r) \/ Crash(r)
    \/ \E j \in Jobs : Deliver(j) \/ TimeStep(j)
    \/ ClaimAges

Spec == Init /\ [][Next]_vars

\* The device and the queue keep trying, workers that live keep going, and time
\* passes between requests too (the long timers need a quiet moment, not one that
\* stays quiet).  Nothing is assumed of faults.
FairSpec ==
    /\ Spec
    /\ WF_vars(UploadStep) /\ WF_vars(PollStep) /\ SF_vars(ClaimAges)
    /\ \A r \in Runs : WF_vars(RunStep(r))
    /\ \A j \in Jobs : WF_vars(Deliver(j))
    /\ \A j \in Jobs : WF_vars(Silence(j)) /\ WF_vars(LeaseExpires(j)) /\ SF_vars(JobExpires(j))

-----------------------------------------------------------------------------
(* Properties                                                               *)

\* No failing store meets a rejection by the restricted budget, the one failure
\* whose loss the pipeline swallows (pipeline.py: "outcome=check_failed").
FailuresLand == "budget" \notin Outcomes \/ "store" \notin Faults

\* Every segment of the recording is in a conversation, or needs not be in one:
\* it held no speech, or the user deleted or took over its conversation.
Accounted == kept \union waived = Segments

\* The device drops a recording (PollAnswers) only when every segment of it is
\* accounted for, or when a newer generation of the conversation took over.
NoAudioLost ==
    wal.state = "synced" => Accounted \/ job[wal.job].superseded

\* A job says completed only once the ledger does (pipeline.py: "The durable
\* content ledger proves every successful segment before the WAL-visible
\* completed status is published"), the ledger completes only a recording whose
\* segments are accounted for, and it names none whose transcript is missing.
CompletionProven ==
    /\ \A j \in Jobs : job[j].status = "completed" => ledger.status = "completed" \/ job[j].superseded
    /\ ledger.status = "completed" => Accounted
    /\ ledger.segs \subseteq kept

\* A completion that is durable is never taken back by a late release, claim or
\* bind of another upload or another run.
CompletionKept == [][ledger.status = "completed" => ledger'.status = "completed"]_vars

\* While a worker that bound the ledger holds the run lock of a live job, no
\* delayed older worker can take the ledger from it.
HolderOwnsLedger ==
    \A r \in Runs :
      Holder(r) /\ Fenced(run[r].job) /\ run[r].pc \in {"start", "work", "mark", "tail"}
      /\ job[run[r].job].status \in Live => LedgerOwner(r)

\* The device ends with its recording accepted, or with no upload left to try:
\* no claim, lock or job that a dead worker left behind turns it away forever.
DeviceSettles ==
    <>[](wal.state = "synced" \/ (wal.state = "local" /\ \A j \in Jobs : job[j].status # "unused"))

\* A failed job gives its claim back, so that the next upload of the recording
\* is not answered "busy" (get_sync_job: "the client reverts the WAL to 'miss'
\* and re-uploads within ~10 minutes").
FailureFreesClaim ==
    \A j \in Jobs :
      (job[j].status = "failed" /\ wal = [state |-> "local", job |-> Nobody])
        ~> ~(ledger.status = "processing" /\ ledger.job = j)

\* What the comments of get_sync_job_status say: a worker that holds the run
\* lock of its job is not failed under it by a reader of the job.
ReadersSpareHolder ==
    [][\A r \in Runs :
         Holder(r) /\ run'[r] = run[r] /\ lock'[run[r].job] = run[r].token
         /\ job[run[r].job].status \in Live => job'[run[r].job].status # "failed"]_vars
=============================================================================
