---------------------------- MODULE AccountDeletion ----------------------------
(***************************************************************************)
(* The deletion of an account (backend/services/users/account_deletion.py, *)
(* backend/database/users.py, database/account_deletion_transitions.py)    *)
(* and what it meets on the way: legal holds and the gate that destructive *)
(* operations share (database/legal_holds.py), provider writes behind the  *)
(* external write fence, and the projection of memories                    *)
(* (database/memory_outbox_worker.py, utils/memory/).                      *)
(*                                                                         *)
(* A request leaves a marker and a Cloud Tasks task.  A delivery takes the *)
(* account's run lock, claims the marker and erases, in a thread that      *)
(* outlives a cancelled request.  Whatever fails is left to a reconciler,  *)
(* which claims markers that failed or have not moved for too long and     *)
(* enqueues another task.                                                  *)
(*                                                                         *)
(* The model is of one account.  A marker is old when the timestamp of its *)
(* status has passed the threshold for that status, a gate when it is past *)
(* GATE_STALE_AFTER_SECONDS.                                               *)
(***************************************************************************)
EXTENDS Naturals, FiniteSets

CONSTANTS
    Runs,       \* threads that may wipe the account
    Tasks,      \* slots of the queue
    Pods,       \* processes that run the reconciler
    Nobody,
    User,       \* the request for deletion, beside the pods
    Scenarios,  \* what may happen beside the deletion, in sets considered together
    MaxAttempts \* get_account_deletion_tasks_max_attempts

\* Faults, and what others do; each at most once, the maintenance job excepted.
Happenings ==
    {"crash", "cancel", "fail", "store", "enqueue", "ambiguous", "abandon",
     "hold", "memory", "job", "write"}

ASSUME NobodyAssumption == Nobody \notin Runs /\ Nobody \notin Tasks /\ User \notin Pods
ASSUME BoundsAssumption == MaxAttempts \in Nat \ {0}
ASSUME ScenariosAssumption == Scenarios \subseteq SUBSET Happenings

VARIABLES
    marker,  \* account_deletions/{uid}
    hold,    \* legal_holds/{uid}: active
    gate,    \* legal_hold_deletion_gates/{uid}
    lock,    \* the Redis run lock
    task,    \* the queue
    run,     \* the deliveries and their threads
    sender,  \* the request and the reconcilers, on their way to a task
    memory,  \* an explicit deletion of memories, holding the gate or not
    writer,  \* a provider write, past its fence or not
    event,   \* the memory's outbox event
    job,     \* the maintenance job that drains the outbox
    data,    \* what is left of the account
    coming   \* what may still happen

vars == <<marker, hold, gate, lock, task, run, sender, memory, writer, event, job, data, coming>>

-----------------------------------------------------------------------------
(* State                                                                    *)

\* late: late_agent_vm_cleanup is set.  Machines are provisioned no more, so only
\* an earlier release can have recorded one.
MarkerType ==
    [status : {"none", "deleting_auth", "pending", "retrying", "running", "failed", "completed"},
     old : BOOLEAN, late : BOOLEAN]

GateType ==
    [state : {"none", "running", "failed", "completed"}, kind : {"account_deletion", "explicit_memory_deletion"},
     old : BOOLEAN]

\* vm: the subscription and the machine; login: credentials, Firebase and caller
\* ids; derived: vectors and objects; provider: the projected memories.
Erasing == {"vm", "login", "derived", "provider", "rows"}
Wiping == {"gate", "mark", "complete", "finish", "failGate", "failMark"} \union Erasing

\* fresh: this thread wrote the gate, and did not find it running under its token.
RunType ==
    [pc : {"idle", "claim", "answer"} \union Wiping, task : Tasks \union {Nobody}, fresh : BOOLEAN, ok : BOOLEAN]

TypeOK ==
    /\ marker \in MarkerType
    /\ hold \in BOOLEAN
    /\ gate \in GateType
    /\ lock \in Runs \union {Nobody}
    /\ task \in [Tasks -> [pending : BOOLEAN, tries : 0..MaxAttempts]]
    /\ run \in [Runs -> RunType]
    /\ sender \in [Pods \union {User} -> {"idle", "read", "enqueue", "failed"}]
    /\ memory \in {"idle", "held"}
    /\ writer \in {"idle", "fenced"}
    /\ event \in {"none", "pending", "processing", "delivered"}
    /\ job \in {"idle", "ready", "leased", "allowed", "blocked", "writing", "verify"}
    /\ data \in SUBSET (Erasing \union {"memory"})
    /\ coming \in SUBSET Happenings

IdleRun == [pc |-> "idle", task |-> Nobody, fresh |-> FALSE, ok |-> FALSE]

Init ==
    /\ \E s \in {"none", "deleting_auth", "failed"} : marker = [status |-> s, old |-> FALSE, late |-> s = "failed"]
    /\ hold = FALSE
    /\ gate = [state |-> "none", kind |-> "account_deletion", old |-> FALSE]
    /\ lock = Nobody
    /\ task = [t \in Tasks |-> [pending |-> FALSE, tries |-> 0]]
    /\ run = [r \in Runs |-> IdleRun]
    /\ sender = [d \in Pods \union {User} |-> "idle"]
    /\ memory = "idle"
    /\ writer = "idle"
    /\ event = "pending"
    /\ job = "idle"
    /\ data = {"vm", "login", "rows"}
    /\ coming \in Scenarios

Happens(e) == e \in coming /\ coming' = coming \ {e}
Nothing == coming' = coming

stores == <<marker, hold, gate, lock, task>>
others == <<memory, writer, event, job>>

Marked(status) == marker' = [marker EXCEPT !.status = status, !.old = FALSE]

\* account_deletion_blocks_access
Blocks == marker.status # "none"

\* _gate_blocks
GateBlocks == gate.state = "running" /\ ~gate.old

\* enqueue_account_deletion_wipe: every task has a name of its own.
Enqueue == \E t \in Tasks :
    /\ ~task[t].pending
    /\ task' = [task EXCEPT ![t] = [pending |-> TRUE, tries |-> 0]]

-----------------------------------------------------------------------------
(* DELETE /v1/users/delete-account, and the reconciler                      *)

Sent(d, pc) == sender' = [sender EXCEPT ![d] = pc]

\* start_account_deletion: the hold is read before the marker is written.  A
\* repeated request joins a deletion that is on its way and changes nothing.
RequestDeletion ==
    /\ sender[User] = "idle"
    /\ ~hold
    /\ marker.status \in {"none", "deleting_auth"}
    /\ Marked("pending")
    /\ Sent(User, "enqueue")
    /\ UNCHANGED <<hold, gate, lock, task, run, others, data, coming>>

\* What get_pending_deletion_wipes selects and _claim_deletion_wipe_txn still
\* accepts: the age is compared in both, the backoff of a failure only once.
Overdue == marker.status \in {"deleting_auth", "pending", "retrying", "running", "failed"} /\ marker.old

\* Mutant: a claim is refused to a wipe that was running when its process died.
ClaimableUnlessRunning == marker.status # "running" /\ (marker.status = "failed" \/ Overdue)

Claimable == marker.status = "failed" \/ Overdue

ReconcilerReads(d) ==
    /\ sender[d] = "idle" /\ Overdue
    /\ Sent(d, "read")
    /\ UNCHANGED <<stores, run, others, data, coming>>

\* reconcile_pending_deletion_wipes, one record: claim, then enqueue.
ReconcilerClaims(d) ==
    /\ sender[d] = "read"
    /\ \/ Claimable /\ Marked("retrying") /\ Sent(d, "enqueue")
       \/ ~Claimable /\ Sent(d, "idle") /\ UNCHANGED marker
    /\ UNCHANGED <<hold, gate, lock, task, run, others, data, coming>>

\* A call that fails may have created its task.
EnqueueWipe(d) ==
    /\ sender[d] = "enqueue"
    /\ \/ Enqueue /\ Sent(d, "idle") /\ Nothing
       \/ Happens("enqueue") /\ Sent(d, "failed") /\ UNCHANGED task
       \/ Happens("ambiguous") /\ Enqueue /\ Sent(d, "failed")
       \/ Happens("crash") /\ Sent(d, "idle") /\ UNCHANGED task
    /\ UNCHANGED <<marker, hold, gate, lock, run, others, data>>

\* _mark_wipe_failed_after_enqueue_error, whatever has become of the deletion.
EnqueueFailed(d) ==
    /\ sender[d] = "failed"
    /\ Marked("failed")
    /\ Sent(d, "idle")
    /\ UNCHANGED <<hold, gate, lock, task, run, others, data, coming>>

-----------------------------------------------------------------------------
(* POST /v1/users/account-deletion-wipes/run                                *)

Step(r, pc) == run' = [run EXCEPT ![r].pc = pc]
Idle(r) == run[r].pc = "idle"
Wiper(r) == run[r].pc \in Wiping

Consumed == [pending |-> FALSE, tries |-> 0]

\* Mutant: the last attempt is answered as if there were another.
UnansweredOnceMore(tried) == IF tried.tries <= MaxAttempts THEN tried ELSE Consumed

\* An answer other than 2xx leaves the task for another delivery while the
\* queue has attempts left.
Unanswered(tried) == IF tried.tries < MaxAttempts THEN tried ELSE Consumed

\* try_acquire_job_run_lock
LockFree == lock = Nobody

\* resolve_deletion_wipe_job_id drops the task of a completed wipe.
Deliver(t) ==
    LET tried == [task[t] EXCEPT !.tries = @ + 1] IN
    /\ task[t].pending /\ \A r \in Runs : run[r].task # t
    /\ \/ /\ marker.status = "completed"
          /\ task' = [task EXCEPT ![t] = Consumed]
          /\ UNCHANGED <<lock, run>>
       \/ /\ marker.status # "completed" /\ ~LockFree
          /\ task' = [task EXCEPT ![t] = Unanswered(tried)]
          /\ UNCHANGED <<lock, run>>
       \/ /\ marker.status # "completed" /\ LockFree
          /\ \E r \in Runs :
               /\ Idle(r)
               /\ lock' = r
               /\ run' = [run EXCEPT ![r] = [IdleRun EXCEPT !.pc = "claim", !.task = t]]
          /\ task' = [task EXCEPT ![t] = tried]
    /\ UNCHANGED <<marker, hold, gate, sender, others, data, coming>>

\* Mutant: a delivery trusts its lock and claims a marker that is running.
ActionableAnyhow == marker.status \in {"pending", "retrying", "failed", "running"}

\* _claim_deletion_wipe_task_txn
Actionable ==
    \/ marker.status \in {"pending", "retrying", "failed"}
    \/ marker.status = "running" /\ marker.old

\* The claim, and the answer without a wipe: the lock is given back, and only a
\* wipe that is running elsewhere keeps the task.
ClaimForTask(r) ==
    LET t == run[r].task IN
    /\ run[r].pc = "claim"
    /\ \/ /\ Actionable
          /\ Marked("retrying")
          /\ Step(r, "gate")
          /\ UNCHANGED <<lock, task>>
       \/ /\ ~Actionable
          /\ task' = [task EXCEPT ![t] = IF marker.status = "running" THEN Unanswered(task[t]) ELSE Consumed]
          /\ run' = [run EXCEPT ![r] = IdleRun]
          /\ lock' = Nobody
          /\ UNCHANGED marker
    /\ UNCHANGED <<hold, gate, sender, others, data, coming>>

\* The handler answers: done, failed for good, or to be retried.  A thread
\* whose request was cancelled just ends, and its lock is left to expire.
Answer(r) ==
    LET t == run[r].task IN
    /\ run[r].pc = "answer"
    /\ run' = [run EXCEPT ![r] = IdleRun]
    /\ IF t = Nobody
       THEN UNCHANGED <<task, lock>>
       ELSE /\ task' = [task EXCEPT ![t] = IF run[r].ok THEN Consumed ELSE Unanswered(task[t])]
            /\ lock' = IF lock = r THEN Nobody ELSE lock
    /\ UNCHANGED <<marker, hold, gate, sender, others, data, coming>>

-----------------------------------------------------------------------------
(* background_wipe_user_data                                                *)

\* acquire_destructive_operation.  A gate that runs under the same token is
\* entered as it is: its started_at is not renewed.
AcquireGate(r) ==
    LET mine == gate.state = "running" /\ gate.kind = "account_deletion" IN
    /\ run[r].pc = "gate"
    /\ \/ (hold \/ (GateBlocks /\ ~mine)) /\ Step(r, "failMark") /\ UNCHANGED gate
       \/ ~hold /\ mine /\ Step(r, "mark") /\ UNCHANGED gate
       \/ /\ ~hold /\ ~mine /\ ~GateBlocks
          /\ gate' = [state |-> "running", kind |-> "account_deletion", old |-> FALSE]
          /\ run' = [run EXCEPT ![r].pc = "mark", ![r].fresh = TRUE]
    /\ UNCHANGED <<marker, hold, lock, task, sender, others, data, coming>>

\* mark_user_deletion_wipe_running writes without looking.
MarkRunning(r) ==
    /\ run[r].pc = "mark"
    /\ Marked("running")
    /\ Step(r, "vm")
    /\ UNCHANGED <<hold, gate, lock, task, sender, others, data, coming>>

After(pc) ==
    CASE pc = "vm" -> "login" [] pc = "login" -> "derived" [] pc = "derived" -> "provider" [] pc = "provider" -> "rows" [] pc = "rows" -> "complete"

\* Mutant: the canonical purge does not wait for leased projections.
NeverDeferred == FALSE

\* purge_canonical_derived_user_data waits for leased projection work.
Deferred == event = "processing"

\* One step of the wipe.  The purge of derived data runs through all its parts
\* and then looks whether it may go on to the canonical ones; the rows take the
\* outbox with them.
Erase(r) ==
    LET pc == run[r].pc IN
    /\ pc \in Erasing
    /\ \/ /\ pc = "derived" /\ Deferred
          /\ data' = data \ {pc}
          /\ Step(r, "failGate")
          /\ UNCHANGED <<marker, event>> /\ Nothing
       \/ /\ pc # "derived" \/ ~Deferred
          /\ data' = data \ (IF pc = "provider" THEN {"provider", "memory"} ELSE {pc})
          /\ marker' = IF pc = "vm" THEN [marker EXCEPT !.late = FALSE] ELSE marker
          /\ event' = IF pc = "rows" THEN "none" ELSE event
          /\ Step(r, After(pc)) /\ Nothing
       \/ Happens("fail") /\ Step(r, "failGate") /\ UNCHANGED <<data, marker, event>>
    /\ UNCHANGED <<hold, gate, lock, task, sender, memory, writer, job>>

\* mark_wipe_completed: not while a machine is outstanding.
Completed == [marker EXCEPT !.status = IF marker.late THEN "failed" ELSE "completed", !.old = FALSE]

MarkCompleted(r) ==
    /\ run[r].pc = "complete"
    /\ \/ /\ marker' = Completed
          /\ Step(r, IF marker'.status = "completed" THEN "finish" ELSE "answer")
          /\ Nothing
       \/ Happens("store") /\ Step(r, "answer") /\ UNCHANGED marker
    /\ UNCHANGED <<hold, gate, lock, task, sender, others, data>>

\* finish_destructive_operation: refused once the gate is another's or terminal.
FinishGate(r) ==
    LET outcome == IF run[r].pc = "finish" THEN "completed" ELSE "failed"
        owned == gate.kind = "account_deletion" /\ gate.state \in {"running", outcome}
        next == IF run[r].pc = "finish" THEN "answer" ELSE "failMark"
    IN
    /\ run[r].pc \in {"finish", "failGate"}
    /\ \/ /\ gate' = IF owned THEN [gate EXCEPT !.state = outcome] ELSE gate
          /\ run' = [run EXCEPT ![r].pc = next, ![r].ok = outcome = "completed" /\ owned]
          /\ Nothing
       \/ Happens("store") /\ Step(r, next) /\ UNCHANGED gate
    /\ UNCHANGED <<marker, hold, lock, task, sender, others, data>>

\* mark_user_deletion_wipe_failed, also without looking.
MarkFailed(r) ==
    /\ run[r].pc = "failMark"
    /\ \/ Marked("failed") /\ Nothing
       \/ Happens("store") /\ UNCHANGED marker
    /\ Step(r, "answer")
    /\ UNCHANGED <<hold, gate, lock, task, sender, others, data>>

\* The process dies; the queue sees the delivery fail.
Crash(r) ==
    LET t == run[r].task IN
    /\ ~Idle(r) /\ Happens("crash")
    /\ run' = [run EXCEPT ![r] = IdleRun]
    /\ task' = IF t = Nobody THEN task ELSE [task EXCEPT ![t] = Unanswered(task[t])]
    /\ UNCHANGED <<marker, hold, gate, lock, sender, others, data>>

\* The request is cancelled at its deadline, and its thread goes on.
Cancel(r) ==
    LET t == run[r].task IN
    /\ run[r].pc \in Erasing /\ t # Nobody /\ Happens("cancel")
    /\ run' = [run EXCEPT ![r].task = Nobody]
    /\ task' = [task EXCEPT ![t] = Unanswered(task[t])]
    /\ UNCHANGED <<marker, hold, gate, lock, sender, others, data>>

-----------------------------------------------------------------------------
(* Holds, and who else meets the gate                                       *)

\* Mutant: only the marker is asked.
HoldAdmittedByMarker == marker.status # "running"

\* _place_legal_hold_transaction
HoldAdmitted == ~GateBlocks /\ marker.status # "running"

PlaceHold ==
    /\ ~hold /\ HoldAdmitted /\ Happens("hold")
    /\ hold' = TRUE
    /\ UNCHANGED <<marker, gate, lock, task, run, sender, others, data>>

LiftHold ==
    /\ hold
    /\ hold' = FALSE
    /\ UNCHANGED <<marker, gate, lock, task, run, sender, others, data, coming>>

\* destructive_operation_gate around an explicit deletion of memories, once.
AcquireForMemory ==
    /\ ~Blocks /\ Happens("memory")
    /\ ~hold /\ ~GateBlocks
    /\ gate' = [state |-> "running", kind |-> "explicit_memory_deletion", old |-> FALSE]
    /\ memory' = "held"
    /\ UNCHANGED <<marker, hold, lock, task, run, sender, writer, event, job, data>>

\* It ends, or dies with the gate running.
ReleaseForMemory ==
    /\ memory = "held"
    /\ memory' = "idle"
    /\ \/ /\ gate' = IF gate.kind = "explicit_memory_deletion" THEN [gate EXCEPT !.state = "completed"] ELSE gate
          /\ Nothing
       \/ Happens("crash") /\ UNCHANGED gate
    /\ UNCHANGED <<marker, hold, lock, task, run, sender, writer, event, job, data>>

\* external_write_fence, then the provider call it fenced.
FenceWrite ==
    /\ writer = "idle" /\ Happens("write") /\ ~Blocks /\ ~GateBlocks
    /\ writer' = "fenced"
    /\ UNCHANGED <<stores, run, sender, memory, event, job, data>>

Write ==
    /\ writer = "fenced"
    /\ writer' = "idle"
    /\ data' = data \union {"derived"}
    /\ UNCHANGED <<stores, run, sender, memory, event, job, coming>>

-----------------------------------------------------------------------------
(* The maintenance job that projects memories                               *)

\* ensure_canonical_apply_control_state refuses an account that is deleting.
MayMaintain == ~Blocks

JobStarts ==
    /\ job = "idle" /\ "job" \in coming /\ MayMaintain /\ event \in {"pending", "processing"}
    /\ job' = "ready"
    /\ UNCHANGED <<stores, run, sender, memory, writer, event, data, coming>>

\* lease_canonical_memory_outbox_events, a lease of a job that died included
JobLeases ==
    /\ job = "ready"
    /\ IF event \in {"pending", "processing"}
       THEN event' = "processing" /\ job' = "leased"
       ELSE job' = "idle" /\ UNCHANGED event
    /\ UNCHANGED <<stores, run, sender, memory, writer, data, coming>>

\* _load_authoritative_projection_state, before and after the provider call
Seen == IF Blocks THEN "blocked" ELSE "allowed"

JobLoads ==
    /\ job = "leased"
    /\ job' = Seen
    /\ UNCHANGED <<stores, run, sender, memory, writer, event, data, coming>>

\* A deletion is not fenced; an upsert is, and goes back to the outbox when it
\* is refused.
JobFences ==
    /\ \/ /\ job = "blocked"
          /\ data' = data \ {"memory"}
          /\ job' = "idle"
          /\ event' = IF event = "processing" THEN "delivered" ELSE event
       \/ /\ job = "allowed" /\ ~Blocks /\ ~GateBlocks
          /\ job' = "writing"
          /\ UNCHANGED <<data, event>>
       \/ /\ job = "allowed" /\ (Blocks \/ GateBlocks)
          /\ job' = "idle"
          /\ event' = IF event = "processing" THEN "pending" ELSE event
          /\ UNCHANGED data
    /\ UNCHANGED <<stores, run, sender, memory, writer, coming>>

JobWrites ==
    /\ job = "writing"
    /\ data' = data \union {"memory"}
    /\ job' = "verify"
    /\ UNCHANGED <<stores, run, sender, memory, writer, event, coming>>

JobVerifies ==
    /\ job = "verify"
    /\ IF Seen = "allowed"
       THEN job' = "idle" /\ event' = IF event = "processing" THEN "delivered" ELSE event
       ELSE job' = "blocked" /\ UNCHANGED event
    /\ UNCHANGED <<stores, run, sender, memory, writer, data, coming>>

\* The job dies between its lease and its settlement.
JobDies ==
    /\ job # "idle" /\ Happens("abandon")
    /\ job' = "idle"
    /\ UNCHANGED <<stores, run, sender, memory, writer, event, data>>

-----------------------------------------------------------------------------
(* Time                                                                     *)

\* Six hours: no wipe takes so long.  A gate that a wipe only entered may be as
\* old as the thread that wrote it.
GateAges ==
    /\ gate.state = "running" /\ ~gate.old
    /\ memory # "held" /\ \A r \in Runs : Wiper(r) => ~run[r].fresh
    /\ gate' = [gate EXCEPT !.old = TRUE]
    /\ UNCHANGED <<marker, hold, lock, task, run, sender, others, data, coming>>

\* Ten minutes for a pending marker, the backoff for a failed one, six hours for
\* a claimed one, by when its gate is as old.
MarkerAges ==
    /\ marker.status \in {"deleting_auth", "pending", "retrying", "running", "failed"} /\ ~marker.old
    /\ marker.status \in {"retrying", "running"} =>
         ~GateBlocks /\ \A r \in Runs : ~Wiper(r)
    /\ marker' = [marker EXCEPT !.old = TRUE]
    /\ UNCHANGED <<hold, gate, lock, task, run, sender, others, data, coming>>

\* RUN_LOCK_TTL_SECONDS is longer than a request may last: the holder's request
\* has ended, and its thread is past the first calls.
LockExpires ==
    /\ lock # Nobody
    /\ Idle(lock) \/ (run[lock].task = Nobody /\ run[lock].pc # "claim")
    /\ lock' = Nobody
    /\ UNCHANGED <<marker, hold, gate, task, run, sender, others, data, coming>>

-----------------------------------------------------------------------------
(* Specification                                                            *)

RunStep(r) ==
    \/ ClaimForTask(r) \/ AcquireGate(r) \/ MarkRunning(r) \/ Erase(r) \/ MarkCompleted(r)
    \/ FinishGate(r) \/ MarkFailed(r) \/ Answer(r)
JobStep == JobLeases \/ JobLoads \/ JobFences \/ JobWrites \/ JobVerifies

Next ==
    \/ RequestDeletion
    \/ \E d \in Pods : ReconcilerReads(d) \/ ReconcilerClaims(d)
    \/ \E d \in Pods \union {User} : EnqueueWipe(d) \/ EnqueueFailed(d)
    \/ \E t \in Tasks : Deliver(t)
    \/ \E r \in Runs : RunStep(r) \/ Crash(r) \/ Cancel(r)
    \/ PlaceHold \/ LiftHold \/ AcquireForMemory \/ ReleaseForMemory
    \/ FenceWrite \/ Write
    \/ JobStarts \/ JobStep \/ JobDies
    \/ GateAges \/ MarkerAges \/ LockExpires

Spec == Init /\ [][Next]_vars

\* Handlers, threads and jobs that started go on; the queue delivers; every pod
\* reconciles every five minutes; time passes.  Nobody is obliged to ask for a
\* deletion, to place or lift a hold, to write, or to fail.
FairSpec ==
    /\ Spec
    /\ WF_vars(ReleaseForMemory) /\ WF_vars(JobStep)
    /\ \A d \in Pods : WF_vars(ReconcilerReads(d)) /\ WF_vars(ReconcilerClaims(d))
    /\ \A d \in Pods \union {User} : WF_vars(EnqueueWipe(d)) /\ WF_vars(EnqueueFailed(d))
    /\ \A t \in Tasks : WF_vars(Deliver(t))
    /\ \A r \in Runs : WF_vars(RunStep(r))
    /\ WF_vars(GateAges) /\ WF_vars(MarkerAges) /\ WF_vars(LockExpires)

-----------------------------------------------------------------------------
(* Properties                                                               *)

\* No two threads wipe the account at the same time, although a thread outlives
\* its request and its lock (claim_deletion_wipe_for_task: "Only claimed callers
\* may run the destructive wipe").
OneWiper == \A r, s \in Runs : Wiper(r) /\ Wiper(s) => r = s

\* A thread that took the gate itself erases nothing under an active hold.
HoldRespected == \A r \in Runs : run[r].pc \in Erasing /\ run[r].fresh => ~hold

\* What legal_holds.py says of every destructive path: "either an active hold is
\* committed first and deletion cannot start, or deletion owns the gate and a
\* later hold placement is rejected until its outcome is known".
HoldExcludesWipe == \A r \in Runs : run[r].pc \in Erasing => ~hold

\* A completed deletion has left nothing: no subscription, machine, login, row or
\* projected memory.  (A provider write that passed its fence before the deletion
\* began may still land.)
Erased == marker.status = "completed" => data \subseteq {"derived"}

\* An accepted deletion is completed, unless holds keep coming or a projection
\* stays leased: whatever fails, dies or is cancelled on the way, the queue or a
\* reconciler takes it up again.
DeletionCompletes ==
    <>[]~hold /\ []<>~Deferred =>
        (marker.status \notin {"none", "completed"} ~> marker.status = "completed")

\* The same without the second condition (database/users.py on its retry delay:
\* "it never gives up on an accepted deletion").
DeletionNeverGivesUp ==
    <>[]~hold => (marker.status \notin {"none", "completed"} ~> marker.status = "completed")
=============================================================================
