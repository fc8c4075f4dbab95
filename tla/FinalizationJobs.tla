--------------------------- MODULE FinalizationJobs ---------------------------
(***************************************************************************)
(* The durable finalization of listen conversations                        *)
(* (backend/database/conversation_finalization_jobs.py and its callers).   *)
(*                                                                         *)
(* A Firestore outbox holds one job per conversation.  A job is executed   *)
(* either by the live pusher session (a WebSocket frame, the only lane     *)
(* that can present a user's own provider keys, "BYOK") or by a named      *)
(* Cloud Task.  A worker of either lane claims a lease with a fresh epoch, *)
(* processes the conversation, claims and completes the external fanout,   *)
(* and closes the job.  A reconciler replays overdue jobs under a new      *)
(* dispatch generation; a second sweep abandons BYOK jobs nobody can run.  *)
(*                                                                         *)
(* Every action is one Firestore transaction, or one external call, so     *)
(* every interleaving of the workers, the user, the queue and the sweeps   *)
(* is a behaviour.  Time is abstracted to the comparisons the code makes:  *)
(* lease still live, reconcile delay elapsed, dispatch older than the      *)
(* stale window, last activity older than the abandonment window.          *)
(***************************************************************************)
EXTENDS Integers, FiniteSets

CONSTANTS
    Conversations,   \* conversation ids; each gets at most one job
    Workers,         \* request handlers of both lanes
    NoConversation,  \* what an idle worker works on
    DispatchMode,    \* LISTEN_FINALIZATION_DISPATCH_MODE
    Sessions,        \* kinds of session that ask for finalization
    Outcomes,        \* what process_conversation may do
    UserActions,     \* what happens to the rows beside finalization
    MaxAttempts,     \* LISTEN_FINALIZATION_TASKS_MAX_ATTEMPTS
    MaxFaults        \* bound on crashes, lost or delayed calls in a behaviour

ASSUME ConversationsAssumption == IsFiniteSet(Conversations) /\ NoConversation \notin Conversations
ASSUME DispatchAssumption == DispatchMode \in {"inline", "cloud_tasks"}
ASSUME SessionsAssumption == Sessions \subseteq {"platform", "byok"}
ASSUME OutcomesAssumption ==
    Outcomes \subseteq {"keep", "hide", "minimum", "defer", "skip", "error"}
ASSUME UserActionsAssumption == UserActions \subseteq {"discard", "restore", "delete", "cutover"}
ASSUME BoundsAssumption == MaxAttempts \in Nat \ {0} /\ MaxFaults \in Nat

VARIABLES
    conv,       \* the conversation rows
    job,        \* the outbox rows
    effects,    \* what the external integrations were sent for a conversation
    proj,       \* the sharded counters of the terminal-outcomes projection
    worker,     \* the attempts in progress
    lock,       \* the Redis run lock of a job
    tasks,      \* Cloud Tasks deliveries that are queued or running
    names,      \* task names Cloud Tasks has seen (a name is used once)
    frames,     \* finalization frames on their way to a pusher
    resuming,   \* BYOK requests between their two transactions
    page,       \* the reconciler's page of candidates
    scan,       \* the BYOK sweep's page of candidates
    migrating,  \* the account is in cutover
    faults      \* adverse events so far

vars == <<conv, job, effects, proj, worker, lock, tasks, names, frames,
          resuming, page, scan, migrating, faults>>

stores == <<conv, job, effects, proj>>
queues == <<tasks, names, frames>>
sweeps == <<resuming, page, scan>>

-----------------------------------------------------------------------------
(* State                                                                    *)

JobStatus == {"queued", "leased", "completed", "dead_letter", "blocked_byok"}
TERMINAL_JOB_STATUSES == {"completed", "dead_letter"}
NONTERMINAL_JOB_STATUSES == {"queued", "leased", "blocked_byok"}
\* finalization_outcome and terminal_outcome, which are written together
TerminalOutcomes == {"success", "stale", "failure", "byok_session_abandoned"}
Counters == JobStatus \union {"accepted", "success", "stale", "failure"}

ConversationType ==
    [status : {"in_progress", "processing", "completed", "failed"},
     exists : BOOLEAN, discarded : BOOLEAN, kept : BOOLEAN,
     deferred : BOOLEAN, minimal : BOOLEAN, bound : BOOLEAN]

\* live: lease_expires_at is in the future.  due: reconcile_after_at is
\* absent, in the future or past.  aged: dispatch_requested_at is older than
\* the stale window.  idle: updated_at is older than the BYOK cutoff.
JobType ==
    [status : JobStatus \union {"absent"}, byok : BOOLEAN, gen : Nat,
     epoch : Nat, live : BOOLEAN, attempts : Nat,
     fanout : {"pending", "leased", "completed", "fenced"}, fanoutEpoch : Nat,
     due : {"absent", "later", "now"}, aged : BOOLEAN, idle : BOOLEAN,
     outcome : TerminalOutcomes \union {"none"}]

AttemptType ==
    [pc : {"idle", "locked", "claimed", "process", "fanout", "effects",
           "ack", "complete", "fence", "fail"},
     c : Conversations \union {NoConversation}, lane : {"task", "pusher"},
     gen : Nat, epoch : Nat, tries : Nat, quiet : BOOLEAN]

Orphaned == "orphaned"   \* a lock whose holder is gone, until its TTL
Free == "free"

TaskType == [c : Conversations, gen : Nat, retry : Nat, running : BOOLEAN]
HandoffType == [c : Conversations, gen : Nat]
CandidateType == [c : Conversations, status : {"queued", "leased"}, gen : Nat, epoch : Nat]

TypeOK ==
    /\ conv \in [Conversations -> ConversationType]
    /\ job \in [Conversations -> JobType]
    /\ effects \in [Conversations -> {"none", "suppressed", "dropped", "delivered"}]
    /\ proj \in [Counters -> Int]
    /\ worker \in [Workers -> AttemptType]
    /\ lock \in [Conversations -> Workers \union {Free, Orphaned}]
    /\ tasks \subseteq TaskType
    /\ names \subseteq HandoffType
    /\ frames \subseteq HandoffType
    /\ resuming \subseteq Conversations
    /\ page \subseteq Conversations
    /\ scan \subseteq CandidateType
    /\ migrating \in BOOLEAN
    /\ faults \in Nat

IdleAttempt ==
    [pc |-> "idle", c |-> NoConversation, lane |-> "task", gen |-> 0,
     epoch |-> 0, tries |-> 0, quiet |-> FALSE]

NoJob ==
    [status |-> "absent", byok |-> FALSE, gen |-> 0, epoch |-> 0, live |-> FALSE,
     attempts |-> 0, fanout |-> "pending", fanoutEpoch |-> 0, due |-> "absent",
     aged |-> FALSE, idle |-> FALSE, outcome |-> "none"]

Init ==
    /\ conv = [c \in Conversations |->
                 [status |-> "in_progress", exists |-> TRUE, discarded |-> FALSE,
                  kept |-> FALSE, deferred |-> FALSE, minimal |-> FALSE, bound |-> FALSE]]
    /\ job = [c \in Conversations |-> NoJob]
    /\ effects = [c \in Conversations |-> "none"]
    /\ proj = [s \in Counters |-> 0]
    /\ worker = [w \in Workers |-> IdleAttempt]
    /\ lock = [c \in Conversations |-> Free]
    /\ tasks = {} /\ names = {} /\ frames = {}
    /\ resuming = {} /\ page = {} /\ scan = {}
    /\ migrating = FALSE
    /\ faults = 0

-----------------------------------------------------------------------------
(* Helpers                                                                  *)

\* An adverse event is charged to the fault budget; anything else is free.
Charge(adverse) ==
    /\ adverse => faults < MaxFaults
    /\ faults' = IF adverse THEN faults + 1 ELSE faults

\* _record_projection_delta: one transition moves one job between counters.
Moved(from, to) == [proj EXCEPT ![from] = @ - 1, ![to] = @ + 1]
Closed(from, to, outcome) ==
    [proj EXCEPT ![from] = @ - 1, ![to] = @ + 1, ![outcome] = @ + 1]

\* Mutant: BYOK transitions keep the reconciliation delay.
AlwaysReconcile(byok) == "later"
\* The delay before a job becomes replayable; every BYOK transition deletes it.
ReconcileAfter(byok) == IF byok THEN "absent" ELSE "later"

IsCurrentLease(a) ==
    /\ job[a.c].status = "leased"
    /\ job[a.c].gen = a.gen
    /\ job[a.c].epoch = a.epoch

\* Mutant: a claim keeps the epoch of the claim it supersedes.
SameEpoch(c) == job[c].epoch
\* A claim's epoch fences every earlier claim of the job.
NextEpoch(c) == job[c].epoch + 1

\* Mutant: a replay keeps the dispatch generation, and with it the task name.
SameGeneration(c) == job[c].gen
\* A replay's generation fences the deliveries it overtakes.
NextGeneration(c) == job[c].gen + 1

\* Mutant: one attempt too many.
LateFinalAttempt(a) == a.tries >= MaxAttempts
\* The final try of the lane: the last Cloud Tasks delivery, or the last
\* failed-processing attempt a pusher claim may still spend.
FinalAttempt(a) == a.tries >= MaxAttempts - 1

Active(w) == worker[w].pc # "idle"
WorkingOn(c) == {w \in Workers : Active(w) /\ worker[w].c = c}
HeldAlive(c) == \E w \in WorkingOn(c) : IsCurrentLease(worker[w])

InFlight(c, g) == {t \in tasks : t.c = c /\ t.gen = g}
TaskOf(a) == {t \in tasks : t.c = a.c /\ t.gen = a.gen /\ t.retry = a.tries /\ t.running}

\* enqueue_listen_finalization_job: a used task name is success and no task.
Enqueue(c, g) ==
    /\ names' = names \union {[c |-> c, gen |-> g]}
    /\ tasks' = IF [c |-> c, gen |-> g] \in names THEN tasks
                ELSE tasks \union {[c |-> c, gen |-> g, retry |-> 0, running |-> FALSE]}

\* Cloud Tasks retries a delivery until its maxAttempts is spent.
Retried(ts) ==
    (tasks \ ts) \union {[t EXCEPT !.retry = t.retry + 1, !.running = FALSE] :
                         t \in {u \in ts : u.retry + 1 < MaxAttempts}}

Go(w, pc) == worker' = [worker EXCEPT ![w] = [@ EXCEPT !.pc = pc]]

\* The handler returns; a task handler releases its own lock (compare and
\* delete).
Return(w) ==
    LET a == worker[w] IN
    /\ worker' = [worker EXCEPT ![w] = IdleAttempt]
    /\ lock' = IF a.lane = "task" THEN [lock EXCEPT ![a.c] = IF @ = w THEN Free ELSE @] ELSE lock
    /\ UNCHANGED <<names, frames>>

\* 2xx: the queue forgets the delivery.
Acknowledge(w) ==
    /\ Return(w)
    /\ tasks' = IF worker[w].lane = "task" THEN tasks \ TaskOf(worker[w]) ELSE tasks

\* 409 or 5xx: the queue delivers again.
Refuse(w) ==
    /\ Return(w)
    /\ tasks' = IF worker[w].lane = "task" THEN Retried(TaskOf(worker[w])) ELSE tasks

-----------------------------------------------------------------------------
(* Admission: request_finalization                                          *)

\* The reducer's verdict on the snapshot of the row (_finalization_admission).
TerminalRow(c) == conv[c].discarded \/ conv[c].status \in {"completed", "failed"}
AdmitsRequest(c) == conv[c].exists /\ ~conv[c].deferred /\ ~TerminalRow(c)

CreatedJob(byok) ==
    [NoJob EXCEPT !.status = IF byok THEN "blocked_byok" ELSE "queued",
                  !.byok = byok, !.gen = 1, !.due = ReconcileAfter(byok)]

\* The handoff of an accepted, non-BYOK intent: a pusher frame in inline mode,
\* a named task in Cloud Tasks mode; a task that cannot be created, or a
\* process that dies before the handoff, leaves the committed job queued.
HandOff(c, g) ==
    \/ /\ DispatchMode = "inline"
       /\ frames' = frames \union {[c |-> c, gen |-> g]}
       /\ UNCHANGED <<tasks, names>>
       /\ Charge(FALSE)
    \/ /\ DispatchMode = "cloud_tasks"
       /\ Enqueue(c, g)
       /\ UNCHANGED frames
       /\ Charge(FALSE)
    \/ UNCHANGED queues /\ Charge(TRUE)

\* The outbox transaction: the job is created and bound, and the row moves to
\* processing, atomically.  A BYOK job is born blocked; its session still has
\* to run the resume transaction.
CreateIntent(c, byok) ==
    /\ (IF byok THEN "byok" ELSE "platform") \in Sessions
    /\ AdmitsRequest(c)
    /\ ~conv[c].bound /\ conv[c].status # "processing"
    /\ job' = [job EXCEPT ![c] = CreatedJob(byok)]
    /\ proj' = [proj EXCEPT !["accepted"] = @ + 1, ![CreatedJob(byok).status] = @ + 1]
    /\ conv' = [conv EXCEPT ![c] = [@ EXCEPT !.status = "processing", !.bound = TRUE]]
    /\ IF byok
         THEN resuming' = resuming \union {c} /\ UNCHANGED <<tasks, names, frames, faults>>
         ELSE HandOff(c, 1) /\ UNCHANGED resuming
    /\ UNCHANGED <<effects, worker, lock, page, scan, migrating>>

\* A later request (a reconnect, a retry, a second route) finds the bound job
\* and repeats the handoff of its current generation.
GetIntent(c) ==
    /\ AdmitsRequest(c)
    /\ conv[c].bound /\ job[c].status \in NONTERMINAL_JOB_STATUSES
    /\ IF job[c].byok
         THEN resuming' = resuming \union {c} /\ UNCHANGED <<tasks, names, frames, faults>>
         ELSE HandOff(c, job[c].gen) /\ UNCHANGED resuming
    /\ UNCHANGED <<stores, worker, lock, page, scan, migrating>>

ResumedJob(c) == [job[c] EXCEPT !.status = "queued", !.due = "absent", !.idle = FALSE]

\* _resume_blocked_byok_job_txn, then the frame that carries the live keys.
\* The session sends a frame for whatever status the transaction returned.
ResumeByok(c) ==
    /\ c \in resuming
    /\ resuming' = resuming \ {c}
    /\ IF job[c].status = "blocked_byok"
         THEN /\ job' = [job EXCEPT ![c] = ResumedJob(c)]
              /\ proj' = Moved("blocked_byok", "queued")
         ELSE UNCHANGED <<job, proj>>
    /\ frames' = frames \union {[c |-> c, gen |-> job[c].gen]}
    /\ UNCHANGED <<conv, effects, worker, lock, tasks, names, page, scan, migrating, faults>>

\* The session dies between the two transactions: the job stays blocked.
RequestDies(c) ==
    /\ c \in resuming
    /\ resuming' = resuming \ {c}
    /\ UNCHANGED <<stores, worker, lock, queues, page, scan, migrating, faults>>

-----------------------------------------------------------------------------
(* Claiming a lease                                                         *)

Claimable(c, g, allowByok) ==
    /\ job[c].status \in {"queued", "leased"}
    /\ job[c].byok => allowByok
    /\ job[c].gen = g
    /\ job[c].status = "leased" => ~job[c].live

LeasedJob(c) ==
    [job[c] EXCEPT !.status = "leased", !.live = TRUE, !.epoch = NextEpoch(c),
                   !.due = ReconcileAfter(job[c].byok), !.idle = FALSE]

\* Mutant: the counters move even when an expired lease is reclaimed.
LeaseCountsReclaim(c) ==
    /\ job' = [job EXCEPT ![c] = LeasedJob(c)]
    /\ proj' = Moved("queued", "leased")
    /\ UNCHANGED <<conv, effects>>
\* _claim_finalization_job_txn: a fresh epoch fences every earlier claim.
Lease(c) ==
    /\ job' = [job EXCEPT ![c] = LeasedJob(c)]
    /\ proj' = IF job[c].status = "queued" THEN Moved("queued", "leased") ELSE proj
    /\ UNCHANGED <<conv, effects>>

\* The pusher takes a finalization frame; any answer but "claimed" ends it.
PusherClaim(w, f) ==
    /\ ~Active(w)
    /\ frames' = frames \ {f}
    /\ IF Claimable(f.c, f.gen, TRUE)
         THEN /\ Lease(f.c)
              /\ worker' = [worker EXCEPT ![w] =
                   [pc |-> "claimed", c |-> f.c, lane |-> "pusher", gen |-> f.gen,
                    epoch |-> NextEpoch(f.c), tries |-> job[f.c].attempts, quiet |-> FALSE]]
         ELSE UNCHANGED <<stores, worker>>
    /\ UNCHANGED <<lock, tasks, names, sweeps, migrating, faults>>

\* The WebSocket closes before the pusher reads the frame.
LoseFrame(f) ==
    /\ frames' = frames \ {f}
    /\ UNCHANGED <<stores, worker, lock, tasks, names, sweeps, migrating, faults>>

\* run_listen_finalization_job, first step: the Redis run lock.
TaskLocks(w, t) ==
    /\ ~Active(w) /\ ~t.running /\ lock[t.c] = Free
    /\ lock' = [lock EXCEPT ![t.c] = w]
    /\ tasks' = (tasks \ {t}) \union {[t EXCEPT !.running = TRUE]}
    /\ worker' = [worker EXCEPT ![w] =
         [pc |-> "locked", c |-> t.c, lane |-> "task", gen |-> t.gen,
          epoch |-> 0, tries |-> t.retry, quiet |-> FALSE]]
    /\ UNCHANGED <<stores, names, frames, sweeps, migrating, faults>>

\* The lock is held: 409, and the queue retries the delivery later.  Losing
\* the last delivery to a held lock is adverse.
TaskLockedOut(t) ==
    /\ ~t.running /\ lock[t.c] # Free
    /\ tasks' = Retried({t})
    /\ Charge(t.retry + 1 >= MaxAttempts)
    /\ UNCHANGED <<stores, worker, lock, names, frames, sweeps, migrating>>

LeaseConflict(a) == job[a.c].status = "leased" /\ job[a.c].gen = a.gen /\ ~job[a.c].byok

\* Second step: the claim.  A live lease is a retryable conflict; a terminal,
\* blocked or superseded job is acknowledged and dropped.
TaskClaims(w) ==
    LET a == worker[w] IN
    /\ a.pc = "locked"
    /\ \/ /\ Claimable(a.c, a.gen, FALSE)
          /\ Lease(a.c)
          /\ worker' = [worker EXCEPT ![w] = [@ EXCEPT !.pc = "claimed", !.epoch = NextEpoch(a.c)]]
          /\ UNCHANGED <<lock, queues, faults>>
       \/ /\ ~Claimable(a.c, a.gen, FALSE)
          /\ IF LeaseConflict(a) THEN Refuse(w) ELSE Acknowledge(w)
          /\ UNCHANGED <<stores, faults>>
    /\ UNCHANGED <<sweeps, migrating>>

\* The task lane alone asks whether the account is being migrated; if so the
\* lease is closed as fenced without touching the conversation.
SkipForCutover(w) ==
    /\ worker[w].pc = "claimed" /\ worker[w].lane = "task" /\ migrating
    /\ Go(w, "fence")
    /\ UNCHANGED <<stores, lock, queues, sweeps, migrating, faults>>

-----------------------------------------------------------------------------
(* finalize_persisted_conversation                                          *)

\* The row is read.  A missing or completed row goes straight to the fanout
\* fence, a processing row to the processor; a failed one is fenced
\* (ensure_processing never reopens a terminal).  A completed free-tier
\* minimum keeps its derived effects suppressed on a replay.
ReadConversation(w) ==
    LET a == worker[w]
        next == IF ~conv[a.c].exists \/ conv[a.c].status = "completed" THEN "fanout"
                ELSE IF conv[a.c].status = "processing" THEN "process" ELSE "fence"
    IN
    /\ a.pc = "claimed"
    /\ a.lane = "task" => ~migrating
    /\ worker' = [worker EXCEPT ![w] = [@ EXCEPT !.pc = next,
                                !.quiet = next = "fanout" /\ conv[a.c].exists /\ conv[a.c].minimal]]
    /\ UNCHANGED <<stores, lock, queues, sweeps, migrating, faults>>

\* Mutant: a merge write to a missing document recreates it.
AlwaysPersists(c) == TRUE
\* A processor is never an authority to recreate a conversation.
PersistAdmits(c) == conv[c].exists

\* persist_processing_result_with_lifecycle: only a missing row refuses the
\* result; status, discard flag and lease are not consulted.  A restored row
\* stays visible whatever the processor decided.
Persisted(c, status, hidden, deferred, minimal) ==
    [conv EXCEPT ![c] = [@ EXCEPT !.status = status, !.deferred = deferred, !.minimal = minimal,
                 !.discarded = hidden /\ ~conv[c].kept]]

\* process_conversation and its persist.  The result it reports decides
\* whether the finalizer goes on to the fanout or fences the job: the lazy
\* desktop deferral and the paywall and budget skips report "not persisted",
\* the first after a write, the second without one.
ProcessConversation(w, outcome) ==
    LET a == worker[w]
        c == a.c
        stored == outcome \in {"keep", "hide", "minimum"} /\ PersistAdmits(c)
        postponed == outcome = "defer" /\ PersistAdmits(c)
    IN
    /\ a.pc = "process"
    /\ outcome \in Outcomes
    /\ \/ /\ stored
          /\ \E hidden \in IF outcome = "minimum" THEN BOOLEAN ELSE {outcome = "hide"},
               minimal \in IF outcome = "minimum" THEN {TRUE} ELSE {FALSE, conv[c].minimal} :
               conv' = Persisted(c, "completed", hidden, FALSE, minimal)
       \/ /\ postponed
          /\ \E hidden \in BOOLEAN : conv' = Persisted(c, "processing", hidden, TRUE, conv[c].minimal)
       \/ /\ ~stored /\ ~postponed
          /\ UNCHANGED conv
    /\ worker' = [worker EXCEPT ![w] = [@ EXCEPT !.pc = IF stored THEN "fanout"
                                          ELSE IF outcome = "error" THEN "fail" ELSE "fence",
                                !.quiet = stored /\ outcome = "minimum"]]
    /\ UNCHANGED <<job, effects, proj, lock, queues, sweeps, migrating, faults>>

AdmitsFanout(c) ==
    conv[c].exists /\ ~conv[c].discarded /\ conv[c].status = "completed" /\ conv[c].bound

\* Mutant: the terminal outcome is written to the fanout state as well.
StaleFanoutJob(c) ==
    [job[c] EXCEPT !.status = "completed", !.live = FALSE, !.due = "absent",
                   !.outcome = "stale", !.fanout = "stale", !.idle = FALSE]
\* _fenced_finalization_update, shared by every fencing boundary.
FencedJob(c) ==
    [job[c] EXCEPT !.status = "completed", !.live = FALSE, !.due = "absent",
                   !.outcome = "stale", !.fanout = "fenced", !.idle = FALSE]

\* Mutant: the fanout is recorded as done when it is claimed.
EagerFanoutJob(a) ==
    [job[a.c] EXCEPT !.fanout = "completed", !.fanoutEpoch = a.epoch, !.idle = FALSE]
FanoutClaimedJob(a) ==
    [job[a.c] EXCEPT !.fanout = "leased", !.fanoutEpoch = a.epoch, !.idle = FALSE]

\* _claim_finalization_fanout_txn: the job and the conversation are read in
\* one transaction; a losing conversation closes the job here and now.
ClaimFanout(w) ==
    LET a == worker[w]
        c == a.c
    IN
    /\ a.pc = "fanout"
    /\ \/ /\ job[c].fanout = "completed"
          /\ Go(w, "complete")
          /\ UNCHANGED <<job, proj>>
       \/ /\ job[c].fanout # "completed" /\ ~IsCurrentLease(a)
          /\ Go(w, "fail")
          /\ UNCHANGED <<job, proj>>
       \/ /\ job[c].fanout # "completed" /\ IsCurrentLease(a) /\ ~AdmitsFanout(c)
          /\ job' = [job EXCEPT ![c] = FencedJob(c)]
          /\ proj' = Closed("leased", "completed", "stale")
          /\ Go(w, "fence")
       \/ /\ job[c].fanout # "completed" /\ IsCurrentLease(a) /\ AdmitsFanout(c)
          /\ job' = [job EXCEPT ![c] = FanoutClaimedJob(a)]
          /\ UNCHANGED proj
          /\ Go(w, "effects")
    /\ UNCHANGED <<conv, effects, lock, queues, sweeps, migrating, faults>>

\* Derived effects and external integrations, behind the fanout lease.  A
\* failed delivery is an error unless no retry is left; then it is dropped.
\* Any other failure of the bundle is an error before or after the delivery.
EmitEffects(w) ==
    LET a == worker[w]
        Sent(e) == [effects EXCEPT ![a.c] = IF @ = "delivered" THEN @ ELSE e]
    IN
    /\ a.pc = "effects"
    /\ \/ /\ effects' = Sent(IF a.quiet THEN "suppressed" ELSE "delivered")
          /\ \E pc \in {"ack", "fail"} : Go(w, pc)
       \/ /\ ~a.quiet /\ FinalAttempt(a)
          /\ effects' = Sent("dropped")
          /\ Go(w, "ack")
       \/ UNCHANGED effects /\ Go(w, "fail")
    /\ UNCHANGED <<conv, job, proj, lock, queues, sweeps, migrating, faults>>

FanoutCompletedJob(c) == [job[c] EXCEPT !.fanout = "completed", !.idle = FALSE]

\* _mark_finalization_fanout_completed_txn
CompleteFanout(w) ==
    LET a == worker[w]
        c == a.c
    IN
    /\ a.pc = "ack"
    /\ \/ /\ job[c].fanout = "completed"
          /\ Go(w, IF job[c].fanoutEpoch = a.epoch THEN "complete" ELSE "fail")
          /\ UNCHANGED job
       \/ /\ job[c].fanout # "completed" /\ IsCurrentLease(a)
          /\ job' = [job EXCEPT ![c] = FanoutCompletedJob(c)]
          /\ Go(w, "complete")
       \/ /\ job[c].fanout # "completed" /\ ~IsCurrentLease(a)
          /\ Go(w, "fail")
          /\ UNCHANGED job
    /\ UNCHANGED <<conv, effects, proj, lock, queues, sweeps, migrating, faults>>

-----------------------------------------------------------------------------
(* Closing an attempt                                                       *)

\* Mutant: the close forgets the terminal outcome.
UnreportedJob(c) ==
    [job[c] EXCEPT !.status = "completed", !.live = FALSE, !.due = "absent", !.idle = FALSE]
SucceededJob(c) ==
    [job[c] EXCEPT !.status = "completed", !.live = FALSE, !.due = "absent",
                   !.outcome = "success", !.idle = FALSE]

\* _mark_finalization_completed_txn; a refusal is answered 409.
MarkCompleted(w) ==
    LET a == worker[w]
        c == a.c
        replayed == job[c].status = "completed" /\ job[c].epoch = a.epoch
        closes == IsCurrentLease(a) /\ job[c].fanout = "completed"
    IN
    /\ a.pc = "complete"
    /\ IF closes
         THEN /\ job' = [job EXCEPT ![c] = SucceededJob(c)]
              /\ proj' = Closed("leased", "completed", "success")
         ELSE UNCHANGED <<job, proj>>
    /\ IF replayed \/ closes THEN Acknowledge(w) ELSE Refuse(w)
    /\ UNCHANGED <<conv, effects, sweeps, migrating, faults>>

\* _mark_finalization_fenced_txn: only a lease whose fanout never started.
\* During cutover a job whose fanout was once claimed is refused here on every
\* delivery; each refusal is charged, since nothing else bounds the loop.
MarkFenced(w) ==
    LET a == worker[w]
        c == a.c
        replayed == job[c].status = "completed" /\ job[c].outcome = "stale" /\ job[c].epoch = a.epoch
        closes == IsCurrentLease(a) /\ job[c].fanout = "pending"
    IN
    /\ a.pc = "fence"
    /\ IF closes
         THEN /\ job' = [job EXCEPT ![c] = FencedJob(c)]
              /\ proj' = Closed("leased", "completed", "stale")
         ELSE UNCHANGED <<job, proj>>
    /\ IF replayed \/ closes THEN Acknowledge(w) ELSE Refuse(w)
    /\ Charge(IsCurrentLease(a) /\ ~closes)
    /\ UNCHANGED <<conv, effects, sweeps, migrating>>

RetryableJob(c) ==
    [job[c] EXCEPT !.status = "queued", !.live = FALSE, !.attempts = @ + 1,
                   !.due = ReconcileAfter(job[c].byok), !.idle = FALSE]

\* _mark_finalization_retryable_txn: the lease is released and the failed
\* attempt counted.
MarkRetryable(c) ==
    /\ job' = [job EXCEPT ![c] = RetryableJob(c)]
    /\ proj' = Moved("leased", "queued")
    /\ UNCHANGED conv

DeadLetteredJob(c) ==
    [job[c] EXCEPT !.status = "dead_letter", !.live = FALSE, !.due = "absent",
                   !.outcome = "failure", !.idle = FALSE]

\* Mutant: the job alone is dead-lettered.
DeadLetterJobOnly(c) ==
    /\ job' = [job EXCEPT ![c] = DeadLetteredJob(c)]
    /\ proj' = Closed("leased", "dead_letter", "failure")
    /\ UNCHANGED conv
\* _mark_finalization_dead_letter_txn: the bound row closes with the job.
MarkDeadLetter(c) ==
    /\ job' = [job EXCEPT ![c] = DeadLetteredJob(c)]
    /\ proj' = Closed("leased", "dead_letter", "failure")
    /\ conv' = IF /\ conv[c].exists /\ conv[c].status = "processing"
                  /\ ~conv[c].discarded /\ conv[c].bound
               THEN [conv EXCEPT ![c] = [@ EXCEPT !.status = "failed", !.discarded = TRUE]]
               ELSE conv

\* _retry_or_dead_letter and record_failure: a stale lease changes nothing.
\* Only a recorded dead letter is acknowledged to the queue.
RecordFailure(w) ==
    LET a == worker[w]
        owned == IsCurrentLease(a)
    IN
    /\ a.pc = "fail"
    /\ \/ owned /\ FinalAttempt(a) /\ MarkDeadLetter(a.c)
       \/ owned /\ ~FinalAttempt(a) /\ MarkRetryable(a.c)
       \/ ~owned /\ UNCHANGED <<conv, job, proj>>
    /\ IF owned /\ FinalAttempt(a) THEN Acknowledge(w) ELSE Refuse(w)
    /\ UNCHANGED <<effects, sweeps, migrating, faults>>

-----------------------------------------------------------------------------
(* Crashes, timeouts and the passing of time                                *)

\* The process dies: its lease and its lock outlive it.
Crash(w) ==
    LET a == worker[w] IN
    /\ Active(w)
    /\ Charge(TRUE)
    /\ worker' = [worker EXCEPT ![w] = IdleAttempt]
    /\ lock' = [lock EXCEPT ![a.c] = IF @ = w THEN Orphaned ELSE @]
    /\ UNCHANGED <<stores, queues, sweeps, migrating>>

\* A running delivery times out and the queue retries it; its handler may
\* still be alive (a blocking call outlives the cancelled request).
TaskDeadline(t) ==
    /\ t.running
    /\ tasks' = Retried({t})
    /\ Charge(\E w \in WorkingOn(t.c) : worker[w].lane = "task" /\ t \in TaskOf(worker[w]))
    /\ UNCHANGED <<stores, worker, lock, names, frames, sweeps, migrating>>

\* The Redis TTL of a run lock.
LockExpires(c) ==
    /\ lock[c] # Free
    /\ Charge(lock[c] # Orphaned)
    /\ lock' = [lock EXCEPT ![c] = Free]
    /\ UNCHANGED <<stores, worker, queues, sweeps, migrating>>

ExpiredJob(c) ==
    [job[c] EXCEPT !.live = FALSE, !.aged = TRUE, !.due = IF job[c].due = "absent" THEN "absent" ELSE "now"]

\* lease_expires_at passes; reconcile_after_at of a leased job is the same
\* instant, and the dispatch request is older still.
LeaseExpires(c) ==
    /\ job[c].status = "leased" /\ job[c].live
    /\ Charge(HeldAlive(c))
    /\ job' = [job EXCEPT ![c] = ExpiredJob(c)]
    /\ UNCHANGED <<conv, effects, proj, worker, lock, queues, sweeps, migrating>>

\* reconcile_after_at of a queued job passes.
ReconcileDelayElapses(c) ==
    /\ job[c].status = "queued" /\ job[c].due = "later"
    /\ job' = [job EXCEPT ![c] = [@ EXCEPT !.due = "now", !.aged = TRUE]]
    /\ UNCHANGED <<conv, effects, proj, worker, lock, queues, sweeps, migrating, faults>>

\* Nothing has touched a BYOK job for the abandonment window, which is at
\* least a day: no lease is live and no handler of that age is still running.
AbandonmentWindowElapses(c) ==
    /\ job[c].byok /\ job[c].status \in {"queued", "leased"} /\ ~job[c].idle
    /\ ~job[c].live /\ WorkingOn(c) = {}
    /\ job' = [job EXCEPT ![c] = [@ EXCEPT !.idle = TRUE]]
    /\ UNCHANGED <<conv, effects, proj, worker, lock, queues, sweeps, migrating, faults>>

-----------------------------------------------------------------------------
(* Reconciliation                                                           *)

\* get_finalization_replay_candidates: a page of due jobs, read outside any
\* transaction.  The sweep runs only with Cloud Tasks dispatch.
ReconcileScan ==
    /\ DispatchMode = "cloud_tasks" /\ page = {}
    /\ page' = {c \in Conversations : job[c].due = "now" /\ job[c].status \in {"queued", "leased"}}
    /\ page' # {}
    /\ UNCHANGED <<stores, worker, lock, queues, resuming, scan, migrating, faults>>

\* Mutant: the transaction trusts the status the scan saw.
ReplayableByAge(c) == job[c].aged
\* The transaction checks the status, the lease and the dispatch age again.
Replayable(c) ==
    \/ job[c].status = "leased" /\ ~job[c].live
    \/ job[c].status = "queued" /\ job[c].aged

ReplayedJob(c) ==
    [job[c] EXCEPT !.status = "queued", !.gen = NextGeneration(c), !.live = FALSE,
                   !.due = "later", !.aged = FALSE, !.idle = FALSE]

\* _claim_finalization_replay_txn, then the task of the generation it returned
\* (a new one, or the current one of a job that is queued anyway), which may
\* fail to be created.  Overtaking a task that the queue still holds is
\* adverse, and so is a second run of the sweep over the same page.
Replay(c) ==
    LET slow == Replayable(c) /\ InFlight(c, job[c].gen) # {}
        g == IF Replayable(c) THEN NextGeneration(c) ELSE job[c].gen
    IN
    /\ c \in page
    /\ \E overlap \in BOOLEAN :
         /\ page' = IF overlap THEN page ELSE page \ {c}
         /\ \/ /\ Replayable(c) \/ job[c].status = "queued"
               /\ Enqueue(c, g) /\ Charge(slow \/ overlap)
            \/ /\ Replayable(c) \/ job[c].status = "queued"
               /\ UNCHANGED <<tasks, names>> /\ ~slow /\ ~overlap /\ Charge(TRUE)
            \/ /\ ~Replayable(c) /\ job[c].status # "queued"
               /\ UNCHANGED <<tasks, names>> /\ Charge(overlap)
    /\ IF Replayable(c)
         THEN /\ job' = [job EXCEPT ![c] = ReplayedJob(c)]
              /\ proj' = IF job[c].status = "leased" THEN Moved("leased", "queued") ELSE proj
         ELSE UNCHANGED <<job, proj>>
    /\ UNCHANGED <<conv, effects, worker, lock, frames, resuming, scan, migrating>>

\* Mutant: a job stranded under a dead worker's lease is not looked at.
StrandedQueued(j) == j.byok /\ j.idle /\ j.status = "queued"
\* A BYOK job no consumer can ever claim again.
Stranded(j) ==
    /\ j.byok /\ j.idle
    /\ j.status \in {"queued", "leased"}
    /\ j.status = "leased" => ~j.live

\* get_abandoned_byok_job_candidates: the identity of every stranded job is
\* read now and compared later.
ByokScan ==
    /\ scan = {}
    /\ scan' = {[c |-> c, status |-> job[c].status, gen |-> job[c].gen, epoch |-> job[c].epoch] :
                c \in {d \in Conversations : Stranded(job[d])}}
    /\ scan' # {}
    /\ UNCHANGED <<stores, worker, lock, queues, resuming, page, migrating, faults>>

\* The compare half of _abandon_byok_finalization_job_txn.
StillAbandoned(s) ==
    LET j == job[s.c] IN
    Stranded(j) /\ j.status = s.status /\ j.gen = s.gen /\ j.epoch = s.epoch

AbandonedJob(c) ==
    [job[c] EXCEPT !.status = "dead_letter", !.live = FALSE, !.due = "absent",
                   !.outcome = "byok_session_abandoned", !.fanout = "fenced", !.idle = FALSE]

\* The write half: the job is dead-lettered and a row still processing for it
\* is closed as completed, so that the recording stays reachable.
AbandonByok(s) ==
    LET c == s.c IN
    /\ scan' = scan \ {s}
    /\ IF StillAbandoned(s)
         THEN /\ job' = [job EXCEPT ![c] = AbandonedJob(c)]
              /\ proj' = Closed(s.status, "dead_letter", "failure")
              /\ conv' = IF /\ conv[c].exists /\ conv[c].bound /\ conv[c].status = "processing"
                            /\ ~conv[c].discarded /\ ~conv[c].deferred
                         THEN [conv EXCEPT ![c] = [@ EXCEPT !.status = "completed"]] ELSE conv
         ELSE UNCHANGED <<conv, job, proj>>
    /\ UNCHANGED <<effects, worker, lock, queues, resuming, page, migrating, faults>>

-----------------------------------------------------------------------------
(* The user and the account, at any moment                                  *)

Discard(c) ==
    /\ "discard" \in UserActions /\ conv[c].exists
    /\ conv' = [conv EXCEPT ![c] = [@ EXCEPT !.discarded = TRUE, !.kept = FALSE]]
    /\ UNCHANGED <<job, effects, proj, worker, lock, queues, sweeps, migrating, faults>>

RestoreDiscarded(c) ==
    /\ "restore" \in UserActions /\ conv[c].exists
    /\ conv' = [conv EXCEPT ![c] = [@ EXCEPT !.discarded = FALSE, !.kept = TRUE]]
    /\ UNCHANGED <<job, effects, proj, worker, lock, queues, sweeps, migrating, faults>>

DeleteConversation(c) ==
    /\ "delete" \in UserActions /\ conv[c].exists
    /\ conv' = [conv EXCEPT ![c] = [@ EXCEPT !.exists = FALSE]]
    /\ UNCHANGED <<job, effects, proj, worker, lock, queues, sweeps, migrating, faults>>

StartCutover ==
    /\ "cutover" \in UserActions /\ ~migrating
    /\ migrating' = TRUE
    /\ UNCHANGED <<stores, worker, lock, queues, sweeps, faults>>

-----------------------------------------------------------------------------
(* Specification                                                            *)

WorkerStep(w) ==
    \/ TaskClaims(w)
    \/ SkipForCutover(w)
    \/ ReadConversation(w)
    \/ \E outcome \in Outcomes : ProcessConversation(w, outcome)
    \/ ClaimFanout(w)
    \/ EmitEffects(w)
    \/ CompleteFanout(w)
    \/ MarkCompleted(w)
    \/ MarkFenced(w)
    \/ RecordFailure(w)

Request(c) ==
    \/ \E byok \in BOOLEAN : CreateIntent(c, byok)
    \/ GetIntent(c)
    \/ ResumeByok(c)
    \/ RequestDies(c)

Timer(c) ==
    \/ LockExpires(c)
    \/ LeaseExpires(c)
    \/ ReconcileDelayElapses(c)
    \/ AbandonmentWindowElapses(c)

User(c) == Discard(c) \/ RestoreDiscarded(c) \/ DeleteConversation(c)

Sweep ==
    \/ ReconcileScan
    \/ \E c \in Conversations : Replay(c)
    \/ ByokScan
    \/ \E s \in scan : AbandonByok(s)

Delivery ==
    \/ \E f \in frames : LoseFrame(f) \/ \E w \in Workers : PusherClaim(w, f)
    \/ \E t \in tasks : TaskLockedOut(t) \/ TaskDeadline(t) \/ \E w \in Workers : TaskLocks(w, t)

Next ==
    \/ \E c \in Conversations : Request(c) \/ Timer(c) \/ User(c)
    \/ \E w \in Workers : WorkerStep(w) \/ Crash(w)
    \/ Delivery
    \/ Sweep
    \/ StartCutover

Spec == Init /\ [][Next]_vars

\* The queue delivers, handlers run to their end, timers fire and the sweeps
\* run every five minutes.  Nothing obliges users, sessions or crashes.
Fairness ==
    /\ \A w \in Workers : WF_vars(WorkerStep(w))
    /\ \A c \in Conversations :
         /\ WF_vars(LockExpires(c) /\ lock[c] = Orphaned)
         /\ WF_vars(LeaseExpires(c) /\ ~HeldAlive(c))
         /\ WF_vars(ReconcileDelayElapses(c))
         /\ WF_vars(AbandonmentWindowElapses(c))
         /\ WF_vars(Replay(c))
    /\ WF_vars(\E t \in tasks, w \in Workers : TaskLocks(w, t))
    /\ WF_vars(\E t \in tasks : TaskDeadline(t) /\ UNCHANGED faults)
    /\ WF_vars(ReconcileScan)
    /\ WF_vars(ByokScan)
    /\ WF_vars(\E s \in scan : AbandonByok(s))

LiveSpec == Spec /\ Fairness

-----------------------------------------------------------------------------
(* Properties                                                               *)

JobTerminal(c) == job[c].status \in TERMINAL_JOB_STATUSES

\* At most one attempt can present the current (generation, epoch) pair, so a
\* worker that resumes after its lease was reclaimed can write nothing
\* (_is_current_lease in every terminal transaction).
OneLeaseOwner ==
    \A v, w \in Workers :
        /\ Active(v) /\ worker[v].pc # "locked" /\ IsCurrentLease(worker[v])
        /\ Active(w) /\ worker[w].pc # "locked" /\ IsCurrentLease(worker[w])
        /\ worker[v].c = worker[w].c
        => v = w

\* The counters of the projection are the number of jobs in each state,
\* although they are only ever moved by deltas (_record_projection_delta).
ProjectionAccurate ==
    /\ \A s \in JobStatus : proj[s] = Cardinality({c \in Conversations : job[c].status = s})
    /\ proj["accepted"] = Cardinality({c \in Conversations : job[c].status # "absent"})
    /\ proj["completed"] = proj["success"] + proj["stale"]
    /\ proj["dead_letter"] = proj["failure"]

\* A job reported as a success has a completed fanout, and a completed fanout
\* means the integrations were delivered to, or deliberately passed over
\* (mark_finalization_completed behind claim and completion of the fanout).
SuccessMeansFanout ==
    \A c \in Conversations :
        /\ job[c].outcome = "success" => job[c].fanout = "completed"
        /\ job[c].fanout = "completed" => effects[c] # "none"

\* A conversation that needs the user's own keys never reaches the
\* credential-free task lane (_resume_blocked_byok_job_txn and every other
\* BYOK transition delete reconcile_after_at).
NoTaskForByok == \A t \in tasks : ~job[t.c].byok

\* The failed attempts a pusher session may spend on a BYOK job are bounded:
\* the claimed attempt count is the only bound there is (record_failure).
ByokAttemptsBounded ==
    \A c \in Conversations : job[c].byok => job[c].attempts < MaxAttempts

\* A finished job leaves its conversation finished: no client shows a
\* processing card for ever (dead-lettering and abandonment close the row in
\* the same transaction, the processor persists before the job closes).
\* listen_finalization_jobs.mdx says so of both terminal statuses: "The
\* persisted conversation is terminally completed", and of a dead letter's
\* conversation, "not left on `processing`".
NothingStranded ==
    \A c \in Conversations :
        JobTerminal(c) /\ conv[c].exists => conv[c].status \in {"completed", "failed"}

\* A terminal job is never reopened, re-leased or rewritten.
TerminalIsFinal ==
    [][\A c \in Conversations : JobTerminal(c) => job'[c] = job[c]]_vars

\* A processor never recreates a conversation its owner deleted
\* (persist_processing_result_with_lifecycle).
DeletedStaysDeleted ==
    [][\A c \in Conversations : ~conv[c].exists => conv'[c] = conv[c]]_vars

\* Every platform-key job is eventually closed (Cloud Tasks retries, lease
\* expiry and the replay sweep), unless the account enters cutover.
JobsSettle ==
    \A c \in Conversations :
        job[c].status # "absent" /\ ~job[c].byok ~> JobTerminal(c) \/ migrating

\* A BYOK job that a session once resumed is eventually closed, by a session
\* or by the abandonment sweep.
ByokJobsSettle ==
    \A c \in Conversations : job[c].byok /\ job[c].status # "blocked_byok" ~> JobTerminal(c)

\* The jobs, seen from outside: the abstract specification they implement.
PhaseOf(j) ==
    IF j.status = "absent" THEN "none"
    ELSE IF j.status \notin TERMINAL_JOB_STATUSES THEN "open"
    ELSE IF j.outcome = "byok_session_abandoned" THEN "failure" ELSE j.outcome

Promise == INSTANCE FinalizationPromise WITH
    phase <- [c \in Conversations |-> PhaseOf(job[c])],
    handled <- [c \in Conversations |-> effects[c] # "none"]

\* Finalization settles a conversation at most once, and as a success only
\* after its external effects were dealt with.
KeepsPromise == Promise!Spec

-----------------------------------------------------------------------------
(* Statements of the repository that the code does not keep                 *)

\* lifecycle.discard: "Discard is terminal and deliberately cannot be undone
\* by a generic write."  Only an explicit restore may clear the flag.
DiscardIsTerminal ==
    [][\A c \in Conversations :
         conv[c].discarded /\ ~conv'[c].kept => conv'[c].discarded]_vars

\* _fenced_finalization_update: "the terminal no-fanout state shared by every
\* fencing boundary", and _abandon_byok_finalization_job_txn, which writes the
\* same state: "Nothing was ever delivered to an external integration."
FencedMeansNoFanout ==
    \A c \in Conversations : job[c].fanout = "fenced" => effects[c] # "delivered"
=============================================================================
