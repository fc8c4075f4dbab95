# Verification of the Remi backend: its durable protocols

This directory holds TLA+ specifications of the parts of `backend/` that decide
what becomes of a recorded conversation, of an uploaded recording, of a memory's
search projection and of an account that is being deleted, the TLC models that
check them on small instances, and TLAPS proofs of the properties that matter
most. Paths below are
relative to the repository root; line numbers are given in `PROJECT.json`.

1. [The system and its components](#1-the-system-and-its-components)
2. [What is modelled](#2-what-is-modelled)
3. [FinalizationJobs](#3-finalizationjobs)
4. [ProcessingAdmission](#4-processingadmission)
5. [SyncUpload](#5-syncupload)
6. [AccountDeletion](#6-accountdeletion)
7. [MemoryOutbox](#7-memoryoutbox)
8. [What the runs check](#8-what-the-runs-check)
9. [What is proved](#9-what-is-proved)
10. [Where the code and its documents disagree](#10-where-the-code-and-its-documents-disagree)
11. [What is not modelled](#11-what-is-not-modelled)
12. [Plan](#12-plan)

## 1. The system and its components

Remi records conversations on wearables, phones and desktops, transcribes them,
and turns each into a titled, summarised row with action items, memories and
calls to external integrations. The repository holds the Python backend
(`backend/`, the migrated source) and a Go server (`server/`) that is to replace
it; the two share no store. The Python backend has the finished protocols and is
what is modelled first. It is many processes (API pods,
the pusher, Cloud Tasks handlers, cron sweeps) around two stores, Firestore
(documents, optimistic transactions) and Redis (locks, job blobs). No process
holds the truth: every protocol is a sequence of transactions between which
anything may happen. That is where the correctness questions are.

### The conversation lifecycle

| Component | State it keeps | Operations | Talks to |
|---|---|---|---|
| **Finalization outbox** `database/conversation_finalization_jobs.py` (first half) | one job document per conversation: status, dispatch generation, lease epoch and expiry, failed attempts, fanout state, reconcile time, outcome; sharded counters of the terminal-outcome projection | create, resume BYOK, claim, claim and complete fanout, mark completed / fenced / retryable / dead letter, claim a replay, abandon BYOK | written by the finalizer, its two callers and the sweeps |
| **Finalizer** `utils/conversations/finalizer.py` | none of its own | read row, process, fanout, close | outbox, processor, integrations |
| **Task lane** `routers/conversation_finalization.py`, `utils/cloud_tasks.py` | Cloud Tasks queue with named tasks; Redis run lock | lock, claim, run, answer 2xx or 4xx/5xx | queue, finalizer |
| **Pusher lane** `utils/pusher_finalization.py` | frames on a WebSocket | claim, run, record failure | listen session, finalizer |
| **Lifecycle service** `utils/conversations/lifecycle.py` | the `status`, `discarded`, `deferred` and `processing_admitted_at` fields of a conversation | request finalization, admit, re-acquire, renew, complete, roll back, re-arm, discard, restore | outbox, `database/conversations.py` |
| **Sweeps** `services/conversation_finalization.py`, `conversation_finalization_jobs.py` (second half) | a shared cursor document | replay overdue jobs, abandon BYOK jobs, close crash orphans | every pod, every five minutes |
| **Processor** `utils/conversations/process_conversation.py` | none of its own | skip, defer, persist, raise | models, `database/conversations.py` |
| **Finalization decision reducer** `utils/conversations/finalization_decision.py` | none (pure) | one verdict per phase and event | lifecycle service |
| **Merge** `utils/conversations/merge_conversations.py` | `merging` status of the sources, copied audio | begin, copy, create, clean up | lifecycle service, storage |
| **Recording sessions** `database/recording_sessions.py` | session documents and tombstones | bind, rotate, delete empty | listen session |
| **Capture groups** `database/capture_groups.py` | groups of duplicate captures | join, elect | merges |
| **Meeting receipts** kept on job documents | receipt and intent records | record, materialise, backfill | finalizer |

### Other durable protocols

| Component | State and hard behaviour |
|---|---|
| **Sync jobs**, **sync ledger** `database/sync_jobs.py`, `sync_ledger.py`, `routers/sync.py`, `utils/sync/pipeline.py` | a Redis blob per upload, a run lock with an epoch, a content ledger: stale-worker detection races the worker's own finish, and the device drops its copy on one answer |
| **Memory outbox** `database/memory_outbox_worker.py`, `utils/memory/short_term_promotion.py` | leased events delivered to a provider without compare-and-set: an expired worker acknowledges what another has leased, a late write undoes a newer one |
| **Account deletion** `services/users/account_deletion.py`, `database/users.py`, `account_deletion_*.py` | a marker, a task, a run lock and a reconciler around a thread that erases in many steps and outlives its request |
| **Legal holds** `database/legal_holds.py` | holds and the one gate of destructive operations: neither may overtake the other |
| **Vector repair outbox** `database/memory_vector_repair_outbox*.py` | the memory outbox's shape, with a repair protocol |
| **Candidates and integration outbox** `database/candidates.py`, `candidate_integration_outbox.py` | dispatch of an accepted candidate, with retries |
| **First-open obligations** `database/first_open_obligations.py` | token-fenced deferred effects |
| **Chat-first intents** `database/chat_first_*.py` | message intents, leases and delivery attempts |
| **Account cutover** `database/account_cutover.py`, `utils/account_cutover/` | account-wide phases that fence everybody else |
| **JIT budget** `database/jit_proactivity_store.py` | reservations per user and day |
| **Durable queue policy** `utils/durable_queue_policy.py` | attempt decisions, backoff, isolated draining (pure) |
| **MCP OAuth**, **webhook health** | token rotation, breaker counters |
| **Go worker** `server/cmd/worker`, `server/internal/{syncjobs,finalization,conversations}` | one loop pops finalization, merge and sync items from Redis lists and writes MySQL; an item is gone once popped, and state and queue are written separately |

The listen WebSocket session, the pusher's audio path, the model services, the
LLM gateway, the search index, the clients and the Go server's handlers are bound
to I/O or keep no state of these protocols. `PROJECT.json` lists every part.

### Which behaviours are hard

* A handler reads, then acts in a later transaction: its lease may have expired,
  been reclaimed, or its row been discarded, restored or deleted in between.
* A process dies between a commit and the call that depends on it (create job /
  enqueue task, deliver / record the delivery, claim / start the heartbeat).
* The queue delivers at least once and never twice under one name; frames are
  lost; locks outlive their holders.
* Two pods sweep the same collection from one cursor with stale pages.
* Something must resolve every row that a user sees as "processing".
* A request is cancelled at its deadline; its thread goes on, and the lock that
  protected it expires.
* A call is answered with an error after it had its effect, in a store or a
  provider that cannot be asked whether it did.
* Two protocols meet in one place: a deletion waits for a projection, a hold for
  a deletion, an upload for the claim of an earlier upload.

For each component the properties that make it correct follow from these:
exclusive ownership, no write by a superseded owner, no success without the
effects, no terminal state rewritten, no row left spinning, and bounded retries.
`PROJECT.json` under `hazards` lists them at the lines where they bite.

## 2. What is modelled

| Module | Contents |
|---|---|
| `FinalizationPromise` | abstract specification: a conversation settles at most once, as a success only after its effects |
| `FinalizationJobs` | the outbox, both lanes, the finalizer, the queue, the run lock and two sweeps |
| `MCFinalizationJobs` | worker symmetry for TLC |
| `FinalizationJobsTypeProofs`, `FinalizationJobsProofs`, `FinalizationRowsProofs` | type invariant; leases, outcomes and refinement; lanes, deleted rows, the projection and what closed jobs leave |
| `ProcessingAdmission` | processing without a job: admission lease, heartbeat, four routes, orphan sweep |
| `MCProcessingAdmission` | processor and pod symmetry for TLC |
| `ProcessingAdmissionProofs` | type invariant, exclusion, and what the sweep spares |
| `SyncUpload`, `MCSyncUpload` | upload, transcription and polling of an offline recording: job blobs, run lock, content ledger, both dispatch modes, the device |
| `SyncUploadTypeProofs`, `SyncUploadProofs` | type invariant; proven and kept completions, no lost audio, ownership of the ledger |
| `AccountDeletion`, `MCAccountDeletion` | a deletion from its request to its completion, composed with legal holds, another destructive operation, provider writes and the memory projection's fence |
| `AccountDeletionProofs` | type invariant, erasure, exclusion of wipes and respect of holds |
| `MemoryOutbox`, `MCMemoryOutbox` | projection of one memory by leased outbox events |
| `MemoryOutboxProofs` | type invariant, exclusion of leases, convergence of the provider |

`FinalizationJobs` and `ProcessingAdmission` share the conversation row. `ProcessingAdmission` sees
a durable job only as a field of the row (`none`, `running`, `done`) with one
action that binds it and one that ends it; `FinalizationJobs` sees the inline
routes not at all, because a row that a job is bound to is refused by them until
the job has deferred it.

`AccountDeletion` holds the outbox of `MemoryOutbox` as one event with one
maintenance job, in as many steps as the fence between the two protocols needs;
`MemoryOutbox` has the outbox in full and no deletion of the account.
`SyncUpload` uses the same run lock as `FinalizationJobs`, with its epoch.

An action is one Firestore transaction, one Redis call or one external call. So
each interleaving that the stores permit is a behaviour, and a crash can fall
between any two of them.

## 3. FinalizationJobs

**State.** `conv` is the part of the conversation row the protocol reads, with
`exists` for the document itself. `job` is the outbox row. Times became the
comparisons the code makes: `live` (`lease_expires_at` ahead), `due`
(`reconcile_after_at` absent, ahead, past), `aged` (dispatch older than the stale
window), `idle` (last activity older than the BYOK cutoff). `effects` is a ghost:
what the integrations have been sent. `proj` is the sum of the projection's
shards. `worker` holds the attempts of both lanes with the identity they claimed
under (`gen`, `epoch`), `lock` the Redis lock, `tasks` and `names` the queue,
`frames` the WebSocket, `resuming` the BYOK requests between their two
transactions, `page` and `scan` the candidates the two sweeps have read and not
yet acted on.

**Actions.**

| Action | Code |
|---|---|
| `CreateIntent`, `GetIntent`, `ResumeByok`, `RequestDies` | `request_finalization`, its outbox transaction, the handoff, the BYOK resume transaction |
| `PusherClaim`, `LoseFrame` | `utils/pusher_finalization.py` |
| `TaskLocks`, `TaskLockedOut`, `TaskClaims`, `SkipForCutover` | `run_listen_finalization_job` |
| `ReadConversation`, `ProcessConversation` | first half of `finalize_persisted_conversation`, `process_conversation`, `persist_processing_result_with_lifecycle` |
| `ClaimFanout`, `EmitEffects`, `CompleteFanout` | the fanout transactions and the calls between them |
| `MarkCompleted`, `MarkFenced`, `RecordFailure` | the closing transactions and the answer to the queue |
| `ReconcileScan`, `Replay`, `ByokScan`, `AbandonByok` | the two sweeps: page read, then one transaction per candidate |
| `Crash`, `TaskDeadline`, `LockExpires`, `LeaseExpires`, `ReconcileDelayElapses`, `AbandonmentWindowElapses` | faults and time |
| `Discard`, `RestoreDiscarded`, `DeleteConversation`, `StartCutover` | the user and the account |

`ProcessConversation` keeps the control of a very long function: it persists a
kept, hidden or free-tier minimal result, defers it, skips without a write, or
raises. What the models answered is a nondeterministic choice.

**Bounds.** `MaxAttempts` is the code's own limit, 2 instead of the deployed
value: both a retry and a final attempt exist. `MaxFaults` caps adverse events
(crashes, expiries under a live holder, undelivered handoffs, overtaken tasks);
two allow a fault during the recovery from a fault. Generation and epoch need no
bound of their own: each increment consumes an attempt or a fault. Deadlock is
not checked in these runs since an outbox whose jobs are all closed, with nobody
asking, really has nothing to do.

**Fairness** (`LiveSpec`, used by `Live`). Handlers run to their end; the queue
delivers; Redis TTLs and lease times pass; both sweeps run every five minutes on
every pod (`main.py`, the reconcile loop). Nothing obliges a user, a session, a
frame or a fault to occur. Timers are fair only for what nobody alive holds.

## 4. ProcessingAdmission

Four routes process without a job: the client's finalize request, the first open
of a deferred row, the create from segments and the merge. Each puts the row on
`processing` with a server stamp; a heartbeat thread renews the stamp; each route
has its own recovery when the processor raises (roll back to `in_progress`,
re-arm `deferred`, delete, complete). If the process dies, only the orphan sweep
is left.

**State.** `row` is the conversation row: `stamped`/`old` for
`processing_admitted_at` and its age (or the age of the last write, for rows
older than the stamp), `full` for a document at Firestore's size ceiling, which
can take no new field, `session` for an id that a create from segments derives
from its client session, and which a repeated create therefore finds again.
`proc` is a processor: admitted, running under its guard, raised, or, on the
segments route, returned from its guard or about to take a stale claim over.
`cursor` is the shared cursor, `pod` one sweep in progress: where it read
the cursor, what it would save, whether the generation it read is still current,
and the candidates it scanned.

Two abstractions make the state space finite without a bound. The terminal write
compares the scanned stamp with the row's: a candidate carries `exact` until
somebody restamps the row, then `replaced`. The cursor's compare-and-swap
compares generations: a pod carries `current` until another pod's advance.

**Actions.** `AdmitProcessing`, `ReacquireDeferredProcessing`,
`CreateProcessingConversation`, `FindStaleClaim`, `DeleteStaleClaim`, `BindJob`,
`JobEnds`; `EnterGuard`, `RenewProcessingLease`, `RenewalFails`,
`ProcessConversation`, `PersistAgain`, `CompleteMerge`, `Recover`, `Crash`; `StampAges`, `Discard`, `RestoreDiscarded`; `ReadCursor`,
`GetCandidates`, `AdvanceCursor`, `SweepCandidate`, `EndSweep`, `SweepFails`,
`PodDies`. `Examined`, `Exhausted` and `NextCursor` are the scan loop of
`get_stale_processing_orphan_candidates` in closed form: which rows of the window
it looks at under the candidate limit and the scan limit, and whether it
concludes that it reached the tail. A scan's pages are read in one step; rows
that change between two pages of one scan are not distinguished from rows that
change after it.

**The create from segments** does two things the other routes do not. After its
guard has ended it persists what `process_conversation` returned a second time
(`PersistAgain`), for every outcome that does not raise: a deferred result gets
its flag back although a first open may have taken it in between. And a repeated
create of the same session that finds the row `processing` under a claim older
than `FROM_SEGMENTS_CLAIM_STALE_AFTER` deletes the row (`FindStaleClaim`,
`DeleteStaleClaim`) without asking whether its processor lives, and creates it
again. The claim's age is not kept: the heartbeat does not renew the claim, so any
claim may be that old. A create without a session id makes a row with an id of its
own and no admission; it is not modelled.

**Fairness** (`FairSpec`). Processors that do not crash come to an end, jobs end
(this is `JobsSettle` of `FinalizationJobs`), stamps age when nobody renews them,
every pod sweeps again. Admissions, users and faults are free.

**Bounds.** One row with two processors and two pods gives every race for a row;
`AdmissionLive` has one pod, as two matter only for the cursor of a longer
collection, which `SweepCoverage` has.
Coverage of the cursor needs the collection to be longer than a window:
`SweepCoverage` has four rows, a candidate limit of two and a scan limit of
three, so that windows fill by either limit and the scan limit is no multiple of
the page; `SweepTail` has five rows and one page that the limit cuts short.

## 5. SyncUpload

A device keeps an offline recording until the server says that its job is
completed. Every upload creates a job blob in Redis (a day's retention) and
claims the recording's content in a Firestore ledger; a Cloud Tasks delivery, or
a coroutine of the uploading process, takes the job's run lock, binds the lock's
token to the ledger claim, transcribes what the ledger does not name yet,
completes the ledger and then the job. The device polls, and uploads again when
the job failed or is gone.

**State.** `job` are the blobs: status, dispatch mode, `ledger_fence_mode`,
whether it ever started, and `silent` for an `updated_at` past the threshold that
`is_sync_job_stale` applies to that state. `lock` and `epoch` are the run lock and
the counter its tokens are numbered from; `ledger` the one content document with
its owner, its token and the segments it proves; `task` the named task of each
job; `run` the workers with the step they are in; `upload` and `poll` the one
request of each kind being handled, since both read and write in several steps;
`wal` the device. `kept` and `waived` are ghosts: the segments whose transcript is in a
conversation, and those a worker found to need none.

**Outcomes of a segment.** `process_segment` persists a transcript (`kept`), reports
an error, or returns without either: the speech-to-text or its post-processing was
empty, or the segment's conversation was deleted or taken over by the user
(`SyncAssignmentSuperseded`). The third is no error and is never checkpointed; the
job completes as if the segment did not exist (`utils/sync/ARCHITECTURE.md`). Such
a segment is `waived`. A recording in which VAD finds nothing is the case in which
all of them are.

**Rejections.** Decoding, VAD and the backfill budget fail the job and end the run,
and an exception of that write is handled as any other. The restricted budget's
check stands in a handler that swallows every exception: when its failing write
raises, the run goes on with the list of segments already emptied (`Fail`).

**Actions.**

| Action | Code |
|---|---|
| `Upload`, `Claim`, `DispatchTask`, `DispatchInline`, `StagingFails`, `UploadDies` | `sync_local_files_v2` |
| `Deliver`, `RunHeals`, `TakeLock`, `ReadUnderLock`, `Start`, `Raised`, `Finish`, `Lost` | `run_sync_job` |
| `Bind`, `Converge`, `Supersede`, `Fail` | the ledger fence of `pipeline.py`: bind or converge, and the two ways to end a job |
| `Start` (rejections), `WorkEnds`, `Transcribe`, `Mark`, `Tail`, `Publish`, `RaisedInline`, `Cleanup` | `_run_full_pipeline_background_async`, `process_segment` |
| `Poll`, `PollHeals`, `PollReleases`, `PollAnswers` | `get_sync_job_status`, with the read, the blind failing write of `get_sync_job`, the release of the ledger and the answer apart |
| `Crash`, `Silence`, `LeaseExpires`, `JobExpires`, `ClaimAges` | faults and time |

`MayWrite` is the choice between the two mutation protocols: a legacy job is
written with a check for a terminal status, a fenced one compares lock token and
status in one script. `Healed` is neither: it writes back the blob it read.

**Bounds.** Two uploads, two workers and two segments give a retry of a partly
transcribed recording beside a delayed worker of the first. `MaxFaults` is one:
the fault kinds are a crash, a stalled worker, a thread that outlives its
cancelled coordinator, a duplicate delivery, and lost calls to the queue, the
staging bucket, the client and the store. `Sync` has the segments' outcomes and
the exceptions of the pipeline, `SyncLive` the rejections, with one segment.
`MaxAttempts` is two. The retentions
(`JOB_TTL_SECONDS`, `CLAIM_STALE_SECONDS`) elapse in `SyncLive` only, in moments
in which no request is being handled.

**Fairness.** The device keeps polling and uploading, the queue delivers, workers
that live go on, time passes. The retentions need strong fairness: their moment
recurs, it does not last.

## 6. AccountDeletion

A request writes a marker (`account_deletions/{uid}`) and enqueues a task. A
delivery takes the account's run lock, claims the marker, and wipes in a thread:
it takes the gate that all destructive operations share, marks the wipe running,
erases in five groups of steps, completes the marker and closes the gate. What
fails is marked failed; a reconciler on every pod claims markers that failed or
have not moved for too long and enqueues again.

**State.** `marker` with its status, age and the late-machine flag, which only an
earlier release can have set; `hold`;
`gate` with kind and age; `lock`; `task` slots; `run` the deliveries and their
threads (a thread whose `task` is `Nobody` has lost its request); `sender` the
request and the reconcilers between claim and enqueue; `memory`, `writer`,
`event` and `job` the neighbours; `data` what is left of the account. `fresh`
tells a thread that wrote the gate from one that found it running under its own
token.

**Actions.** `RequestDeletion`, `ReconcilerReads`, `ReconcilerClaims`,
`EnqueueWipe`, `EnqueueFailed`; `Deliver`, `ClaimForTask`, `Answer`, `Cancel`;
`AcquireGate`, `MarkRunning`, `Erase`, `MarkCompleted`, `FinishGate`,
`MarkFailed`, `Crash`; `PlaceHold`, `LiftHold`, `AcquireForMemory`,
`ReleaseForMemory`, `FenceWrite`, `Write`; `JobStarts`,
`JobLeases`, `JobLoads`, `JobFences`, `JobWrites`, `JobVerifies`, `JobDies`;
`GateAges`, `MarkerAges`, `LockExpires`. `Erase` takes one group of steps; a
failure inside a group leaves the group to be done again, as all of them are
idempotent in the code.

**Time.** Six hours (`DELETION_WIPE_RUNNING_STALE_AFTER`,
`GATE_STALE_AFTER_SECONDS`) are longer than any wipe: a marker that is claimed or
running and a gate that a living thread wrote do not age. The run lock is shorter
than a thread may live, and longer than a request.

**Bounds.** Two threads, two queue slots, one reconciling pod, two delivery
attempts. What else happens is given in sets (`Scenarios`), each member once:

| Scenario | Question |
|---|---|
| hold, cancel, fail | a thread without its request, under a hold, with a failing step |
| hold, crash, fail | a dead wipe, a hold before its retry, a retry that fails |
| memory, crash, store | another destructive operation and a marker that cannot be written |
| job, abandon, fail | a projection leased before the deletion |
| hold, memory, enqueue | the gate's two kinds, and a refused enqueue |
| write, ambiguous, store | a provider write in flight, an enqueue of unknown outcome, and a marker that cannot be written |

**Fairness** (`FairSpec`). Threads, jobs and the memory deletion that started go
on; the queue delivers; every pod reconciles every five minutes; time passes.

## 7. MemoryOutbox

Every commit to a canonical memory writes an outbox event in the same
transaction. A maintenance run leases a page of due events and works it off
before it leases another: load the memory, skip an event the memory has moved on
from, write the memory's *current* state to the provider, load it again, repeat
while it keeps changing (`_PROVIDER_CONVERGENCE_ATTEMPTS`), acknowledge. The
provider has no compare-and-set, so a slow run's write can undo a newer one. The
code's answer is *repair mode*: an event whose last delivery failed at the
provider, or whose lease was taken over, is never skipped.

**State.** `item` is the memory (its revision stands for every field of the fence
that `_AuthoritativeProjectionState` compares); `event` one document per
revision, with lease epoch, attempts, `repair` for the class of its last error
and `ready` for `available_at` or an expired lease; `provider` the revision the
provider shows; `worker` the runs.

**Actions.** `Commit`; `Start`, `Claim`, `Pick`, `Load`, `Write`, `Verify`,
`Settle`, `Crash`; `LeaseExpires`, `BackoffEnds`. Failures are of the classes the
code tells apart: a refused load, a refused or malformed verification read, a
provider call that failed without or after its effect, a lost acknowledgement.

**Bounds.** Two runs, three revisions, pages of two, two rounds, two attempts: a
retry, a dead letter, a page with a stale and a current event, and a memory that
changes during a delivery. Six scenarios in `Outbox.cfg` combine the failures,
each of them at most once.

**Fairness** (`FairSpec`). Maintenance comes back, runs go on, time passes.
Claiming is strongly fair: a run stays only briefly in the step in which it may
claim, and the code claims whatever its page has room for.

## 8. What the runs check

| Run | Instance | Properties | Shows |
|---|---|---|---|
| `Cloud` | 1 conversation, 2 workers, tasks, all outcomes, all user actions, 2 faults | `TypeOK`, `SuccessMeansFanout`, `TerminalIsFinal`, `DeletedStaysDeleted`, `KeepsPromise` | no superseded worker or sweep rewrites a closed job; success is reported only after the fanout; no processor recreates a deleted row; refinement |
| `Inline` | pusher frames, platform and BYOK sessions, restores and deletions | `OneLeaseOwner`, `NothingStranded` | without a run lock, generation and epoch alone exclude; a closed job leaves a closed row |
| `Live` | tasks and frames, platform and BYOK sessions, deletions, 2 faults, `LiveSpec` | `JobsSettle`, `ByokJobsSettle`, `NothingStranded`, `ProjectionAccurate`, `NoTaskForByok`, `ByokAttemptsBounded` | every accepted job closes, and leaves no row on `processing`; deltas never drift from the outbox; no BYOK job becomes visible to the reconciler or spends more than its attempts |
| `Admission` | 1 row, 2 processors, 2 pods, every route and outcome, crashes, dead heartbeats, failing sweeps, repeated creates | `TypeOK`, `OneProcessor`, `SweepSparesOwners` | one processor per row that is no client session's; a stale scan never closes an owned row |
| `AdmissionLive` | the same with one pod and without jobs, with stalls and restores, `FairSpec` | `SpinningEnds` | every visible processing row is resolved |
| `SweepCoverage` | 4 rows, 2 pods, `FairSpec` | `SpinningEnds` | the rotation reaches every orphan |
| `Sync` | 2 uploads, 2 workers, 2 segments, both modes, both fences, failed, empty and superseded segments, raising pipelines, 1 fault (5.6 million states) | `TypeOK`, `NoAudioLost`, `CompletionProven`, `HolderOwnsLedger`, `CompletionKept` | the device drops nothing that should be in a conversation and is not; no job is completed before the ledger; no delayed worker takes the ledger from the lock's holder; a durable completion stays |
| `SyncLive` | the same, fenced, one segment, rejected recordings, a crash, stall, lost enqueue or failing store, retentions elapse, `FairSpec` (260 thousand) | `DeviceSettles`, `FailureFreesClaim` | the device is never turned away for ever; a failed job gives its claim back |
| `Deletion` | the six scenarios of section 6, `FairSpec` (700 thousand) | `TypeOK`, `OneWiper`, `HoldRespected`, `Erased`, `DeletionCompletes` | one wipe at a time; no erasure under a hold by a thread that wrote the gate; nothing left behind; every accepted deletion completes |
| `Outbox` | the six scenarios of `Outbox.cfg`, `FairSpec` (170 thousand) | `TypeOK`, `DrainedMeansConverged`, `HolderKeepsLease`, `DeletedContentLeaves`, `EveryEventSettles` | a drained outbox means a provider that shows the memory as it is; a deleted memory leaves it for good; no superseded run settles; every event is settled |

One conversation is enough for the outbox runs: no transaction reads or writes
two jobs, the counters are sums over jobs, and conversations meet only in the
pool of workers and the pages of the sweeps, whose entries are handled one by
one. The theorems of section 9 hold for any number. One recording, one account
and one memory are enough for the other modules by the same argument: their
ledger, gate, marker and events are keyed by it, and no transaction reads two.

Each property of a passing run has a mutant in the module (a definition marked
*Mutant*): a plausible slip in the code that TLC finds to break the property.
The runs between them take every action and every disjunct.

The premises of these runs are worth knowing. `Inline` and `Live` leave out the
outcomes and the user action for which section 10 shows `NothingStranded` false.
`OneProcessor` speaks of the row of a client session only when no create defers and
none is repeated over a stale claim (`Exclusive`), for which section 10 shows it
false; `Admission` has both, so there it is about the other rows, and the theorem
about these too. `Sync` has no budget rejection, whose loss `BudgetSwallowed` shows.
`SpinningEnds` speaks of visible rows: a discarded row that is still `processing`
is never resolved, by design of the compare-and-swap. `AdmissionLive` leaves
job-bound rows out, for which section 10 shows it false. `SweepCoverage` stays
with windows whose last page is not cut short by the limit. `FailureFreesClaim`
is checked for fenced jobs; `DeletionCompletes` assumes that holds end and that
no projection stays leased for ever; `DrainedMeansConverged` is checked for the
failures that repair mode was made for. Section 10 has what lies beyond.

## 9. What is proved

All proofs are checked by TLAPS, for every value of the constants that satisfies
the named assumptions of the module (finiteness of the conversations, membership
of the enumerations, positive bounds). Every invariant and every action property
that a passing run checks is stated by a theorem. Each inductive invariant was
itself checked by TLC before it was proved. Seven theorems have one hypothesis
more, on which events the constants allow; each is named, is satisfied by some of
the configurations that TLC checks, and is there because TLC refutes the
statement without it (`Calm` of `ProcessingAdmission`, `Straight`, `Recorded`, and
`Undisturbed` and `FailuresLand`, which serve two each).

### FinalizationJobs

**`TypeCorrect`** (`FinalizationJobsTypeProofs`): `TypeOK`, with `Busy` (an
active attempt names a conversation), without which record updates of `job[a.c]`
cannot be typed.

**`LeaseExclusion`, `SuccessAfterFanout`, `TerminalJobsStay`**
(`FinalizationJobsProofs`). `OneLeaseOwner` is not inductive: a worker that lost
its lease could regain it if its epoch came round again. The invariant adds
`Epochs` (no attempt is ahead of its job; no two claimed attempts hold one epoch
of one job), `BoundRows` (a row points at its job exactly when there is one, so
a second creation cannot reset the epoch), and `Outcomed` (outcome and terminal
status are written together; an attempt about to record its fanout has dealt with
the effects). The argument goes through *moves*: `JobMove` says what one step may
do to one job, `AttemptMove` to one attempt. Each action is shown once to make
such moves, and the invariants follow from the moves.

**`Refinement`**: `Spec => KeepsPromise`, that is, `FinalizationJobs` implements
`FinalizationPromise` with a job's status and outcome mapped to a phase and
`effects` to `handled`. Beside the invariant it needs `OneEffect`: one step
changes at most one phase or one effect, never both.

**`ByokStaysWithItsSession`, `ByokTriesAreBounded`** (`FinalizationRowsProofs`).
Neither property is inductive: a task, or a candidate on a page that a sweep read
earlier, may be for any job as far as the earlier invariant goes. `LaneInv` adds
that a BYOK job has no reconcile time and attempts left (`ByokRows`), that the
queue and the reconciler's page hold jobs of the platform's keys only
(`PlatformOnly`), and that the owner of a BYOK lease counts its tries from the
row it claimed (`TriesCounted`); the last needs `Epochs`, since a failure is
recorded from the worker's count and not from the row's.

**`DeletionIsFinal`**: `Spec => DeletedStaysDeleted`. Every transaction that
writes a row reads it first; the type invariant and one case per action suffice.

**`ProjectionNeverDrifts`**: `ProjectionAccurate` is inductive with the earlier
invariant. `CountMoves` says that a step leaves job statuses and counters alone
or moves one job and the counters that go with it; `CountChange` turns that into
cardinalities, with the library's theorems about finite sets.

**`ClosedJobsCloseRows`**: `ASSUME Straight PROVE Spec => []NothingStranded`.
`SettleInv` adds that a bound row which is still `processing` is open to the
transactions that close it (`OpenRows`) and that an attempt past the processor
has a settled row (`Passed`). `Straight` leaves out the outcomes `defer` and `skip`
and the user actions `discard` and `cutover`; each of the four alone breaks the
property (section 10). `Inline` and `Live` satisfy it.

### ProcessingAdmission

**`AdmissionTypeCorrect`, `OneProcessorAtATime`** (`ProcessingAdmissionProofs`).
`OneProcessor` needs `Held`: while a processor is on an exclusive row, the token it
took at admission (status `in_progress`, the `deferred` flag, or the absence of the
document) has not been given back; `RightRoute`: only creates from segments and first
opens work on the row of a session, and creates on no other, so that no other route's
recovery gives its token back; and `Running`: a job runs on rows that were recorded,
never on a session's. This holds
whatever crashes, stalls, discards, restores and sweeps do. The property itself
excepts the rows of client sessions where a create may defer or be repeated over a
stale claim (`Exclusive`): there the code has two processors.

**`SweepSpares`**: `ASSUME Calm PROVE Spec => SweepSparesOwners`. `Scanned` says
that a scanned stamp which still is the row's is old; `Fresh` that a stamp which
will be renewed is not. Together they refuse the terminal write. `Calm` excludes
two things under which the statement is false: a thread that stalls between
admission and guard for the whole orphan window, and a restore that makes an aged
discarded row renewable again just before the sweep's write.

### SyncUpload

**`SyncTypeCorrect`** (`SyncUploadTypeProofs`): `TypeOK`, with `WorkersOK` (a worker
that runs has a job, and one that heals or binds knows where it goes on) and
`RequestsOK` (an upload or a poll between its steps has a job), without which the
blob that a step writes has no owner.

**`CompletionIsProven`, `AudioIsNotLost`** (`SyncUploadProofs`). What the device does
with an answer depends on a blob that was read earlier, and what a worker
publishes on what it did steps before. `DataInv` carries both: `WorkProven` (a
segment a worker no longer has to do is kept, waived or an error; a worker about to publish or adopt
a completion has seen the ledger's) and `AnswersProven` (a poll that read
`completed` read something true, and it stays true). Both theorems assume
`FailuresLand`: budget rejections or failing stores, not both. Together they let a
worker reach the end of the pipeline with no segment done (`BudgetSwallowed`).
`Sync.cfg` and every instance without the restricted budget satisfy it.

**`HolderKeepsLedger`**. `FenceInv` adds that nobody has heard of a job id that is
free (`Untouched`), that a token names its worker (`TokensOwn`), that the epoch of
a live fenced job is not forgotten and the lock has the newest (`EpochsGrow`),
that jobs end before their claims are released (`EndedFirst`), and that the claim
of a bound worker is not stale (`Bound`). A step of a worker is shown to be
*lawful*: it ends no other worker's job and spares every other bound claim
(`Lawful`, `ClaimsSurvive`, `BindsFirst`).

**`CompletionIsKept`**: `Spec => CompletionKept`, from the type invariant, one case
per action that writes the ledger.

### AccountDeletion

**`DeletionTypeCorrect`** (`AccountDeletionProofs`): `TypeOK` bounds the tries of a
task, which needs that a task in the queue has one left (`AttemptsLeft`), that a
request being handled has its task and the run lock (`RequestsHold`), and that
only a request claims (`ClaimsRequest`).

**`NothingLeft`**: `Spec => []Erased`, in every scenario and however many threads
wipe at once. `EraseInv` says what each step of a wipe has behind it (`Progress`),
that only an accepted deletion is wiped (`Accepted`), that an upsert which passed
the fence holds the lease of its event, for which the purge waits (`Leased`), and
that after completion nothing is on its way (`Over`).

**`WipesAreAlone`, `HoldsAreRespected`**: `OneWiper` and `HoldRespected`, under
`Undisturbed`: no scenario has a cancelled request together with a failing or
ambiguous enqueue. A thread is alone for one of two reasons: its
request still has the run lock, or its marker says `running` and is young, which
neither a delivery nor a reconciler claims (`Protected`, `Begins`). The two
events rewrite that marker. `FreshOwns` says that the gate of a thread which took
it is running, of its kind and not old, so that no hold can be placed.
`Deletion.cfg` satisfies `Undisturbed`.

### MemoryOutbox

**`OutboxTypeCorrect`, `HoldersKeepTheirLeases`** (`MemoryOutboxProofs`), for any
number of runs, revisions, rounds and attempts and every set of scenarios.
`HolderKeepsLease` is not inductive: two leases of one epoch could settle each
other's event, and a commit could reset an event that is leased. The invariant
adds that a lease still to be settled is no newer than its event (`Leases`), that
no epoch of an event is given out twice (`Unique`), that what is being delivered
has left its page (`Taken`), that events of later revisions are blank (`Future`),
and that an event which is not a dead letter has attempts left (`Budget`), which
is what bounds the counter in `TypeOK`. `RunMoves` and `EventChanges` say once
what a step of a run and a write to an event keep; each action is one of them,
but for `Claim` and `Commit`.

**`ProvidersConverge`**: `ASSUME Recorded PROVE Spec => []DrainedMeansConverged`.
The property speaks of quiet states only, so the invariant has to say who is going
to repair a provider that is behind. `OwedOrDone`: the provider shows the memory
as it is, or somebody owes it a write: the event of the newest commit (`Behind`),
an event to be repaired or left by a dead run (`OwedBy`), a lease that will not be
skipped (`Waiting`), or a delivery whose write is to come or will be found late
(`OwedAt`). `RunOwes` shows once that a run which writes no event keeps, pays or
hands on its debt; `SettleOwes` and `ClaimOwes` that it passes between events and
leases without getting lost. This needs that every lease still to be settled is
the newest of its event (`Own`) and that every failure asks for repair
(`RepairOnly`), which is what `Recorded` provides: no scenario has a lease that
expires under its run (`slow`) or a memory that cannot be read (`read`, `unread`).
Crashes, overlapping runs, provider errors, ambiguous answers, malformed documents
and lost acknowledgements remain, in any mix. Three of the six scenarios of
`Outbox.cfg` satisfy `Recorded`; the others are model-checked.

### Only model-checked

* Liveness under fairness (`JobsSettle`, `ByokJobsSettle`, `SpinningEnds`,
  `DeviceSettles`, `FailureFreesClaim`, `DeletionCompletes`,
  `DeletedContentLeaves`, `EveryEventSettles`): out of the prover's reach.
* `DrainedMeansConverged` with a slow lease or a refused read among the failures:
  it holds for the mixes in `Outbox.cfg` and fails for others (`StaleProjection`
  and section 10), so that no theorem without a premise on the mix is true.
* `Examined` and `Exhausted` are definitions over finite sets; that they agree with
  the scan loop for every collection would need induction over data, which the
  installed provers cannot do.

## 10. Where the code and its documents disagree

Two runs are expected to be violated. Each states a sentence of the repository as
a property; TLC's trace is the history that refutes it. `PROJECT.json` quotes
each sentence with its line.

| Run | Sentence | What happens |
|---|---|---|
| `LeaseBlocksDeletion` | a wipe's retry "never gives up on an accepted deletion" (`database/users.py`) | a maintenance job dies with an event leased; the purge defers to the lease, and the only code that would take it over refuses an account under deletion |
| `StaleProjection` | "A retry must therefore reconcile current state instead of stale-settling the original event" (`memory_outbox_worker.py`) | the verification read is refused by Firestore rather than malformed; the retry is no repair, is settled as stale, and a deleted memory stays in the provider |

Further configurations are kept beside these for reading their traces
(`tlc -config SweepTail.cfg MCProcessingAdmission`, and so on). TLC finds each
violated.

| Configuration, module | Property | Sentence | What happens |
|---|---|---|---|
| `DiscardUndone`, `MCFinalizationJobs` | `DiscardIsTerminal` | "Discard is terminal and deliberately cannot be undone by a generic write" (`lifecycle.py`) | the processor's persist merges its own `discarded` over the user's |
| `DeadLetterLeftProcessing`, `MCFinalizationJobs` | `NothingStranded` | a dead letter's row is "not left on `processing`" (`listen_finalization_jobs.mdx`) | a row the user discarded before the last attempt is |
| `FencedAfterDelivery`, `MCFinalizationJobs` | `FencedMeansNoFanout` | fenced is "the terminal no-fanout state" | deliver, crash, discard, retry: fenced after a delivery |
| `SweepTail`, `MCProcessingAdmission` | `SpinningEnds` | "repeated bounded sweeps cover the whole collection" | a page cut short by the limit is taken for the tail |
| `DeadHeartbeat`, `MCProcessingAdmission` | `SweepSparesLive` | a live processor "can never be terminalized" | one failed renewal ends the heartbeat for good |
| `CrashedOpen`, `MCProcessingAdmission` | `SpinningEnds` | a crashed processor's row "becomes a recoverable orphan" | a row that a closed job is bound to never does |
| `RetakenSession`, `MCProcessingAdmission` | `OneSessionProcessor` | "Stable client-generated session ID. When provided, retries return the same conversation ID." (`developer.py`); and the test `test_client_session_id_concurrent_claim_loser_returns_existing_without_processing` | a repeated create finds the claim over fifteen minutes old, deletes the row under a processor that renews its lease, and processes it beside that one |
| `ReopenedSession`, `MCProcessingAdmission` | `OneSessionProcessor` | "concurrent first opens may both observe it before this transaction, but only one can clear it and launch enrichment" (`_reacquire_deferred_processing_txn`) | a create defers, a first open takes the flag, the create's second persist puts it back, a second open is admitted |
| `BudgetSwallowed`, `MCSyncUpload` | `NoAudioLost` | "Pipeline returned normally: completed, or it marked the job failed itself (decode/VAD/DG-budget) — terminal either way" (`routers/sync.py`) | the budget is exhausted, the write that fails the job raises and is swallowed; the run completes ledger and job with nothing transcribed, and the device drops the recording |
| `ClaimStuck`, `MCSyncUpload` | `FailureFreesClaim` | "the client reverts the WAL to 'miss' and re-uploads within ~10 minutes" (`get_sync_job`) | a legacy inline job whose process died is failed and keeps its ledger claim for the whole stale window |
| `PollFailsWorker`, `MCSyncUpload` | `ReadersSpareHolder` | "an active worker can never be failed by a concurrent status poll" (`routers/sync.py`) | a worker that was silent past the threshold, and holds its lock, is |
| `HoldOvertaken`, `MCAccountDeletion` | `HoldExcludesWipe` | "either an active hold is committed first and deletion cannot start, or deletion owns the gate and a later hold placement is rejected" (`legal_holds.py`) | a retry enters the gate of its dead predecessor without renewing its age; the gate no longer blocks a hold |

Variants that a change of a constant shows:

* `skip` among the outcomes of `Cloud`: a paywall or budget skip closes the job
  and leaves the row on `processing`, although the document says of `completed`
  that "the persisted conversation is terminally completed". With a `byok`
  session and no user action, `FencedMeansNoFanout` fails in the abandonment
  sweep, whose comment says that "nothing was ever delivered". With `skip` and no
  fault, `SpinningEnds` fails as in `CrashedOpen`.
* In `AccountDeletion`, the scenarios `{cancel, enqueue}` and `{cancel, ambiguous}`
  break `OneWiper`: the enqueue that failed or whose acknowledgement was lost marks a
  running wipe failed without looking, and the next claim starts another.
* In `MemoryOutbox`, two failures in one behaviour break `DrainedMeansConverged`.
  With a second run, `{crash, read}`: repair mode is read off the last error and
  the last lease, so that a failed load during a repair forgets that one was asked
  for. `{slow, crash}` and `{slow, provider}`: the event of a late write is settled
  by the run that took its lease over, and the late run's own failure is recorded
  nowhere.
* The docstring of `get_sync_job` says that queued jobs are never finalized by a
  read; the code fails a queued Cloud Tasks job that was never started (`Stale`).

## 11. What is not modelled

* Within the modelled components: the meeting-receipt ledger on the job
  documents; OIDC verification of task requests; the operator's manual replay of
  a dead letter (a documented database edit, not code); the soft `deleted` flag
  and the sync-revision branch of the persist, which refuse a write in the same
  way as a missing row; metrics and log records; the search index; a scan whose
  pages interleave with writes.
* The `merging` status, sync ingest and imports do not appear in
  `ProcessingAdmission`: their rows never become admission candidates.
* What the integrations do with a repeated fanout key is theirs to decide. A
  superseded worker may still reach them; the model records the delivery and
  claims nothing about its count.
* In `SyncUpload`: the standby mode of the one-time fence cutover, backfill slots,
  the staged files themselves, fair-use metering (a retry that finds every segment
  transcribed meters no speech), notifications.
* In `AccountDeletion`: what each purge deletes, telemetry, and marks that no path
  writes any more. Machines created during a deletion are among these: provisioning
  is retired (`routers/desktop_agent_vm.py`), `record_late_agent_vm_cleanup` has no
  caller, and the flag is only what an earlier release may have left on a failed
  marker. A provider write that passed its fence before the deletion began
  may land after the purge of derived data; the docstring of
  `external_write_fence` leaves that to the purge's own verification, which looks
  before the write lands. `Erased` therefore excepts derived data.
* In `MemoryOutbox`: barrier events, malformed events, more than one provider per
  event, the identity and ready order of `durable_queue_policy.py`.
* A cutover under which a job whose fanout was once claimed is refused by
  `mark_finalization_fenced` on every delivery: the loop ends with the cutover,
  which no code here bounds; `JobsSettle` excludes a migrating account.
* The components of section 1 that no module names.

## 12. Plan

In order of importance; each item is a component module with its MC module, its
configurations and, where it says so, its proofs.

1. Proofs for the modules there are: done for every safety property the runs
   check. Left: a premise weaker than `Recorded` for `DrainedMeansConverged`, one
   that admits a slow lease alone.
2. **GoWorker**: the three Redis lists, the worker loop and the MySQL status
   writes of `server/`. Small, the production target, and without leases: what a
   crash after the pop, or between the save and the push, leaves behind.
3. **RecordingSession** with **CaptureGroups** and **ConversationMerge**: identity
   across reconnects, tombstones, `merging` and its recovery, composed with
   `ProcessingAdmission` through the row.
4. **FinalizationDecision**: the reducer as a pure module over all phases and
   events, against which `AdmitsRequest` of `FinalizationJobs` is checked.
5. **VectorRepairOutbox** as a second instance of `MemoryOutbox`'s shape.
6. **MeetingReceipts** on top of `FinalizationJobs`.
7. **FirstOpenObligations**, **CandidateOutbox**, **ChatFirstIntents**: token and
   lease fencing of deferred effects.
8. **AccountCutover**, composed with the `migrating` flag of `FinalizationJobs`.
9. **JitBudget**, **WebhookHealth**, **McpOAuth** if room is left.
