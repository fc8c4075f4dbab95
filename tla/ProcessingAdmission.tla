-------------------------- MODULE ProcessingAdmission --------------------------
(***************************************************************************)
(* Processing without a durable job: the admission lease and its sweep     *)
(* (backend/utils/conversations/lifecycle.py, the second half of           *)
(* backend/database/conversation_finalization_jobs.py and                  *)
(* reconcile_stale_processing_conversations).                              *)
(*                                                                         *)
(* Four routes run process_conversation inside a request or a background   *)
(* thread: the client finalize, the first open of a deferred row, the      *)
(* create from segments and the merge.  Each admits the row to             *)
(* "processing" with a server stamp, and a daemon heartbeat renews the     *)
(* stamp while the processor lives.  Every pod sweeps: it reads a shared   *)
(* cursor, scans a bounded window of processing rows, advances the cursor  *)
(* by compare-and-swap and closes the rows whose stamp has aged.           *)
(*                                                                         *)
(* Instants are abstracted to the comparisons the code makes.  A stamp is  *)
(* fresh or old, and a scanned stamp either still is the row's stamp       *)
(* (exact) or was replaced since; likewise a cursor generation a pod read  *)
(* either still is current or is not.                                      *)
(***************************************************************************)
EXTENDS Integers, FiniteSets

CONSTANTS
    N,            \* conversations, numbered in document-path order
    Processors,   \* request handlers and background threads
    Pods,         \* processes that run the sweep
    Routes,       \* ways a conversation gets processed
    StartRows,    \* rows the system may start from
    Outcomes,     \* what process_conversation may do
    UserActions,  \* what happens to the rows beside processing
    Faults,       \* crash, a failed renewal, a stalled thread, a dying pod
    Limit,        \* limit of get_stale_processing_orphan_candidates
    MaxScan       \* its max_scan

Rows == 1..N

ASSUME SizesAssumption == N \in Nat /\ Limit \in Nat \ {0} /\ MaxScan \in Nat \ {0}
ASSUME RoutesAssumption == Routes \subseteq {"finalize", "open", "segments", "merge", "job"}
ASSUME StartRowsAssumption ==
    StartRows \subseteq {"absent", "session", "recording", "lazy", "jobLazy", "legacy", "ceiling", "orphan", "hidden"}
ASSUME OutcomesAssumption == Outcomes \subseteq {"persist", "defer", "skip", "error", "late"}
ASSUME EnvironmentAssumption ==
    /\ UserActions \subseteq {"discard", "restore", "retry"}
    /\ Faults \subseteq {"crash", "beat", "stall", "pod"}

VARIABLES
    row,     \* the conversation documents
    proc,    \* the processors at work
    cursor,  \* conversation_recovery_state/stale_processing_sweep: {} or one row
    pod      \* the sweeps in progress

vars == <<row, proc, cursor, pod>>

-----------------------------------------------------------------------------
(* State                                                                    *)

\* stamped: processing_admitted_at is set.  old: the stamp, or the last write
\* of a row without one, is older than the orphan window.  full: the document
\* is at Firestore's size ceiling.  session: the id is the one every create
\* from segments derives from the same client session.  job: the durable job
\* bound to the row.
RowType ==
    [status : {"absent", "in_progress", "processing", "completed"},
     discarded : BOOLEAN, kept : BOOLEAN, deferred : BOOLEAN,
     stamped : BOOLEAN, old : BOOLEAN, full : BOOLEAN, session : BOOLEAN,
     job : {"none", "running", "done"}]

\* hidden, lazy: the result a create from segments holds after its guard.
ProcType ==
    [pc : {"idle", "admitted", "running", "raised", "returned", "retake"}, c : 0..N,
     route : {"none", "finalize", "open", "segments", "merge"}, beat : BOOLEAN,
     hidden : BOOLEAN, lazy : BOOLEAN]

\* stamp: the scanned row had none, has the scanned one still, or a new one.
CandidateType == [c : Rows, stamp : {"none", "exact", "replaced"}]

PodType ==
    [pc : {"idle", "scan", "advance", "sweep"}, from : SUBSET Rows, next : SUBSET Rows,
     current : BOOLEAN, found : SUBSET CandidateType]

TypeOK ==
    /\ row \in [Rows -> RowType]
    /\ proc \in [Processors -> ProcType]
    /\ cursor \in SUBSET Rows
    /\ pod \in [Pods -> PodType]

Absent ==
    [status |-> "absent", discarded |-> FALSE, kept |-> FALSE, deferred |-> FALSE,
     stamped |-> FALSE, old |-> FALSE, full |-> FALSE, session |-> FALSE, job |-> "none"]

\* Rows an earlier release, a job or a crash left behind.
StartRow(kind) ==
    CASE kind = "absent" -> Absent
      [] kind = "session" -> [Absent EXCEPT !.session = TRUE]
      [] kind = "recording" -> [Absent EXCEPT !.status = "in_progress"]
      [] kind = "lazy" -> [Absent EXCEPT !.status = "processing", !.deferred = TRUE, !.stamped = TRUE]
      [] kind = "jobLazy" -> [Absent EXCEPT !.status = "processing", !.deferred = TRUE, !.job = "done"]
      [] kind = "legacy" -> [Absent EXCEPT !.status = "processing", !.old = TRUE]
      [] kind = "ceiling" -> [Absent EXCEPT !.status = "processing", !.full = TRUE]
      [] kind = "orphan" -> [Absent EXCEPT !.status = "processing", !.stamped = TRUE, !.old = TRUE]
      [] kind = "hidden" -> [Absent EXCEPT !.status = "processing", !.stamped = TRUE, !.old = TRUE,
                                           !.discarded = TRUE]

AtWork(pc, c, route) ==
    [pc |-> pc, c |-> c, route |-> route, beat |-> FALSE, hidden |-> FALSE, lazy |-> FALSE]
IdleProc == AtWork("idle", 0, "none")
IdlePod == [pc |-> "idle", from |-> {}, next |-> {}, current |-> FALSE, found |-> {}]

Init ==
    /\ \E kind \in [Rows -> StartRows] : row = [c \in Rows |-> StartRow(kind[c])]
    /\ proc = [p \in Processors |-> IdleProc]
    /\ cursor = {}
    /\ pod = [d \in Pods |-> IdlePod]

Bound(c) == row[c].job # "none"
On(p, c) == proc[p].pc # "idle" /\ proc[p].c = c
\* The compare-and-swap every plain status change goes through.
Claimable(c, expected) == row[c].status = expected /\ ~row[c].discarded
\* A renewal of this row's lease would be written.
Renewable(c) == row[c].status = "processing" /\ ~row[c].discarded
Beating(c) == Renewable(c) /\ \E p \in Processors : On(p, c) /\ proc[p].beat

Stamped(r) == [r EXCEPT !.stamped = TRUE, !.old = FALSE]
\* delete_conversation; the id of a session stays the id of that session.
Gone(r) == [Absent EXCEPT !.session = r.session]
\* A write that leaves the stamp alone still moves update_time.
Written(r) == IF r.stamped THEN r ELSE [r EXCEPT !.old = FALSE]
\* A new stamp: no sweep that scanned the old one still holds it.
Restamp(c) ==
    pod' = [d \in Pods |-> [pod[d] EXCEPT !.found =
               {IF k.c = c /\ k.stamp = "exact" THEN [k EXCEPT !.stamp = "replaced"] ELSE k : k \in @}]]

Begin(p, c, route) ==
    /\ route \in Routes
    /\ proc[p].pc = "idle"
    /\ proc' = [proc EXCEPT ![p] = AtWork("admitted", c, route)]
Finish(p) == proc' = [proc EXCEPT ![p] = IdleProc]

-----------------------------------------------------------------------------
(* Admission                                                                *)

\* admit_processing from POST /v1/conversations: the read and the guards of
\* transition are repeated by the compare-and-swap.
AdmitProcessing(p, c) ==
    /\ Claimable(c, "in_progress")
    /\ Begin(p, c, "finalize")
    /\ row' = [row EXCEPT ![c] = Stamped([@ EXCEPT !.status = "processing"])]
    /\ Restamp(c)
    /\ UNCHANGED cursor

\* Mutant: the ownership flag is read and not cleared by the claim.
SharedReacquire(p, c) ==
    /\ row[c].status \in {"processing", "completed"} /\ ~row[c].discarded /\ row[c].deferred
    /\ row[c].stamped \/ ~row[c].full
    /\ Begin(p, c, "open")
    /\ row' = [row EXCEPT ![c] = Stamped([@ EXCEPT !.status = "processing"])]
    /\ Restamp(c)
    /\ UNCHANGED cursor
\* First open of a deferred row; a stamp the document cannot hold raises and
\* leaves the row as it was.
ReacquireDeferredProcessing(p, c) ==
    /\ row[c].status \in {"processing", "completed"} /\ ~row[c].discarded /\ row[c].deferred
    /\ row[c].stamped \/ ~row[c].full
    /\ Begin(p, c, "open")
    /\ row' = [row EXCEPT ![c] = Stamped([@ EXCEPT !.status = "processing", !.deferred = FALSE])]
    /\ Restamp(c)
    /\ UNCHANGED cursor

\* create_processing_conversation: a create from segments under a session id,
\* or the row of a merge, hidden when all its sources were.
CreateProcessingConversation(p, c, route) ==
    /\ row[c].status = "absent"
    /\ route = IF row[c].session THEN "segments" ELSE "merge"
    /\ Begin(p, c, route)
    /\ \E hidden \in IF route = "merge" THEN BOOLEAN ELSE {FALSE} :
         row' = [row EXCEPT ![c] = Stamped([Gone(@) EXCEPT !.status = "processing", !.discarded = hidden])]
    /\ Restamp(c)
    /\ UNCHANGED cursor

\* A repeated create of a session finds a processing row whose claim is over
\* fifteen minutes old, which any claim may be by then.  It deletes the row
\* whoever works on it, and goes on as if it had found none.
FindStaleClaim(p, c) ==
    /\ "retry" \in UserActions /\ "segments" \in Routes
    /\ row[c].session /\ row[c].status = "processing"
    /\ proc[p].pc = "idle"
    /\ proc' = [proc EXCEPT ![p] = AtWork("retake", c, "segments")]
    /\ UNCHANGED <<row, cursor, pod>>
DeleteStaleClaim(p) ==
    /\ proc[p].pc = "retake"
    /\ row' = [row EXCEPT ![proc[p].c] = Gone(@)]
    /\ Finish(p)
    /\ UNCHANGED <<cursor, pod>>

\* request_finalization on a recording binds a durable job, which later
\* stores its result or defers it to the first open (FinalizationJobs).
BindJob(c) ==
    /\ "job" \in Routes
    /\ row[c].status = "in_progress" /\ ~row[c].discarded
    /\ row' = [row EXCEPT ![c] = Written([@ EXCEPT !.status = "processing", !.job = "running"])]
    /\ UNCHANGED <<proc, cursor, pod>>
JobEnds(c) ==
    /\ row[c].job = "running"
    /\ \E lazy \in BOOLEAN :
         row' = [row EXCEPT ![c] = Written([@ EXCEPT !.job = "done", !.deferred = lazy,
                              !.status = IF lazy THEN "processing" ELSE "completed"])]
    /\ UNCHANGED <<proc, cursor, pod>>

-----------------------------------------------------------------------------
(* Processing under processing_admission_guard                              *)

EnterGuard(p) ==
    /\ proc[p].pc = "admitted"
    /\ proc' = [proc EXCEPT ![p] = [@ EXCEPT !.pc = "running", !.beat = TRUE]]
    /\ UNCHANGED <<row, cursor, pod>>

\* _renew_processing_lease_txn on the heartbeat thread.
RenewProcessingLease(p) ==
    LET c == proc[p].c IN
    /\ proc[p].beat /\ Renewable(c)
    /\ row' = [row EXCEPT ![c] = Stamped(@)]
    /\ Restamp(c)
    /\ UNCHANGED <<proc, cursor>>

\* One renewal that raises ends the heartbeat; the processor goes on.
RenewalFails(p) ==
    /\ "beat" \in Faults
    /\ proc[p].beat /\ Renewable(proc[p].c)
    /\ proc' = [proc EXCEPT ![p] = [@ EXCEPT !.beat = FALSE]]
    /\ UNCHANGED <<row, cursor, pod>>

\* What persist_processed_conversation merges into a row that still exists:
\* every lifecycle field of the payload, save that a restored row stays
\* visible.
Persisted(c, hidden, lazy) ==
    IF row[c].status = "absent" THEN row[c]
    ELSE Written([row[c] EXCEPT !.status = IF lazy THEN "processing" ELSE "completed", !.deferred = lazy,
                                !.discarded = IF row[c].kept THEN FALSE ELSE hidden])

\* process_conversation.  Whether the result is hidden is the verdict of the
\* relevance pass or of an empty title, on any route.  A paywalled or
\* over-budget run returns without a write ("skip"); only the trigger of the
\* segments route may defer.  "late" raises after the persist.
ProcessConversation(p, outcome) ==
    LET c == proc[p].c
        raises == outcome \in {"error", "late"}
        lazy == outcome = "defer"
    IN
    /\ proc[p].pc = "running"
    /\ outcome \in Outcomes
    /\ lazy => proc[p].route = "segments"
    /\ \E hidden \in BOOLEAN :
         /\ row' = IF outcome \in {"persist", "late", "defer"}
                     THEN [row EXCEPT ![c] = Persisted(c, hidden, lazy)] ELSE row
         /\ \/ /\ raises
               /\ proc' = [proc EXCEPT ![p] = [@ EXCEPT !.pc = "raised",
                                         !.beat = proc[p].beat /\ proc[p].route = "finalize"]]
            \/ /\ ~raises /\ proc[p].route = "segments"
               /\ proc' = [proc EXCEPT ![p] = [@ EXCEPT !.pc = "returned", !.beat = FALSE,
                                                         !.hidden = hidden, !.lazy = lazy]]
            \/ /\ ~raises /\ proc[p].route # "segments"
               /\ Finish(p)
    /\ UNCHANGED <<cursor, pod>>

\* The segments route persists what process_conversation returned once more,
\* outside the guard.
PersistAgain(p) ==
    LET c == proc[p].c IN
    /\ proc[p].pc = "returned"
    /\ row' = [row EXCEPT ![c] = Persisted(c, proc[p].hidden, proc[p].lazy)]
    /\ Finish(p)
    /\ UNCHANGED <<cursor, pod>>

\* lifecycle.complete, whose compare-and-swap refuses a discarded row.
Closed(c) ==
    IF Claimable(c, "processing") THEN Written([row[c] EXCEPT !.status = "completed"]) ELSE row[c]

\* A merge that does not reprocess closes its row with complete.
CompleteMerge(p) ==
    LET c == proc[p].c IN
    /\ proc[p].pc = "admitted" /\ proc[p].route = "merge"
    /\ row' = [row EXCEPT ![c] = Closed(c)]
    /\ Finish(p)
    /\ UNCHANGED <<cursor, pod>>

\* What each route does with a processor that raised.
RolledBack(c) ==
    IF Claimable(c, "processing") THEN Written([row[c] EXCEPT !.status = "in_progress"]) ELSE row[c]
Rearmed(c) ==
    IF row[c].status \in {"processing", "completed"} /\ ~row[c].discarded /\ ~row[c].deferred
      THEN Written([row[c] EXCEPT !.status = "completed", !.deferred = TRUE])
      ELSE row[c]

Recover(p) ==
    LET c == proc[p].c IN
    /\ proc[p].pc = "raised"
    /\ row' = [row EXCEPT ![c] = CASE proc[p].route = "finalize" -> RolledBack(c)
                                   [] proc[p].route = "open" -> Rearmed(c)
                                   [] proc[p].route = "merge" -> Closed(c)
                                   [] proc[p].route = "segments" -> Gone(row[c])]
    /\ Finish(p)
    /\ UNCHANGED <<cursor, pod>>

\* The process is gone, with its heartbeat; so is a submit the executor
\* refused, an error before the guard and a recovery that raises.
Crash(p) ==
    /\ "crash" \in Faults
    /\ proc[p].pc # "idle"
    /\ Finish(p)
    /\ UNCHANGED <<row, cursor, pod>>

-----------------------------------------------------------------------------
(* Time and the user                                                        *)

\* A live heartbeat renews well inside the window.  A thread between its
\* admission and its guard is not renewed: it keeps up unless it stalls.
StampAges(c) ==
    /\ row[c].status \in {"processing", "completed"} /\ ~row[c].old
    /\ ~Beating(c)
    /\ "stall" \notin Faults => ~\E p \in Processors : On(p, c) /\ proc[p].pc = "admitted"
    /\ row' = [row EXCEPT ![c] = [@ EXCEPT !.old = TRUE]]
    /\ UNCHANGED <<proc, cursor, pod>>

\* Both write the user's verdict beside the flag, which a full document
\* cannot take.
Discard(c) ==
    /\ "discard" \in UserActions
    /\ row[c].status # "absent" /\ ~row[c].full
    /\ row' = [row EXCEPT ![c] = Written([@ EXCEPT !.discarded = TRUE, !.kept = FALSE])]
    /\ UNCHANGED <<proc, cursor, pod>>

RestoreDiscarded(c) ==
    /\ "restore" \in UserActions
    /\ row[c].status # "absent" /\ ~row[c].full
    /\ row' = [row EXCEPT ![c] = Written([@ EXCEPT !.discarded = FALSE, !.kept = TRUE])]
    /\ UNCHANGED <<proc, cursor, pod>>

-----------------------------------------------------------------------------
(* The sweep                                                                *)

PageSize == IF Limit < 100 THEN Limit ELSE 100

\* A cursor document that is gone restarts the scan at the top.
Window(from) ==
    {c \in Rows : /\ row[c].status = "processing"
                  /\ \A s \in from : row[s].status # "absent" => c > s}

Candidate(c) == ~row[c].deferred /\ ~Bound(c) /\ (row[c].stamped => row[c].old)
CandidatesOf(q) == {c \in q : Candidate(c)}

\* The rows one invocation examines: it stops after MaxScan rows or at the
\* row that fills the limit.
Examined(q) ==
    {c \in q : /\ Cardinality({e \in q : e <= c}) <= MaxScan
               /\ Cardinality(CandidatesOf({e \in q : e < c})) < Limit}

\* Did the scan, page by page, conclude that it reached the tail?  A row past
\* MaxScan in the current page ends it first; a short page ends it as the
\* tail; after a full page it asks for the next one only while both bounds
\* leave room.
MaxScanHit(q) ==
    /\ Cardinality(Examined(q)) = MaxScan
    /\ Cardinality(CandidatesOf(Examined(q))) < Limit
    /\ Cardinality(q) > MaxScan /\ MaxScan % PageSize # 0
ShortPage(q) ==
    LET before == ((Cardinality(Examined(q)) - 1) \div PageSize) * PageSize
    IN  Cardinality(q) - before < PageSize
Exhausted(q) ==
    \/ q = {}
    \/ /\ ~MaxScanHit(q)
       /\ \/ ShortPage(q)
          \/ /\ Examined(q) = q
             /\ Cardinality(CandidatesOf(q)) < Limit /\ Cardinality(q) < MaxScan

LastOf(q) == {c \in q : \A e \in q : e <= c}

\* Mutant: a window that filled the limit is taken for the end of the scan.
EagerNextCursor(q) ==
    IF Exhausted(q) \/ Cardinality(CandidatesOf(Examined(q))) = Limit THEN {} ELSE LastOf(Examined(q))
\* Mutant: the cursor names the row after the last one examined.
OvershotNextCursor(q) == IF Exhausted(q) THEN {} ELSE {c + 1 : c \in LastOf(Examined(q))}
NextCursor(q) == IF Exhausted(q) THEN {} ELSE LastOf(Examined(q))

ReadCursor(d) ==
    /\ pod[d].pc = "idle"
    /\ pod' = [pod EXCEPT ![d] = [@ EXCEPT !.pc = "scan", !.from = cursor, !.current = TRUE]]
    /\ UNCHANGED <<row, proc, cursor>>

GetCandidates(d) ==
    LET q == Window(pod[d].from) IN
    /\ pod[d].pc = "scan"
    /\ pod' = [pod EXCEPT ![d] = [@ EXCEPT !.pc = "advance", !.next = NextCursor(q),
                 !.found = {[c |-> c, stamp |-> IF row[c].stamped THEN "exact" ELSE "none"] :
                              c \in CandidatesOf(Examined(q))}]]
    /\ UNCHANGED <<row, proc, cursor>>

\* The generation moves with every advance, so one pod's success fences the
\* pods that read the cursor before it.
AdvanceCursor(d) ==
    /\ pod[d].pc = "advance"
    /\ cursor' = IF pod[d].current THEN pod[d].next ELSE cursor
    /\ pod' = [e \in Pods |->
                 IF e = d THEN [pod[d] EXCEPT !.pc = "sweep", !.from = {}, !.next = {}, !.current = FALSE]
                 ELSE [pod[e] EXCEPT !.current = IF pod[d].current THEN FALSE ELSE @]]
    /\ UNCHANGED <<row, proc>>

\* Mutant: the terminal write trusts the scan and does not compare the stamp.
SweptUnfenced(k) ==
    LET r == row[k.c] IN
    IF Renewable(k.c) /\ ~r.deferred /\ ~Bound(k.c) /\ r.stamped
      THEN [r EXCEPT !.status = "completed"] ELSE r
\* complete_orphan_conversation
CompletedOrphan(k) ==
    LET r == row[k.c] IN
    IF Renewable(k.c) /\ ~r.deferred /\ ~Bound(k.c) /\ r.stamped /\ k.stamp = "exact"
      THEN [r EXCEPT !.status = "completed"] ELSE r

\* Mutant: a document that cannot take the stamp is left to the next sweep.
RestampedLegacy(c) ==
    IF row[c].status # "processing" \/ row[c].stamped \/ row[c].full THEN row[c] ELSE Stamped(row[c])
\* stamp_processing_admission_if_absent and, for a document that cannot take
\* the stamp, complete_unstampable_orphan_conversation.
MigratedLegacy(c) ==
    LET r == row[c] IN
    IF r.status # "processing" \/ r.stamped THEN r
    ELSE IF ~r.full THEN Stamped(r)
    ELSE IF ~r.discarded /\ ~r.deferred /\ ~Bound(c) /\ r.old
           THEN Written([r EXCEPT !.status = "completed"]) ELSE r

\* One row of the page, in the order of the scan.
SweepCandidate(d, k) ==
    /\ pod[d].pc = "sweep" /\ k \in pod[d].found
    /\ \A o \in pod[d].found : k.c <= o.c
    /\ row' = [row EXCEPT ![k.c] = IF k.stamp = "none" THEN MigratedLegacy(k.c) ELSE CompletedOrphan(k)]
    /\ pod' = [pod EXCEPT ![d] = [@ EXCEPT !.found = pod[d].found \ {k}]]
    /\ UNCHANGED <<proc, cursor>>

EndSweep(d) ==
    /\ pod[d].pc = "sweep" /\ pod[d].found = {}
    /\ pod' = [pod EXCEPT ![d] = IdlePod]
    /\ UNCHANGED <<row, proc, cursor>>

\* The errors a sweep logs and goes on from: a cursor it cannot read (it scans
\* from the top and can save nothing), one it cannot save, a row it cannot
\* write.
SweepFails(d) ==
    /\ "pod" \in Faults
    /\ \/ /\ pod[d].pc = "idle"
          /\ pod' = [pod EXCEPT ![d] = [@ EXCEPT !.pc = "scan"]]
       \/ /\ pod[d].pc = "advance"
          /\ pod' = [pod EXCEPT ![d] = [@ EXCEPT !.pc = "sweep", !.from = {}, !.next = {}, !.current = FALSE]]
       \/ /\ pod[d].pc = "sweep"
          /\ \E k \in pod[d].found :
               /\ \A o \in pod[d].found : k.c <= o.c
               /\ pod' = [pod EXCEPT ![d] = [@ EXCEPT !.found = pod[d].found \ {k}]]
    /\ UNCHANGED <<row, proc, cursor>>

\* The process is gone, or its scan raised.
PodDies(d) ==
    /\ "pod" \in Faults
    /\ pod[d].pc # "idle"
    /\ pod' = [pod EXCEPT ![d] = IdlePod]
    /\ UNCHANGED <<row, proc, cursor>>

-----------------------------------------------------------------------------
(* Specification                                                            *)

Admission(p) ==
    \E c \in Rows :
      \/ AdmitProcessing(p, c)
      \/ ReacquireDeferredProcessing(p, c)
      \/ \E route \in {"segments", "merge"} : CreateProcessingConversation(p, c, route)
      \/ FindStaleClaim(p, c)

ProcessorStep(p) ==
    \/ EnterGuard(p)
    \/ \E outcome \in Outcomes : ProcessConversation(p, outcome)
    \/ PersistAgain(p)
    \/ CompleteMerge(p)
    \/ Recover(p)
    \/ DeleteStaleClaim(p)

SweepStep(d) ==
    \/ ReadCursor(d)
    \/ GetCandidates(d)
    \/ AdvanceCursor(d)
    \/ \E k \in pod[d].found : SweepCandidate(d, k)
    \/ EndSweep(d)

Next ==
    \/ \E p \in Processors :
         Admission(p) \/ ProcessorStep(p) \/ RenewProcessingLease(p) \/ RenewalFails(p) \/ Crash(p)
    \/ \E c \in Rows : BindJob(c) \/ JobEnds(c) \/ StampAges(c) \/ Discard(c) \/ RestoreDiscarded(c)
    \/ \E d \in Pods : SweepStep(d) \/ SweepFails(d) \/ PodDies(d)

Spec == Init /\ [][Next]_vars

\* Processors that do not crash come to their end, jobs end (FinalizationJobs),
\* time passes, and every pod sweeps again every five minutes.
Fairness ==
    /\ \A p \in Processors : WF_vars(ProcessorStep(p))
    /\ \A c \in Rows : WF_vars(JobEnds(c)) /\ WF_vars(StampAges(c))
    /\ \A d \in Pods : WF_vars(SweepStep(d))
FairSpec == Spec /\ Fairness

-----------------------------------------------------------------------------
(* Properties                                                               *)

\* A conversation is never processed by two processors at once: the
\* in_progress status, the deferred flag and the absence of the document are
\* each a token that admission takes, and the rollback, the re-arming and the
\* delete give it back only when the processor that took it has ended.  The
\* row of a client session keeps this only without what two lines of the
\* segments route do to it: a repeated create deletes it under its processor
\* (_is_stale_from_segments_claim), and a second persist puts the flag back
\* that a first open has taken.
Exclusive(c) == row[c].session => "retry" \notin UserActions /\ "defer" \notin Outcomes
OneProcessor ==
    \A c \in Rows : Exclusive(c) =>
      \A p, q \in Processors : On(p, c) /\ On(q, c) => p = q

\* The sweep never closes a row whose processor still renews its lease, nor
\* one that a durable job owns, however old the scan it acts on.
SweepSparesOwners ==
    [][\A c \in Rows :
         row[c].status = "processing" /\ row'[c].status = "completed" /\ pod' # pod
            => ~Beating(c) /\ ~Bound(c)]_vars

\* A row that is visibly "processing", awaiting no first open and no running
\* job.
Spinning(c) == row[c].status = "processing" /\ ~row[c].deferred /\ ~row[c].discarded /\ row[c].job # "running"

\* Every spinning row is resolved: by its processor, by that processor's
\* recovery or by the sweep, whatever crashed, and wherever the row stands in
\* the collection the bounded windows rotate over.
SpinningEnds == \A c \in Rows : Spinning(c) ~> ~Spinning(c)

\* The sweep never closes a row whose processor is alive
\* ("can never be terminalized", processing_admission_guard).
SweepSparesLive ==
    [][\A c \in Rows :
         row[c].status = "processing" /\ row'[c].status = "completed" /\ pod' # pod
            => ~\E p \in Processors : On(p, c)]_vars

\* A create from segments under one session id is processed once at a time:
\* no two processors of a row are between their admission and their result.
OneSessionProcessor ==
    \A c \in Rows : \A p, q \in Processors :
      /\ On(p, c) /\ proc[p].pc \in {"admitted", "running"}
      /\ On(q, c) /\ proc[q].pc \in {"admitted", "running"}
      => p = q
=============================================================================
