------------------------------ MODULE MemoryOutbox ------------------------------
(***************************************************************************)
(* The outbox that keeps search providers in step with a canonical memory  *)
(* (backend/database/memory_outbox_worker.py, drained by                   *)
(* utils/memory/short_term_promotion.py).                                  *)
(*                                                                         *)
(* Every commit to a memory writes an event in the same transaction.  A    *)
(* maintenance run leases a page of due events and takes them one by one:  *)
(* it loads the memory, skips an event the memory has moved on from,       *)
(* writes the memory's CURRENT state to the provider, loads it again, and  *)
(* repeats while it keeps changing.  The provider offers no compare-and-   *)
(* set, so a late write can undo a newer one; a failed or abandoned        *)
(* delivery is therefore taken up in repair mode, in which an event is     *)
(* never skipped.                                                          *)
(*                                                                         *)
(* The model is of one memory and one provider; its revision stands for    *)
(* every field of the fence that deliveries compare.                       *)
(***************************************************************************)
EXTENDS Naturals, FiniteSets

CONSTANTS
    Workers,     \* maintenance runs
    MaxRevision, \* how often the memory is committed
    PageLimit,   \* CanonicalMemoryOutboxWorkerConfig.limit
    Rounds,      \* _PROVIDER_CONVERGENCE_ATTEMPTS
    MaxAttempts, \* CanonicalMemoryOutboxWorkerConfig.max_attempts
    Scenarios    \* what may happen, in sets considered together

\* Each at most once, but for "second", a second maintenance run beside the
\* first.  "slow" is a lease that expires under its worker.
Happenings ==
    {"edit", "erase", "second", "slow", "crash", "read", "unread", "malformed", "provider", "ambiguous", "ack"}

ASSUME BoundsAssumption ==
    /\ MaxRevision \in Nat \ {0} /\ PageLimit \in Nat \ {0}
    /\ Rounds \in Nat \ {0} /\ MaxAttempts \in Nat \ {0}
ASSUME ScenariosAssumption == Scenarios \subseteq SUBSET Happenings

VARIABLES
    item,     \* the memory: its revision, and whether it may be projected
    event,    \* memory_outbox, one event for each revision
    provider, \* the revision the provider shows, 0 for none
    worker,
    coming    \* what may still happen

vars == <<item, event, provider, worker, coming>>

Revisions == 1..MaxRevision

-----------------------------------------------------------------------------
(* State                                                                    *)

ItemType == [revision : Revisions, live : BOOLEAN]

\* ready: available_at has come, or the lease has expired.  repair: the last
\* error is one of _PROVIDER_REPAIR_REQUIRED_ERROR_CODES.
EventType ==
    [status : {"none", "pending", "processing", "retryable_failure", "delivered", "dead_letter"},
     epoch : Nat, attempts : 0..MaxAttempts, repair : BOOLEAN, ready : BOOLEAN]

\* LeasedMemoryOutboxEvent: the epoch, and the event as it was before the claim.
Lease == [event : Revisions, epoch : Nat, attempts : 0..MaxAttempts, repair : BOOLEAN]

\* outcome: how the event is to be settled.
WorkerType ==
    [pc : {"idle", "lease", "next", "load", "write", "verify", "settle"}, page : SUBSET Lease, lease : Lease,
     seen : ItemType, round : 0..Rounds, outcome : {"delivered", "failed", "repair"}]

TypeOK ==
    /\ item \in ItemType
    /\ event \in [Revisions -> EventType]
    /\ provider \in 0..MaxRevision
    /\ worker \in [Workers -> WorkerType]
    /\ coming \in SUBSET Happenings

NoEvent == [status |-> "none", epoch |-> 0, attempts |-> 0, repair |-> FALSE, ready |-> FALSE]
NewEvent == [NoEvent EXCEPT !.status = "pending", !.ready = TRUE]
NoLease == [event |-> 1, epoch |-> 0, attempts |-> 0, repair |-> FALSE]
Idle == [pc |-> "idle", page |-> {}, lease |-> NoLease, seen |-> [revision |-> 1, live |-> TRUE],
         round |-> 0, outcome |-> "delivered"]

Init ==
    /\ item = [revision |-> 1, live |-> TRUE]
    /\ event = [e \in Revisions |-> IF e = 1 THEN NewEvent ELSE NoEvent]
    /\ provider = 0
    /\ worker = [w \in Workers |-> Idle]
    /\ coming \in Scenarios

Happens(h) == h \in coming /\ coming' = coming \ {h}
Nothing == coming' = coming

-----------------------------------------------------------------------------
(* Commits                                                                  *)

\* A commit, or a tombstone, writes the item and its event in one transaction.
Commit ==
    /\ item.revision < MaxRevision /\ item.live
    /\ \/ Happens("edit") /\ item' = [item EXCEPT !.revision = @ + 1]
       \/ Happens("erase") /\ item' = [revision |-> item.revision + 1, live |-> FALSE]
    /\ event' = [event EXCEPT ![item.revision + 1] = NewEvent]
    /\ UNCHANGED <<provider, worker>>

-----------------------------------------------------------------------------
(* Leasing                                                                  *)

\* Mutant: a lease is never taken over.
ClaimableIfDue(e) == event[e].status \in {"pending", "retryable_failure"} /\ event[e].ready

\* _is_claimable
Claimable(e) == event[e].status \in {"pending", "retryable_failure", "processing"} /\ event[e].ready

Start(w) ==
    /\ worker[w].pc = "idle"
    /\ "second" \in coming \/ \A v \in Workers : worker[v].pc = "idle"
    /\ \E e \in Revisions : Claimable(e)
    /\ worker' = [worker EXCEPT ![w].pc = "lease"]
    /\ UNCHANGED <<item, event, provider, coming>>

\* Mutant: only a recorded error asks for repair.
RepairsRecorded(e) == event[e].repair

\* repair_authoritative_state, of the event as the claim found it
Repairs(e) == event[e].repair \/ event[e].status = "processing"

\* _claim_event_transaction
Claim(w, e) ==
    LET lease == [event |-> e, epoch |-> event[e].epoch + 1, attempts |-> event[e].attempts,
                  repair |-> Repairs(e)]
    IN
    /\ worker[w].pc = "lease" /\ Cardinality(worker[w].page) < PageLimit
    /\ Claimable(e)
    /\ event' = [event EXCEPT ![e].status = "processing", ![e].epoch = lease.epoch, ![e].ready = FALSE]
    /\ worker' = [worker EXCEPT ![w].page = @ \union {lease}]
    /\ UNCHANGED <<item, provider, coming>>

-----------------------------------------------------------------------------
(* Delivery                                                                 *)

Desired(i) == IF i.live THEN i.revision ELSE 0
Settling(w, outcome) == [worker[w] EXCEPT !.pc = "settle", !.outcome = outcome]
Set(w, state) == worker' = [worker EXCEPT ![w] = state]

\* The next lease of the page, or the end of the run.  A page is worked off
\* before another is leased.
Pick(w) ==
    /\ worker[w].pc \in {"lease", "next"}
    /\ \/ worker[w].page = {} /\ Set(w, Idle)
       \/ \E l \in worker[w].page :
            Set(w, [worker[w] EXCEPT !.pc = "load", !.lease = l, !.page = @ \ {l}, !.round = 0])
    /\ UNCHANGED <<item, event, provider, coming>>

\* An event the memory has moved on from is settled without a write.
Load(w) ==
    LET lease == worker[w].lease
        stale == item.revision # lease.event /\ ~lease.repair
    IN
    /\ worker[w].pc = "load"
    /\ \/ stale /\ Set(w, Settling(w, "delivered")) /\ Nothing
       \/ /\ ~stale /\ Nothing
          /\ Set(w, [worker[w] EXCEPT !.pc = "write", !.seen = item, !.round = 1])
       \/ Happens("read") /\ Set(w, Settling(w, "failed"))
    /\ UNCHANGED <<item, event, provider>>

\* _perform_authoritative_side_effect.  A call that failed may have had its
\* effect, or the first half of it: an upsert deletes first.
Write(w) ==
    LET desired == Desired(worker[w].seen) IN
    /\ worker[w].pc = "write"
    /\ \/ provider' = desired /\ Set(w, [worker[w] EXCEPT !.pc = "verify"]) /\ Nothing
       \/ Happens("provider") /\ Set(w, Settling(w, "repair")) /\ UNCHANGED provider
       \/ Happens("ambiguous") /\ Set(w, Settling(w, "repair")) /\ provider' \in {0, desired}
    /\ UNCHANGED <<item, event>>

\* The fence loaded after the write is the one loaded before it.
Verified(w) == item = worker[w].seen

\* The second half of a round.  A document that does not parse is a failure that
\* asks for repair; a read that the database refuses is any failure.
Verify(w) ==
    /\ worker[w].pc = "verify"
    /\ \/ Verified(w) /\ Set(w, Settling(w, "delivered")) /\ Nothing
       \/ /\ ~Verified(w) /\ worker[w].round < Rounds /\ Nothing
          /\ Set(w, [worker[w] EXCEPT !.pc = "write", !.seen = item, !.round = @ + 1])
       \/ ~Verified(w) /\ worker[w].round = Rounds /\ Set(w, Settling(w, "repair")) /\ Nothing
       \/ Happens("malformed") /\ Set(w, Settling(w, "repair"))
       \/ Happens("unread") /\ Set(w, Settling(w, "failed"))
    /\ UNCHANGED <<item, event, provider>>

\* Mutant: any lease of the event will do.
OwnedByAnyone(lease) == event[lease.event].status = "processing"

\* _ack_event_transaction
Owned(lease) == event[lease.event].status = "processing" /\ event[lease.event].epoch = lease.epoch

\* Mutant: a failure is terminal only after one attempt more.
TerminalLater(attempts) == attempts > MaxAttempts

\* decide_attempt
Terminal(attempts) == attempts >= MaxAttempts

\* What is acknowledged: the delivery, or _settle_failure's retry or dead letter
Settled(lease, outcome) ==
    LET attempts == lease.attempts + 1
        old == event[lease.event]
    IN
    IF outcome = "delivered" THEN [old EXCEPT !.status = "delivered", !.repair = FALSE, !.ready = FALSE]
    ELSE [old EXCEPT !.status = IF Terminal(attempts) THEN "dead_letter" ELSE "retryable_failure",
                     !.attempts = attempts, !.repair = outcome = "repair", !.ready = FALSE]

\* An acknowledgement that is refused, or fails, changes nothing; the run goes on
\* to its next lease.
Settle(w) ==
    LET lease == worker[w].lease IN
    /\ worker[w].pc = "settle"
    /\ \/ /\ event' = IF Owned(lease)
                      THEN [event EXCEPT ![lease.event] = Settled(lease, worker[w].outcome)]
                      ELSE event
          /\ Nothing
       \/ Happens("ack") /\ UNCHANGED event
    /\ Set(w, [Idle EXCEPT !.pc = IF worker[w].page = {} THEN "lease" ELSE "next", !.page = worker[w].page])
    /\ UNCHANGED <<item, provider>>

Crash(w) ==
    /\ worker[w].pc # "idle" /\ Happens("crash")
    /\ Set(w, Idle)
    /\ UNCHANGED <<item, event, provider>>

-----------------------------------------------------------------------------
(* Time                                                                     *)

\* The leases a worker still has to settle
Pending(w) ==
    worker[w].page \union (IF worker[w].pc \in {"idle", "lease", "next"} THEN {} ELSE {worker[w].lease})

\* A drain passes one clock reading to all its ticks, so that even a lease just
\* taken may be past its end for another run.
LeaseExpires(e) ==
    /\ event[e].status = "processing" /\ ~event[e].ready
    /\ \/ Happens("slow")
       \/ (\A w \in Workers : \A l \in Pending(w) : l.event # e) /\ Nothing
    /\ event' = [event EXCEPT ![e].ready = TRUE]
    /\ UNCHANGED <<item, provider, worker>>

\* available_at of a retry comes.
BackoffEnds(e) ==
    /\ event[e].status = "retryable_failure" /\ ~event[e].ready
    /\ event' = [event EXCEPT ![e].ready = TRUE]
    /\ UNCHANGED <<item, provider, worker, coming>>

-----------------------------------------------------------------------------
(* Specification                                                            *)

WorkerStep(w) == Pick(w) \/ Load(w) \/ Write(w) \/ Verify(w) \/ Settle(w)

Next ==
    \/ Commit
    \/ \E w \in Workers : Start(w) \/ WorkerStep(w) \/ Crash(w)
    \/ \E w \in Workers, e \in Revisions : Claim(w, e)
    \/ \E e \in Revisions : LeaseExpires(e) \/ BackoffEnds(e)

Spec == Init /\ [][Next]_vars

\* Maintenance keeps coming back, claims before it delivers, and a run that
\* started goes on; time passes.
FairSpec ==
    /\ Spec
    /\ WF_vars(\E w \in Workers : Start(w))
    /\ \A w \in Workers : WF_vars(WorkerStep(w)) /\ SF_vars(\E e \in Revisions : Claim(w, e))
    /\ \A e \in Revisions : WF_vars(LeaseExpires(e)) /\ WF_vars(BackoffEnds(e))

-----------------------------------------------------------------------------
(* Properties                                                               *)

DeadLetters == \E e \in Revisions : event[e].status = "dead_letter"

\* Once every event is delivered and no run is under way, the provider shows the
\* memory as it is: no older text, and nothing of a memory that was deleted.
DrainedMeansConverged ==
    /\ \A e \in Revisions : event[e].status \in {"none", "delivered"}
    /\ \A w \in Workers : worker[w].pc = "idle"
    => provider = Desired(item)

\* An event that a worker is delivering under its newest lease stays leased: no
\* run whose lease was taken over settles it under the worker's hands.
HolderKeepsLease ==
    \A w \in Workers : \A l \in Pending(w) :
        event[l.event].epoch = l.epoch => event[l.event].status = "processing"

\* A deleted memory leaves the provider and never comes back, unless an event was
\* given up.
DeletedContentLeaves == ~item.live ~> [](provider = 0 \/ DeadLetters)

\* Every event is settled in the end.
EveryEventSettles ==
    \A e \in Revisions : event[e].status # "none" ~> event[e].status \in {"delivered", "dead_letter"}
=============================================================================
