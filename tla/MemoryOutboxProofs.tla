--------------------------- MODULE MemoryOutboxProofs ---------------------------
(***************************************************************************)
(* Type correctness of MemoryOutbox and the exclusion of its leases, for   *)
(* every set of maintenance runs, page size, number of attempts and mix    *)
(* of failures; and the convergence of the provider, for every mix in      *)
(* which leases outlive their runs and the memory can be read.             *)
(***************************************************************************)
EXTENDS MemoryOutbox, TLAPS

-----------------------------------------------------------------------------
(* The inductive invariant                                                  *)

\* An event that can still be retried has attempts left.
Budget == \A e \in Revisions : event[e].status # "dead_letter" => event[e].attempts < MaxAttempts

\* There are no events of commits still to come.
Future == \A e \in Revisions : e > item.revision => event[e] = NoEvent

\* A lease that is still to be settled is no newer than its event, and is current
\* only while the event is processing.
Leases ==
    \A w \in Workers : \A l \in Pending(w) :
        /\ 0 < l.epoch /\ l.epoch <= event[l.event].epoch
        /\ event[l.event].epoch = l.epoch => event[l.event].status = "processing"
        /\ l.attempts < MaxAttempts

\* No epoch of an event is given to two leases.
Unique ==
    \A v, w \in Workers : \A k \in Pending(v), l \in Pending(w) :
        k.event = l.event /\ k.epoch = l.epoch => v = w /\ k = l

\* What is being delivered is no longer waiting in the page.
Delivering(w) == worker[w].pc \in {"load", "write", "verify", "settle"}
Taken == \A w \in Workers : Delivering(w) => worker[w].lease \notin worker[w].page

Inv == TypeOK /\ Budget /\ Future /\ Leases /\ Unique /\ Taken

-----------------------------------------------------------------------------
(* Types                                                                    *)

LEMMA BoundsTyped ==
    /\ MaxRevision \in Nat /\ PageLimit \in Nat /\ Rounds \in Nat /\ MaxAttempts \in Nat
    /\ MaxRevision > 0 /\ Rounds > 0 /\ MaxAttempts > 0
  BY BoundsAssumption

LEMMA Constants ==
    /\ NoEvent \in EventType /\ NewEvent \in EventType
    /\ NoLease \in Lease
    /\ Idle \in WorkerType
<1> USE BoundsTyped
<1>0. NoEvent \in EventType
  BY DEF NoEvent, EventType
<1>1. NewEvent \in EventType
  BY <1>0 DEF NewEvent, EventType
<1>2. NoLease \in Lease
  BY DEF NoLease, Lease, Revisions
<1>3. [revision |-> 1, live |-> TRUE] \in ItemType
  BY DEF ItemType, Revisions
<1>4. Idle \in WorkerType
  BY <1>2, <1>3 DEF Idle, WorkerType
<1> QED BY <1>0, <1>1, <1>2, <1>4

LEMMA PendingTyped ==
    ASSUME TypeOK, NEW w \in Workers
    PROVE  Pending(w) \subseteq Lease
<1>1. worker[w].page \subseteq Lease /\ worker[w].lease \in Lease
  BY DEF TypeOK, WorkerType
<1> QED BY <1>1 DEF Pending

\* What an event, a lease and a run are made of.
LEMMA EventFields ==
    ASSUME NEW ev \in EventType
    PROVE  /\ ev.epoch \in Nat /\ ev.attempts \in Nat /\ ev.attempts <= MaxAttempts
           /\ ev.repair \in BOOLEAN /\ ev.ready \in BOOLEAN
  BY BoundsTyped DEF EventType

LEMMA LeaseFields ==
    ASSUME NEW l \in Lease
    PROVE  l.event \in Revisions /\ l.epoch \in Nat /\ l.attempts \in Nat /\ l.repair \in BOOLEAN
  BY BoundsTyped DEF Lease

LEMMA HappensTyped ==
    ASSUME TypeOK, Nothing \/ \E h \in Happenings : Happens(h)
    PROVE  coming' \in SUBSET Happenings
  BY DEF TypeOK, Nothing, Happens

LEMMA InitInv == Init => Inv
<1> SUFFICES ASSUME Init PROVE Inv
  OBVIOUS
<1> USE BoundsTyped, Constants
<1>1. \A w \in Workers : worker[w] = Idle /\ Pending(w) = {}
  BY DEF Init, Pending, Idle
<1>2. \A e \in Revisions : event[e].attempts = 0 /\ (e > 1 => event[e] = NoEvent)
  BY DEF Init, NewEvent, NoEvent, Revisions
<1>3. TypeOK
  <2>1. item \in ItemType
    BY DEF Init, ItemType, Revisions
  <2>2. event \in [Revisions -> EventType]
    BY DEF Init
  <2>3. provider \in 0..MaxRevision /\ coming \in SUBSET Happenings
    BY ScenariosAssumption DEF Init
  <2>4. worker \in [Workers -> WorkerType]
    BY DEF Init
  <2> QED BY <2>1, <2>2, <2>3, <2>4 DEF TypeOK
<1>4. Budget
  BY <1>2 DEF Budget
<1>5. Future
  BY <1>2 DEF Future, Init
<1>6. Leases /\ Unique
  BY <1>1 DEF Leases, Unique
<1>7. Taken
  BY <1>1 DEF Taken, Delivering, Idle
<1> QED BY <1>3, <1>4, <1>5, <1>6, <1>7 DEF Inv

-----------------------------------------------------------------------------
(* Steps that leave the events alone                                        *)

\* A run that takes on no new lease keeps everything about the leases.
LEMMA NoNewLease ==
    ASSUME Inv, UNCHANGED <<event, item>>, \A w \in Workers : Pending(w)' \subseteq Pending(w)
    PROVE  Budget' /\ Future' /\ Leases' /\ Unique'
<1>1. Budget' /\ Future'
  BY DEF Inv, Budget, Future
<1>2. Leases'
  BY DEF Inv, Leases
<1>3. Unique'
  BY DEF Inv, Unique
<1> QED BY <1>1, <1>2, <1>3

\* One run moves to a state in which it has no new lease.
LEMMA RunMoves ==
    ASSUME Inv, NEW w \in Workers, NEW state \in WorkerType, Set(w, state), UNCHANGED <<event, item>>,
           provider' \in 0..MaxRevision, coming' \in SUBSET Happenings,
           state.page \subseteq worker[w].page,
           state.pc \in {"idle", "lease", "next"} \/ (state.lease \in Pending(w) /\ state.lease \notin state.page)
    PROVE  Inv'
<1> USE DEF Inv
<1>1. worker' = [worker EXCEPT ![w] = state] /\ worker \in [Workers -> WorkerType]
  BY DEF Set, TypeOK
<1>2. worker'[w] = state /\ \A v \in Workers \ {w} : worker'[v] = worker[v]
  BY <1>1
<1>3. TypeOK'
  BY <1>1 DEF TypeOK
<1>4. ASSUME NEW v \in Workers PROVE Pending(v)' \subseteq Pending(v)
  BY <1>2 DEF Pending
<1>5. Budget' /\ Future' /\ Leases' /\ Unique'
  BY <1>4, NoNewLease
<1>6. Taken'
  BY <1>2 DEF Taken, Delivering, WorkerType
<1> QED BY <1>3, <1>5, <1>6

\* A delivery under way holds its lease, outside its page.
LEMMA Holds ==
    ASSUME Inv, NEW w \in Workers, Delivering(w)
    PROVE  /\ worker[w] \in WorkerType
           /\ worker[w].lease \in Pending(w) /\ worker[w].lease \notin worker[w].page
  BY DEF Inv, TypeOK, Taken, Delivering, Pending

LEMMA StartInv ==
    ASSUME Inv, NEW w \in Workers, Start(w)
    PROVE  Inv'
<1> DEFINE state == [worker[w] EXCEPT !.pc = "lease"]
<1>1. worker[w] \in WorkerType /\ worker \in [Workers -> WorkerType]
  BY DEF Inv, TypeOK
<1>2. state \in WorkerType /\ state.pc = "lease" /\ state.page = worker[w].page
  BY <1>1 DEF WorkerType
<1>3. Set(w, state)
  BY <1>1 DEF Start, Set
<1>4. UNCHANGED <<event, item>> /\ provider' \in 0..MaxRevision /\ coming' \in SUBSET Happenings
  BY DEF Start, Inv, TypeOK
<1> HIDE DEF state
<1> QED BY <1>2, <1>3, <1>4, RunMoves

LEMMA PickInv ==
    ASSUME Inv, NEW w \in Workers, Pick(w)
    PROVE  Inv'
<1>1. worker[w] \in WorkerType
  BY DEF Inv, TypeOK
<1>2. UNCHANGED <<event, item>> /\ provider' \in 0..MaxRevision /\ coming' \in SUBSET Happenings
  BY DEF Pick, Inv, TypeOK
<1>3. CASE Set(w, Idle)
  <2>1. Idle.pc = "idle" /\ Idle.page \subseteq worker[w].page
    BY DEF Idle
  <2> QED BY <1>2, <1>3, <2>1, Constants, RunMoves
<1>4. ASSUME NEW l \in worker[w].page,
             Set(w, [worker[w] EXCEPT !.pc = "load", !.lease = l, !.page = worker[w].page \ {l}, !.round = 0])
      PROVE  Inv'
  <2> DEFINE state == [worker[w] EXCEPT !.pc = "load", !.lease = l, !.page = worker[w].page \ {l}, !.round = 0]
  <2>0. l \in Lease /\ worker[w].page \ {l} \in SUBSET Lease /\ 0 \in 0..Rounds
    BY <1>1, BoundsTyped DEF WorkerType
  <2>1. /\ state \in WorkerType
        /\ state.lease = l /\ state.page = worker[w].page \ {l}
    BY <1>1, <2>0 DEF WorkerType
  <2>2. l \in Pending(w)
    BY DEF Pending
  <2>3. Set(w, state)
    BY <1>4
  <2> HIDE DEF state
  <2> QED BY <1>2, <2>1, <2>2, <2>3, RunMoves
<1> QED BY <1>3, <1>4 DEF Pick

\* The steps of a delivery keep its lease and its page.
LEMMA DeliveryMoves ==
    ASSUME Inv, NEW w \in Workers, Delivering(w), NEW state \in WorkerType, Set(w, state),
           state.lease = worker[w].lease, state.page = worker[w].page,
           UNCHANGED <<event, item>>, provider' \in 0..MaxRevision, coming' \in SUBSET Happenings
    PROVE  Inv'
  BY Holds, RunMoves

LEMMA SettlingTyped ==
    ASSUME NEW w \in Workers, worker[w] \in WorkerType, NEW outcome \in {"delivered", "failed", "repair"}
    PROVE  /\ Settling(w, outcome) \in WorkerType
           /\ Settling(w, outcome).lease = worker[w].lease /\ Settling(w, outcome).page = worker[w].page
  BY DEF Settling, WorkerType

LEMMA WritingTyped ==
    ASSUME Inv, NEW w \in Workers, NEW round \in 0..Rounds
    PROVE  LET state == [worker[w] EXCEPT !.pc = "write", !.seen = item, !.round = round] IN
           state \in WorkerType /\ state.lease = worker[w].lease /\ state.page = worker[w].page
<1>1. worker[w] \in WorkerType /\ item \in ItemType
  BY DEF Inv, TypeOK
<1> QED BY <1>1 DEF WorkerType

LEMMA LoadInv ==
    ASSUME Inv, NEW w \in Workers, Load(w)
    PROVE  Inv'
<1>1. Delivering(w) /\ worker[w] \in WorkerType
  BY DEF Load, Delivering, Inv, TypeOK
<1>2. UNCHANGED <<event, item>> /\ provider' \in 0..MaxRevision
  BY DEF Load, Inv, TypeOK
<1>3. coming' \in SUBSET Happenings
  BY HappensTyped DEF Load, Happenings, Inv
<1>4. CASE Set(w, Settling(w, "delivered")) \/ Set(w, Settling(w, "failed"))
  BY <1>1, <1>2, <1>3, <1>4, SettlingTyped, DeliveryMoves
<1>5. CASE Set(w, [worker[w] EXCEPT !.pc = "write", !.seen = item, !.round = 1])
  <2>1. 1 \in 0..Rounds
    BY BoundsTyped
  <2> QED BY <1>1, <1>2, <1>3, <1>5, <2>1, WritingTyped, DeliveryMoves
<1> QED BY <1>4, <1>5 DEF Load

LEMMA WriteInv ==
    ASSUME Inv, NEW w \in Workers, Write(w)
    PROVE  Inv'
<1>1. Delivering(w) /\ worker[w] \in WorkerType
  BY DEF Write, Delivering, Inv, TypeOK
<1>2. Desired(worker[w].seen) \in 0..MaxRevision
  BY <1>1, BoundsTyped DEF Desired, WorkerType, ItemType, Revisions
<1>3. UNCHANGED <<event, item>> /\ provider' \in 0..MaxRevision
  BY <1>2, BoundsTyped DEF Write, Inv, TypeOK
<1>4. coming' \in SUBSET Happenings
  BY HappensTyped DEF Write, Happenings, Inv
<1>5. CASE Set(w, Settling(w, "repair"))
  BY <1>1, <1>3, <1>4, <1>5, SettlingTyped, DeliveryMoves
<1>6. CASE Set(w, [worker[w] EXCEPT !.pc = "verify"])
  <2> DEFINE state == [worker[w] EXCEPT !.pc = "verify"]
  <2>1. state \in WorkerType /\ state.lease = worker[w].lease /\ state.page = worker[w].page
    BY <1>1 DEF WorkerType
  <2>2. Set(w, state)
    BY <1>6
  <2> HIDE DEF state
  <2> QED BY <1>1, <1>3, <1>4, <2>1, <2>2, DeliveryMoves
<1> QED BY <1>5, <1>6 DEF Write

LEMMA VerifyInv ==
    ASSUME Inv, NEW w \in Workers, Verify(w)
    PROVE  Inv'
<1>1. Delivering(w) /\ worker[w] \in WorkerType
  BY DEF Verify, Delivering, Inv, TypeOK
<1>2. UNCHANGED <<event, item>> /\ provider' \in 0..MaxRevision
  BY DEF Verify, Inv, TypeOK
<1>3. coming' \in SUBSET Happenings
  BY HappensTyped DEF Verify, Happenings, Inv
<1>4. CASE \E outcome \in {"delivered", "failed", "repair"} : Set(w, Settling(w, outcome))
  BY <1>1, <1>2, <1>3, <1>4, SettlingTyped, DeliveryMoves
<1>5. CASE /\ worker[w].round < Rounds
           /\ Set(w, [worker[w] EXCEPT !.pc = "write", !.seen = item, !.round = worker[w].round + 1])
  <2>1. worker[w].round + 1 \in 0..Rounds
    BY <1>1, <1>5, BoundsTyped DEF WorkerType
  <2> QED BY <1>1, <1>2, <1>3, <1>5, <2>1, WritingTyped, DeliveryMoves
<1> QED BY <1>4, <1>5 DEF Verify

LEMMA CrashInv ==
    ASSUME Inv, NEW w \in Workers, Crash(w)
    PROVE  Inv'
<1>1. Idle.pc = "idle" /\ Idle.page \subseteq worker[w].page
  BY DEF Idle
<1>2. Set(w, Idle) /\ UNCHANGED <<event, item>> /\ provider' \in 0..MaxRevision
  BY DEF Crash, Inv, TypeOK
<1>3. coming' \in SUBSET Happenings
  BY HappensTyped DEF Crash, Happenings, Inv
<1> QED BY <1>1, <1>2, <1>3, Constants, RunMoves

-----------------------------------------------------------------------------
(* Steps that write an event                                                *)

\* An event is rewritten under the same epoch, and no run takes on a lease.
LEMMA EventChanges ==
    ASSUME Inv, NEW e \in Revisions, NEW ev \in EventType, event' = [event EXCEPT ![e] = ev],
           UNCHANGED item, \A w \in Workers : Pending(w)' \subseteq Pending(w),
           event[e].status # "none", ev.epoch = event[e].epoch,
           ev.status # "dead_letter" => ev.attempts < MaxAttempts,
           \A w \in Workers : \A l \in Pending(w)' :
               l.event = e /\ l.epoch = event[e].epoch => ev.status = "processing"
    PROVE  event' \in [Revisions -> EventType] /\ Budget' /\ Future' /\ Leases' /\ Unique'
<1> USE DEF Inv
<1>1. event \in [Revisions -> EventType]
  BY DEF TypeOK
<1>2. event' \in [Revisions -> EventType]
  BY <1>1
<1>3. event'[e] = ev /\ \A d \in Revisions \ {e} : event'[d] = event[d]
  BY <1>1
<1>4. Budget'
  BY <1>3 DEF Budget
<1>5. Future'
  BY <1>3 DEF Future, NoEvent
<1>6. Leases'
  <2> SUFFICES ASSUME NEW w \in Workers, NEW l \in Pending(w)'
               PROVE  /\ 0 < l.epoch /\ l.epoch <= event'[l.event].epoch
                      /\ event'[l.event].epoch = l.epoch => event'[l.event].status = "processing"
                      /\ l.attempts < MaxAttempts
    BY DEF Leases
  <2>1. l \in Pending(w) /\ l.event \in Revisions
    BY PendingTyped, LeaseFields
  <2>2. CASE l.event = e
    BY <1>3, <2>1, <2>2 DEF Leases
  <2>3. CASE l.event # e
    BY <1>3, <2>1, <2>3 DEF Leases
  <2> QED BY <2>2, <2>3
<1>7. Unique'
  BY DEF Unique
<1> QED BY <1>2, <1>4, <1>5, <1>6, <1>7

\* A settlement ends the attempt it was leased for.
LEMMA SettledTyped ==
    ASSUME Inv, NEW l \in Lease, l.attempts < MaxAttempts, NEW outcome \in {"delivered", "failed", "repair"},
           event[l.event].status = "processing"
    PROVE  LET new == Settled(l, outcome) IN
           /\ new \in EventType /\ new.epoch = event[l.event].epoch
           /\ new.status # "dead_letter" => new.attempts < MaxAttempts
<1> DEFINE old == event[l.event]
<1>1. l.event \in Revisions /\ l.attempts + 1 \in 0..MaxAttempts
  BY LeaseFields, BoundsTyped
<1>2. old \in EventType /\ old.attempts < MaxAttempts
  BY <1>1 DEF Inv, TypeOK, Budget
<1>3. CASE outcome = "delivered"
  <2>1. Settled(l, outcome) = [old EXCEPT !.status = "delivered", !.repair = FALSE, !.ready = FALSE]
    BY <1>3 DEF Settled
  <2>2. /\ [old EXCEPT !.status = "delivered", !.repair = FALSE, !.ready = FALSE] \in EventType
        /\ [old EXCEPT !.status = "delivered", !.repair = FALSE, !.ready = FALSE].epoch = old.epoch
        /\ [old EXCEPT !.status = "delivered", !.repair = FALSE, !.ready = FALSE].attempts = old.attempts
    <3> HIDE DEF old
    <3> QED BY <1>2 DEF EventType
  <2> QED BY <1>2, <2>1, <2>2
<1>4. CASE outcome # "delivered"
  <2>1. ASSUME NEW r \in BOOLEAN, NEW status \in {"dead_letter", "retryable_failure"},
               status # "dead_letter" => l.attempts + 1 < MaxAttempts,
               Settled(l, outcome) = [old EXCEPT !.status = status, !.attempts = l.attempts + 1,
                                                 !.repair = r, !.ready = FALSE]
        PROVE  LET new == Settled(l, outcome) IN
               /\ new \in EventType /\ new.epoch = event[l.event].epoch
               /\ new.status # "dead_letter" => new.attempts < MaxAttempts
    <3> DEFINE n == l.attempts + 1
    <3>1. n \in 0..MaxAttempts /\ (status # "dead_letter" => n < MaxAttempts)
      BY <1>1, <2>1
    <3>2. Settled(l, outcome) = [old EXCEPT !.status = status, !.attempts = n, !.repair = r, !.ready = FALSE]
      BY <2>1
    <3> HIDE DEF n
    <3> QED BY <1>2, <3>1, <3>2 DEF EventType
  <2>2. CASE Terminal(l.attempts + 1)
    <3>1. Settled(l, outcome) = [old EXCEPT !.status = "dead_letter", !.attempts = l.attempts + 1,
                                            !.repair = outcome = "repair", !.ready = FALSE]
      BY <1>4, <2>2 DEF Settled
    <3> QED BY <2>1, <3>1
  <2>3. CASE ~Terminal(l.attempts + 1)
    <3>1. l.attempts + 1 < MaxAttempts
      BY <1>1, <2>3, BoundsTyped DEF Terminal
    <3>2. Settled(l, outcome) = [old EXCEPT !.status = "retryable_failure", !.attempts = l.attempts + 1,
                                            !.repair = outcome = "repair", !.ready = FALSE]
      BY <1>4, <2>3 DEF Settled
    <3> QED BY <2>1, <3>1, <3>2
  <2> QED BY <2>2, <2>3
<1> QED BY <1>3, <1>4

LEMMA SettleInv ==
    ASSUME Inv, NEW w \in Workers, Settle(w)
    PROVE  Inv'
<1> DEFINE lease == worker[w].lease
           state == [Idle EXCEPT !.pc = IF worker[w].page = {} THEN "lease" ELSE "next", !.page = worker[w].page]
<1>1. /\ worker[w] \in WorkerType /\ lease \in Pending(w) /\ lease \notin worker[w].page
      /\ worker[w].outcome \in {"delivered", "failed", "repair"}
  <2>1. Delivering(w)
    BY DEF Settle, Delivering
  <2>2. worker[w] \in WorkerType
    BY <2>1, Holds
  <2> QED BY <2>1, <2>2, Holds DEF WorkerType
<1>2. /\ state \in WorkerType /\ state.page = worker[w].page
      /\ state.pc \in {"idle", "lease", "next"}
  <2>1. Idle \in WorkerType /\ worker[w].page \in SUBSET Lease
    BY <1>1, Constants DEF WorkerType
  <2>2. \E pc \in {"lease", "next"} : state = [Idle EXCEPT !.pc = pc, !.page = worker[w].page]
    OBVIOUS
  <2> HIDE DEF state
  <2> QED BY <2>1, <2>2 DEF WorkerType
<1>3. Set(w, state) /\ UNCHANGED <<item, provider>>
  BY DEF Settle
<1>4. coming' \in SUBSET Happenings /\ provider' \in 0..MaxRevision
  <2>1. coming' \in SUBSET Happenings
    BY HappensTyped DEF Settle, Happenings, Inv
  <2> QED BY <2>1, <1>3 DEF Inv, TypeOK
<1> HIDE DEF state
<1>5. CASE UNCHANGED event
  BY <1>2, <1>3, <1>4, <1>5, RunMoves
<1>6. CASE Owned(lease) /\ event' = [event EXCEPT ![lease.event] = Settled(lease, worker[w].outcome)]
  <2> DEFINE new == Settled(lease, worker[w].outcome)
  <2>1. lease \in Lease /\ lease.event \in Revisions /\ lease.attempts < MaxAttempts
    BY <1>1, PendingTyped, LeaseFields DEF Inv, Leases
  <2>2. event[lease.event].status = "processing" /\ event[lease.event].epoch = lease.epoch
    BY <1>6 DEF Owned
  <2>3. /\ new \in EventType /\ new.epoch = event[lease.event].epoch
        /\ new.status # "dead_letter" => new.attempts < MaxAttempts
    BY <1>1, <2>1, <2>2, SettledTyped
  <2>4. worker' = [worker EXCEPT ![w] = state] /\ worker \in [Workers -> WorkerType]
    BY <1>3 DEF Set, Inv, TypeOK
  <2>5. worker'[w] = state /\ \A v \in Workers \ {w} : worker'[v] = worker[v]
    BY <2>4
  <2>6. Pending(w)' = worker[w].page /\ \A v \in Workers \ {w} : Pending(v)' = Pending(v)
    BY <1>2, <2>5 DEF Pending
  <2>8. \A v \in Workers : Pending(v)' \subseteq Pending(v)
    BY <2>6 DEF Pending
  <2>9. \A v \in Workers : \A l \in Pending(v)' : ~(l.event = lease.event /\ l.epoch = event[lease.event].epoch)
    BY <1>1, <2>2, <2>6, <2>8 DEF Inv, Unique
  <2> HIDE DEF new
  <2>10. event' \in [Revisions -> EventType] /\ Budget' /\ Future' /\ Leases' /\ Unique'
    <3>1. event' = [event EXCEPT ![lease.event] = new]
      BY <1>6 DEF new
    <3>2. \A v \in Workers : \A l \in Pending(v)' :
            l.event = lease.event /\ l.epoch = event[lease.event].epoch => new.status = "processing"
      BY <2>9
    <3>3. UNCHANGED item /\ event[lease.event].status # "none"
      BY <1>3, <2>2
    <3> HIDE DEF lease
    <3> QED BY <2>1, <2>3, <2>8, <3>1, <3>2, <3>3, EventChanges
  <2>11. TypeOK'
    BY <1>2, <1>3, <1>4, <2>4, <2>10 DEF Inv, TypeOK
  <2>12. Taken'
    BY <1>2, <2>5 DEF Inv, Taken, Delivering
  <2> QED BY <2>10, <2>11, <2>12 DEF Inv
<1> QED BY <1>5, <1>6 DEF Settle

\* Time passes for an event: only its readiness changes.
LEMMA BecomesReady ==
    ASSUME Inv, NEW e \in Revisions, event[e].status \in {"processing", "retryable_failure"},
           event' = [event EXCEPT ![e].ready = TRUE], UNCHANGED <<item, provider, worker>>,
           coming' \in SUBSET Happenings
    PROVE  Inv'
<1> DEFINE ev == [event[e] EXCEPT !.ready = TRUE]
<1>1. event \in [Revisions -> EventType] /\ event[e] \in EventType
  BY DEF Inv, TypeOK
<1>2. /\ ev \in EventType
      /\ ev.epoch = event[e].epoch /\ ev.status = event[e].status /\ ev.attempts = event[e].attempts
  BY <1>1 DEF EventType
<1>3. event' = [event EXCEPT ![e] = ev]
  BY <1>1
<1>4. \A w \in Workers : Pending(w)' = Pending(w)
  BY DEF Pending
<1>5. ev.status # "dead_letter" => ev.attempts < MaxAttempts
  BY <1>2 DEF Inv, Budget
<1>6. \A w \in Workers : \A l \in Pending(w)' :
        l.event = e /\ l.epoch = event[e].epoch => ev.status = "processing"
  BY <1>2, <1>4 DEF Inv, Leases
<1> HIDE DEF ev
<1>7. event' \in [Revisions -> EventType] /\ Budget' /\ Future' /\ Leases' /\ Unique'
  <2>1. UNCHANGED item /\ event[e].status # "none" /\ \A w \in Workers : Pending(w)' \subseteq Pending(w)
    BY <1>4
  <2> QED BY <1>2, <1>3, <1>5, <1>6, <2>1, EventChanges
<1>8. TypeOK' /\ Taken'
  BY <1>7 DEF Inv, TypeOK, Taken, Delivering
<1> QED BY <1>7, <1>8 DEF Inv

LEMMA LeaseExpiresInv ==
    ASSUME Inv, NEW e \in Revisions, LeaseExpires(e)
    PROVE  Inv'
<1>1. coming' \in SUBSET Happenings
  BY HappensTyped DEF LeaseExpires, Happenings, Inv
<1> QED BY <1>1, BecomesReady DEF LeaseExpires

LEMMA BackoffEndsInv ==
    ASSUME Inv, NEW e \in Revisions, BackoffEnds(e)
    PROVE  Inv'
<1>1. coming' \in SUBSET Happenings
  BY DEF BackoffEnds, Inv, TypeOK
<1> QED BY <1>1, BecomesReady DEF BackoffEnds

\* A commit adds an event that no run can have leased.
LEMMA CommitInv == Inv /\ Commit => Inv'
<1> SUFFICES ASSUME Inv, Commit PROVE Inv'
  OBVIOUS
<1> USE DEF Inv
<1> DEFINE e == item.revision + 1
<1>1. /\ item \in ItemType /\ event \in [Revisions -> EventType]
      /\ item.revision \in Nat /\ e \in Revisions /\ e > item.revision
  BY BoundsTyped DEF TypeOK, Commit, ItemType, Revisions
<1>2. event[e] = NoEvent /\ event[e].epoch = 0
  <2>1. event[e] = NoEvent
    BY <1>1 DEF Future
  <2> QED BY <2>1 DEF NoEvent
<1>3. item' \in ItemType /\ item'.revision = e
  <2>1. CASE item' = [item EXCEPT !.revision = item.revision + 1]
    BY <1>1, <2>1 DEF ItemType
  <2>2. CASE item' = [revision |-> item.revision + 1, live |-> FALSE]
    BY <1>1, <2>2 DEF ItemType
  <2> QED BY <2>1, <2>2 DEF Commit
<1>4. UNCHANGED <<provider, worker>> /\ event' = [event EXCEPT ![e] = NewEvent]
  BY DEF Commit
<1>5. coming' \in SUBSET Happenings
  BY HappensTyped DEF Commit, Happenings
<1>6. event' \in [Revisions -> EventType]
  BY <1>1, <1>4, Constants
<1>7. event'[e] = NewEvent /\ \A d \in Revisions \ {e} : event'[d] = event[d]
  BY <1>1, <1>4
<1>8. \A w \in Workers : Pending(w)' = Pending(w)
  BY <1>4 DEF Pending
<1>9. ASSUME NEW w \in Workers, NEW l \in Pending(w)
      PROVE  l.event \in Revisions /\ l.event # e
  <2>1. l.event \in Revisions /\ l.epoch \in Nat
    BY PendingTyped, LeaseFields
  <2> QED BY <1>2, <2>1 DEF Leases
<1> HIDE DEF e
<1>10. TypeOK'
  BY <1>3, <1>4, <1>5, <1>6 DEF TypeOK
<1>11. Budget'
  BY <1>7, BoundsTyped DEF Budget, NewEvent, NoEvent
<1>12. Future'
  <2>1. \A d \in Revisions : d > e => d > item.revision /\ d # e
    BY <1>1, BoundsTyped DEF Revisions
  <2> QED BY <1>3, <1>7, <2>1 DEF Future
<1>13. Leases'
  BY <1>7, <1>8, <1>9 DEF Leases
<1>14. Unique'
  BY <1>8 DEF Unique
<1>15. Taken'
  BY <1>4 DEF Taken, Delivering
<1> QED BY <1>10, <1>11, <1>12, <1>13, <1>14, <1>15

\* A claim makes every earlier lease of the event an old one.
LEMMA ClaimInv ==
    ASSUME Inv, NEW w \in Workers, NEW e \in Revisions, Claim(w, e)
    PROVE  Inv'
<1> USE DEF Inv
<1> DEFINE lease == [event |-> e, epoch |-> event[e].epoch + 1, attempts |-> event[e].attempts,
                     repair |-> Repairs(e)]
           ev == [event[e] EXCEPT !.status = "processing", !.epoch = event[e].epoch + 1, !.ready = FALSE]
           state == [worker[w] EXCEPT !.page = worker[w].page \union {lease}]
<1>1. /\ event \in [Revisions -> EventType] /\ worker \in [Workers -> WorkerType]
      /\ event[e] \in EventType /\ worker[w] \in WorkerType
  BY DEF TypeOK
<1>2. /\ event[e].epoch \in Nat /\ event[e].epoch + 1 \in Nat
      /\ event[e].attempts \in 0..MaxAttempts /\ Repairs(e) \in BOOLEAN
  BY <1>1 DEF EventType, Repairs
<1>3. event[e].status \in {"pending", "retryable_failure", "processing"} /\ event[e].attempts < MaxAttempts
  BY DEF Claim, Claimable, Budget
<1>4. lease \in Lease /\ lease.event = e /\ lease.epoch = event[e].epoch + 1 /\ lease.attempts < MaxAttempts
  BY <1>2, <1>3 DEF Lease
<1>5. /\ ev \in EventType /\ ev.status = "processing"
      /\ ev.epoch = event[e].epoch + 1 /\ ev.attempts = event[e].attempts
  <2> DEFINE n == event[e].epoch + 1
  <2>1. n \in Nat /\ ev = [event[e] EXCEPT !.status = "processing", !.epoch = n, !.ready = FALSE]
    BY <1>2
  <2> HIDE DEF n, ev
  <2>2. ev \in EventType /\ ev.status = "processing" /\ ev.epoch = n /\ ev.attempts = event[e].attempts
    BY <1>1, <2>1 DEF EventType
  <2> QED BY <2>2 DEF n
<1>6. event' = [event EXCEPT ![e] = ev]
  BY <1>1 DEF Claim
<1>7. worker' = [worker EXCEPT ![w] = state]
  BY <1>1 DEF Claim
<1>8. UNCHANGED <<item, provider, coming>> /\ worker[w].pc = "lease"
  BY DEF Claim
<1> HIDE DEF lease, ev
<1>9. state \in WorkerType /\ state.page = worker[w].page \union {lease} /\ state.pc = "lease"
  BY <1>1, <1>4, <1>8 DEF WorkerType
<1> HIDE DEF state
<1>10. event'[e] = ev /\ \A d \in Revisions \ {e} : event'[d] = event[d]
  BY <1>1, <1>6
<1>11. worker'[w] = state /\ \A v \in Workers \ {w} : worker'[v] = worker[v]
  BY <1>1, <1>7
<1>12. Pending(w)' = Pending(w) \union {lease} /\ \A v \in Workers \ {w} : Pending(v)' = Pending(v)
  BY <1>8, <1>9, <1>11 DEF Pending
<1>13. TypeOK'
  BY <1>1, <1>5, <1>6, <1>7, <1>8, <1>9 DEF TypeOK
<1>14. Budget'
  BY <1>3, <1>5, <1>10 DEF Budget
<1>15. Future'
  BY <1>3, <1>8, <1>10 DEF Future, NoEvent
<1>16. ASSUME NEW v \in Workers, NEW l \in Pending(v)
       PROVE  /\ l \in Lease /\ l.event \in Revisions /\ l.epoch \in Nat
              /\ l.event = e => l.epoch < event[e].epoch + 1
  <2>1. l \in Lease /\ l.event \in Revisions /\ l.epoch \in Nat
    BY PendingTyped, LeaseFields
  <2> QED BY <1>2, <2>1 DEF Leases
<1>17. Leases'
  <2> SUFFICES ASSUME NEW v \in Workers, NEW l \in Pending(v)'
               PROVE  /\ 0 < l.epoch /\ l.epoch <= event'[l.event].epoch
                      /\ event'[l.event].epoch = l.epoch => event'[l.event].status = "processing"
                      /\ l.attempts < MaxAttempts
    BY DEF Leases
  <2>1. CASE l = lease
    BY <1>2, <1>4, <1>5, <1>10, <2>1
  <2>2. CASE l \in Pending(v) /\ l.event = e
    BY <1>2, <1>5, <1>10, <1>16, <2>2 DEF Leases
  <2>3. CASE l \in Pending(v) /\ l.event # e
    BY <1>10, <1>16, <2>3 DEF Leases
  <2> QED BY <1>12, <2>1, <2>2, <2>3
<1>18. Unique'
  <2> SUFFICES ASSUME NEW u \in Workers, NEW v \in Workers, NEW k \in Pending(u)', NEW l \in Pending(v)',
                      k.event = l.event, k.epoch = l.epoch
               PROVE  u = v /\ k = l
    BY DEF Unique
  <2>1. (k \in Pending(u) \/ (u = w /\ k = lease)) /\ (l \in Pending(v) \/ (v = w /\ l = lease))
    BY <1>12
  <2>2. CASE k \in Pending(u) /\ l \in Pending(v)
    BY <2>2 DEF Unique
  <2>3. CASE k \in Pending(u) /\ l = lease
    BY <1>2, <1>4, <1>16, <2>3
  <2>4. CASE l \in Pending(v) /\ k = lease
    BY <1>2, <1>4, <1>16, <2>4
  <2> QED BY <2>1, <2>2, <2>3, <2>4
<1>19. Taken'
  BY <1>9, <1>11 DEF Taken, Delivering
<1> QED BY <1>13, <1>14, <1>15, <1>17, <1>18, <1>19

-----------------------------------------------------------------------------
(* Theorems                                                                 *)

LEMMA StepInv == Inv /\ [Next]_vars => Inv'
<1> SUFFICES ASSUME Inv, [Next]_vars PROVE Inv'
  OBVIOUS
<1>1. CASE Commit
  BY <1>1, CommitInv
<1>2. ASSUME NEW w \in Workers, Start(w) \/ WorkerStep(w) \/ Crash(w) PROVE Inv'
  BY <1>2, StartInv, PickInv, LoadInv, WriteInv, VerifyInv, SettleInv, CrashInv DEF WorkerStep
<1>3. ASSUME NEW w \in Workers, NEW e \in Revisions, Claim(w, e) PROVE Inv'
  BY <1>3, ClaimInv
<1>4. ASSUME NEW e \in Revisions, LeaseExpires(e) \/ BackoffEnds(e) PROVE Inv'
  BY <1>4, LeaseExpiresInv, BackoffEndsInv
<1>5. CASE UNCHANGED vars
  BY <1>5 DEF vars, Inv, TypeOK, Budget, Future, Leases, Unique, Taken, Delivering, Pending
<1> QED BY <1>1, <1>2, <1>3, <1>4, <1>5 DEF Next

\* The type invariant of the outbox.  In particular no settlement ever records
\* more attempts than max_attempts, whatever leases expire and whoever settles.
THEOREM OutboxTypeCorrect == Spec => []TypeOK
<1>1. Inv => TypeOK
  BY DEF Inv
<1> QED BY <1>1, InitInv, StepInv, PTL DEF Spec

\* _ack_event_transaction's comparison of the lease epoch is enough: while a run
\* holds the newest lease of an event, no other run settles that event, however
\* many runs there are and however often leases expire under them.
THEOREM HoldersKeepTheirLeases == Spec => []HolderKeepsLease
<1>1. Inv => HolderKeepsLease
  BY DEF Inv, Leases, HolderKeepsLease
<1> QED BY <1>1, InitInv, StepInv, PTL DEF Spec

-----------------------------------------------------------------------------
(* Convergence                                                              *)

\* No lease expires under its run, and the memory itself can be read.  The
\* provider may fail or answer ambiguously, runs may crash and overlap,
\* acknowledgements may be lost and documents may not parse.
Recorded == \A s \in Scenarios : s \intersect {"slow", "read", "unread"} = {}

Calm == coming \intersect {"slow", "read", "unread"} = {}

\* Every lease still to be settled is the newest one of its event.
Own == \A w \in Workers : \A l \in Pending(w) : event[l.event].epoch = l.epoch /\ ~event[l.event].ready

\* Every failure is one that asks for repair.
RepairOnly == \A w \in Workers : worker[w].pc = "settle" => worker[w].outcome # "failed"

Unheld(e) == \A w \in Workers : \A l \in Pending(w) : l.event # e

\* Who still has to write the memory as it is: the event of its newest commit,
\* an event to be repaired, a lease that will not be skipped, or a delivery
\* whose write is still to come or is known to have been late.
Behind == event[item.revision].status \in {"pending", "retryable_failure", "dead_letter"}
OwedBy(e) ==
    \/ event[e].status = "dead_letter"
    \/ event[e].status = "retryable_failure" /\ event[e].repair
    \/ event[e].status = "processing" /\ Unheld(e)
Waiting(w, l) ==
    /\ l \in worker[w].page \/ (worker[w].pc = "load" /\ l = worker[w].lease)
    /\ l.repair \/ l.event = item.revision
OwedAt(w) ==
    \/ worker[w].pc = "write"
    \/ worker[w].pc = "verify" /\ worker[w].seen # item
    \/ worker[w].pc = "settle" /\ worker[w].outcome # "delivered"

Owed ==
    \/ Behind
    \/ \E e \in Revisions : OwedBy(e)
    \/ \E w \in Workers : \E l \in Pending(w) : Waiting(w, l)
    \/ \E w \in Workers : OwedAt(w)

OwedOrDone == provider = Desired(item) \/ Owed

Converging == Calm /\ Own /\ RepairOnly /\ OwedOrDone

LEMMA CalmStep == Calm /\ [Next]_vars => Calm'
  BY DEF Calm, Next, vars, Commit, Start, WorkerStep, Crash, Claim, LeaseExpires, BackoffEnds, Pick, Load,
         Write, Verify, Settle, Happens, Nothing

\* Two leases of one event are the same one.
LEMMA OneLease ==
    ASSUME Inv, Own, NEW v \in Workers, NEW w \in Workers, NEW k \in Pending(v), NEW l \in Pending(w),
           k.event = l.event
    PROVE  v = w /\ k = l
  BY DEF Inv, Unique, Own

LEMMA HeldIsProcessing ==
    ASSUME Inv, Own, NEW w \in Workers, NEW l \in Pending(w)
    PROVE  /\ l.event \in Revisions /\ event[l.event].status = "processing"
           /\ event[l.event].epoch = l.epoch /\ ~event[l.event].ready
<1>1. l.event \in Revisions
  BY PendingTyped, LeaseFields DEF Inv
<1> QED BY <1>1 DEF Inv, Leases, Own

\* A step of one run that writes no event.  Whatever the run owed, it still
\* owes, or has paid, or has left to an event that nobody holds.
LEMMA RunOwes ==
    ASSUME Inv, Converging, NEW w \in Workers, NEW state \in WorkerType, Set(w, state),
           UNCHANGED <<event, item>>, Pending(w)' \subseteq Pending(w),
           state.pc = "settle" => state.outcome # "failed",
           provider' = provider \/ OwedAt(w),
           \A l \in Pending(w) : Waiting(w, l) =>
               (l \in Pending(w)' /\ Waiting(w, l)') \/ OwedAt(w)' \/ Pending(w)' = {},
           OwedAt(w) => \/ provider' = Desired(item)
                        \/ OwedAt(w)'
                        \/ worker[w].lease \in Pending(w) \ Pending(w)'
    PROVE  Own' /\ RepairOnly' /\ OwedOrDone'
<1> USE DEF Converging
<1>1. worker' = [worker EXCEPT ![w] = state] /\ worker \in [Workers -> WorkerType]
  BY DEF Set, Inv, TypeOK
<1>2. worker'[w] = state /\ \A v \in Workers \ {w} : worker'[v] = worker[v]
  BY <1>1
<1>3. \A v \in Workers \ {w} : Pending(v)' = Pending(v)
  BY <1>2 DEF Pending
<1>4. \A v \in Workers : Pending(v)' \subseteq Pending(v)
  BY <1>3
<1>5. Own'
  BY <1>4 DEF Own
<1>6. RepairOnly'
  BY <1>2 DEF RepairOnly
<1>7. ASSUME NEW e \in Revisions, OwedBy(e) PROVE Owed'
  <2>1. OwedBy(e)'
    BY <1>4, <1>7 DEF OwedBy, Unheld
  <2> QED BY <2>1 DEF Owed
\* A lease that the run lets go leaves its event processing and unheld.
<1>8. ASSUME NEW l \in Pending(w), l \notin Pending(w)' PROVE Owed'
  <2>1. l.event \in Revisions /\ event[l.event].status = "processing"
    BY HeldIsProcessing
  <2>2. ASSUME NEW v \in Workers, NEW k \in Pending(v)' PROVE k.event # l.event
    <3>1. k \in Pending(v)
      BY <1>4, <2>2
    <3> QED BY <1>8, <2>2, <3>1, OneLease
  <2>3. OwedBy(l.event)'
    BY <2>1, <2>2 DEF OwedBy, Unheld
  <2> QED BY <2>1, <2>3 DEF Owed
<1>9. ASSUME provider = Desired(item) /\ provider' = provider PROVE OwedOrDone'
  BY <1>9 DEF OwedOrDone
<1>10. ASSUME Behind PROVE OwedOrDone'
  BY <1>10 DEF Behind, Owed, OwedOrDone
<1>11. ASSUME \E e \in Revisions : OwedBy(e) PROVE OwedOrDone'
  BY <1>7, <1>11 DEF OwedOrDone
<1>12. ASSUME NEW v \in Workers, NEW l \in Pending(v), Waiting(v, l) PROVE Owed'
  <2>1. CASE v # w
    <3>1. l \in Pending(v)' /\ Waiting(v, l)'
      BY <1>2, <1>3, <1>12, <2>1 DEF Waiting
    <3> QED BY <3>1 DEF Owed
  <2>2. CASE v = w
    <3>1. CASE OwedAt(w)'
      BY <3>1 DEF Owed
    <3>2. CASE l \in Pending(w)' /\ Waiting(w, l)'
      BY <3>2 DEF Owed
    <3>3. CASE Pending(w)' = {}
      BY <1>8, <1>12, <2>2, <3>3
    <3> QED BY <1>12, <2>2, <3>1, <3>2, <3>3
  <2> QED BY <2>1, <2>2
<1>13. ASSUME NEW v \in Workers, OwedAt(v) PROVE OwedOrDone'
  <2>1. CASE v # w
    <3>1. OwedAt(v)'
      BY <1>2, <1>13, <2>1 DEF OwedAt
    <3> QED BY <3>1 DEF Owed, OwedOrDone
  <2>2. CASE v = w
    <3>1. CASE OwedAt(w)'
      BY <3>1 DEF Owed, OwedOrDone
    <3>2. CASE provider' = Desired(item)
      BY <3>2 DEF OwedOrDone
    <3>3. CASE worker[w].lease \in Pending(w) \ Pending(w)'
      BY <1>8, <3>3 DEF OwedOrDone
    <3> QED BY <1>13, <2>2, <3>1, <3>2, <3>3
  <2> QED BY <2>1, <2>2
<1>14. OwedOrDone'
  BY <1>9, <1>10, <1>11, <1>12, <1>13 DEF OwedOrDone, Owed
<1> QED BY <1>5, <1>6, <1>14

\* The steps of a delivery hold on to its lease and its page.
LEMMA KeepsPending ==
    ASSUME Inv, NEW w \in Workers, Delivering(w), NEW state \in WorkerType, Set(w, state),
           state.lease = worker[w].lease, state.page = worker[w].page,
           state.pc \in {"load", "write", "verify", "settle"}
    PROVE  worker'[w] = state /\ Pending(w)' = Pending(w)
<1>1. worker'[w] = state
  BY DEF Set, Inv, TypeOK
<1> QED BY <1>1 DEF Pending, Delivering

LEMMA StartOwes ==
    ASSUME Inv, Converging, NEW w \in Workers, Start(w)
    PROVE  Own' /\ RepairOnly' /\ OwedOrDone'
<1> DEFINE state == [worker[w] EXCEPT !.pc = "lease"]
<1>1. worker[w] \in WorkerType /\ worker \in [Workers -> WorkerType] /\ worker[w].pc = "idle"
  BY DEF Inv, TypeOK, Start
<1>2. state \in WorkerType /\ state.pc = "lease" /\ state.page = worker[w].page
  BY <1>1 DEF WorkerType
<1>3. Set(w, state) /\ UNCHANGED <<event, item>> /\ provider' = provider
  BY <1>1 DEF Start, Set
<1> HIDE DEF state
<1>4. worker'[w] = state
  BY <1>1, <1>3 DEF Set
<1>5. Pending(w)' \subseteq Pending(w)
  BY <1>1, <1>2, <1>4 DEF Pending
<1>6. \A l \in Pending(w) : Waiting(w, l) => l \in Pending(w)' /\ Waiting(w, l)'
  BY <1>1, <1>2, <1>3, <1>4 DEF Pending, Waiting
<1>7. ~OwedAt(w)
  BY <1>1 DEF OwedAt
<1> QED BY <1>2, <1>3, <1>5, <1>6, <1>7, RunOwes

LEMMA PickOwes ==
    ASSUME Inv, Converging, NEW w \in Workers, Pick(w)
    PROVE  Own' /\ RepairOnly' /\ OwedOrDone'
<1>1. worker[w] \in WorkerType /\ worker \in [Workers -> WorkerType] /\ worker[w].pc \in {"lease", "next"}
  BY DEF Inv, TypeOK, Pick
<1>2. UNCHANGED <<event, item>> /\ provider' = provider /\ ~OwedAt(w)
  BY <1>1 DEF Pick, OwedAt
<1>3. CASE worker[w].page = {} /\ Set(w, Idle)
  <2>1. worker'[w] = Idle
    BY <1>1, <1>3 DEF Set
  <2>2. Pending(w) = {} /\ Pending(w)' = {} /\ Idle.pc # "settle"
    BY <1>1, <1>3, <2>1 DEF Pending, Idle
  <2> QED BY <1>2, <1>3, <2>2, Constants, RunOwes
<1>4. ASSUME NEW l \in worker[w].page,
             Set(w, [worker[w] EXCEPT !.pc = "load", !.lease = l, !.page = worker[w].page \ {l}, !.round = 0])
      PROVE  Own' /\ RepairOnly' /\ OwedOrDone'
  <2> DEFINE state == [worker[w] EXCEPT !.pc = "load", !.lease = l, !.page = worker[w].page \ {l}, !.round = 0]
  <2>0. l \in Lease /\ worker[w].page \ {l} \in SUBSET Lease /\ 0 \in 0..Rounds
    BY <1>1, BoundsTyped DEF WorkerType
  <2>1. /\ state \in WorkerType /\ state.pc = "load"
        /\ state.lease = l /\ state.page = worker[w].page \ {l}
    BY <1>1, <2>0 DEF WorkerType
  <2>2. Set(w, state)
    BY <1>4
  <2> HIDE DEF state
  <2>3. worker'[w] = state
    BY <1>1, <2>2 DEF Set
  <2>4. Pending(w) = worker[w].page /\ Pending(w)' = worker[w].page
    BY <1>1, <2>1, <2>3 DEF Pending
  <2>5. \A k \in Pending(w) : Waiting(w, k) => k \in Pending(w)' /\ Waiting(w, k)'
    BY <1>1, <1>2, <2>1, <2>3, <2>4 DEF Waiting
  <2> QED BY <1>2, <2>1, <2>2, <2>4, <2>5, RunOwes
<1> QED BY <1>3, <1>4 DEF Pick

LEMMA SettlingSays ==
    ASSUME NEW w \in Workers, worker[w] \in WorkerType, NEW outcome \in {"delivered", "failed", "repair"}
    PROVE  Settling(w, outcome).pc = "settle" /\ Settling(w, outcome).outcome = outcome
  BY DEF Settling, WorkerType

LEMMA WritingSays ==
    ASSUME Inv, NEW w \in Workers, NEW round \in 0..Rounds
    PROVE  [worker[w] EXCEPT !.pc = "write", !.seen = item, !.round = round].pc = "write"
<1>1. worker[w] \in WorkerType
  BY DEF Inv, TypeOK
<1> QED BY <1>1 DEF WorkerType

\* A delivery that goes on to a state in which it owes the write.
LEMMA GoesOnOwing ==
    ASSUME Inv, Converging, NEW w \in Workers, Delivering(w), NEW state \in WorkerType, Set(w, state),
           state.lease = worker[w].lease, state.page = worker[w].page,
           UNCHANGED <<event, item>>, provider' = provider \/ OwedAt(w),
           state.pc = "write" \/ (state.pc = "settle" /\ state.outcome = "repair")
    PROVE  Own' /\ RepairOnly' /\ OwedOrDone'
<1>1. worker'[w] = state /\ Pending(w)' = Pending(w)
  BY KeepsPending
<1>2. OwedAt(w)'
  BY <1>1 DEF OwedAt
<1> QED BY <1>1, <1>2, RunOwes

\* An event is skipped only when its lease asks for no repair and the memory has
\* moved on: such a lease was not waiting to write anything.
LEMMA LoadOwes ==
    ASSUME Inv, Converging, NEW w \in Workers, Load(w)
    PROVE  Own' /\ RepairOnly' /\ OwedOrDone'
<1>1. Delivering(w) /\ worker[w] \in WorkerType /\ worker[w].pc = "load"
  BY DEF Load, Delivering, Inv, TypeOK
<1>2. UNCHANGED <<event, item>> /\ provider' = provider /\ ~OwedAt(w)
  BY <1>1 DEF Load, OwedAt
<1>3. ~Happens("read")
  BY DEF Converging, Calm, Happens
<1>4. CASE /\ item.revision # worker[w].lease.event /\ ~worker[w].lease.repair
           /\ Set(w, Settling(w, "delivered"))
  <2> DEFINE state == Settling(w, "delivered")
  <2>1. /\ state \in WorkerType /\ state.lease = worker[w].lease /\ state.page = worker[w].page
        /\ state.pc = "settle" /\ state.outcome = "delivered"
    BY <1>1, SettlingTyped, SettlingSays
  <2> HIDE DEF state
  <2>2. Set(w, state)
    BY <1>4 DEF state
  <2>3. worker'[w] = state /\ Pending(w)' = Pending(w)
    BY <1>1, <2>1, <2>2, KeepsPending
  <2>4. \A l \in Pending(w) : Waiting(w, l) => l \in Pending(w)' /\ Waiting(w, l)'
    BY <1>2, <1>4, <2>1, <2>3 DEF Waiting
  <2> QED BY <1>2, <2>1, <2>2, <2>3, <2>4, RunOwes
<1>5. CASE Set(w, [worker[w] EXCEPT !.pc = "write", !.seen = item, !.round = 1])
  <2>1. 1 \in 0..Rounds
    BY BoundsTyped
  <2> QED BY <1>1, <1>2, <1>5, <2>1, WritingTyped, WritingSays, GoesOnOwing
<1> QED BY <1>3, <1>4, <1>5 DEF Load

\* A write of the memory as it was loaded pays the debt, unless the memory has
\* changed since: then the check after the write will find it.
LEMMA WriteOwes ==
    ASSUME Inv, Converging, NEW w \in Workers, Write(w)
    PROVE  Own' /\ RepairOnly' /\ OwedOrDone'
<1>1. Delivering(w) /\ worker[w] \in WorkerType /\ worker[w].pc = "write"
  BY DEF Write, Delivering, Inv, TypeOK
<1>2. UNCHANGED <<event, item>> /\ OwedAt(w)
  BY <1>1 DEF Write, OwedAt
<1>3. CASE Set(w, Settling(w, "repair"))
  BY <1>1, <1>2, <1>3, SettlingTyped, SettlingSays, GoesOnOwing
<1>4. CASE provider' = Desired(worker[w].seen) /\ Set(w, [worker[w] EXCEPT !.pc = "verify"])
  <2> DEFINE state == [worker[w] EXCEPT !.pc = "verify"]
  <2>1. /\ state \in WorkerType /\ state.lease = worker[w].lease /\ state.page = worker[w].page
        /\ state.pc = "verify" /\ state.seen = worker[w].seen
    BY <1>1 DEF WorkerType
  <2>2. Set(w, state)
    BY <1>4
  <2> HIDE DEF state
  <2>3. worker'[w] = state /\ Pending(w)' = Pending(w)
    BY <1>1, <2>1, <2>2, KeepsPending
  <2>4. \A l \in Pending(w) : Waiting(w, l) => l \in Pending(w)' /\ Waiting(w, l)'
    BY <1>1, <1>2, <2>1, <2>3 DEF Waiting
  <2>5. provider' = Desired(item) \/ OwedAt(w)'
    BY <1>2, <1>4, <2>1, <2>3 DEF OwedAt
  <2> QED BY <1>2, <2>1, <2>2, <2>3, <2>4, <2>5, RunOwes
<1> QED BY <1>3, <1>4 DEF Write

LEMMA VerifyOwes ==
    ASSUME Inv, Converging, NEW w \in Workers, Verify(w)
    PROVE  Own' /\ RepairOnly' /\ OwedOrDone'
<1>1. Delivering(w) /\ worker[w] \in WorkerType /\ worker[w].pc = "verify"
  BY DEF Verify, Delivering, Inv, TypeOK
<1>2. UNCHANGED <<event, item>> /\ provider' = provider
  BY DEF Verify
<1>3. ~Happens("unread")
  BY DEF Converging, Calm, Happens
<1>4. CASE Verified(w) /\ Set(w, Settling(w, "delivered"))
  <2> DEFINE state == Settling(w, "delivered")
  <2>1. /\ state \in WorkerType /\ state.lease = worker[w].lease /\ state.page = worker[w].page
        /\ state.pc = "settle" /\ state.outcome = "delivered"
    BY <1>1, SettlingTyped, SettlingSays
  <2> HIDE DEF state
  <2>2. Set(w, state)
    BY <1>4 DEF state
  <2>3. worker'[w] = state /\ Pending(w)' = Pending(w)
    BY <1>1, <2>1, <2>2, KeepsPending
  <2>4. \A l \in Pending(w) : Waiting(w, l) => l \in Pending(w)' /\ Waiting(w, l)'
    BY <1>1, <1>2, <2>1, <2>3 DEF Waiting
  <2>5. ~OwedAt(w)
    BY <1>1, <1>4 DEF OwedAt, Verified
  <2> QED BY <1>2, <2>1, <2>2, <2>3, <2>4, <2>5, RunOwes
<1>5. CASE Set(w, Settling(w, "repair"))
  BY <1>1, <1>2, <1>5, SettlingTyped, SettlingSays, GoesOnOwing
<1>6. CASE /\ worker[w].round < Rounds
           /\ Set(w, [worker[w] EXCEPT !.pc = "write", !.seen = item, !.round = worker[w].round + 1])
  <2>1. worker[w].round + 1 \in 0..Rounds
    BY <1>1, <1>6, BoundsTyped DEF WorkerType
  <2> QED BY <1>1, <1>2, <1>6, <2>1, WritingTyped, WritingSays, GoesOnOwing
<1> QED BY <1>3, <1>4, <1>5, <1>6 DEF Verify

\* A run that dies leaves its events processing, to be repaired by whoever takes
\* them over.
LEMMA CrashOwes ==
    ASSUME Inv, Converging, NEW w \in Workers, Crash(w)
    PROVE  Own' /\ RepairOnly' /\ OwedOrDone'
<1>1. Set(w, Idle) /\ UNCHANGED <<event, item>> /\ provider' = provider
  BY DEF Crash
<1>2. worker'[w] = Idle
  BY <1>1 DEF Set, Inv, TypeOK
<1>3. Pending(w)' = {} /\ Idle.pc # "settle"
  BY <1>2 DEF Pending, Idle
<1>4. OwedAt(w) => worker[w].lease \in Pending(w)
  BY DEF OwedAt, Pending
<1> QED BY <1>1, <1>3, <1>4, Constants, RunOwes

\* What a settlement says of its event.
LEMMA SettledSays ==
    ASSUME Inv, NEW l \in Lease, NEW outcome \in {"delivered", "repair"}
    PROVE  LET new == Settled(l, outcome) IN
           /\ outcome = "delivered" => new.status = "delivered"
           /\ outcome = "repair" => \/ new.status = "dead_letter"
                                    \/ new.status = "retryable_failure" /\ new.repair
<1> DEFINE old == event[l.event]
<1>1. old \in EventType
  BY LeaseFields DEF Inv, TypeOK
<1>2. CASE outcome = "delivered"
  <2>1. Settled(l, outcome) = [old EXCEPT !.status = "delivered", !.repair = FALSE, !.ready = FALSE]
    BY <1>2 DEF Settled
  <2> HIDE DEF old
  <2> QED BY <1>1, <1>2, <2>1 DEF EventType
<1>3. CASE outcome = "repair"
  <2> DEFINE n == l.attempts + 1
             status == IF Terminal(n) THEN "dead_letter" ELSE "retryable_failure"
  <2>1. Settled(l, outcome) = [old EXCEPT !.status = status, !.attempts = n, !.repair = TRUE, !.ready = FALSE]
    BY <1>3 DEF Settled
  <2>2. status \in {"dead_letter", "retryable_failure"}
    OBVIOUS
  <2> HIDE DEF old, n, status
  <2> QED BY <1>1, <1>3, <2>1, <2>2 DEF EventType
<1> QED BY <1>2, <1>3

\* A delivery is acknowledged only by a run that owes nothing; every failure
\* leaves an event to be repaired, or a dead letter.
LEMMA SettleOwes ==
    ASSUME Inv, Converging, NEW w \in Workers, Settle(w)
    PROVE  Own' /\ RepairOnly' /\ OwedOrDone'
<1> USE DEF Converging
<1> DEFINE lease == worker[w].lease
           state == [Idle EXCEPT !.pc = IF worker[w].page = {} THEN "lease" ELSE "next", !.page = worker[w].page]
<1>1. /\ worker[w] \in WorkerType /\ lease \in Pending(w) /\ lease \notin worker[w].page
      /\ worker[w].pc = "settle" /\ worker[w].outcome \in {"delivered", "repair"}
  <2>1. Delivering(w) /\ worker[w].pc = "settle"
    BY DEF Settle, Delivering
  <2>2. worker[w] \in WorkerType
    BY <2>1, Holds
  <2> QED BY <2>1, <2>2, Holds DEF WorkerType, RepairOnly
<1>2. /\ state \in WorkerType /\ state.page = worker[w].page
      /\ state.pc \in {"lease", "next"}
  <2>1. Idle \in WorkerType /\ worker[w].page \in SUBSET Lease
    BY <1>1, Constants DEF WorkerType
  <2>2. \E pc \in {"lease", "next"} : state = [Idle EXCEPT !.pc = pc, !.page = worker[w].page]
    OBVIOUS
  <2> HIDE DEF state
  <2> QED BY <2>1, <2>2 DEF WorkerType
<1>3. Set(w, state) /\ UNCHANGED <<item, provider>>
  BY DEF Settle
<1> HIDE DEF state
<1>4. worker'[w] = state /\ \A v \in Workers \ {w} : worker'[v] = worker[v]
  BY <1>3 DEF Set, Inv, TypeOK
<1>5. Pending(w)' = worker[w].page /\ \A v \in Workers \ {w} : Pending(v)' = Pending(v)
  BY <1>2, <1>4 DEF Pending
<1>6. \A v \in Workers : Pending(v)' \subseteq Pending(v)
  BY <1>5 DEF Pending
<1>7. ASSUME NEW l \in Pending(w), Waiting(w, l) PROVE l \in Pending(w)' /\ Waiting(w, l)'
  BY <1>1, <1>2, <1>3, <1>4, <1>5, <1>7 DEF Waiting
<1>8. CASE UNCHANGED event
  BY <1>1, <1>2, <1>3, <1>5, <1>6, <1>7, <1>8, RunOwes
<1>9. CASE event' = [event EXCEPT ![lease.event] = Settled(lease, worker[w].outcome)]
  <2> DEFINE e == lease.event
             new == Settled(lease, worker[w].outcome)
  <2>1. lease \in Lease /\ e \in Revisions /\ event[e].status = "processing"
    BY <1>1, PendingTyped, LeaseFields, HeldIsProcessing DEF Inv
  <2>2. event'[e] = new /\ \A d \in Revisions \ {e} : event'[d] = event[d]
    BY <1>9, <2>1 DEF Inv, TypeOK
  <2>3. /\ worker[w].outcome = "delivered" => new.status = "delivered"
        /\ worker[w].outcome = "repair" =>
             new.status = "dead_letter" \/ (new.status = "retryable_failure" /\ new.repair)
    BY <1>1, <2>1, SettledSays
  <2> HIDE DEF new
  <2>4. ASSUME NEW v \in Workers, NEW l \in Pending(v)' PROVE l \in Pending(v) /\ l.event \in Revisions \ {e}
    <3>1. l \in Pending(v) /\ l.event \in Revisions
      BY <1>6, HeldIsProcessing
    <3>2. ~(v = w /\ l = lease)
      BY <1>1, <1>5
    <3> QED BY <1>1, <3>1, <3>2, OneLease
  <2>5. Own'
    BY <2>2, <2>4 DEF Own
  <2>6. RepairOnly'
    BY <1>2, <1>4 DEF RepairOnly
  <2>7. ASSUME provider = Desired(item) PROVE OwedOrDone'
    BY <1>3, <2>7 DEF OwedOrDone
  <2>8. ASSUME Behind PROVE Owed'
    <3>1. item.revision \in Revisions
      BY DEF Inv, TypeOK, ItemType
    <3>2. item.revision # e
      BY <2>1, <2>8 DEF Behind
    <3>3. Behind'
      BY <1>3, <2>2, <2>8, <3>1, <3>2 DEF Behind
    <3> QED BY <3>3 DEF Owed
  <2>9. ASSUME NEW d \in Revisions, OwedBy(d) PROVE Owed'
    <3>1. d # e
      BY <1>1, <2>1, <2>9 DEF OwedBy, Unheld
    <3>2. OwedBy(d)'
      BY <1>6, <2>2, <2>9, <3>1 DEF OwedBy, Unheld
    <3> QED BY <3>2 DEF Owed
  <2>10. ASSUME NEW v \in Workers, NEW l \in Pending(v), Waiting(v, l) PROVE Owed'
    <3>1. l \in Pending(v)' /\ Waiting(v, l)'
      <4>1. CASE v = w
        BY <1>7, <2>10, <4>1
      <4>2. CASE v # w
        BY <1>3, <1>4, <1>5, <2>10, <4>2 DEF Waiting
      <4> QED BY <4>1, <4>2
    <3> QED BY <3>1 DEF Owed
  <2>11. ASSUME NEW v \in Workers, OwedAt(v) PROVE Owed'
    <3>1. CASE v = w
      <4>1. worker[w].outcome = "repair"
        BY <1>1, <2>11, <3>1 DEF OwedAt
      <4>2. PICK d \in Revisions : d = e
        BY <2>1
      <4>3. OwedBy(d)'
        BY <2>2, <2>3, <4>1, <4>2 DEF OwedBy
      <4> QED BY <4>3 DEF Owed
    <3>2. CASE v # w
      <4>1. OwedAt(v)'
        BY <1>3, <1>4, <2>11, <3>2 DEF OwedAt
      <4> QED BY <4>1 DEF Owed
    <3> QED BY <3>1, <3>2
  <2>12. OwedOrDone'
    BY <2>7, <2>8, <2>9, <2>10, <2>11 DEF OwedOrDone, Owed
  <2> QED BY <2>5, <2>6, <2>12
<1> QED BY <1>8, <1>9 DEF Settle

\* A claim of an event that owes the write takes a lease that will not be
\* skipped.
LEMMA ClaimOwes ==
    ASSUME Inv, Converging, NEW w \in Workers, NEW e \in Revisions, Claim(w, e)
    PROVE  Own' /\ RepairOnly' /\ OwedOrDone'
<1> USE DEF Converging
<1> DEFINE lease == [event |-> e, epoch |-> event[e].epoch + 1, attempts |-> event[e].attempts,
                     repair |-> Repairs(e)]
           ev == [event[e] EXCEPT !.status = "processing", !.epoch = event[e].epoch + 1, !.ready = FALSE]
           state == [worker[w] EXCEPT !.page = worker[w].page \union {lease}]
<1>1. /\ event \in [Revisions -> EventType] /\ worker \in [Workers -> WorkerType]
      /\ event[e] \in EventType /\ worker[w] \in WorkerType
  BY DEF Inv, TypeOK
<1>2. event[e].status \in {"pending", "retryable_failure", "processing"} /\ event[e].ready
  BY DEF Claim, Claimable
<1>3. lease.event = e /\ lease.epoch = event[e].epoch + 1 /\ lease.repair = Repairs(e)
  OBVIOUS
<1>4. ev.status = "processing" /\ ev.epoch = event[e].epoch + 1 /\ ~ev.ready
  BY <1>1 DEF EventType
<1>5. event' = [event EXCEPT ![e] = ev]
  BY <1>1 DEF Claim
<1>6. worker' = [worker EXCEPT ![w] = state]
  BY <1>1 DEF Claim
<1>7. UNCHANGED <<item, provider>> /\ worker[w].pc = "lease"
  BY DEF Claim
<1> HIDE DEF lease, ev
<1>8. state.page = worker[w].page \union {lease} /\ state.pc = "lease"
  BY <1>1, <1>7 DEF WorkerType
<1> HIDE DEF state
<1>9. event'[e] = ev /\ \A d \in Revisions \ {e} : event'[d] = event[d]
  BY <1>1, <1>5
<1>10. worker'[w] = state /\ \A v \in Workers \ {w} : worker'[v] = worker[v]
  BY <1>1, <1>6
<1>11. Pending(w)' = Pending(w) \union {lease} /\ \A v \in Workers \ {w} : Pending(v)' = Pending(v)
  BY <1>7, <1>8, <1>10 DEF Pending
<1>12. ASSUME NEW v \in Workers, NEW l \in Pending(v) PROVE l.event \in Revisions \ {e}
  BY <1>2, HeldIsProcessing
<1>13. Own'
  <2> SUFFICES ASSUME NEW v \in Workers, NEW l \in Pending(v)'
               PROVE  event'[l.event].epoch = l.epoch /\ ~event'[l.event].ready
    BY DEF Own
  <2>1. CASE l = lease
    BY <1>3, <1>4, <1>9, <2>1
  <2>2. CASE l \in Pending(v)
    BY <1>9, <1>12, <2>2 DEF Own
  <2> QED BY <1>11, <2>1, <2>2
<1>14. RepairOnly'
  BY <1>8, <1>10 DEF RepairOnly
<1>15. ASSUME lease.repair \/ e = item.revision PROVE Owed'
  <2>1. PICK l : l = lease
    OBVIOUS
  <2>2. l \in Pending(w)' /\ Waiting(w, l)'
    BY <1>3, <1>7, <1>8, <1>10, <1>11, <1>15, <2>1 DEF Waiting
  <2> QED BY <2>2 DEF Owed
<1>16. ASSUME Behind PROVE Owed'
  <2>1. item.revision \in Revisions
    BY DEF Inv, TypeOK, ItemType
  <2>2. CASE item.revision # e
    <3>1. Behind'
      BY <1>7, <1>9, <1>16, <2>1, <2>2 DEF Behind
    <3> QED BY <3>1 DEF Owed
  <2> QED BY <1>15, <2>2
<1>17. ASSUME NEW d \in Revisions, OwedBy(d) PROVE Owed'
  <2>1. CASE d = e
    <3>1. lease.repair
      BY <1>2, <1>3, <1>17, <2>1 DEF OwedBy, Repairs
    <3> QED BY <1>15, <3>1
  <2>2. CASE d # e
    <3>1. Unheld(d) => Unheld(d)'
      BY <1>3, <1>11, <2>2 DEF Unheld
    <3>2. OwedBy(d)'
      BY <1>9, <1>17, <2>2, <3>1 DEF OwedBy
    <3> QED BY <3>2 DEF Owed
  <2> QED BY <2>1, <2>2
<1>18. ASSUME NEW v \in Workers, NEW l \in Pending(v), Waiting(v, l) PROVE Owed'
  <2>1. l \in Pending(v)' /\ Waiting(v, l)'
    <3>1. CASE v = w
      BY <1>7, <1>8, <1>10, <1>11, <1>18, <3>1 DEF Waiting
    <3>2. CASE v # w
      BY <1>7, <1>10, <1>11, <1>18, <3>2 DEF Waiting
    <3> QED BY <3>1, <3>2
  <2> QED BY <2>1 DEF Owed
<1>19. ASSUME NEW v \in Workers, OwedAt(v) PROVE Owed'
  <2>1. v # w
    BY <1>7, <1>19 DEF OwedAt
  <2>2. OwedAt(v)'
    BY <1>7, <1>10, <1>19, <2>1 DEF OwedAt
  <2> QED BY <2>2 DEF Owed
<1>20. ASSUME provider = Desired(item) PROVE OwedOrDone'
  BY <1>7, <1>20 DEF OwedOrDone
<1>21. OwedOrDone'
  BY <1>16, <1>17, <1>18, <1>19, <1>20 DEF OwedOrDone, Owed
<1> QED BY <1>13, <1>14, <1>21

\* A commit leaves the memory ahead of the provider, and its own event to say so.
LEMMA CommitOwes ==
    ASSUME Inv, Converging, Commit
    PROVE  Own' /\ RepairOnly' /\ OwedOrDone'
<1> USE DEF Converging
<1> DEFINE e == item.revision + 1
<1>1. /\ item \in ItemType /\ event \in [Revisions -> EventType]
      /\ e \in Revisions /\ e > item.revision
  BY BoundsTyped DEF Inv, TypeOK, Commit, ItemType, Revisions
<1>2. item'.revision = e
  <2>1. CASE item' = [item EXCEPT !.revision = item.revision + 1]
    BY <1>1, <2>1 DEF ItemType
  <2>2. CASE item' = [revision |-> item.revision + 1, live |-> FALSE]
    BY <1>1, <2>2 DEF ItemType
  <2> QED BY <2>1, <2>2 DEF Commit
<1>3. UNCHANGED worker /\ event' = [event EXCEPT ![e] = NewEvent]
  BY DEF Commit
<1>4. event'[e].status = "pending" /\ \A d \in Revisions \ {e} : event'[d] = event[d]
  <2>1. event'[e] = NewEvent /\ \A d \in Revisions \ {e} : event'[d] = event[d]
    BY <1>1, <1>3
  <2> QED BY <2>1 DEF NewEvent, NoEvent
<1>5. event[e].status = "none"
  <2>1. event[e] = NoEvent
    BY <1>1 DEF Inv, Future
  <2> QED BY <2>1 DEF NoEvent
<1>6. \A w \in Workers : \A l \in Pending(w) : l.event \in Revisions \ {e}
  BY <1>5, HeldIsProcessing
<1>7. \A w \in Workers : Pending(w)' = Pending(w)
  BY <1>3 DEF Pending
<1>8. Own'
  BY <1>4, <1>6, <1>7 DEF Own
<1>9. RepairOnly'
  BY <1>3 DEF RepairOnly
<1>10. Behind'
  BY <1>2, <1>4 DEF Behind
<1> QED BY <1>8, <1>9, <1>10 DEF OwedOrDone, Owed

\* An event nobody holds becomes ready.
LEMMA ReadyOwes ==
    ASSUME Inv, Converging, NEW e \in Revisions, Unheld(e),
           event' = [event EXCEPT ![e].ready = TRUE], UNCHANGED <<item, provider, worker>>
    PROVE  Own' /\ RepairOnly' /\ OwedOrDone'
<1> USE DEF Converging
<1>1. event \in [Revisions -> EventType] /\ event[e] \in EventType /\ item.revision \in Revisions
  BY DEF Inv, TypeOK, ItemType
<1>2. \A d \in Revisions : event'[d].status = event[d].status /\ event'[d].repair = event[d].repair
  <2>1. event'[e].status = event[e].status /\ event'[e].repair = event[e].repair
    BY <1>1 DEF EventType
  <2>2. \A d \in Revisions \ {e} : event'[d] = event[d]
    BY <1>1
  <2> QED BY <2>1, <2>2
<1>3. \A d \in Revisions \ {e} : event'[d] = event[d]
  BY <1>1
<1>4. \A w \in Workers : Pending(w)' = Pending(w)
  BY DEF Pending
<1>5. Own'
  <2>1. \A w \in Workers : \A l \in Pending(w) : l.event \in Revisions \ {e}
    BY HeldIsProcessing DEF Unheld
  <2> QED BY <1>3, <1>4, <2>1 DEF Own
<1>6. RepairOnly'
  BY DEF RepairOnly
<1>7. Behind => Behind'
  BY <1>1, <1>2 DEF Behind
<1>8. \A d \in Revisions : OwedBy(d) => OwedBy(d)'
  BY <1>2, <1>4 DEF OwedBy, Unheld
<1>9. \A w \in Workers : /\ OwedAt(w) => OwedAt(w)'
                         /\ \A l \in Pending(w) : Waiting(w, l) => Waiting(w, l)'
  BY DEF OwedAt, Waiting
<1>10. Owed => Owed'
  BY <1>4, <1>7, <1>8, <1>9 DEF Owed
<1>11. OwedOrDone'
  BY <1>10 DEF OwedOrDone
<1> QED BY <1>5, <1>6, <1>11

LEMMA LeaseExpiresOwes ==
    ASSUME Inv, Converging, NEW e \in Revisions, LeaseExpires(e)
    PROVE  Own' /\ RepairOnly' /\ OwedOrDone'
<1>1. ~Happens("slow")
  BY DEF Converging, Calm, Happens
<1>2. Unheld(e)
  BY <1>1 DEF LeaseExpires, Unheld
<1> QED BY <1>2, ReadyOwes DEF LeaseExpires

LEMMA BackoffEndsOwes ==
    ASSUME Inv, Converging, NEW e \in Revisions, BackoffEnds(e)
    PROVE  Own' /\ RepairOnly' /\ OwedOrDone'
<1>1. Unheld(e)
  BY HeldIsProcessing DEF BackoffEnds, Unheld, Converging
<1> QED BY <1>1, ReadyOwes DEF BackoffEnds

LEMMA InitConverging == ASSUME Recorded PROVE Init => Converging
<1> SUFFICES ASSUME Init PROVE Converging
  OBVIOUS
<1>1. \A w \in Workers : worker[w].pc = "idle" /\ Pending(w) = {}
  BY DEF Init, Pending, Idle
<1>2. Calm
  BY DEF Init, Calm, Recorded
<1>3. Own /\ RepairOnly
  BY <1>1 DEF Own, RepairOnly
<1>4. Behind
  <2>1. item.revision = 1 /\ 1 \in Revisions
    BY BoundsTyped DEF Init, Revisions
  <2>2. event[1] = NewEvent
    BY <2>1 DEF Init
  <2> QED BY <2>1, <2>2 DEF Behind, NewEvent, NoEvent
<1> QED BY <1>2, <1>3, <1>4 DEF Converging, OwedOrDone, Owed

LEMMA StepConverging == Inv /\ Converging /\ [Next]_vars => Converging'
<1> SUFFICES ASSUME Inv, Converging, [Next]_vars PROVE Converging'
  OBVIOUS
<1>1. Calm'
  BY CalmStep DEF Converging
<1>2. ASSUME Commit PROVE Own' /\ RepairOnly' /\ OwedOrDone'
  BY <1>2, CommitOwes
<1>3. ASSUME NEW w \in Workers, Start(w) \/ WorkerStep(w) \/ Crash(w)
      PROVE  Own' /\ RepairOnly' /\ OwedOrDone'
  BY <1>3, StartOwes, PickOwes, LoadOwes, WriteOwes, VerifyOwes, SettleOwes, CrashOwes DEF WorkerStep
<1>4. ASSUME NEW w \in Workers, NEW e \in Revisions, Claim(w, e)
      PROVE  Own' /\ RepairOnly' /\ OwedOrDone'
  BY <1>4, ClaimOwes
<1>5. ASSUME NEW e \in Revisions, LeaseExpires(e) \/ BackoffEnds(e)
      PROVE  Own' /\ RepairOnly' /\ OwedOrDone'
  BY <1>5, LeaseExpiresOwes, BackoffEndsOwes
<1>6. ASSUME UNCHANGED vars PROVE Own' /\ RepairOnly' /\ OwedOrDone'
  BY <1>6 DEF vars, Converging, Own, RepairOnly, OwedOrDone, Owed, Behind, OwedBy, Unheld, Waiting, OwedAt,
              Pending, Desired
<1> QED BY <1>1, <1>2, <1>3, <1>4, <1>5, <1>6 DEF Next, Converging

\* Once all is delivered and quiet, the provider shows the memory as it is: as
\* long as no lease expires under its run and the memory can be read, a stale
\* provider is always owed a write by an event, a lease or a delivery under way.
THEOREM ProvidersConverge ==
    ASSUME Recorded PROVE Spec => []DrainedMeansConverged
<1>1. Init => Inv /\ Converging
  BY InitInv, InitConverging
<1>2. Inv /\ Converging /\ [Next]_vars => (Inv /\ Converging)'
  BY StepInv, StepConverging
<1>3. Inv /\ Converging => DrainedMeansConverged
  <2> SUFFICES ASSUME Inv, Converging,
                      \A e \in Revisions : event[e].status \in {"none", "delivered"},
                      \A w \in Workers : worker[w].pc = "idle"
               PROVE  provider = Desired(item)
    BY DEF DrainedMeansConverged
  <2>1. ~Behind
    BY DEF Behind, Inv, TypeOK, ItemType
  <2>2. \A e \in Revisions : ~OwedBy(e)
    BY DEF OwedBy
  <2>3. \A w \in Workers : Pending(w) = {}
    BY HeldIsProcessing DEF Converging
  <2>4. \A w \in Workers : ~OwedAt(w)
    BY DEF OwedAt
  <2> QED BY <2>1, <2>2, <2>3, <2>4 DEF Converging, OwedOrDone, Owed
<1> QED BY <1>1, <1>2, <1>3, PTL DEF Spec

=============================================================================
