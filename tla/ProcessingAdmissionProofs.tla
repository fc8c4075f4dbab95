----------------------- MODULE ProcessingAdmissionProofs -----------------------
(***************************************************************************)
(* Proofs about ProcessingAdmission, for every number of conversations,    *)
(* every set of processors and pods and every bound on the scan.           *)
(***************************************************************************)
EXTENDS ProcessingAdmission, TLAPS

-----------------------------------------------------------------------------
(* The writes                                                               *)

LEMMA StartRowType ==
    ASSUME NEW kind \in StartRows
    PROVE  /\ StartRow(kind) \in RowType
           /\ StartRow(kind).job # "running"
           /\ StartRow(kind).status = "in_progress" => ~StartRow(kind).deferred /\ ~StartRow(kind).session
  BY StartRowsAssumption DEF StartRow, Absent, RowType

LEMMA GoneType ==
    ASSUME NEW r \in RowType
    PROVE  /\ Gone(r) \in RowType /\ Gone(r).status = "absent" /\ Gone(r).job = "none"
           /\ Gone(r).session = r.session /\ Gone(r).deferred = FALSE
  BY DEF Gone, Absent, RowType

LEMMA StampedWrite ==
    ASSUME NEW r \in RowType
    PROVE  /\ Stamped(r) \in RowType
           /\ Stamped(r).status = r.status /\ Stamped(r).deferred = r.deferred
           /\ Stamped(r).job = r.job /\ Stamped(r).discarded = r.discarded
           /\ Stamped(r).session = r.session /\ Stamped(r).old = FALSE
  BY DEF Stamped, RowType

LEMMA WrittenWrite ==
    ASSUME NEW r \in RowType
    PROVE  /\ Written(r) \in RowType
           /\ Written(r).status = r.status /\ Written(r).deferred = r.deferred
           /\ Written(r).job = r.job /\ Written(r).discarded = r.discarded
           /\ Written(r).session = r.session /\ Written(r).stamped = r.stamped
           /\ Written(r).old => r.old
           /\ r.stamped => Written(r).old = r.old
  BY DEF Written, RowType

LEMMA RestampWrite ==
    ASSUME pod \in [Pods -> PodType], NEW c \in Rows, Restamp(c)
    PROVE  /\ pod' \in [Pods -> PodType]
           /\ \A d \in Pods : \A k \in pod'[d].found :
                k.stamp = "exact" => k \in pod[d].found /\ k.c # c
<1> DEFINE S(d) == {IF k.c = c /\ k.stamp = "exact" THEN [k EXCEPT !.stamp = "replaced"] ELSE k :
                      k \in pod[d].found}
<1>1. pod' = [d \in Pods |-> [pod[d] EXCEPT !.found = S(d)]]
  BY DEF Restamp
<1>2. ASSUME NEW d \in Pods
      PROVE  /\ S(d) \subseteq CandidateType
             /\ \A k \in S(d) : k.stamp = "exact" => k \in pod[d].found /\ k.c # c
  <2>1. pod[d].found \subseteq CandidateType
    BY DEF PodType
  <2>2. ASSUME NEW k \in CandidateType
        PROVE  /\ [k EXCEPT !.stamp = "replaced"] \in CandidateType
               /\ [k EXCEPT !.stamp = "replaced"].stamp = "replaced"
    BY DEF CandidateType
  <2> QED BY <2>1, <2>2
<1> HIDE DEF S
<1>3. ASSUME NEW d \in Pods
      PROVE  [pod[d] EXCEPT !.found = S(d)] \in PodType /\ [pod[d] EXCEPT !.found = S(d)].found = S(d)
  BY <1>2 DEF PodType
<1> QED BY <1>1, <1>2, <1>3

-----------------------------------------------------------------------------
(* The inductive invariant                                                  *)

ProcShape(a) ==
    /\ a.pc # "idle" => a.c \in Rows /\ a.route # "none"
    /\ a.beat => a.pc \in {"running", "raised"}
    /\ a.pc = "retake" => a.route = "segments" /\ "retry" \in UserActions
    /\ a.lazy => a.route = "segments" /\ "defer" \in Outcomes
Shape == \A p \in Processors : ProcShape(proc[p])

\* The rows of a session are created from segments and opened, and no route
\* creates from segments under another id.
Routed(a, r) ==
    /\ r.session => a.route \in {"open", "segments"}
    /\ a.route = "segments" => r.session
RightRoute == \A p \in Processors, c \in Rows : On(p, c) => Routed(proc[p], row[c])

\* What admission takes from a row, its owner does not give back early.
Taken(r) == r.status \in {"processing", "completed"} /\ ~r.deferred /\ r.job # "running"
Held == \A p \in Processors, c \in Rows : On(p, c) /\ Exclusive(c) => Taken(row[c])

\* A job runs on a row that was recorded, never on the row of a session.
JobRuns(r) ==
    /\ r.job = "running" => r.status = "processing" /\ ~r.deferred /\ ~r.session
    /\ r.status = "in_progress" => ~r.deferred /\ ~r.session
Running == \A c \in Rows : JobRuns(row[c])

\* A scanned stamp that is still the row's is an old one.
OldOrGone(r) == (r.old /\ r.stamped) \/ r.status = "absent"
Scanned == \A d \in Pods : \A k \in pod[d].found : k.stamp = "exact" => OldOrGone(row[k.c])

\* With no stalled thread and no restore, a lease that will be renewed is
\* fresh, unless the row is deferred and the sweep passes it over.
Calm == "stall" \notin Faults /\ "restore" \notin UserActions
Alive(a) == a.pc = "admitted" \/ a.beat
Lease(r) == r.status = "processing" /\ ~r.discarded /\ ~r.deferred
Fresh == Calm => \A p \in Processors, c \in Rows :
                    On(p, c) /\ Alive(proc[p]) /\ Lease(row[c]) => ~row[c].old

Owners == Shape /\ RightRoute /\ Held /\ OneProcessor /\ Running /\ Fresh
IInv == TypeOK /\ Owners /\ Scanned

\* A write no lease grows old by.
Ageless(old, r) == Lease(r) /\ r.old => Lease(old) /\ old.old

LEMMA IdleShape == IdleProc \in ProcType /\ IdleProc.pc = "idle" /\ ProcShape(IdleProc)
  BY SizesAssumption DEF IdleProc, AtWork, ProcType, ProcShape

LEMMA InitIInv == Init => IInv
<1> SUFFICES ASSUME Init PROVE IInv
  OBVIOUS
<1>1. PICK kind \in [Rows -> StartRows] : row = [c \in Rows |-> StartRow(kind[c])]
  BY DEF Init
<1>2. \A c \in Rows : JobRuns(row[c])
  BY <1>1, StartRowType DEF JobRuns
<1>3. row \in [Rows -> RowType]
  BY <1>1, StartRowType
<1>4. /\ IdleProc \in ProcType /\ IdleProc.pc = "idle" /\ ProcShape(IdleProc)
      /\ IdlePod \in PodType /\ IdlePod.found = {}
  BY IdleShape DEF IdlePod, PodType
<1>5. TypeOK
  BY <1>3, <1>4 DEF Init, TypeOK
<1>6. \A p \in Processors : proc[p].pc = "idle" /\ ProcShape(proc[p])
  BY <1>4 DEF Init
<1>7. Owners
  BY <1>2, <1>6 DEF Owners, Shape, RightRoute, Held, OneProcessor, Running, Fresh, On
<1>8. Scanned
  BY <1>4 DEF Init, Scanned
<1> QED BY <1>5, <1>7, <1>8 DEF IInv

\* A row changes and no processor does.
LEMMA RowMove ==
    ASSUME TypeOK, Owners, NEW c \in Rows, NEW r \in RowType,
           row' = [row EXCEPT ![c] = r], UNCHANGED proc,
           JobRuns(r), r.session = row[c].session,
           \A p \in Processors : On(p, c) /\ Exclusive(c) => Taken(r),
           Calm => \A p \in Processors : On(p, c) /\ Alive(proc[p]) /\ Lease(r) => ~r.old
    PROVE  row' \in [Rows -> RowType] /\ Owners'
<1>1. row' \in [Rows -> RowType] /\ row'[c] = r /\ \A e \in Rows : e # c => row'[e] = row[e]
  BY DEF TypeOK
<1>2. \A p \in Processors, e \in Rows : On(p, e)' <=> On(p, e)
  BY DEF On
<1>3. \A e \in Rows : row'[e].session = row[e].session /\ (Exclusive(e)' <=> Exclusive(e))
  BY <1>1 DEF Exclusive
<1>4. Shape' /\ OneProcessor'
  BY <1>2, <1>3 DEF Owners, Shape, OneProcessor
<1>5. RightRoute'
  BY <1>2, <1>3 DEF Owners, RightRoute, Routed
<1>6. Held'
  BY <1>1, <1>2, <1>3 DEF Owners, Held
<1>7. Running'
  BY <1>1 DEF Owners, Running
<1>8. Fresh'
  BY <1>1, <1>2 DEF Owners, Fresh
<1> QED BY <1>1, <1>4, <1>5, <1>6, <1>7, <1>8 DEF Owners

\* A processor moves, and with it the one row it works on.  Another processor
\* of that row is disturbed only where the row is not exclusive.
LEMMA ProcMove ==
    ASSUME TypeOK, Owners, NEW p \in Processors, NEW c \in Rows, NEW r \in RowType,
           NEW a \in ProcType,
           row' = [row EXCEPT ![c] = r], proc' = [proc EXCEPT ![p] = a],
           ProcShape(a), JobRuns(r), r.session = row[c].session,
           \A q \in Processors : On(q, c) /\ Exclusive(c) => q = p,
           a.pc # "idle" => a.c = c /\ Routed(a, r) /\ (Exclusive(c) => Taken(r)),
           Ageless(row[c], r),
           Calm => (a.pc # "idle" /\ Alive(a) /\ Lease(r) => ~r.old)
    PROVE  /\ row' \in [Rows -> RowType] /\ proc' \in [Processors -> ProcType]
           /\ Owners'
<1>1. row' \in [Rows -> RowType] /\ row'[c] = r /\ \A e \in Rows : e # c => row'[e] = row[e]
  BY DEF TypeOK
<1>2. /\ proc' \in [Processors -> ProcType] /\ proc'[p] = a
      /\ \A q \in Processors : q # p => proc'[q] = proc[q]
  BY DEF TypeOK
<1>3. \A q \in Processors, e \in Rows : q # p => (On(q, e)' <=> On(q, e))
  BY <1>2 DEF On
<1>4. \A e \in Rows : On(p, e)' => e = c /\ a.pc # "idle"
  BY <1>2 DEF On
<1>5. \A e \in Rows : row'[e].session = row[e].session /\ (Exclusive(e)' <=> Exclusive(e))
  BY <1>1 DEF Exclusive
<1>6. Shape'
  BY <1>2 DEF Owners, Shape
<1>7. OneProcessor'
  BY <1>3, <1>4, <1>5 DEF Owners, OneProcessor
<1>8. Held'
  BY <1>1, <1>3, <1>4, <1>5 DEF Owners, Held
<1>9. RightRoute'
  <2> SUFFICES ASSUME NEW q \in Processors, NEW e \in Rows, On(q, e)'
               PROVE  Routed(proc'[q], row'[e])
    BY DEF RightRoute
  <2>1. CASE q = p
    BY <2>1, <1>1, <1>2, <1>4
  <2>2. CASE q # p
    BY <2>2, <1>2, <1>3, <1>5 DEF Owners, RightRoute, Routed
  <2> QED BY <2>1, <2>2
<1>10. Running'
  BY <1>1 DEF Owners, Running
<1>11. Fresh'
  <2> SUFFICES ASSUME Calm, NEW q \in Processors, NEW e \in Rows,
                      On(q, e)', Alive(proc'[q]), Lease(row'[e])
               PROVE  ~row'[e].old
    BY DEF Fresh
  <2>1. CASE q = p
    BY <2>1, <1>1, <1>2, <1>4
  <2>2. CASE q # p
    BY <2>2, <1>1, <1>2, <1>3 DEF Owners, Fresh, Ageless
  <2> QED BY <2>1, <2>2
<1> QED BY <1>1, <1>2, <1>6, <1>7, <1>8, <1>9, <1>10, <1>11 DEF Owners

LEMMA ScanKept ==
    ASSUME TypeOK, Scanned, NEW c \in Rows, NEW r \in RowType,
           row' = [row EXCEPT ![c] = r], UNCHANGED pod,
           OldOrGone(row[c]) => OldOrGone(r)
    PROVE  Scanned'
<1>1. row'[c] = r /\ \A e \in Rows : e # c => row'[e] = row[e]
  BY DEF TypeOK
<1>2. \A d \in Pods : \A k \in pod[d].found : k.c \in Rows
  BY DEF TypeOK, PodType, CandidateType
<1> QED BY <1>1, <1>2 DEF Scanned

LEMMA ScanRestamped ==
    ASSUME TypeOK, Scanned, NEW c \in Rows, NEW r \in RowType,
           row' = [row EXCEPT ![c] = r], Restamp(c)
    PROVE  Scanned' /\ pod' \in [Pods -> PodType]
<1>1. \A e \in Rows : e # c => row'[e] = row[e]
  BY DEF TypeOK
<1>2. \A d \in Pods : \A k \in pod[d].found : k.c \in Rows
  BY DEF TypeOK, PodType, CandidateType
<1>3. /\ pod' \in [Pods -> PodType]
      /\ \A d \in Pods : \A k \in pod'[d].found : k.stamp = "exact" => k \in pod[d].found /\ k.c # c
  BY RestampWrite DEF TypeOK
<1> QED BY <1>1, <1>2, <1>3 DEF Scanned

-----------------------------------------------------------------------------
(* Admission preserves the invariant                                        *)

LEMMA BeginMove ==
    ASSUME IInv, NEW p \in Processors, NEW c \in Rows, NEW r \in RowType,
           NEW route \in {"finalize", "open", "segments", "merge"},
           Begin(p, c, route), ~Taken(row[c]),
           row' = [row EXCEPT ![c] = r], Restamp(c), UNCHANGED cursor,
           Taken(r), r.old = FALSE, r.session = row[c].session,
           r.session => route \in {"open", "segments"}, route = "segments" => r.session
    PROVE  IInv'
<1> DEFINE a == AtWork("admitted", c, route)
<1>1. /\ a \in ProcType /\ a.pc = "admitted" /\ a.c = c /\ a.route = route /\ ProcShape(a)
  BY SizesAssumption DEF AtWork, ProcType, Rows, ProcShape
<1>2. proc' = [proc EXCEPT ![p] = a]
  BY DEF Begin
<1>3. \A q \in Processors : ~(On(q, c) /\ Exclusive(c))
  BY DEF IInv, Owners, Held
<1>4. JobRuns(r) /\ Ageless(row[c], r) /\ Routed(a, r)
  BY <1>1 DEF Taken, JobRuns, Ageless, Routed
<1> HIDE DEF a
<1>5. row' \in [Rows -> RowType] /\ proc' \in [Processors -> ProcType] /\ Owners'
  BY <1>1, <1>2, <1>3, <1>4, ProcMove DEF IInv
<1>6. Scanned' /\ pod' \in [Pods -> PodType]
  BY ScanRestamped DEF IInv
<1> QED BY <1>5, <1>6 DEF IInv, TypeOK

LEMMA AdmissionIInv ==
    ASSUME IInv, NEW p \in Processors, NEW c \in Rows,
           \/ AdmitProcessing(p, c)
           \/ ReacquireDeferredProcessing(p, c)
           \/ \E route \in {"segments", "merge"} : CreateProcessingConversation(p, c, route)
    PROVE  IInv'
<1>1. row[c] \in RowType /\ JobRuns(row[c])
  BY DEF IInv, TypeOK, Owners, Running
<1>2. CASE AdmitProcessing(p, c)
  <2> DEFINE r == [row[c] EXCEPT !.status = "processing"]
  <2>1. /\ r \in RowType /\ r.status = "processing" /\ r.deferred = row[c].deferred
        /\ r.job = row[c].job /\ r.session = row[c].session
    BY <1>1 DEF RowType
  <2>2. ~Taken(row[c]) /\ Taken(r) /\ ~r.session
    BY <1>1, <1>2, <2>1 DEF AdmitProcessing, Claimable, Taken, JobRuns
  <2>3. row' = [row EXCEPT ![c] = Stamped(r)] /\ Begin(p, c, "finalize") /\ Restamp(c) /\ UNCHANGED cursor
    BY <1>2 DEF AdmitProcessing
  <2> HIDE DEF r
  <2>4. /\ Stamped(r) \in RowType /\ Taken(Stamped(r)) /\ Stamped(r).old = FALSE
        /\ Stamped(r).session = r.session
    BY <2>1, <2>2, StampedWrite DEF Taken
  <2> QED BY <2>1, <2>2, <2>3, <2>4, BeginMove
<1>3. CASE ReacquireDeferredProcessing(p, c)
  <2> DEFINE r == [row[c] EXCEPT !.status = "processing", !.deferred = FALSE]
  <2>1. /\ r \in RowType /\ r.status = "processing" /\ r.deferred = FALSE
        /\ r.job = row[c].job /\ r.session = row[c].session
    BY <1>1 DEF RowType
  <2>2. ~Taken(row[c]) /\ Taken(r)
    BY <1>1, <1>3, <2>1 DEF ReacquireDeferredProcessing, Taken, JobRuns
  <2>3. row' = [row EXCEPT ![c] = Stamped(r)] /\ Begin(p, c, "open") /\ Restamp(c) /\ UNCHANGED cursor
    BY <1>3 DEF ReacquireDeferredProcessing
  <2> HIDE DEF r
  <2>4. /\ Stamped(r) \in RowType /\ Taken(Stamped(r)) /\ Stamped(r).old = FALSE
        /\ Stamped(r).session = r.session
    BY <2>1, <2>2, StampedWrite DEF Taken
  <2> QED BY <2>1, <2>2, <2>3, <2>4, BeginMove
<1>4. ASSUME NEW route \in {"segments", "merge"}, CreateProcessingConversation(p, c, route)
      PROVE  IInv'
  <2>1. PICK hidden \in BOOLEAN :
          row' = [row EXCEPT ![c] = Stamped([Gone(row[c]) EXCEPT !.status = "processing", !.discarded = hidden])]
    BY <1>4 DEF CreateProcessingConversation
  <2> DEFINE r == [Gone(row[c]) EXCEPT !.status = "processing", !.discarded = hidden]
  <2>2. /\ r \in RowType /\ r.status = "processing" /\ r.deferred = FALSE /\ r.job = "none"
        /\ r.session = row[c].session
    BY <1>1, GoneType DEF RowType
  <2>3. ~Taken(row[c]) /\ Taken(r) /\ (r.session <=> route = "segments")
    BY <1>4, <2>2 DEF CreateProcessingConversation, Taken
  <2>4. row' = [row EXCEPT ![c] = Stamped(r)] /\ Begin(p, c, route) /\ Restamp(c) /\ UNCHANGED cursor
    BY <1>4, <2>1 DEF CreateProcessingConversation
  <2> HIDE DEF r
  <2>5. /\ Stamped(r) \in RowType /\ Taken(Stamped(r)) /\ Stamped(r).old = FALSE
        /\ Stamped(r).session = r.session
    BY <2>2, <2>3, StampedWrite DEF Taken
  <2> QED BY <2>2, <2>3, <2>4, <2>5, BeginMove
<1> QED BY <1>2, <1>3, <1>4

-----------------------------------------------------------------------------
(* Processors preserve the invariant                                        *)

LEMMA Owner ==
    ASSUME IInv, NEW p \in Processors, proc[p].pc # "idle"
    PROVE  /\ proc[p].c \in Rows /\ proc[p] \in ProcType /\ proc[p].route # "none"
           /\ On(p, proc[p].c) /\ ProcShape(proc[p])
           /\ \A q \in Processors : On(q, proc[p].c) /\ Exclusive(proc[p].c) => q = p
           /\ row[proc[p].c] \in RowType
           /\ Exclusive(proc[p].c) => Taken(row[proc[p].c])
           /\ JobRuns(row[proc[p].c]) /\ row[proc[p].c].job # "running"
           /\ Routed(proc[p], row[proc[p].c])
<1>1. proc[p].c \in Rows /\ proc[p].route # "none" /\ ProcShape(proc[p])
  BY DEF IInv, Owners, Shape, ProcShape
<1>2. On(p, proc[p].c)
  BY DEF On
<1>3. JobRuns(row[proc[p].c])
  BY <1>1 DEF IInv, Owners, Running
<1>4. Exclusive(proc[p].c) => Taken(row[proc[p].c])
  BY <1>1, <1>2 DEF IInv, Owners, Held
<1>5. row[proc[p].c].job # "running"
  BY <1>3, <1>4 DEF JobRuns, Taken, Exclusive
<1> QED BY <1>1, <1>2, <1>3, <1>4, <1>5 DEF IInv, TypeOK, Owners, OneProcessor, RightRoute

\* An owner of a row writes it and moves on.
LEMMA OwnerMove ==
    ASSUME IInv, NEW p \in Processors, proc[p].pc # "idle", NEW r \in RowType, NEW a \in ProcType,
           row' = [row EXCEPT ![proc[p].c] = r], proc' = [proc EXCEPT ![p] = a], UNCHANGED <<pod, cursor>>,
           ProcShape(a), JobRuns(r), r.session = row[proc[p].c].session,
           a.pc # "idle" => /\ a.c = proc[p].c /\ a.route = proc[p].route
                            /\ Exclusive(proc[p].c) => Taken(r),
           Ageless(row[proc[p].c], r),
           Calm => (a.pc # "idle" /\ Alive(a) /\ Lease(r) => ~r.old),
           OldOrGone(row[proc[p].c]) => OldOrGone(r)
    PROVE  IInv'
<1>1. /\ proc[p].c \in Rows /\ Routed(proc[p], row[proc[p].c])
      /\ \A q \in Processors : On(q, proc[p].c) /\ Exclusive(proc[p].c) => q = p
  BY Owner
<1>2. a.pc # "idle" => Routed(a, r)
  BY <1>1 DEF Routed
<1>3. row' \in [Rows -> RowType] /\ proc' \in [Processors -> ProcType] /\ Owners'
  BY <1>1, <1>2, ProcMove DEF IInv
<1>4. Scanned'
  BY <1>1, ScanKept DEF IInv
<1> QED BY <1>3, <1>4 DEF IInv, TypeOK

LEMMA FinishMove ==
    ASSUME IInv, NEW p \in Processors, proc[p].pc # "idle", NEW r \in RowType,
           row' = [row EXCEPT ![proc[p].c] = r], Finish(p), UNCHANGED <<pod, cursor>>,
           JobRuns(r), r.session = row[proc[p].c].session, Ageless(row[proc[p].c], r),
           OldOrGone(row[proc[p].c]) => OldOrGone(r)
    PROVE  IInv'
<1>1. proc' = [proc EXCEPT ![p] = IdleProc]
  BY DEF Finish
<1> QED BY <1>1, IdleShape, OwnerMove

\* An owner moves on and leaves its row as it is.
LEMMA OwnerStep ==
    ASSUME IInv, NEW p \in Processors, proc[p].pc # "idle", NEW a \in ProcType,
           UNCHANGED <<row, pod, cursor>>, proc' = [proc EXCEPT ![p] = a],
           ProcShape(a),
           a.pc # "idle" => a.c = proc[p].c /\ a.route = proc[p].route /\ (Alive(a) => Alive(proc[p]))
    PROVE  IInv'
<1>1. /\ proc[p].c \in Rows /\ On(p, proc[p].c)
      /\ row[proc[p].c] \in RowType /\ JobRuns(row[proc[p].c])
      /\ Exclusive(proc[p].c) => Taken(row[proc[p].c])
  BY Owner
<1>2. row' = [row EXCEPT ![proc[p].c] = row[proc[p].c]]
  BY <1>1 DEF IInv, TypeOK
<1>3. Calm => (a.pc # "idle" /\ Alive(a) /\ Lease(row[proc[p].c]) => ~row[proc[p].c].old)
  BY <1>1 DEF IInv, Owners, Fresh
<1>4. Ageless(row[proc[p].c], row[proc[p].c])
  BY DEF Ageless
<1> QED BY <1>1, <1>2, <1>3, <1>4, OwnerMove

\* A request that found a stale claim has no part in the row.
LEMMA FindIInv ==
    ASSUME IInv, NEW p \in Processors, NEW c \in Rows, FindStaleClaim(p, c)
    PROVE  IInv'
<1> DEFINE a == AtWork("retake", c, "segments")
<1>1. /\ a \in ProcType /\ a.pc = "retake" /\ a.c = c /\ a.route = "segments" /\ a.beat = FALSE
      /\ "retry" \in UserActions => ProcShape(a)
  BY SizesAssumption DEF AtWork, ProcType, Rows, ProcShape
<1>2. /\ proc' = [proc EXCEPT ![p] = a] /\ UNCHANGED <<row, pod, cursor>>
      /\ "retry" \in UserActions /\ row[c].session
  BY DEF FindStaleClaim
<1> HIDE DEF a
<1>3. row[c] \in RowType /\ JobRuns(row[c]) /\ row' = [row EXCEPT ![c] = row[c]]
  BY <1>2 DEF IInv, TypeOK, Owners, Running
<1>4. ~Exclusive(c) /\ Routed(a, row[c]) /\ ~Alive(a) /\ Ageless(row[c], row[c])
  BY <1>1, <1>2 DEF Exclusive, Routed, Alive, Ageless
<1>5. row' \in [Rows -> RowType] /\ proc' \in [Processors -> ProcType] /\ Owners'
  BY <1>1, <1>2, <1>3, <1>4, ProcMove DEF IInv
<1> QED BY <1>2, <1>5 DEF IInv, TypeOK, Scanned

LEMMA GuardIInv ==
    ASSUME IInv, NEW p \in Processors,
           EnterGuard(p) \/ RenewalFails(p) \/ Crash(p)
    PROVE  IInv'
<1>1. CASE EnterGuard(p)
  <2> DEFINE a == [proc[p] EXCEPT !.pc = "running", !.beat = TRUE]
  <2>1. proc[p].pc = "admitted" /\ proc[p].pc # "idle" /\ Alive(proc[p])
    BY <1>1 DEF EnterGuard, Alive
  <2>2. proc[p] \in ProcType /\ ProcShape(proc[p])
    BY <2>1, Owner
  <2>3. /\ a \in ProcType /\ a.pc = "running" /\ a.c = proc[p].c /\ a.route = proc[p].route
        /\ a.lazy = proc[p].lazy
    BY <2>2 DEF ProcType
  <2>4. ProcShape(a)
    BY <2>1, <2>2, <2>3 DEF ProcShape
  <2>5. proc' = [proc EXCEPT ![p] = a] /\ UNCHANGED <<row, pod, cursor>>
    BY <1>1 DEF EnterGuard
  <2> HIDE DEF a
  <2> QED BY <2>1, <2>3, <2>4, <2>5, OwnerStep
<1>2. CASE RenewalFails(p)
  <2> DEFINE a == [proc[p] EXCEPT !.beat = FALSE]
  <2>1. proc[p].pc # "idle" /\ proc[p].pc # "admitted"
    BY <1>2 DEF RenewalFails, IInv, Owners, Shape, ProcShape
  <2>2. proc[p] \in ProcType /\ ProcShape(proc[p])
    BY <2>1, Owner
  <2>3. /\ a \in ProcType /\ a.pc = proc[p].pc /\ a.c = proc[p].c /\ a.route = proc[p].route
        /\ a.beat = FALSE /\ a.lazy = proc[p].lazy
    BY <2>2 DEF ProcType
  <2>4. ProcShape(a) /\ ~Alive(a)
    BY <2>1, <2>2, <2>3 DEF ProcShape, Alive
  <2>5. proc' = [proc EXCEPT ![p] = a] /\ UNCHANGED <<row, pod, cursor>>
    BY <1>2 DEF RenewalFails
  <2> HIDE DEF a
  <2> QED BY <2>1, <2>3, <2>4, <2>5, OwnerStep
<1>3. CASE Crash(p)
  <2>1. proc[p].pc # "idle" /\ proc' = [proc EXCEPT ![p] = IdleProc] /\ UNCHANGED <<row, pod, cursor>>
    BY <1>3 DEF Crash, Finish
  <2> QED BY <2>1, IdleShape, OwnerStep
<1> QED BY <1>1, <1>2, <1>3

LEMMA RenewIInv ==
    ASSUME IInv, NEW p \in Processors, RenewProcessingLease(p)
    PROVE  IInv'
<1> DEFINE c == proc[p].c
           r == Stamped(row[c])
<1>1. proc[p].pc # "idle"
  BY DEF RenewProcessingLease, IInv, Owners, Shape, ProcShape
<1>2. c \in Rows /\ row[c] \in RowType /\ JobRuns(row[c])
  BY <1>1, Owner
<1>3. /\ r \in RowType /\ JobRuns(r) /\ r.old = FALSE /\ r.session = row[c].session
      /\ Taken(row[c]) => Taken(r)
  BY <1>2, StampedWrite DEF Taken, JobRuns
<1>4. row' = [row EXCEPT ![c] = r] /\ Restamp(c) /\ UNCHANGED <<proc, cursor>>
  BY DEF RenewProcessingLease
<1>5. \A q \in Processors : On(q, c) /\ Exclusive(c) => Taken(row[c])
  BY <1>2 DEF IInv, Owners, Held
<1> HIDE DEF c, r
<1>6. row' \in [Rows -> RowType] /\ Owners'
  BY <1>2, <1>3, <1>4, <1>5, RowMove DEF IInv
<1>7. Scanned' /\ pod' \in [Pods -> PodType]
  BY <1>2, <1>3, <1>4, ScanRestamped DEF IInv
<1> QED BY <1>4, <1>6, <1>7 DEF IInv, TypeOK

\* A write that an owner of the row may make.
Passes(c, r) ==
    /\ r \in RowType /\ JobRuns(r) /\ r.session = row[c].session
    /\ Ageless(row[c], r) /\ (OldOrGone(row[c]) => OldOrGone(r))

LEMMA SameRow == ASSUME NEW c \in Rows, row[c] \in RowType, JobRuns(row[c]) PROVE Passes(c, row[c])
  BY DEF Passes, Ageless

LEMMA GoneWrite == ASSUME NEW c \in Rows, row[c] \in RowType PROVE Passes(c, Gone(row[c]))
  BY GoneType DEF Passes, JobRuns, Ageless, Lease, OldOrGone

LEMMA PersistedWrite ==
    ASSUME NEW c \in Rows, row[c] \in RowType, JobRuns(row[c]), row[c].job # "running",
           NEW hidden \in BOOLEAN, NEW lazy \in BOOLEAN
    PROVE  /\ Passes(c, Persisted(c, hidden, lazy))
           /\ ~Lease(Persisted(c, hidden, lazy))
           /\ ~lazy /\ Taken(row[c]) => Taken(Persisted(c, hidden, lazy))
<1> DEFINE h == IF row[c].kept THEN FALSE ELSE hidden
           t == IF lazy THEN "processing" ELSE "completed"
           r == [row[c] EXCEPT !.status = t, !.deferred = lazy, !.discarded = h]
<1>1. h \in BOOLEAN /\ t \in {"processing", "completed"} /\ (t = "processing" <=> lazy)
  BY DEF RowType
<1>2. Persisted(c, hidden, lazy) = IF row[c].status = "absent" THEN row[c] ELSE Written(r)
  BY DEF Persisted
<1> HIDE DEF h, t
<1>3. /\ r \in RowType /\ r.status = t /\ r.deferred = lazy /\ r.session = row[c].session
      /\ r.job = row[c].job /\ r.old = row[c].old /\ r.stamped = row[c].stamped
  BY <1>1 DEF RowType
<1> HIDE DEF r
<1>4. /\ Written(r) \in RowType /\ Written(r).status = r.status /\ Written(r).deferred = r.deferred
      /\ Written(r).job = r.job /\ Written(r).stamped = r.stamped /\ Written(r).session = r.session
      /\ r.stamped => Written(r).old = r.old
  BY <1>3, WrittenWrite
<1>5. CASE row[c].status = "absent"
  BY <1>2, <1>5, SameRow DEF Lease
<1>6. CASE row[c].status # "absent"
  <2>1. ~Lease(Written(r)) /\ JobRuns(Written(r)) /\ (OldOrGone(row[c]) => OldOrGone(Written(r)))
    BY <1>1, <1>3, <1>4, <1>6 DEF Lease, JobRuns, OldOrGone
  <2>2. ~lazy /\ Taken(row[c]) => Taken(Written(r))
    BY <1>1, <1>3, <1>4 DEF Taken
  <2> QED BY <1>2, <1>3, <1>4, <1>6, <2>1, <2>2 DEF Passes, Ageless
<1> QED BY <1>5, <1>6

LEMMA ClosedWrite ==
    ASSUME NEW c \in Rows, row[c] \in RowType, JobRuns(row[c]), row[c].job # "running"
    PROVE  /\ Passes(c, Closed(c)) /\ Passes(c, Rearmed(c))
           /\ ~row[c].session /\ Taken(row[c]) => Passes(c, RolledBack(c))
<1>1. Passes(c, row[c])
  BY SameRow
<1>2. ASSUME NEW r \in RowType, r.status \in {"in_progress", "completed"}, r.session = row[c].session,
             r.job = row[c].job, r.old = row[c].old, r.stamped = row[c].stamped,
             r.status = "in_progress" => ~r.deferred /\ ~r.session, row[c].status # "absent"
      PROVE  Passes(c, Written(r))
  <2>1. /\ Written(r) \in RowType /\ Written(r).status = r.status /\ Written(r).deferred = r.deferred
        /\ Written(r).job = r.job /\ Written(r).stamped = r.stamped /\ Written(r).session = r.session
        /\ r.stamped => Written(r).old = r.old
    BY <1>2, WrittenWrite
  <2>2. ~Lease(Written(r)) /\ JobRuns(Written(r)) /\ (OldOrGone(row[c]) => OldOrGone(Written(r)))
    BY <1>2, <2>1 DEF JobRuns, Lease, OldOrGone
  <2> QED BY <1>2, <2>1, <2>2 DEF Passes, Ageless
<1> HIDE DEF Passes
<1>3. Passes(c, Closed(c))
  <2> DEFINE r == [row[c] EXCEPT !.status = "completed"]
  <2>1. /\ r \in RowType /\ r.status = "completed" /\ r.session = row[c].session
        /\ r.job = row[c].job /\ r.old = row[c].old /\ r.stamped = row[c].stamped
    BY DEF RowType
  <2>2. (Closed(c) = Written(r) /\ row[c].status # "absent") \/ Closed(c) = row[c]
    BY DEF Closed, Claimable
  <2> HIDE DEF r
  <2> QED BY <1>1, <1>2, <2>1, <2>2
<1>4. ASSUME ~row[c].session, Taken(row[c]) PROVE Passes(c, RolledBack(c))
  <2> DEFINE r == [row[c] EXCEPT !.status = "in_progress"]
  <2>1. /\ r \in RowType /\ r.status = "in_progress" /\ r.deferred = row[c].deferred
        /\ r.session = row[c].session
        /\ r.job = row[c].job /\ r.old = row[c].old /\ r.stamped = row[c].stamped
    BY DEF RowType
  <2>2. (RolledBack(c) = Written(r) /\ row[c].status # "absent") \/ RolledBack(c) = row[c]
    BY DEF RolledBack, Claimable
  <2>3. ~r.deferred /\ ~r.session
    BY <1>4, <2>1 DEF Taken
  <2> HIDE DEF r
  <2> QED BY <1>1, <1>2, <2>1, <2>2, <2>3
<1>5. Passes(c, Rearmed(c))
  <2> DEFINE r == [row[c] EXCEPT !.status = "completed", !.deferred = TRUE]
  <2>1. /\ r \in RowType /\ r.status = "completed" /\ r.session = row[c].session
        /\ r.job = row[c].job /\ r.old = row[c].old /\ r.stamped = row[c].stamped
    BY DEF RowType
  <2>2. (Rearmed(c) = Written(r) /\ row[c].status # "absent") \/ Rearmed(c) = row[c]
    BY DEF Rearmed
  <2> HIDE DEF r
  <2> QED BY <1>1, <1>2, <2>1, <2>2
<1> QED BY <1>3, <1>4, <1>5

\* The processor after its guard: it raised, or it holds a result.
LEMMA RaisedShape ==
    ASSUME NEW a \in ProcType, ProcShape(a), a.pc = "running", NEW b \in BOOLEAN
    PROVE  /\ [a EXCEPT !.pc = "raised", !.beat = b] \in ProcType
           /\ ProcShape([a EXCEPT !.pc = "raised", !.beat = b])
           /\ [a EXCEPT !.pc = "raised", !.beat = b].pc = "raised"
           /\ [a EXCEPT !.pc = "raised", !.beat = b].beat = b
           /\ [a EXCEPT !.pc = "raised", !.beat = b].c = a.c
           /\ [a EXCEPT !.pc = "raised", !.beat = b].route = a.route
<1> DEFINE x == [a EXCEPT !.pc = "raised", !.beat = b]
<1>1. /\ x \in ProcType /\ x.pc = "raised" /\ x.beat = b /\ x.c = a.c /\ x.route = a.route
      /\ x.lazy = a.lazy
  BY DEF ProcType
<1> HIDE DEF x
<1>2. ProcShape(x)
  BY <1>1 DEF ProcShape
<1> QED BY <1>1, <1>2 DEF x

LEMMA ReturnedShape ==
    ASSUME NEW a \in ProcType, ProcShape(a), a.pc = "running",
           NEW hidden \in BOOLEAN, NEW lazy \in BOOLEAN,
           lazy => a.route = "segments" /\ "defer" \in Outcomes,
           NEW y, y = [a EXCEPT !.pc = "returned", !.beat = FALSE, !.hidden = hidden, !.lazy = lazy]
    PROVE  y \in ProcType /\ ProcShape(y) /\ ~Alive(y) /\ y.c = a.c /\ y.route = a.route
<1>1. /\ y \in ProcType /\ y.pc = "returned" /\ y.beat = FALSE /\ y.c = a.c /\ y.route = a.route
      /\ y.lazy = lazy
  BY DEF ProcType
<1> QED BY <1>1 DEF ProcShape, Alive

LEMMA ProcessIInv ==
    ASSUME IInv, NEW p \in Processors, NEW outcome \in Outcomes, ProcessConversation(p, outcome)
    PROVE  IInv'
<1> DEFINE c == proc[p].c
           lazy == outcome = "defer"
           b == proc[p].beat /\ proc[p].route = "finalize"
           x == [proc[p] EXCEPT !.pc = "raised", !.beat = b]
<1>1. /\ proc[p].pc = "running" /\ proc[p].pc # "idle" /\ UNCHANGED <<cursor, pod>>
      /\ lazy => proc[p].route = "segments" /\ "defer" \in Outcomes
  BY DEF ProcessConversation
<1>2. /\ c \in Rows /\ row[c] \in RowType /\ JobRuns(row[c]) /\ row[c].job # "running"
      /\ Exclusive(c) => Taken(row[c])
      /\ proc[p] \in ProcType /\ ProcShape(proc[p]) /\ Routed(proc[p], row[c])
  BY <1>1, Owner
<1>3. PICK hidden \in BOOLEAN :
        /\ \/ row' = [row EXCEPT ![c] = Persisted(c, hidden, lazy)]
           \/ row' = row /\ ~lazy
        /\ \/ proc' = [proc EXCEPT ![p] = x]
           \/ proc' = [proc EXCEPT ![p] = [proc[p] EXCEPT !.pc = "returned", !.beat = FALSE,
                                                           !.hidden = hidden, !.lazy = lazy]]
           \/ Finish(p)
  BY DEF ProcessConversation
<1> DEFINE y == [proc[p] EXCEPT !.pc = "returned", !.beat = FALSE, !.hidden = hidden, !.lazy = lazy]
<1>4. b \in BOOLEAN /\ (b => proc[p].beat) /\ lazy \in BOOLEAN
  BY <1>2 DEF ProcType
<1>5. proc' = [proc EXCEPT ![p] = x] \/ proc' = [proc EXCEPT ![p] = y] \/ Finish(p)
  BY <1>3
<1>6. lazy => ~Exclusive(c)
  BY <1>1, <1>2 DEF Routed, Exclusive
<1> HIDE DEF b, lazy
<1>7. /\ x \in ProcType /\ ProcShape(x) /\ x.pc = "raised" /\ x.beat = b /\ x.c = c
      /\ x.route = proc[p].route
      /\ y \in ProcType /\ ProcShape(y) /\ ~Alive(y) /\ y.c = c /\ y.route = proc[p].route
  <2>1. /\ x \in ProcType /\ ProcShape(x) /\ x.pc = "raised" /\ x.beat = b /\ x.c = c
        /\ x.route = proc[p].route
    BY <1>1, <1>2, <1>4, RaisedShape
  <2>2. y \in ProcType /\ ProcShape(y) /\ ~Alive(y) /\ y.c = c /\ y.route = proc[p].route
    BY <1>1, <1>2, <1>4, ReturnedShape
  <2> QED BY <2>1, <2>2
<1>8. Alive(x) => Alive(proc[p])
  BY <1>4, <1>7 DEF Alive
<1> HIDE DEF x, y
<1>9. CASE row' = [row EXCEPT ![c] = Persisted(c, hidden, lazy)]
  <2> DEFINE r == Persisted(c, hidden, lazy)
  <2>1. Passes(c, r) /\ ~Lease(r) /\ (~lazy /\ Taken(row[c]) => Taken(r))
    BY <1>2, <1>4, PersistedWrite
  <2>2. Exclusive(c) => Taken(r)
    BY <1>2, <1>6, <2>1
  <2>3. row' = [row EXCEPT ![proc[p].c] = r]
    BY <1>9
  <2> HIDE DEF r
  <2>4. CASE Finish(p)
    BY <1>1, <2>1, <2>3, <2>4, FinishMove DEF Passes
  <2>5. CASE proc' = [proc EXCEPT ![p] = x]
    BY <1>1, <1>7, <2>1, <2>2, <2>3, <2>5, OwnerMove DEF Passes
  <2>6. CASE proc' = [proc EXCEPT ![p] = y]
    BY <1>1, <1>7, <2>1, <2>2, <2>3, <2>6, OwnerMove DEF Passes
  <2> QED BY <1>5, <2>4, <2>5, <2>6
<1>10. CASE UNCHANGED row
  <2>1. CASE Finish(p)
    BY <1>1, <1>10, <2>1, IdleShape, OwnerStep DEF Finish
  <2>2. CASE proc' = [proc EXCEPT ![p] = x]
    BY <1>1, <1>7, <1>8, <1>10, <2>2, OwnerStep
  <2>3. CASE proc' = [proc EXCEPT ![p] = y]
    BY <1>1, <1>7, <1>10, <2>3, OwnerStep
  <2> QED BY <1>5, <2>1, <2>2, <2>3
<1> QED BY <1>3, <1>9, <1>10

LEMMA EndIInv ==
    ASSUME IInv, NEW p \in Processors,
           PersistAgain(p) \/ CompleteMerge(p) \/ Recover(p) \/ DeleteStaleClaim(p)
    PROVE  IInv'
<1> DEFINE c == proc[p].c
<1>1. proc[p].pc # "idle" /\ Finish(p) /\ UNCHANGED <<pod, cursor>>
  BY DEF PersistAgain, CompleteMerge, Recover, DeleteStaleClaim
<1>2. /\ c \in Rows /\ row[c] \in RowType /\ JobRuns(row[c]) /\ row[c].job # "running"
      /\ proc[p].route \in {"finalize", "open", "segments", "merge"}
      /\ proc[p].hidden \in BOOLEAN /\ proc[p].lazy \in BOOLEAN
      /\ Exclusive(c) => Taken(row[c])
      /\ proc[p].route = "finalize" => ~row[c].session
  BY <1>1, Owner DEF ProcType, Routed
<1>3. proc[p].route = "finalize" => Passes(c, RolledBack(c))
  BY <1>2, ClosedWrite DEF Exclusive
<1>4. /\ Passes(c, Closed(c)) /\ Passes(c, Rearmed(c)) /\ Passes(c, Gone(row[c]))
      /\ Passes(c, Persisted(c, proc[p].hidden, proc[p].lazy))
  BY <1>2, ClosedWrite, GoneWrite, PersistedWrite
<1> HIDE DEF Passes
<1>5. ASSUME NEW r, Passes(c, r), row' = [row EXCEPT ![c] = r] PROVE IInv'
  BY <1>1, <1>5, FinishMove DEF Passes
<1>6. CASE PersistAgain(p)
  BY <1>4, <1>5, <1>6 DEF PersistAgain
<1>7. CASE CompleteMerge(p)
  BY <1>4, <1>5, <1>7 DEF CompleteMerge
<1>8. CASE DeleteStaleClaim(p)
  BY <1>4, <1>5, <1>8 DEF DeleteStaleClaim
<1>9. CASE Recover(p)
  <2>1. \/ proc[p].route = "finalize" /\ row' = [row EXCEPT ![c] = RolledBack(c)]
        \/ row' = [row EXCEPT ![c] = Rearmed(c)]
        \/ row' = [row EXCEPT ![c] = Closed(c)]
        \/ row' = [row EXCEPT ![c] = Gone(row[c])]
    BY <1>2, <1>9 DEF Recover
  <2> QED BY <1>3, <1>4, <1>5, <2>1
<1> QED BY <1>6, <1>7, <1>8, <1>9

LEMMA ProcessorIInv ==
    ASSUME IInv, NEW p \in Processors, ProcessorStep(p)
    PROVE  IInv'
  BY GuardIInv, ProcessIInv, EndIInv DEF ProcessorStep

-----------------------------------------------------------------------------
(* Jobs, time and the user preserve the invariant                           *)

LEMMA QuietRowMove ==
    ASSUME IInv, NEW c \in Rows, NEW r \in RowType,
           row' = [row EXCEPT ![c] = r], UNCHANGED <<proc, cursor, pod>>,
           JobRuns(r), r.session = row[c].session,
           \A p \in Processors : On(p, c) /\ Exclusive(c) => Taken(r),
           Calm => \A p \in Processors : On(p, c) /\ Alive(proc[p]) /\ Lease(r) => ~r.old,
           OldOrGone(row[c]) => OldOrGone(r)
    PROVE  IInv'
<1>1. row' \in [Rows -> RowType] /\ Owners'
  BY RowMove DEF IInv
<1>2. Scanned'
  BY ScanKept DEF IInv
<1> QED BY <1>1, <1>2 DEF IInv, TypeOK

LEMMA BindIInv ==
    ASSUME IInv, NEW c \in Rows, BindJob(c)
    PROVE  IInv'
<1> DEFINE r == [row[c] EXCEPT !.status = "processing", !.job = "running"]
<1>1. row[c] \in RowType /\ JobRuns(row[c])
  BY DEF IInv, TypeOK, Owners, Running
<1>2. /\ r \in RowType /\ r.status = "processing" /\ r.job = "running" /\ r.deferred = row[c].deferred
      /\ r.session = row[c].session
      /\ r.old = row[c].old /\ r.stamped = row[c].stamped
  BY <1>1 DEF RowType
<1>3. row[c].status = "in_progress" /\ UNCHANGED <<proc, cursor, pod>> /\ row' = [row EXCEPT ![c] = Written(r)]
  BY DEF BindJob
<1>4. \A p \in Processors : ~On(p, c)
  BY <1>1, <1>3 DEF IInv, Owners, Held, Taken, JobRuns, Exclusive
<1>5. ~r.deferred /\ ~r.session
  BY <1>1, <1>2, <1>3 DEF JobRuns
<1> HIDE DEF r
<1>6. /\ Written(r) \in RowType /\ Written(r).status = r.status /\ Written(r).deferred = r.deferred
      /\ Written(r).job = r.job /\ Written(r).stamped = r.stamped /\ Written(r).session = r.session
      /\ r.stamped => Written(r).old = r.old
  BY <1>2, WrittenWrite
<1>7. JobRuns(Written(r))
  BY <1>2, <1>5, <1>6 DEF JobRuns
<1>8. OldOrGone(row[c]) => OldOrGone(Written(r))
  BY <1>2, <1>3, <1>6 DEF OldOrGone
<1> QED BY <1>2, <1>3, <1>4, <1>6, <1>7, <1>8, QuietRowMove

LEMMA JobEndsIInv ==
    ASSUME IInv, NEW c \in Rows, JobEnds(c)
    PROVE  IInv'
<1>1. row[c] \in RowType /\ JobRuns(row[c])
  BY DEF IInv, TypeOK, Owners, Running
<1>2. row[c].job = "running" /\ row[c].status = "processing" /\ UNCHANGED <<proc, cursor, pod>>
  BY <1>1 DEF JobEnds, JobRuns
<1>3. \A p \in Processors : ~On(p, c)
  BY <1>1, <1>2 DEF IInv, Owners, Held, Taken, JobRuns, Exclusive
<1>4. PICK lazy \in BOOLEAN :
        row' = [row EXCEPT ![c] = Written([row[c] EXCEPT !.job = "done", !.deferred = lazy,
                                             !.status = IF lazy THEN "processing" ELSE "completed"])]
  BY DEF JobEnds
<1> DEFINE t == IF lazy THEN "processing" ELSE "completed"
           r == [row[c] EXCEPT !.job = "done", !.deferred = lazy, !.status = t]
<1>5. t \in {"processing", "completed"}
  OBVIOUS
<1>6. row' = [row EXCEPT ![c] = Written(r)]
  BY <1>4
<1> HIDE DEF t
<1>7. /\ r \in RowType /\ r.status = t /\ r.job = "done" /\ r.session = row[c].session
      /\ r.old = row[c].old /\ r.stamped = row[c].stamped
  BY <1>1, <1>5 DEF RowType
<1> HIDE DEF r
<1>8. /\ Written(r) \in RowType /\ Written(r).status = r.status
      /\ Written(r).job = r.job /\ Written(r).stamped = r.stamped /\ Written(r).session = r.session
      /\ r.stamped => Written(r).old = r.old
  BY <1>7, WrittenWrite
<1>9. JobRuns(Written(r))
  BY <1>5, <1>7, <1>8 DEF JobRuns
<1>10. OldOrGone(row[c]) => OldOrGone(Written(r))
  BY <1>2, <1>7, <1>8 DEF OldOrGone
<1> QED BY <1>2, <1>3, <1>6, <1>7, <1>8, <1>9, <1>10, QuietRowMove

LEMMA AgeIInv ==
    ASSUME IInv, NEW c \in Rows, StampAges(c)
    PROVE  IInv'
<1> DEFINE r == [row[c] EXCEPT !.old = TRUE]
<1>1. row[c] \in RowType /\ JobRuns(row[c])
  BY DEF IInv, TypeOK, Owners, Running
<1>2. /\ r \in RowType /\ r.status = row[c].status /\ r.job = row[c].job /\ r.deferred = row[c].deferred
      /\ r.discarded = row[c].discarded /\ r.stamped = row[c].stamped /\ r.old = TRUE
      /\ r.session = row[c].session
  BY <1>1 DEF RowType
<1>3. row' = [row EXCEPT ![c] = r] /\ UNCHANGED <<proc, cursor, pod>>
  BY DEF StampAges
<1> HIDE DEF r
<1>4. JobRuns(r) /\ (OldOrGone(row[c]) => OldOrGone(r))
  BY <1>1, <1>2 DEF JobRuns, OldOrGone
<1>5. \A p \in Processors : On(p, c) /\ Exclusive(c) => Taken(r)
  BY <1>2 DEF IInv, Owners, Held, Taken
<1>6. Calm => \A p \in Processors : ~(On(p, c) /\ Alive(proc[p]) /\ Lease(r))
  BY <1>2 DEF Calm, StampAges, Beating, Renewable, Lease, Alive
<1> QED BY <1>2, <1>3, <1>4, <1>5, <1>6, QuietRowMove

LEMMA UserIInv ==
    ASSUME IInv, NEW c \in Rows, Discard(c) \/ RestoreDiscarded(c)
    PROVE  IInv'
<1>1. row[c] \in RowType /\ JobRuns(row[c])
  BY DEF IInv, TypeOK, Owners, Running
<1>2. ASSUME NEW r \in RowType, r.status = row[c].status, r.job = row[c].job, r.deferred = row[c].deferred,
             r.old = row[c].old, r.stamped = row[c].stamped, Calm => r.discarded = TRUE,
             r.session = row[c].session,
             row' = [row EXCEPT ![c] = Written(r)], UNCHANGED <<proc, cursor, pod>>,
             row[c].status # "absent"
      PROVE  IInv'
  <2>1. /\ Written(r) \in RowType /\ Written(r).status = r.status /\ Written(r).deferred = r.deferred
        /\ Written(r).job = r.job /\ Written(r).stamped = r.stamped /\ Written(r).discarded = r.discarded
        /\ Written(r).session = r.session
        /\ r.stamped => Written(r).old = r.old
    BY <1>2, WrittenWrite
  <2>2. JobRuns(Written(r)) /\ (OldOrGone(row[c]) => OldOrGone(Written(r)))
    BY <1>1, <1>2, <2>1 DEF JobRuns, OldOrGone
  <2>3. \A p \in Processors : On(p, c) /\ Exclusive(c) => Taken(Written(r))
    BY <1>2, <2>1 DEF IInv, Owners, Held, Taken
  <2>4. Calm => ~Lease(Written(r))
    BY <1>2, <2>1 DEF Lease
  <2> QED BY <1>2, <2>1, <2>2, <2>3, <2>4, QuietRowMove
<1>3. CASE Discard(c)
  <2> DEFINE r == [row[c] EXCEPT !.discarded = TRUE, !.kept = FALSE]
  <2>1. /\ r \in RowType /\ r.status = row[c].status /\ r.job = row[c].job /\ r.deferred = row[c].deferred
        /\ r.old = row[c].old /\ r.stamped = row[c].stamped /\ r.discarded = TRUE
        /\ r.session = row[c].session
    BY <1>1 DEF RowType
  <2>2. /\ row' = [row EXCEPT ![c] = Written(r)] /\ UNCHANGED <<proc, cursor, pod>>
        /\ row[c].status # "absent"
    BY <1>3 DEF Discard
  <2> HIDE DEF r
  <2> QED BY <1>2, <2>1, <2>2
<1>4. CASE RestoreDiscarded(c)
  <2> DEFINE r == [row[c] EXCEPT !.discarded = FALSE, !.kept = TRUE]
  <2>1. /\ r \in RowType /\ r.status = row[c].status /\ r.job = row[c].job /\ r.deferred = row[c].deferred
        /\ r.old = row[c].old /\ r.stamped = row[c].stamped /\ r.session = row[c].session
    BY <1>1 DEF RowType
  <2>2. /\ row' = [row EXCEPT ![c] = Written(r)] /\ UNCHANGED <<proc, cursor, pod>>
        /\ row[c].status # "absent"
    BY <1>4 DEF RestoreDiscarded
  <2>3. ~Calm
    BY <1>4 DEF RestoreDiscarded, Calm
  <2> HIDE DEF r
  <2> QED BY <1>2, <2>1, <2>2, <2>3
<1> QED BY <1>3, <1>4

-----------------------------------------------------------------------------
(* The sweep preserves the invariant                                        *)

LEMMA PodMove ==
    ASSUME IInv, UNCHANGED <<row, proc>>, pod' \in [Pods -> PodType], cursor' \subseteq Rows,
           \A d \in Pods : \A k \in pod'[d].found : k.stamp = "exact" => OldOrGone(row[k.c])
    PROVE  IInv'
<1>1. TypeOK'
  BY DEF IInv, TypeOK
<1>2. \A p \in Processors, c \in Rows : On(p, c)' <=> On(p, c)
  BY DEF On
<1>3. Owners'
  BY <1>2 DEF IInv, Owners, Shape, RightRoute, Held, OneProcessor, Running, Fresh, Exclusive
<1>4. Scanned'
  BY DEF Scanned
<1> QED BY <1>1, <1>3, <1>4 DEF IInv

\* One pod moves on; what it found is a part of what it had found.
LEMMA OnePodMove ==
    ASSUME IInv, UNCHANGED <<row, proc>>, cursor' \subseteq Rows, NEW d \in Pods, NEW x \in PodType,
           pod' = [pod EXCEPT ![d] = x],
           \A k \in x.found : k.stamp = "exact" => OldOrGone(row[k.c])
    PROVE  IInv'
<1>1. pod' \in [Pods -> PodType] /\ pod'[d] = x /\ \A e \in Pods : e # d => pod'[e] = pod[e]
  BY DEF IInv, TypeOK
<1>2. \A e \in Pods : \A k \in pod'[e].found : k.stamp = "exact" => OldOrGone(row[k.c])
  BY <1>1 DEF IInv, Scanned
<1> QED BY <1>1, <1>2, PodMove

LEMMA WindowRows ==
    ASSUME NEW q, q \subseteq Rows
    PROVE  NextCursor(q) \subseteq Rows /\ CandidatesOf(Examined(q)) \subseteq q
<1>1. Examined(q) \subseteq q
  BY DEF Examined
<1>2. LastOf(Examined(q)) \subseteq Examined(q)
  BY DEF LastOf
<1> QED BY <1>1, <1>2 DEF NextCursor, CandidatesOf

LEMMA ScanIInv ==
    ASSUME IInv, NEW d \in Pods,
           ReadCursor(d) \/ GetCandidates(d) \/ AdvanceCursor(d) \/ EndSweep(d) \/ PodDies(d)
    PROVE  IInv'
<1>1. pod[d] \in PodType /\ cursor \subseteq Rows
      /\ \A e \in Pods : pod[e] \in PodType /\ \A k \in pod[e].found : k.stamp = "exact" => OldOrGone(row[k.c])
  BY DEF IInv, TypeOK, Scanned
<1>2. CASE ReadCursor(d)
  <2> DEFINE x == [pod[d] EXCEPT !.pc = "scan", !.from = cursor, !.current = TRUE]
  <2>1. x \in PodType /\ x.found = pod[d].found
    BY <1>1 DEF PodType
  <2>2. pod' = [pod EXCEPT ![d] = x] /\ UNCHANGED <<row, proc, cursor>>
    BY <1>2 DEF ReadCursor
  <2> HIDE DEF x
  <2> QED BY <1>1, <2>1, <2>2, OnePodMove
<1>3. CASE GetCandidates(d)
  <2> DEFINE q == Window(pod[d].from)
             f == {[c |-> c, stamp |-> IF row[c].stamped THEN "exact" ELSE "none"] :
                     c \in CandidatesOf(Examined(q))}
             n == NextCursor(q)
             x == [pod[d] EXCEPT !.pc = "advance", !.next = n, !.found = f]
  <2>1. q \subseteq Rows
    BY DEF Window
  <2>2. n \subseteq Rows /\ CandidatesOf(Examined(q)) \subseteq Rows
    BY <2>1, WindowRows
  <2>3. pod' = [pod EXCEPT ![d] = x] /\ UNCHANGED <<row, proc, cursor>>
    BY <1>3 DEF GetCandidates
  <2>4. f \subseteq CandidateType
    BY <2>2 DEF CandidateType
  <2>5. ASSUME NEW k \in f, k.stamp = "exact" PROVE OldOrGone(row[k.c])
    <3>1. PICK c \in CandidatesOf(Examined(q)) :
            k = [c |-> c, stamp |-> IF row[c].stamped THEN "exact" ELSE "none"]
      BY <2>5
    <3>2. k.c = c /\ row[c].stamped
      BY <2>5, <3>1
    <3>3. Candidate(c)
      BY <3>1 DEF CandidatesOf
    <3> QED BY <3>2, <3>3 DEF Candidate, OldOrGone
  <2> HIDE DEF q, f, n
  <2>6. x \in PodType /\ x.found = f
    BY <1>1, <2>2, <2>4 DEF PodType
  <2> HIDE DEF x
  <2> QED BY <1>1, <2>3, <2>5, <2>6, OnePodMove
<1>4. CASE AdvanceCursor(d)
  <2> DEFINE x == [pod[d] EXCEPT !.pc = "sweep", !.from = {}, !.next = {}, !.current = FALSE]
             y(e) == [pod[e] EXCEPT !.current = IF pod[d].current THEN FALSE ELSE @]
  <2>1. x \in PodType /\ x.found = pod[d].found
    BY <1>1 DEF PodType
  <2>2. ASSUME NEW e \in Pods PROVE y(e) \in PodType /\ y(e).found = pod[e].found
    BY <1>1 DEF PodType
  <2>3. pod' = [e \in Pods |-> IF e = d THEN x ELSE y(e)] /\ UNCHANGED <<row, proc>>
    BY <1>4 DEF AdvanceCursor
  <2>4. cursor' \subseteq Rows
    BY <1>1, <1>4 DEF AdvanceCursor, PodType
  <2> HIDE DEF x, y
  <2>5. pod' \in [Pods -> PodType] /\ \A e \in Pods : pod'[e].found = pod[e].found
    BY <2>1, <2>2, <2>3
  <2> QED BY <1>1, <2>3, <2>4, <2>5, PodMove
<1>5. CASE EndSweep(d) \/ PodDies(d)
  <2>1. IdlePod \in PodType /\ IdlePod.found = {}
    BY DEF IdlePod, PodType
  <2>2. pod' = [pod EXCEPT ![d] = IdlePod] /\ UNCHANGED <<row, proc, cursor>>
    BY <1>5 DEF EndSweep, PodDies
  <2> QED BY <1>1, <2>1, <2>2, OnePodMove
<1> QED BY <1>2, <1>3, <1>4, <1>5

\* What the sweep may write: a fresh stamp on an unstamped row, or the
\* terminal status on an old row that no job owns.
Swept(c, r) ==
    /\ r \in RowType
    /\ r.deferred = row[c].deferred /\ r.job = row[c].job /\ r.discarded = row[c].discarded
    /\ r.session = row[c].session
    /\ r.old => row[c].old
    /\ r.status # row[c].status =>
         r.status = "completed" /\ row[c].status = "processing" /\ ~Bound(c) /\ ~row[c].deferred
    /\ OldOrGone(row[c]) => OldOrGone(r)

LEMMA SweptWrite ==
    ASSUME NEW k \in CandidateType, row[k.c] \in RowType
    PROVE  /\ Swept(k.c, MigratedLegacy(k.c))
           /\ Swept(k.c, CompletedOrphan(k))
           /\ MigratedLegacy(k.c).status # row[k.c].status => row[k.c].old
           /\ CompletedOrphan(k).status # row[k.c].status => k.stamp = "exact"
<1> DEFINE c == k.c
           r == [row[c] EXCEPT !.status = "completed"]
<1>1. /\ r \in RowType /\ r.status = "completed" /\ r.deferred = row[c].deferred /\ r.job = row[c].job
      /\ r.discarded = row[c].discarded /\ r.old = row[c].old /\ r.stamped = row[c].stamped
      /\ r.session = row[c].session
  BY DEF RowType
<1>2. Swept(c, row[c])
  BY DEF Swept
<1>3. \/ CompletedOrphan(k) = row[c]
      \/ /\ CompletedOrphan(k) = r
         /\ row[c].status = "processing" /\ ~Bound(c) /\ ~row[c].deferred /\ k.stamp = "exact"
  BY DEF CompletedOrphan, Renewable
<1>4. \/ MigratedLegacy(c) = row[c]
      \/ /\ MigratedLegacy(c) = Stamped(row[c])
         /\ row[c].status = "processing" /\ ~row[c].stamped
      \/ /\ MigratedLegacy(c) = Written(r)
         /\ row[c].status = "processing" /\ ~row[c].stamped /\ ~Bound(c) /\ ~row[c].deferred /\ row[c].old
  BY DEF MigratedLegacy
<1> HIDE DEF r
<1>5. ASSUME row[c].status = "processing", ~Bound(c), ~row[c].deferred PROVE Swept(c, r)
  BY <1>1, <1>5 DEF Swept, OldOrGone
<1>6. ASSUME row[c].status = "processing", ~row[c].stamped
      PROVE  Swept(c, Stamped(row[c])) /\ Stamped(row[c]).status = row[c].status
  <2>1. /\ Stamped(row[c]) \in RowType
        /\ Stamped(row[c]).status = row[c].status /\ Stamped(row[c]).deferred = row[c].deferred
        /\ Stamped(row[c]).job = row[c].job /\ Stamped(row[c]).discarded = row[c].discarded
        /\ Stamped(row[c]).session = row[c].session /\ Stamped(row[c]).old = FALSE
    BY StampedWrite
  <2> QED BY <1>6, <2>1 DEF Swept, OldOrGone
<1>7. ASSUME row[c].status = "processing", ~row[c].stamped, ~Bound(c), ~row[c].deferred
      PROVE  Swept(c, Written(r))
  <2>1. /\ Written(r) \in RowType /\ Written(r).status = r.status /\ Written(r).deferred = r.deferred
        /\ Written(r).job = r.job /\ Written(r).discarded = r.discarded
        /\ Written(r).session = r.session
        /\ Written(r).old => r.old
    BY <1>1, WrittenWrite
  <2> QED BY <1>1, <1>7, <2>1 DEF Swept, OldOrGone
<1>8. Swept(c, CompletedOrphan(k)) /\ (CompletedOrphan(k).status # row[c].status => k.stamp = "exact")
  BY <1>2, <1>3, <1>5
<1>9. Swept(c, MigratedLegacy(c)) /\ (MigratedLegacy(c).status # row[c].status => row[c].old)
  BY <1>2, <1>4, <1>6, <1>7
<1> QED BY <1>8, <1>9

LEMMA SweepIInv ==
    ASSUME IInv, NEW d \in Pods, NEW k \in pod[d].found, SweepCandidate(d, k)
    PROVE  IInv'
<1> DEFINE c == k.c
           r == IF k.stamp = "none" THEN MigratedLegacy(c) ELSE CompletedOrphan(k)
           x == [pod[d] EXCEPT !.found = pod[d].found \ {k}]
<1>1. pod[d] \in PodType /\ k \in CandidateType /\ c \in Rows /\ row[c] \in RowType /\ JobRuns(row[c])
  BY DEF IInv, TypeOK, PodType, CandidateType, Owners, Running
<1>2. row' = [row EXCEPT ![c] = r] /\ pod' = [pod EXCEPT ![d] = x] /\ UNCHANGED <<proc, cursor>>
  BY DEF SweepCandidate
<1>3. Swept(c, r)
  BY <1>1, SweptWrite
<1>4. x \in PodType /\ x.found \subseteq pod[d].found
  BY <1>1 DEF PodType
<1> HIDE DEF c, r, x
<1>5. r \in RowType /\ JobRuns(r)
  BY <1>1, <1>3 DEF Swept, JobRuns, Bound
<1>6. \A p \in Processors : On(p, c) /\ Exclusive(c) => Taken(r)
  BY <1>1, <1>3 DEF IInv, Owners, Held, Taken, Swept
<1>7. Lease(r) => Lease(row[c]) /\ (r.old => row[c].old)
  BY <1>3 DEF Swept, Lease
<1>8. Calm => \A p \in Processors : On(p, c) /\ Alive(proc[p]) /\ Lease(r) => ~r.old
  BY <1>1, <1>7 DEF IInv, Owners, Fresh
<1>9. row' \in [Rows -> RowType] /\ Owners'
  BY <1>1, <1>2, <1>3, <1>5, <1>6, <1>8, RowMove DEF IInv, Swept
<1>10. /\ pod' \in [Pods -> PodType]
       /\ \A e \in Pods : pod'[e].found \subseteq pod[e].found
  BY <1>2, <1>4 DEF IInv, TypeOK
<1>11. /\ row'[c] = r /\ \A e \in Rows : e # c => row'[e] = row[e]
  BY <1>1, <1>2 DEF IInv, TypeOK
<1>12. \A e \in Pods : \A o \in pod[e].found : o.c \in Rows /\ (o.stamp = "exact" => OldOrGone(row[o.c]))
  BY DEF IInv, TypeOK, Scanned, PodType, CandidateType
<1>13. OldOrGone(row[c]) => OldOrGone(r)
  BY <1>3 DEF Swept
<1>14. Scanned'
  BY <1>10, <1>11, <1>12, <1>13 DEF Scanned
<1> QED BY <1>2, <1>9, <1>10, <1>14 DEF IInv, TypeOK

LEMMA StutterIInv == ASSUME IInv, UNCHANGED vars PROVE IInv'
<1>1. row' = row /\ proc' = proc /\ cursor' = cursor /\ pod' = pod
  BY DEF vars
<1>2. \A d \in Pods : \A k \in pod[d].found : k.stamp = "exact" => OldOrGone(row[k.c])
  BY DEF IInv, Scanned
<1> QED BY <1>1, <1>2, PodMove DEF IInv, TypeOK

LEMMA FailIInv ==
    ASSUME IInv, NEW d \in Pods, SweepFails(d)
    PROVE  IInv'
<1>1. /\ pod[d] \in PodType /\ cursor' \subseteq Rows /\ UNCHANGED <<row, proc>>
      /\ \A k \in pod[d].found : k.stamp = "exact" => OldOrGone(row[k.c])
  BY DEF IInv, TypeOK, Scanned, SweepFails
<1>2. ASSUME NEW x \in PodType, x.found \subseteq pod[d].found, pod' = [pod EXCEPT ![d] = x]
      PROVE  IInv'
  BY <1>1, <1>2, OnePodMove
<1>3. CASE pod' = [pod EXCEPT ![d] = [pod[d] EXCEPT !.pc = "scan"]]
  <2>1. [pod[d] EXCEPT !.pc = "scan"] \in PodType /\ [pod[d] EXCEPT !.pc = "scan"].found = pod[d].found
    BY <1>1 DEF PodType
  <2> QED BY <1>2, <1>3, <2>1
<1>4. CASE pod' = [pod EXCEPT ![d] = [pod[d] EXCEPT !.pc = "sweep", !.from = {}, !.next = {}, !.current = FALSE]]
  <2> DEFINE x == [pod[d] EXCEPT !.pc = "sweep", !.from = {}, !.next = {}, !.current = FALSE]
  <2>1. x \in PodType /\ x.found = pod[d].found
    BY <1>1 DEF PodType
  <2>2. pod' = [pod EXCEPT ![d] = x]
    BY <1>4
  <2> HIDE DEF x
  <2> QED BY <1>2, <2>1, <2>2
<1>5. ASSUME NEW k, pod' = [pod EXCEPT ![d] = [pod[d] EXCEPT !.found = pod[d].found \ {k}]]
      PROVE  IInv'
  <2> DEFINE x == [pod[d] EXCEPT !.found = pod[d].found \ {k}]
  <2>1. x \in PodType /\ x.found \subseteq pod[d].found
    BY <1>1 DEF PodType
  <2>2. pod' = [pod EXCEPT ![d] = x]
    BY <1>5
  <2> HIDE DEF x
  <2> QED BY <1>2, <2>1, <2>2
<1> QED BY <1>3, <1>4, <1>5 DEF SweepFails

LEMMA NextIInv == ASSUME IInv, [Next]_vars PROVE IInv'
<1>1. ASSUME NEW p \in Processors,
             Admission(p) \/ ProcessorStep(p) \/ RenewProcessingLease(p) \/ RenewalFails(p) \/ Crash(p)
      PROVE  IInv'
  BY <1>1, AdmissionIInv, FindIInv, ProcessorIInv, RenewIInv, GuardIInv DEF Admission
<1>2. ASSUME NEW c \in Rows, BindJob(c) \/ JobEnds(c) \/ StampAges(c) \/ Discard(c) \/ RestoreDiscarded(c)
      PROVE  IInv'
  BY <1>2, BindIInv, JobEndsIInv, AgeIInv, UserIInv
<1>3. ASSUME NEW d \in Pods, SweepStep(d) \/ SweepFails(d) \/ PodDies(d)
      PROVE  IInv'
  BY <1>3, ScanIInv, SweepIInv, FailIInv DEF SweepStep
<1> QED BY <1>1, <1>2, <1>3, StutterIInv DEF Next

-----------------------------------------------------------------------------
(* Theorems                                                                 *)

LEMMA Invariance == Spec => []IInv
<1>1. IInv /\ [Next]_vars => IInv'
  BY NextIInv
<1> QED BY <1>1, InitIInv, PTL DEF Spec

\* Every reachable state is well typed: in particular the cursor a pod saves
\* is a row of the collection, whatever window it scanned.
THEOREM AdmissionTypeCorrect == Spec => []TypeOK
<1>1. IInv => TypeOK
  BY DEF IInv
<1> QED BY <1>1, Invariance, PTL

\* For every number of conversations, processors and pods, and whatever
\* crashes, stalls, users and sweeps do, no conversation has two processors
\* (admit_processing, reacquire_deferred_processing,
\* create_processing_conversation), except that the row of a client session
\* may, once a repeated create takes its claim over or a create defers.
THEOREM OneProcessorAtATime == Spec => []OneProcessor
<1>1. IInv => OneProcessor
  BY DEF IInv, Owners
<1> QED BY <1>1, Invariance, PTL

SparedStep(c) ==
    row[c].status = "processing" /\ row'[c].status = "completed" /\ pod' # pod
      => ~Beating(c) /\ ~Bound(c)

LEMMA SweepSparesStep ==
    ASSUME IInv, Calm, NEW d \in Pods, NEW k \in pod[d].found, SweepCandidate(d, k), NEW c \in Rows
    PROVE  SparedStep(c)
<1> DEFINE r == IF k.stamp = "none" THEN MigratedLegacy(k.c) ELSE CompletedOrphan(k)
<1>1. k \in CandidateType /\ k.c \in Rows /\ row[k.c] \in RowType
  BY DEF IInv, TypeOK, PodType, CandidateType
<1>2. row' = [row EXCEPT ![k.c] = r]
  BY DEF SweepCandidate
<1>3. /\ Swept(k.c, r)
      /\ r.status # row[k.c].status => row[k.c].old \/ k.stamp = "exact"
  BY <1>1, SweptWrite
<1> HIDE DEF r
<1>4. row'[k.c] = r /\ (c # k.c => row'[c] = row[c])
  BY <1>1, <1>2 DEF IInv, TypeOK
<1> SUFFICES ASSUME row[c].status = "processing", row'[c].status = "completed"
             PROVE  ~Beating(c) /\ ~Bound(c)
  BY DEF SparedStep
<1>5. c = k.c /\ r.status # row[c].status
  BY <1>4
<1>6. ~Bound(c)
  BY <1>3, <1>5 DEF Swept
<1>7. row[c].old /\ ~row[c].deferred
  BY <1>3, <1>5 DEF IInv, Scanned, OldOrGone, Swept
<1>8. ~Beating(c)
  BY <1>7 DEF IInv, Owners, Fresh, Beating, Renewable, Lease, Alive
<1> QED BY <1>6, <1>8

LEMMA RestampKeeps ==
    ASSUME IInv, NEW c \in Rows, NEW e \in Rows, NEW r \in RowType, r.status = "processing",
           row' = [row EXCEPT ![e] = r]
    PROVE  SparedStep(c)
  BY DEF IInv, TypeOK, SparedStep

LEMMA OthersSpare ==
    ASSUME IInv, NEW p \in Processors, NEW c \in Rows, Admission(p) \/ RenewProcessingLease(p)
    PROVE  SparedStep(c)
<1>1. CASE RenewProcessingLease(p)
  <2>1. proc[p].pc # "idle"
    BY <1>1 DEF RenewProcessingLease, IInv, Owners, Shape, ProcShape
  <2>2. proc[p].c \in Rows /\ row[proc[p].c] \in RowType
    BY <2>1, Owner
  <2>3. row[proc[p].c].status = "processing" /\ row' = [row EXCEPT ![proc[p].c] = Stamped(row[proc[p].c])]
    BY <1>1 DEF RenewProcessingLease, Renewable
  <2>4. Stamped(row[proc[p].c]) \in RowType /\ Stamped(row[proc[p].c]).status = "processing"
    BY <2>2, <2>3, StampedWrite
  <2> QED BY <2>2, <2>3, <2>4, RestampKeeps
<1>2. ASSUME NEW e \in Rows, NEW s \in RowType, s.status = "processing", row' = [row EXCEPT ![e] = Stamped(s)]
      PROVE  SparedStep(c)
  BY <1>2, StampedWrite, RestampKeeps
<1>3. ASSUME NEW e \in Rows, AdmitProcessing(p, e) PROVE SparedStep(c)
  <2>1. [row[e] EXCEPT !.status = "processing"] \in RowType
        /\ [row[e] EXCEPT !.status = "processing"].status = "processing"
    BY DEF IInv, TypeOK, RowType
  <2>2. row' = [row EXCEPT ![e] = Stamped([row[e] EXCEPT !.status = "processing"])]
    BY <1>3 DEF AdmitProcessing
  <2> QED BY <1>2, <2>1, <2>2
<1>4. ASSUME NEW e \in Rows, ReacquireDeferredProcessing(p, e) PROVE SparedStep(c)
  <2>1. [row[e] EXCEPT !.status = "processing", !.deferred = FALSE] \in RowType
        /\ [row[e] EXCEPT !.status = "processing", !.deferred = FALSE].status = "processing"
    BY DEF IInv, TypeOK, RowType
  <2>2. row' = [row EXCEPT ![e] = Stamped([row[e] EXCEPT !.status = "processing", !.deferred = FALSE])]
    BY <1>4 DEF ReacquireDeferredProcessing
  <2> QED BY <1>2, <2>1, <2>2
<1>5. ASSUME NEW e \in Rows, NEW route, CreateProcessingConversation(p, e, route) PROVE SparedStep(c)
  <2>1. PICK hidden \in BOOLEAN :
          row' = [row EXCEPT ![e] = Stamped([Gone(row[e]) EXCEPT !.status = "processing", !.discarded = hidden])]
    BY <1>5 DEF CreateProcessingConversation
  <2>2. Gone(row[e]) \in RowType
    BY GoneType DEF IInv, TypeOK
  <2>3. [Gone(row[e]) EXCEPT !.status = "processing", !.discarded = hidden] \in RowType
        /\ [Gone(row[e]) EXCEPT !.status = "processing", !.discarded = hidden].status = "processing"
    BY <2>2 DEF RowType
  <2> QED BY <1>2, <2>1, <2>3
<1>6. ASSUME NEW e \in Rows, FindStaleClaim(p, e) PROVE SparedStep(c)
  BY <1>6 DEF FindStaleClaim, SparedStep
<1> QED BY <1>1, <1>3, <1>4, <1>5, <1>6 DEF Admission

\* When no thread stalls between its admission and its guard and no discard
\* is undone under a processor, the sweep never closes a row whose heartbeat
\* would still be written, nor one a job owns, however many pods act on
\* however stale scans (complete_orphan_conversation and its fence on the
\* scanned stamp).
THEOREM SweepSpares == ASSUME Calm PROVE Spec => SweepSparesOwners
<1>1. ASSUME IInv, Next, NEW c \in Rows PROVE SparedStep(c)
  <2>1. ASSUME NEW p \in Processors, ProcessorStep(p) \/ RenewalFails(p) \/ Crash(p) PROVE UNCHANGED pod
    BY <2>1 DEF ProcessorStep, EnterGuard, ProcessConversation, PersistAgain, CompleteMerge, Recover,
                DeleteStaleClaim, RenewalFails, Crash
  <2>2. ASSUME NEW e \in Rows,
               BindJob(e) \/ JobEnds(e) \/ StampAges(e) \/ Discard(e) \/ RestoreDiscarded(e)
        PROVE  UNCHANGED pod
    BY <2>2 DEF BindJob, JobEnds, StampAges, Discard, RestoreDiscarded
  <2>3. ASSUME NEW d \in Pods,
               ReadCursor(d) \/ GetCandidates(d) \/ AdvanceCursor(d) \/ EndSweep(d)
                 \/ SweepFails(d) \/ PodDies(d)
        PROVE  UNCHANGED row
    BY <2>3 DEF ReadCursor, GetCandidates, AdvanceCursor, EndSweep, SweepFails, PodDies
  <2>4. UNCHANGED pod \/ UNCHANGED row => SparedStep(c)
    BY DEF SparedStep
  <2> QED BY <1>1, <2>1, <2>2, <2>3, <2>4, SweepSparesStep, OthersSpare DEF Next, SweepStep
<1>2. IInv /\ [Next]_vars => [\A c \in Rows : SparedStep(c)]_vars
  BY <1>1
<1>3. [\A c \in Rows : SparedStep(c)]_vars <=>
      [\A c \in Rows :
         row[c].status = "processing" /\ row'[c].status = "completed" /\ pod' # pod
            => ~Beating(c) /\ ~Bound(c)]_vars
  BY DEF SparedStep
<1> QED BY <1>2, <1>3, Invariance, PTL DEF Spec, SweepSparesOwners
=============================================================================
