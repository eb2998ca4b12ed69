-------------------------- MODULE DetailPageProofs --------------------------
(***************************************************************************)
(* Proofs about DetailPage, for any rows, fires, page size and number of   *)
(* clicks, failures, edits and worker steps.                               *)
(***************************************************************************)
EXTENDS DetailPage, CronotonStoreProofs, FiniteSetTheorems, SequenceTheorems

-----------------------------------------------------------------------------
(* The fire records *)

FireStatus == Outcome \cup {"running"}

LEMMA FireAt ==
    ASSUME FiresTypeOK
    PROVE  /\ Len(fires) \in Nat /\ FireIds = 1..Len(fires)
           /\ \A f \in FireIds : fires[f] \in Fire /\ f \in 1..MaxFires
<1>1. Len(fires) \in Nat /\ FireIds = 1..Len(fires)
      /\ \A f \in 1..Len(fires) : fires[f] \in Fire
  BY LenProperties DEF FiresTypeOK, FireIds
<1> QED
  BY <1>1, FiresAssumption DEF FiresTypeOK

\* A record is appended at the end of the table.
LEMMA Appended ==
    ASSUME FiresTypeOK, NEW id \in Ids, NEW status \in FireStatus, AppendFire(id, status)
    PROVE  /\ FiresTypeOK'
           /\ Len(fires') = Len(fires) + 1
           /\ FireIds' = FireIds \cup {Len(fires) + 1}
           /\ \A f \in FireIds : fires'[f] = fires[f]
           /\ fires'[Len(fires) + 1] =
                 [of |-> id, status |-> status, recovered |-> FALSE,
                  worker |-> status = "running", ends |-> 0]
<1> DEFINE fire == [of |-> id, status |-> status, recovered |-> FALSE,
                    worker |-> status = "running", ends |-> 0]
<1>1. fire \in Fire
  BY FiresAssumption DEF Fire, FireStatus
<1>2. fires' = Append(fires, fire) /\ Len(fires) < MaxFires
  BY DEF AppendFire
<1>3. fires \in Seq(Fire) /\ Len(fires) \in Nat /\ FireIds = 1..Len(fires)
  BY FireAt DEF FiresTypeOK
<1> HIDE DEF fire
<1>4. /\ fires' \in Seq(Fire) /\ Len(fires') = Len(fires) + 1
      /\ \A i \in 1..Len(fires) : fires'[i] = fires[i]
      /\ fires'[Len(fires) + 1] = fire
  BY <1>1, <1>2, <1>3, AppendProperties
<1>5. DOMAIN fires' = 1..(Len(fires) + 1)
  BY <1>4, LenProperties
<1>6. Len(fires') <= MaxFires
  BY <1>2, <1>3, <1>4, FiresAssumption
<1> QED
  BY <1>3, <1>4, <1>5, <1>6 DEF FiresTypeOK, FireIds, fire

\* An update of one record.
LEMMA Updated ==
    ASSUME FiresTypeOK, NEW f \in FireIds, NEW fire \in Fire,
           fires' = [fires EXCEPT ![f] = fire]
    PROVE  /\ FiresTypeOK'
           /\ Len(fires') = Len(fires) /\ FireIds' = FireIds
           /\ fires'[f] = fire
           /\ \A g \in FireIds \ {f} : fires'[g] = fires[g]
<1>1. fires \in Seq(Fire) /\ f \in 1..Len(fires) /\ FireIds = 1..Len(fires)
  BY FireAt DEF FiresTypeOK
<1>2. /\ fires' \in Seq(Fire) /\ Len(fires') = Len(fires)
      /\ \A g \in 1..Len(fires) : fires'[g] = IF g = f THEN fire ELSE fires[g]
  BY <1>1, ExceptSeq
<1> QED
  BY <1>1, <1>2, LenProperties DEF FiresTypeOK, FireIds

Finalized(f, outcome) == [fires[f] EXCEPT !.status = outcome, !.ends = @ + 1]
Reconciled(f) == [fires[f] EXCEPT !.status = "success", !.recovered = TRUE]

LEMMA FinalizedFields ==
    ASSUME FiresTypeOK, NEW f \in FireIds, NEW outcome \in Outcome, fires[f].ends < MaxEnds
    PROVE  /\ Finalized(f, outcome) \in Fire
           /\ Finalized(f, outcome).of = fires[f].of
           /\ Finalized(f, outcome).status = outcome
           /\ Finalized(f, outcome).recovered = fires[f].recovered
           /\ Finalized(f, outcome).worker = fires[f].worker
           /\ Finalized(f, outcome).ends = fires[f].ends + 1
<1>1. fires[f] \in Fire
  BY FireAt
<1>2. fires[f].ends + 1 \in 0..MaxEnds
  BY <1>1, FiresAssumption DEF Fire
<1> DEFINE fire == fires[f]
<1> HIDE DEF fire
<1>3. fire \in Fire /\ fire.ends + 1 \in 0..MaxEnds
  BY <1>1, <1>2 DEF fire
<1>4. [fire EXCEPT !.status = outcome, !.ends = fire.ends + 1] \in Fire
  BY <1>3 DEF Fire
<1>5. Finalized(f, outcome) = [fire EXCEPT !.status = outcome, !.ends = fire.ends + 1]
  BY DEF Finalized, fire
<1> QED
  BY <1>1, <1>4, <1>5 DEF Fire, fire

LEMMA ReconciledFields ==
    ASSUME FiresTypeOK, NEW f \in FireIds
    PROVE  /\ Reconciled(f) \in Fire
           /\ Reconciled(f).of = fires[f].of
           /\ Reconciled(f).status = "success"
           /\ Reconciled(f).recovered = TRUE
           /\ Reconciled(f).worker = fires[f].worker
           /\ Reconciled(f).ends = fires[f].ends
<1>1. fires[f] \in Fire
  BY FireAt
<1> QED
  BY <1>1 DEF Reconciled, Fire, Outcome

(***************************************************************************)
(* What any step does to the records, whoever takes it: none, one more at  *)
(* the end, or one that a worker finalizes or an operator reconciles.      *)
(***************************************************************************)
FiresStep ==
    \/ UNCHANGED fires
    \/ \E id \in Ids, status \in FireStatus : AppendFire(id, status)
    \/ \E f \in FireIds, outcome \in Outcome :
          /\ fires[f].worker /\ fires[f].ends < MaxEnds
          /\ fires' = [fires EXCEPT ![f] = Finalized(f, outcome)]
    \/ \E f \in FireIds : Recoverable(f) /\ fires' = [fires EXCEPT ![f] = Reconciled(f)]

LEMMA FiresStepKeeps ==
    ASSUME FiresTypeOK, FiresStep
    PROVE  /\ FiresTypeOK'
           /\ FireIds \subseteq FireIds'
           /\ \A f \in FireIds : fires'[f].of = fires[f].of
<1>1. CASE UNCHANGED fires
  BY <1>1 DEF FiresTypeOK, FireIds
<1>2. ASSUME NEW id \in Ids, NEW status \in FireStatus, AppendFire(id, status)
      PROVE  /\ FiresTypeOK'
             /\ FireIds \subseteq FireIds'
             /\ \A f \in FireIds : fires'[f].of = fires[f].of
  BY <1>2, Appended
<1>3. ASSUME NEW f \in FireIds, NEW fire \in Fire, fire.of = fires[f].of,
             fires' = [fires EXCEPT ![f] = fire]
      PROVE  /\ FiresTypeOK'
             /\ FireIds \subseteq FireIds'
             /\ \A g \in FireIds : fires'[g].of = fires[g].of
  BY <1>3, Updated
<1>4. ASSUME NEW f \in FireIds, NEW outcome \in Outcome, fires[f].ends < MaxEnds
      PROVE  Finalized(f, outcome) \in Fire /\ Finalized(f, outcome).of = fires[f].of
  BY <1>4, FinalizedFields
<1>5. \A f \in FireIds : Reconciled(f) \in Fire /\ Reconciled(f).of = fires[f].of
  BY ReconciledFields
<1> QED
  BY <1>1, <1>2, <1>3, <1>4, <1>5 DEF FiresStep

LEMMA RecoverUpdate ==
    ASSUME FiresTypeOK, NEW f, Recoverable(f), RecoverFire(f)
    PROVE  FiresStep
<1>1. f \in FireIds
  BY DEF Recoverable, Recorded
<1>2. fires' = [fires EXCEPT ![f] = Reconciled(f)]
  BY DEF RecoverFire, Reconciled
<1> QED
  BY <1>1, <1>2 DEF FiresStep

LEMMA FinalizeUpdate ==
    ASSUME FiresTypeOK, NEW f \in FireIds, NEW outcome \in Outcome,
           fires[f].worker, fires[f].ends < MaxEnds, FinalizeFire(f, outcome)
    PROVE  FiresStep
<1>1. Recorded(f) => fires' = [fires EXCEPT ![f] = Finalized(f, outcome)]
  BY DEF FinalizeFire, Finalized
<1>2. ~Recorded(f) => UNCHANGED fires
  BY DEF FinalizeFire
<1> QED
  BY <1>1, <1>2 DEF FiresStep

-----------------------------------------------------------------------------
(* The rows *)

RowsInv == StoreTypeOK /\ SchedulerOffNeverArmed

(***************************************************************************)
(* What any step but a delete does to the table: it writes one row, which  *)
(* exists before and after.                                                *)
(***************************************************************************)
RowsStep ==
    \/ UNCHANGED rows
    \/ \E id \in Ids : /\ Exists(id) /\ Exists(id)'
                       /\ \A j \in Ids \ {id} : rows'[j] = rows[j]

LEMMA OperatorKeeps ==
    ASSUME RowsInv, NEW id \in Ids, OperatorStep(id)
    PROVE  RowsInv' /\ now' = now
<1>1. /\ StoreTypeOK' /\ now' = now
      /\ \A j \in Ids \ {id} : rows'[j] = rows[j]
      /\ rows'[id] = Deleted \/ WellEdited(id)
  BY OperatorEffect DEF RowsInv
<1>2. SchedulerOffNeverArmed'
  BY <1>1 DEF RowsInv, SchedulerOffNeverArmed, WellEdited, OffTimer, Exists
<1> QED
  BY <1>1, <1>2 DEF RowsInv

LEMMA Live == \A row \in Row : row \notin {Unborn, Deleted}
  BY StoreAssumption

LEMMA WrittenKeeps ==
    ASSUME RowsInv, NEW id \in Ids, Exists(id), NEW row \in Row,
           rows' = [rows EXCEPT ![id] = row]
    PROVE  RowsStep
<1>1. rows'[id] = row /\ \A j \in Ids \ {id} : rows'[j] = rows[j]
  BY DEF RowsInv, StoreTypeOK
<1> QED
  BY <1>1, Live DEF RowsStep, Exists

LEMMA ExistingRow ==
    ASSUME RowsInv, NEW id \in Ids, Exists(id)
    PROVE  rows[id] \in Row /\ now \in Time
  BY DEF RowsInv, StoreTypeOK, Exists

LEMMA EditWrites ==
    ASSUME RowsInv, NEW id \in Ids, NEW patch \in EditPatches, Edit(id, patch)
    PROVE  RowsInv' /\ RowsStep /\ now' = now
<1>1. RowsInv' /\ now' = now
  BY OperatorKeeps DEF OperatorStep
<1>2. Exists(id) /\ rows' = [rows EXCEPT ![id] = EditedRow(rows[id], patch)]
  BY DEF Edit
<1>3. patch \in EditPatch
  BY StoreAssumption
<1>4. EditedRow(rows[id], patch) \in Row
  BY <1>2, <1>3, ExistingRow, EditedFields
<1> QED
  BY <1>1, <1>2, <1>4, WrittenKeeps

LEMMA PauseWrites ==
    ASSUME RowsInv, NEW id \in Ids, Pause(id)
    PROVE  RowsInv' /\ RowsStep /\ now' = now
<1> DEFINE row == [rows[id] EXCEPT !.status = "paused"]
<1>1. RowsInv' /\ now' = now
  BY OperatorKeeps DEF OperatorStep
<1>2. Exists(id) /\ rows' = [rows EXCEPT ![id] = row]
  BY DEF Pause
<1>3. row \in Row
  BY <1>2, ExistingRow DEF Row, Status
<1> HIDE DEF row
<1> QED
  BY <1>1, <1>2, <1>3, WrittenKeeps

LEMMA ResumeWrites ==
    ASSUME RowsInv, NEW id \in Ids, Resume(id)
    PROVE  RowsInv' /\ RowsStep /\ now' = now
<1> DEFINE row == [rows[id] EXCEPT !.status = "active", !.next = ResumedNext(rows[id])]
<1>1. RowsInv' /\ now' = now
  BY OperatorKeeps DEF OperatorStep
<1>2. Exists(id)
  BY DEF Resume
<1>3. rows' = [rows EXCEPT ![id] = row]
  BY <1>2 DEF Resume, RowsInv, StoreTypeOK
<1>4. ResumedNext(rows[id]) \in Nat \cup {None}
  BY <1>2, ExistingRow, NextFireAssumption DEF ResumedNext, Row
<1>5. row \in Row
  BY <1>2, <1>4, ExistingRow DEF Row, Status
<1> HIDE DEF row
<1> QED
  BY <1>1, <1>2, <1>3, <1>5, WrittenKeeps

\* The end of a one-time row.
LEMMA TerminalWrites ==
    ASSUME RowsInv, NEW id \in Ids, NEW s \in Schedules, NEW ok \in BOOLEAN,
           ApplyTerminal(id, TerminalIntent(s, ok)), now' = now
    PROVE  RowsInv' /\ RowsStep
<1> DEFINE intent == TerminalIntent(s, ok)
           row == [rows[id] EXCEPT !.status = intent, !.next = None]
<1>1. intent \in Terminal \cup {None}
  BY DEF TerminalIntent, Terminal
<1>2. CASE intent # None /\ Exists(id)
  <2>1. rows' = [rows EXCEPT ![id] = row]
    BY <1>2 DEF ApplyTerminal, RowsInv, StoreTypeOK
  <2>2. row \in Row /\ row.next = None
    BY <1>1, <1>2, ExistingRow DEF Row, Status
  <2> HIDE DEF row
  <2>3. RowsStep
    BY <1>2, <2>1, <2>2, WrittenKeeps
  <2>4. StoreTypeOK'
    BY <2>1, <2>2 DEF RowsInv, StoreTypeOK
  <2>5. SchedulerOffNeverArmed'
    BY <2>1, <2>2 DEF RowsInv, StoreTypeOK, SchedulerOffNeverArmed, Exists
  <2> QED
    BY <2>3, <2>4, <2>5 DEF RowsInv
<1>3. CASE ~(intent # None /\ Exists(id))
  <2>1. UNCHANGED <<rows, now>>
    BY <1>3 DEF ApplyTerminal
  <2> QED
    BY <2>1 DEF RowsInv, RowsStep, StoreTypeOK, SchedulerOffNeverArmed, Exists
<1> QED
  BY <1>2, <1>3

-----------------------------------------------------------------------------
(* Types *)

LEMMA Bounds == PageSize \in Nat /\ PageSize > 0 /\ MaxTurns \in Nat
  BY DetailAssumption

LEMMA HistoryTypes ==
    ASSUME FiresTypeOK, NEW id \in Ids, NEW offset
    PROVE  ListFires(id, PageSize, offset) \in FirePage
<1>1. IsFiniteSet(FiresOf(id))
  <2>1. FiresOf(id) \subseteq 1..Len(fires) /\ Len(fires) \in Nat
    BY FireAt DEF FiresOf
  <2>2. IsFiniteSet(1..Len(fires))
    BY <2>1, FS_Interval
  <2> QED
    BY <2>1, <2>2, FS_Subset
<1>2. \A f \in FireIds : f \in 1..MaxFires /\ fires[f].status \in Outcome \cup {"running"}
  BY FireAt DEF Fire
<1>3. \A f \in FiresOf(id) :
         [id |-> f, status |-> fires[f].status]
            \in [id : 1..MaxFires, status : Outcome \cup {"running"}]
  BY <1>2 DEF FiresOf
<1>4. /\ ListFires(id, PageSize, offset).total \in Nat
      /\ ListFires(id, PageSize, offset).fires
            \in SUBSET [id : 1..MaxFires, status : Outcome \cup {"running"}]
  BY <1>1, <1>3, FS_CardinalityType DEF ListFires
<1> QED
  BY <1>4 DEF ListFires, FirePage

\* ceil(total / PageSize), as far as the pager needs it.
LEMMA Ceiling ==
    ASSUME NEW t \in Nat, NEW n \in Nat
    PROVE  /\ (t + PageSize - 1) \div PageSize \in Nat
           /\ n < (t + PageSize - 1) \div PageSize <=> n * PageSize < t
<1> DEFINE q == (t + PageSize - 1) \div PageSize
           r == (t + PageSize - 1) % PageSize
<1>1. q \in Int /\ r \in 0..(PageSize - 1) /\ t + PageSize - 1 = PageSize * q + r
  BY Bounds
<1> HIDE DEF q, r
<1>2. q >= 0
  BY <1>1, Bounds
<1>3. CASE n < q
  <2>1. n + 1 <= q
    BY <1>1, <1>3
  <2>2. PageSize * (n + 1) <= PageSize * q
    BY <1>1, <2>1, Bounds
  <2>3. n * PageSize + PageSize = PageSize * (n + 1) /\ n * PageSize \in Int
        /\ PageSize * q \in Int
    BY <1>1, Bounds
  <2>4. n * PageSize < t
    BY <1>1, <2>2, <2>3, Bounds
  <2> QED
    BY <1>1, <1>2, <1>3, <2>4 DEF q
<1>4. CASE q <= n
  <2>1. PageSize * q <= n * PageSize /\ PageSize * q \in Int /\ n * PageSize \in Int
    BY <1>1, <1>2, <1>4, Bounds
  <2>2. t <= n * PageSize
    BY <1>1, <2>1, Bounds
  <2> QED
    BY <1>1, <1>2, <1>4, <2>1, <2>2 DEF q
<1> QED
  BY <1>1, <1>3, <1>4

LEMMA ClampedType ==
    ASSUME hist \in History, NEW n \in Nat
    PROVE  /\ PageCount \in Nat
           /\ Clamped(n) \in Nat
           /\ PageCount = 0 => Clamped(n) = 0
           /\ PageCount > 0 => Clamped(n) < PageCount
<1>1. PageCount \in Nat
  BY Ceiling DEF PageCount, History
<1> QED
  BY <1>1 DEF Clamped

LEMMA GetTypes ==
    ASSUME NEW gs \in SUBSET Get
    PROVE  /\ Superseded(gs) \in SUBSET Get
           /\ \A g \in Superseded(gs) : g.kind # "effect"
<1>1. \A g \in gs : LET h == [g EXCEPT !.kind = IF g.kind = "effect" THEN "superseded" ELSE g.kind]
                    IN  h \in Get /\ h.kind # "effect"
  BY DEF Get, Kind
<1> QED
  BY <1>1 DEF Superseded

LEMMA ReadTypes ==
    ASSUME NEW rs \in SUBSET Read
    PROVE  /\ Superseded(rs) \in SUBSET Read
           /\ \A q \in Superseded(rs) :
                 /\ q.kind # "effect"
                 /\ \E r \in rs : /\ q.id = r.id /\ q.answer = r.answer
                                  /\ q.kind = r.kind \/ q.kind = "superseded"
<1> DEFINE Dropped(r) ==
        [r EXCEPT !.kind = IF r.kind = "effect" THEN "superseded" ELSE r.kind]
<1>1. \A r \in rs : /\ Dropped(r) \in Read /\ Dropped(r).kind # "effect"
                    /\ Dropped(r).id = r.id /\ Dropped(r).answer = r.answer
                    /\ Dropped(r).kind = r.kind \/ Dropped(r).kind = "superseded"
  BY DEF Read, Kind
<1>2. Superseded(rs) = {Dropped(r) : r \in rs}
  BY DEF Superseded
<1> HIDE DEF Dropped
<1> QED
  BY <1>1, <1>2

\* The loads among the reads are the same after.
SameLoads(rs, after) ==
    /\ \A r \in rs : r.kind = "effect" => \E q \in after : q.kind = "effect" /\ q.id = r.id
    /\ \A q \in after : q.kind = "effect" => \E r \in rs : r.kind = "effect" /\ q.id = r.id

LEMMA LateTypes ==
    ASSUME NEW rs \in SUBSET Read
    PROVE  /\ Late(rs) \in SUBSET Read
           /\ \A q \in Late(rs) : \E r \in rs :
                 /\ q.id = r.id /\ q.answer = r.answer
                 /\ q.kind = r.kind \/ q.kind = "late"
                 /\ q.kind = "refetch" => q.answer = None
<1> DEFINE Marked(r) ==
        [r EXCEPT !.kind = IF r.kind = "refetch" /\ r.answer # None THEN "late" ELSE r.kind]
<1>1. \A r \in rs : /\ Marked(r) \in Read
                    /\ Marked(r).id = r.id /\ Marked(r).answer = r.answer
                    /\ Marked(r).kind = r.kind \/ Marked(r).kind = "late"
                    /\ Marked(r).kind = "refetch" => Marked(r).answer = None
  BY DEF Read, Kind
<1>2. Late(rs) = {Marked(r) : r \in rs}
  BY DEF Late
<1> HIDE DEF Marked
<1> QED
  BY <1>1, <1>2

LEMMA ServedTypes ==
    ASSUME FiresTypeOK, NEW rs \in SUBSET Read, NEW r \in rs, NEW offset
    PROVE  LET answer == ListFires(r.id, PageSize, offset)
               q == [r EXCEPT !.answer = answer]
           IN  /\ q \in Read /\ q.id = r.id /\ q.kind = r.kind /\ q.page = r.page
               /\ q.answer = answer
<1> DEFINE answer == ListFires(r.id, PageSize, offset)
<1>1. answer \in FirePage
  BY HistoryTypes DEF Read
<1> HIDE DEF answer
<1>2. [r EXCEPT !.answer = answer] \in Read
  BY <1>1 DEF Read
<1> QED
  BY <1>1, <1>2 DEF Read, answer

\* What an action's later life leaves of its click.
SameClick(a, b) == /\ b.do = a.do /\ b.target = a.target /\ b.named = a.named
                   /\ b.crossed = a.crossed

LEMMA ActTypes ==
    ASSUME NEW as \in SUBSET Act
    PROVE  /\ Dead(as) \in SUBSET Act
           /\ \A b \in Dead(as) : \E a \in as : SameClick(a, b)
           /\ CardsGone(as) \in SUBSET Act
           /\ \A b \in CardsGone(as) : \E a \in as : SameClick(a, b)
           /\ \A a \in as, s \in {"out", "ok", "not ok", "failed"} :
                 [a EXCEPT !.stage = s] \in Act /\ SameClick(a, [a EXCEPT !.stage = s])
<1>1. \A a \in as : [a EXCEPT !.live = FALSE, !.cards = FALSE] \in Act
                    /\ SameClick(a, [a EXCEPT !.live = FALSE, !.cards = FALSE])
  BY DEF Act, SameClick
<1>2. \A a \in as : [a EXCEPT !.cards = FALSE] \in Act /\ SameClick(a, [a EXCEPT !.cards = FALSE])
  BY DEF Act, SameClick
<1>3. \A a \in as, s \in {"out", "ok", "not ok", "failed"} :
         [a EXCEPT !.stage = s] \in Act /\ SameClick(a, [a EXCEPT !.stage = s])
  BY DEF Act, SameClick
<1> QED
  BY <1>1, <1>2, <1>3 DEF Dead, CardsGone

-----------------------------------------------------------------------------
(* What a step of the server does *)

Stages == {"out", "ok", "not ok", "failed"}

\* A row goes: the one a delete was sent for and the handler let through, or one
\* that another operator deletes, which no resolver had bound.
Deletes(id) == Exists(id) /\ rows' = [rows EXCEPT ![id] = Deleted]

DeletedByClick(a) ==
    a.do = "delete" /\ ~DeleteLocked(a.target, a.force) /\ Deletes(a.target)

DeletedByOther == \E id \in Ids : ~DeleteLocked(id, FALSE) /\ Deletes(id)

Steady == TypeOK /\ SchedulerOffNeverArmed

LEMMA SteadyParts ==
    ASSUME Steady
    PROVE  RowsInv /\ FiresTypeOK
  BY DEF Steady, TypeOK, RowsInv

LEMMA DeleteWrites ==
    ASSUME RowsInv, NEW id \in Ids, Delete(id)
    PROVE  RowsInv' /\ Deletes(id)
  BY OperatorKeeps DEF OperatorStep, Delete, Deletes

LEMMA RowsUnchanged ==
    ASSUME RowsInv, UNCHANGED <<rows, now>>
    PROVE  RowsInv' /\ RowsStep
  BY DEF RowsInv, RowsStep, StoreTypeOK, SchedulerOffNeverArmed, Exists

LEMMA FireWrites ==
    ASSUME Steady, NEW id \in Ids, NEW ok \in BOOLEAN, FireAndRecord(id, ok), now' = now
    PROVE  RowsInv' /\ RowsStep /\ FiresStep
<1>1. AppendFire(id, IF ok THEN "success" ELSE "failure")
  BY DEF FireAndRecord, RecordFire
<1>2. FiresStep
  BY <1>1 DEF FiresStep, FireStatus, Outcome
<1>3. rows[id].sched \in Schedules
  BY <1>1, SteadyParts, ExistingRow DEF AppendFire, Row
<1>4. ApplyTerminal(id, TerminalIntent(rows[id].sched, ok))
  BY DEF FireAndRecord
<1> QED
  BY <1>2, <1>3, <1>4, SteadyParts, TerminalWrites

LEMMA HandleEffect ==
    ASSUME Steady, NEW a \in acts, Handle(a)
    PROVE  /\ RowsInv' /\ FiresStep /\ queued' \subseteq Ids
           /\ RowsStep \/ DeletedByClick(a)
           /\ \E s \in Stages : Ends(a, s)
<1> USE SteadyParts
<1>1. a \in Act /\ a.target \in Ids
  BY DEF Steady, TypeOK, Act
<1>2. queued \subseteq Ids
  BY DEF Steady, TypeOK
<1>3. CASE HandleToggle(a)
  <2>1. FiresStep /\ queued' \subseteq Ids
    BY <1>2, <1>3 DEF HandleToggle, FiresStep
  <2>2. CASE ToggleRefused(a.do, a.target)
    BY <1>3, <2>1, <2>2, RowsUnchanged DEF HandleToggle, Stages
  <2>3. CASE ~ToggleRefused(a.do, a.target)
    <3>1. Pause(a.target) \/ Resume(a.target)
      BY <1>3, <2>3 DEF HandleToggle
    <3>2. RowsInv' /\ RowsStep
      BY <1>1, <3>1, PauseWrites, ResumeWrites
    <3> QED
      BY <1>3, <2>1, <2>3, <3>2 DEF HandleToggle, Stages
  <2> QED
    BY <2>2, <2>3
<1>4. CASE HandleDelete(a)
  <2>1. FiresStep /\ queued' \subseteq Ids
    BY <1>2, <1>4 DEF HandleDelete, FiresStep
  <2>2. CASE Exists(a.target) /\ ~DeleteLocked(a.target, a.force)
    <3>1. Delete(a.target) /\ Ends(a, "ok") /\ a.do = "delete"
      BY <1>4, <2>2 DEF HandleDelete
    <3>2. RowsInv' /\ Deletes(a.target)
      BY <1>1, <3>1, DeleteWrites
    <3> QED
      BY <2>1, <2>2, <3>1, <3>2 DEF DeletedByClick, Stages
  <2>3. CASE ~(Exists(a.target) /\ ~DeleteLocked(a.target, a.force))
    BY <1>4, <2>1, <2>3, RowsUnchanged DEF HandleDelete, Stages
  <2> QED
    BY <2>2, <2>3
<1>5. CASE HandleFire(a)
  <2>n. now' = now
    BY <1>5 DEF HandleFire
  <2>1. CASE UNCHANGED <<rows, fires, queued>> /\ Ends(a, "failed")
    BY <1>2, <2>n, <2>1, RowsUnchanged DEF FiresStep, Stages
  <2>2. CASE queued' = queued \cup {a.target} /\ Ends(a, "ok") /\ UNCHANGED <<rows, fires>>
    BY <1>1, <1>2, <2>n, <2>2, RowsUnchanged DEF FiresStep, Stages
  <2>3. ASSUME NEW ok \in BOOLEAN, FireAndRecord(a.target, ok),
               Ends(a, IF ok THEN "ok" ELSE "not ok"), UNCHANGED queued
        PROVE  /\ RowsInv' /\ FiresStep /\ queued' \subseteq Ids
               /\ RowsStep /\ \E s \in Stages : Ends(a, s)
    BY <1>1, <1>2, <2>n, <2>3, FireWrites DEF Stages
  <2> QED
    BY <1>5, <2>1, <2>2, <2>3 DEF HandleFire
<1>6. CASE HandleRecover(a)
  <2>1. UNCHANGED <<rows, now, queued>>
    BY <1>6 DEF HandleRecover
  <2>2. CASE Recoverable(a.fire)
    BY <1>2, <1>6, <2>1, <2>2, RowsUnchanged, RecoverUpdate DEF HandleRecover, Stages
  <2>3. CASE ~Recoverable(a.fire)
    BY <1>2, <1>6, <2>1, <2>3, RowsUnchanged DEF HandleRecover, Stages, FiresStep
  <2> QED
    BY <2>2, <2>3
<1> QED
  BY <1>3, <1>4, <1>5, <1>6 DEF Handle

LEMMA OtherEffect ==
    ASSUME Steady, NEW id \in Ids, Other(id)
    PROVE  RowsInv' /\ FiresStep /\ (RowsStep \/ DeletedByOther)
<1> USE SteadyParts
<1>1. ASSUME NEW patch \in EditPatches, Edit(id, patch), UNCHANGED fires
      PROVE  RowsInv' /\ FiresStep /\ RowsStep
  BY <1>1, EditWrites DEF FiresStep
<1>2. CASE Exists(id) /\ ~DeleteLocked(id, FALSE) /\ Delete(id) /\ UNCHANGED fires
  BY <1>2, DeleteWrites DEF FiresStep, DeletedByOther
<1>3. ASSUME NEW f \in FireIds, Recoverable(f), RecoverFire(f), UNCHANGED <<rows, now>>
      PROVE  RowsInv' /\ FiresStep /\ RowsStep
  BY <1>3, RowsUnchanged, RecoverUpdate
<1> QED
  BY <1>1, <1>2, <1>3 DEF Other

LEMMA WorkerEffect ==
    ASSUME Steady
    PROVE  /\ \A id \in Ids : WorkerStarts(id) =>
                 RowsInv' /\ FiresStep /\ RowsStep /\ queued' \subseteq Ids
           /\ \A f \in FireIds : WorkerEnds(f) => RowsInv' /\ FiresStep /\ RowsStep
<1> USE SteadyParts
<1>1. ASSUME NEW id \in Ids, WorkerStarts(id)
      PROVE  RowsInv' /\ FiresStep /\ RowsStep /\ queued' \subseteq Ids
  <2>1. RowsInv' /\ RowsStep /\ queued' \subseteq Ids
    BY <1>1, RowsUnchanged DEF WorkerStarts, Steady, TypeOK
  <2>2. FiresStep
    BY <1>1 DEF WorkerStarts, CreateRunningFire, FiresStep, FireStatus
  <2> QED
    BY <2>1, <2>2
<1>2. ASSUME NEW f \in FireIds, WorkerEnds(f) PROVE RowsInv' /\ FiresStep /\ RowsStep
  <2>1. RowsInv' /\ RowsStep
    BY <1>2, RowsUnchanged DEF WorkerEnds
  <2>2. FiresStep
    BY <1>2, FinalizeUpdate DEF WorkerEnds
  <2> QED
    BY <2>1, <2>2
<1> QED
  BY <1>1, <1>2

-----------------------------------------------------------------------------
(* Type correctness *)

LEMMA EmptyHistory == NoHistory \in History
<1>1. {} \in SUBSET [id : 1..MaxFires, status : Outcome \cup {"running"}]
  OBVIOUS
<1> QED
  BY <1>1 DEF NoHistory, History

LEMMA SteadyInit == Init => Steady
<1> SUFFICES ASSUME Init PROVE Steady
  OBVIOUS
<1>1. now \in Time
  BY StoreAssumption DEF Init, Time
<1>2. \A id \in Ids : rows[id] = CommittedRow(Start[id]) /\ Start[id] \in CommitInput
  BY DetailAssumption, StoreAssumption DEF Init
<1>3. \A id \in Ids : rows[id] \in Row
  BY <1>1, <1>2, CommittedType
<1>4. StoreTypeOK
  BY <1>1, <1>3 DEF Init, StoreTypeOK
<1>5. SchedulerOffNeverArmed
  <2>1. \A input \in CommitInput : LET row == CommittedRow(input)
                                  IN  row.ext \/ row.args \/ row.resolver \in Evented
                                      => row.next = None
    BY DEF CommittedRow, CommitInput
  <2> QED
    BY <1>2, <2>1 DEF SchedulerOffNeverArmed
<1>6. FiresTypeOK
  BY DetailAssumption DEF Init, FiresTypeOK
<1>7. hist \in History /\ turns \in 0..MaxTurns
  BY EmptyHistory, Bounds DEF Init
<1>8. /\ tier \in Tier /\ page \in Ids \cup {None} /\ shown \in Shown \cup {None}
      /\ listed \in [Ids -> Row \cup {Unborn, Deleted}]
      /\ {listing, strayRow, stray, kept, older} \subseteq BOOLEAN
  BY DEF Init, Nothing
<1>9. queued = {} /\ gets = {} /\ reads = {} /\ acts = {}
  BY DEF Init
<1> QED
  BY <1>4, <1>5, <1>6, <1>7, <1>8, <1>9 DEF Steady, TypeOK

\* The part of the types that is not the server's.
ScreenTypes ==
    /\ tier \in Tier
    /\ page \in Ids \cup {None}
    /\ listed \in [Ids -> Row \cup {Unborn, Deleted}]
    /\ {listing, strayRow, stray, kept, older} \subseteq BOOLEAN
    /\ shown \in Shown \cup {None}
    /\ gets \in SUBSET Get
    /\ hist \in History
    /\ reads \in SUBSET Read
    /\ acts \in SUBSET Act
    /\ turns \in 0..MaxTurns

LEMMA SteadyIs == Steady <=> RowsInv /\ FiresTypeOK /\ queued \subseteq Ids /\ ScreenTypes
  BY DEF Steady, TypeOK, RowsInv, ScreenTypes

LEMMA TurnType == turns \in 0..MaxTurns /\ Turn => turns' \in 0..MaxTurns
  BY Bounds DEF Turn

LEMMA ServerKept ==
    ASSUME Steady, UNCHANGED server
    PROVE  RowsInv' /\ FiresTypeOK' /\ queued' \subseteq Ids
  BY DEF Steady, TypeOK, RowsInv, server, StoreTypeOK, FiresTypeOK, SchedulerOffNeverArmed, Exists

LEMMA UnmountTypes == UnmountDetail =>
    /\ {strayRow', stray', kept', older'} \subseteq BOOLEAN
    /\ shown' \in Shown \cup {None} /\ gets' \in SUBSET Get
    /\ hist' \in History /\ reads' \in SUBSET Read
  BY EmptyHistory DEF UnmountDetail

LEMMA MountTypes == MountList =>
    listed' \in [Ids -> Row \cup {Unborn, Deleted}] /\ listing' \in BOOLEAN
  BY DEF MountList, Nothing

LEMMA LoadTypes ==
    ASSUME NEW id \in Ids, NEW n \in Nat
    PROVE  /\ HistoryLoad(id, n) \in SUBSET Read
           /\ HistoryRead(id, n, "refetch") \in Read
  BY DEF HistoryLoad, HistoryRead, Read, Kind

LEMMA ClickTypes ==
    ASSUME Steady, NEW do \in Verb, NEW id \in Ids, NEW row, NEW target \in Ids,
           NEW crossed \in BOOLEAN, Click(do, id, row, target, crossed)
    PROVE  acts' \in SUBSET Act
<1> DEFINE force == (do = "delete" /\ row.resolver # None)
           act == [do |-> do, target |-> target, named |-> id, page |-> page,
                   force |-> force, fire |-> 0, at |-> 0, crossed |-> crossed,
                   live |-> TRUE, cards |-> TRUE, stage |-> "out"]
<1>1. force \in BOOLEAN /\ 0 \in 0..MaxFires /\ page \in Ids \cup {None}
  BY FiresAssumption DEF Steady, TypeOK
<1>2. acts' = acts \cup {act}
  BY DEF Click
<1> HIDE DEF force
<1>3. act \in Act
  BY <1>1 DEF Act
<1> HIDE DEF act
<1> QED
  BY <1>2, <1>3, SteadyIs DEF ScreenTypes

LEMMA EndsTypes ==
    ASSUME acts \in SUBSET Act, NEW a \in acts, NEW s \in Stages, Ends(a, s)
    PROVE  acts' \in SUBSET Act
<1>1. [a EXCEPT !.stage = s] \in Act
  BY ActTypes DEF Stages
<1> QED
  BY <1>1 DEF Ends

LEMMA SteadyNext == Steady /\ [Next]_vars => Steady'
<1> SUFFICES ASSUME Steady, [Next]_vars PROVE Steady'
  OBVIOUS
<1>s. ScreenTypes /\ FiresTypeOK /\ RowsInv
  BY SteadyIs
<1>q. queued \subseteq Ids
  BY SteadyIs
<1>p. RowsInv' /\ FiresTypeOK' /\ queued' \subseteq Ids /\ ScreenTypes' => Steady'
  BY DEF Steady, TypeOK, RowsInv, ScreenTypes
<1>k. UNCHANGED server /\ ScreenTypes' => Steady'
  BY <1>p, ServerKept
<1>r. UNCHANGED <<tier, page, listed, listing, detail>> /\ acts' \in SUBSET Act
      /\ turns' \in 0..MaxTurns => ScreenTypes'
  BY <1>s DEF ScreenTypes, detail
<1> USE DEF ScreenTypes
<1>1. CASE UNCHANGED vars
  BY <1>1, <1>s, <1>k DEF vars, list, detail
<1>2. ASSUME NEW id \in Ids, Open(id) PROVE Steady'
  <2>1. gets' \in SUBSET Get /\ acts' \in SUBSET Act
    <3>1. [id |-> id, kind |-> "effect"] \in Get
      BY DEF Get, Kind
    <3> QED
      BY <1>2, <1>s, <3>1, ActTypes DEF Open
  <2>2. listed' \in [Ids -> Row \cup {Unborn, Deleted}] /\ turns' \in 0..MaxTurns
    BY <1>2, <1>s, TurnType DEF Open, Nothing
  <2> QED
    BY <1>2, <1>s, <1>k, <2>1, <2>2 DEF Open
<1>3. ASSUME NEW id \in Ids, Route(id) PROVE Steady'
  <2>1. gets' \in SUBSET Get /\ turns' \in 0..MaxTurns
    BY <1>3, <1>s, GetTypes, TurnType DEF Route, Get, Kind
  <2> QED
    BY <1>3, <1>s, <1>k, <2>1 DEF Route, list
<1>4. CASE Back
  <2>1. acts' \in SUBSET Act /\ turns' \in 0..MaxTurns
    BY <1>4, <1>s, ActTypes, TurnType DEF Back
  <2> QED
    BY <1>4, <1>s, <1>k, <2>1, UnmountTypes, MountTypes DEF Back
<1>5. CASE ListArrives
  BY <1>5, <1>s, <1>k DEF ListArrives, RowsInv, StoreTypeOK, detail
<1>6. CASE ListFails
  BY <1>6, <1>s, <1>k, TurnType DEF ListFails, detail
<1>7. ASSUME NEW g \in gets, RowArrives(g) PROVE Steady'
  <2>1. g.id \in Ids /\ gets' \in SUBSET Get /\ strayRow' \in BOOLEAN
    BY <1>7, <1>s DEF RowArrives, Get
  <2>2. CASE ~IsActive(g)
    BY <1>7, <1>s, <1>k, <2>1, <2>2 DEF RowArrives, list
  <2>3. CASE IsActive(g) /\ Exists(g.id)
    <3>1. shown' \in Shown
      BY <1>7, <1>s, <2>1, <2>3, ExistingRow DEF RowArrives, ShowRow, Shown
    <3>2. hist' \in History /\ {stray', kept', older'} \subseteq BOOLEAN /\ acts' = acts
      BY <1>7, <1>s, <2>3 DEF RowArrives, ShowRow
    <3>3. reads' \in SUBSET Read
      <4>1. hist.page \in Nat
        BY <1>s DEF History
      <4> QED
        BY <1>7, <1>s, <2>1, <2>3, <4>1, ReadTypes, LoadTypes DEF RowArrives, ShowRow
    <3> QED
      BY <1>7, <1>s, <1>k, <2>1, <3>1, <3>2, <3>3 DEF RowArrives, list
  <2>4. CASE IsActive(g) /\ ~Exists(g.id)
    <3>1. ShowError
      BY <1>7, <2>4 DEF RowArrives
    <3>2. acts' \in SUBSET Act /\ hist' \in History /\ reads' \in SUBSET Read
          /\ shown' = None /\ {stray', kept', older'} \subseteq BOOLEAN
      BY <1>s, <3>1, ActTypes, EmptyHistory DEF ShowError
    <3> QED
      BY <1>7, <1>s, <1>k, <2>1, <3>2 DEF RowArrives, list
  <2> QED
    BY <2>2, <2>3, <2>4
<1>8. ASSUME NEW g \in gets, RowFails(g) PROVE Steady'
  <2>1. gets' \in SUBSET Get /\ turns' \in 0..MaxTurns
    BY <1>8, <1>s, TurnType DEF RowFails
  <2>2. acts' \in SUBSET Act /\ hist' \in History /\ reads' \in SUBSET Read
        /\ shown' \in Shown \cup {None} /\ {stray', kept', older'} \subseteq BOOLEAN
    <3>1. CASE IsActive(g)
      <4>1. ShowError
        BY <1>8, <3>1 DEF RowFails
      <4> QED
        BY <1>s, <4>1, ActTypes, EmptyHistory DEF ShowError
    <3>2. CASE ~IsActive(g)
      BY <1>8, <1>s, <3>2 DEF RowFails
    <3> QED
      BY <3>1, <3>2
  <2> QED
    BY <1>8, <1>s, <1>k, <2>1, <2>2 DEF RowFails, list
<1>22. ASSUME NEW r \in reads, HistoryServed(r) PROVE Steady'
  <2>1. reads' \in SUBSET Read
    BY <1>22, <1>s, ServedTypes DEF HistoryServed
  <2> QED
    BY <1>22, <1>s, <1>k, <2>1 DEF HistoryServed, list
<1>9. ASSUME NEW r \in reads, HistoryArrives(r) PROVE Steady'
  <2>1. r.id \in Ids /\ reads' \in SUBSET Read
    BY <1>9, <1>s DEF HistoryArrives, Read
  <2>2. hist' \in History /\ {stray', older'} \subseteq BOOLEAN
    <3>1. r.answer # None => /\ r.answer.total \in Nat
                             /\ r.answer.fires \in SUBSET [id : 1..MaxFires,
                                                         status : Outcome \cup {"running"}]
      BY <1>s DEF Read, FirePage
    <3>2. CASE IsActive(r)
      BY <1>9, <1>s, <2>1, <3>1, <3>2 DEF HistoryArrives, History
    <3>3. CASE ~IsActive(r)
      BY <1>9, <1>s, <3>3 DEF HistoryArrives
    <3> QED
      BY <3>2, <3>3
  <2> QED
    BY <1>9, <1>s, <1>k, <2>1, <2>2 DEF HistoryArrives, list
<1>10. ASSUME NEW r \in reads, HistoryFails(r) PROVE Steady'
  BY <1>10, <1>s, <1>k, TurnType DEF HistoryFails, list
<1>11. CASE Poll
  <2>1. reads' \in SUBSET Read
    <3>1. HistoryRead(shown.id, hist.page, "refetch") \in Read
      BY <1>11, <1>s, LoadTypes DEF Poll, Shown, History
    <3> QED
      BY <1>11, <1>s, <3>1 DEF Poll
  <2> QED
    BY <1>11, <1>s, <1>k, <2>1 DEF Poll, list
<1>12. ASSUME NEW n \in 0..MaxFires, SetPage(n) PROVE Steady'
  <2>1. n \in Nat
    BY FiresAssumption
  <2>2. Clamped(n) \in Nat /\ shown.id \in Ids
    BY <1>12, <1>s, <2>1, ClampedType DEF SetPage, Shown
  <2>3. hist' \in History /\ {kept', older'} \subseteq BOOLEAN
    BY <1>12, <1>s, <2>2 DEF SetPage, History
  <2>4. reads' \in SUBSET Read
    <3>1. Late(reads) \in SUBSET Read
      BY <1>s, LateTypes
    <3> QED
      BY <1>12, <2>2, <3>1, ReadTypes, LoadTypes DEF SetPage
  <2> QED
    BY <1>12, <1>s, <1>k, <2>3, <2>4, TurnType DEF SetPage, list
<1>13. ASSUME NEW do \in Verb, NEW id \in Ids, ListClick(do, id) PROVE Steady'
  <2>1. Click(do, id, listed[id], id, FALSE)
    BY <1>13 DEF ListClick
  <2>2. acts' \in SUBSET Act
    BY <2>1, ClickTypes
  <2> QED
    BY <1>s, <1>k, <1>r, <2>1, <2>2, TurnType DEF Click, list
<1>14. ASSUME NEW do \in Verb, DetailClick(do) PROVE Steady'
  <2>1. Click(do, shown.id, shown.row, DetailTarget(do), Crossed)
        /\ shown.id \in Ids /\ DetailTarget(do) \in Ids /\ Crossed \in BOOLEAN
    BY <1>14, <1>s DEF DetailClick, DetailTarget, Crossed, Shown
  <2>2. acts' \in SUBSET Act
    BY <2>1, ClickTypes
  <2> QED
    BY <1>s, <1>k, <1>r, <2>1, <2>2, TurnType DEF Click, list
<1>15. CASE RecoverClick
  <2>1. PICK f \in hist.fires :
           acts' = acts \cup {[do |-> "recover", target |-> shown.id, named |-> shown.id,
                               page |-> page, force |-> FALSE, fire |-> f.id,
                               at |-> hist.page, crossed |-> FALSE, live |-> TRUE,
                               cards |-> TRUE, stage |-> "out"]}
    BY <1>15 DEF RecoverClick
  <2>2. shown.id \in Ids /\ f.id \in 0..MaxFires /\ hist.page \in Nat
    BY <1>15, <1>s DEF RecoverClick, Shown, History
  <2>3. acts' \in SUBSET Act
    <3> DEFINE act == [do |-> "recover", target |-> shown.id, named |-> shown.id,
                       page |-> page, force |-> FALSE, fire |-> f.id,
                       at |-> hist.page, crossed |-> FALSE, live |-> TRUE,
                       cards |-> TRUE, stage |-> "out"]
    <3>1. act \in Act
      BY <1>s, <2>2 DEF Act, Verb
    <3>2. acts' = acts \cup {act}
      BY <2>1
    <3> HIDE DEF act
    <3> QED
      BY <1>s, <3>1, <3>2
  <2> QED
    BY <1>15, <1>s, <1>k, <1>r, <2>3, TurnType DEF RecoverClick, list
<1>16. ASSUME NEW a \in acts, Handle(a) PROVE Steady'
  <2>1. /\ RowsInv' /\ FiresStep /\ queued' \subseteq Ids
        /\ \E s \in Stages : Ends(a, s)
    BY <1>16, HandleEffect
  <2>2. acts' \in SUBSET Act /\ FiresTypeOK'
    BY <1>s, <2>1, EndsTypes, FiresStepKeeps
  <2> QED
    BY <1>16, <1>s, <1>p, <1>r, <2>1, <2>2 DEF Handle, list
<1>17. ASSUME NEW a \in acts, ActFails(a) PROVE Steady'
  <2>1. acts' \in SUBSET Act
    BY <1>17, <1>s, EndsTypes DEF ActFails, Stages
  <2> QED
    BY <1>17, <1>s, <1>k, <1>r, <2>1, TurnType DEF ActFails, list
<1>18. ASSUME NEW a \in acts, Answer(a) PROVE Steady'
  <2>a. a \in Act
    BY <1>s
  <2>1. CASE page' = None /\ MountList /\ UnmountDetail /\ acts' = Dead(acts \ {a})
    <3>1. acts' \in SUBSET Act
      BY <1>s, <2>1, ActTypes
    <3> QED
      BY <1>18, <1>s, <1>k, <2>1, <3>1, UnmountTypes, MountTypes DEF Answer
  <2>2. CASE Rereads(a) /\ acts' = acts \ {a}
    <3>1. gets' \in SUBSET Get /\ reads' \in SUBSET Read /\ listing' \in BOOLEAN
      <4>1. /\ a.page # None => [id |-> a.page, kind |-> "refetch"] \in Get
            /\ HistoryRead(a.target, a.at, "refetch") \in Read
        BY <2>a, LoadTypes DEF Get, Kind, Act
      <4>2. gets' \in SUBSET Get
        BY <1>s, <2>2, <4>1 DEF Rereads
      <4>3. reads' \in SUBSET Read
        BY <1>s, <2>2, <4>1 DEF Rereads
      <4>4. listing' \in BOOLEAN
        BY <1>s, <2>a, <2>2 DEF Rereads, Act
      <4> QED
        BY <4>2, <4>3, <4>4
    <3> QED
      BY <1>18, <1>s, <1>k, <2>2, <3>1 DEF Answer, Rereads
  <2> QED
    BY <1>18, <2>1, <2>2 DEF Answer
<1>19. ASSUME NEW id \in Ids, Other(id) PROVE Steady'
  <2>1. RowsInv' /\ FiresTypeOK'
    BY <1>19, <1>s, OtherEffect, FiresStepKeeps
  <2> QED
    BY <1>19, <1>s, <1>q, <1>p, <1>r, <2>1, TurnType DEF Other, list
<1>20. ASSUME NEW id \in Ids, WorkerStarts(id) PROVE Steady'
  <2>1. RowsInv' /\ FiresTypeOK' /\ queued' \subseteq Ids
    BY <1>20, <1>s, WorkerEffect, FiresStepKeeps
  <2> QED
    BY <1>20, <1>s, <1>p, <1>r, <2>1 DEF WorkerStarts, list
<1>21. ASSUME NEW f \in FireIds, WorkerEnds(f) PROVE Steady'
  <2>1. RowsInv' /\ FiresTypeOK'
    BY <1>21, <1>s, WorkerEffect, FiresStepKeeps
  <2> QED
    BY <1>21, <1>s, <1>q, <1>p, <1>r, <2>1, TurnType DEF WorkerEnds, list
<1> QED
  BY <1>1, <1>2, <1>3, <1>4, <1>5, <1>6, <1>7, <1>8, <1>9, <1>10, <1>11, <1>12, <1>13, <1>14,
     <1>15, <1>16, <1>17, <1>18, <1>19, <1>20, <1>21, <1>22 DEF Next

\* The rows, the fires, both screens and everything in flight keep their type.
THEOREM ScreenTypesHold == Spec => []TypeOK
<1>1. Steady => TypeOK
  BY DEF Steady
<1> QED
  BY <1>1, SteadyInit, SteadyNext, PTL DEF Spec

-----------------------------------------------------------------------------
(* The row on the screen *)

\* The load that counts is the one of the page's id.
LoadsInv ==
    /\ \A g \in gets : g.kind = "effect" => g.id = page
    /\ ShownIsOfPage

LEMMA LoadsFrame ==
    ASSUME LoadsInv, UNCHANGED <<page, shown, strayRow>>,
           \A g \in gets : g.kind = "effect" => g \in gets',
           \A g \in gets' : g \in gets \/ g.kind # "effect"
    PROVE  LoadsInv'
  BY DEF LoadsInv, ShownIsOfPage, Crossed

LEMMA LoadsNext == Steady /\ LoadsInv /\ [Next]_vars => LoadsInv'
<1> SUFFICES ASSUME Steady, LoadsInv, [Next]_vars PROVE LoadsInv'
  OBVIOUS
<1>s. ScreenTypes
  BY SteadyIs
<1>f. UNCHANGED <<page, shown, gets, strayRow>> => LoadsInv'
  BY LoadsFrame
<1>m. page' = None /\ UnmountDetail => LoadsInv'
  BY DEF UnmountDetail, LoadsInv, ShownIsOfPage
<1>1. CASE UNCHANGED vars
  BY <1>1, <1>f DEF vars, detail
<1>2. ASSUME NEW id \in Ids, Open(id) PROVE LoadsInv'
  <2>1. gets' = {[id |-> id, kind |-> "effect"]} /\ page' = id
    BY <1>2 DEF Open
  <2> QED
    BY <2>1 DEF LoadsInv, ShownIsOfPage, Crossed
<1>3. ASSUME NEW id \in Ids, Route(id) PROVE LoadsInv'
  <2> DEFINE g == [id |-> id, kind |-> "effect"]
  <2>1. gets' = Superseded(gets) \cup {g} /\ page' = id
    BY <1>3 DEF Route
  <2>2. \A h \in Superseded(gets) : h.kind # "effect"
    BY <1>s, GetTypes DEF ScreenTypes
  <2>3. g \in gets' /\ g.kind = "effect" /\ g.id = page'
    BY <2>1
  <2>4. \A h \in gets' : h.kind = "effect" => h.id = page'
    BY <2>1, <2>2
  <2> HIDE DEF g
  <2> QED
    BY <2>3, <2>4 DEF LoadsInv, ShownIsOfPage, Crossed
<1>4. CASE Back
  BY <1>4, <1>m DEF Back
<1>5. ASSUME NEW g \in gets, RowArrives(g) PROVE LoadsInv'
  <2>1. gets' = gets \ {g} /\ page' = page
    BY <1>5 DEF RowArrives
  <2>2. CASE ~IsActive(g)
    BY <1>5, <2>1, <2>2, LoadsFrame DEF RowArrives, IsActive
  <2>3. CASE IsActive(g)
    <3>1. g.kind \in {"effect", "refetch"} /\ (g.kind = "effect" => g.id = page)
      BY <1>s, <2>3 DEF ScreenTypes, Get, Kind, IsActive, LoadsInv
    <3>2. strayRow' = (g.kind = "refetch" /\ g.id # page)
      BY <1>5, <2>3 DEF RowArrives
    <3>3. shown' = None \/ shown'.id = g.id
      BY <1>5, <2>3 DEF RowArrives, ShowRow, ShowError
    <3> QED
      BY <2>1, <3>1, <3>2, <3>3 DEF LoadsInv, ShownIsOfPage, Crossed
  <2> QED
    BY <2>2, <2>3
<1>6. ASSUME NEW g \in gets, RowFails(g) PROVE LoadsInv'
  <2>1. gets' = gets \ {g} /\ page' = page /\ strayRow' = strayRow
    BY <1>6 DEF RowFails, list
  <2>2. CASE ~IsActive(g)
    BY <1>6, <2>1, <2>2, LoadsFrame DEF RowFails, IsActive
  <2>3. CASE IsActive(g)
    BY <1>6, <2>1, <2>3 DEF RowFails, ShowError, LoadsInv, ShownIsOfPage
  <2> QED
    BY <2>2, <2>3
<1>7. ASSUME NEW a \in acts, Answer(a) PROVE LoadsInv'
  <2>1. CASE page' = None /\ UnmountDetail
    BY <1>m, <2>1
  <2>2. CASE Rereads(a)
    BY <2>2, LoadsFrame DEF Rereads
  <2> QED
    BY <1>7, <2>1, <2>2 DEF Answer
<1>8. CASE UNCHANGED <<page, detail>>
  BY <1>8, <1>f DEF detail
<1>9. ASSUME UNCHANGED <<page, shown, gets, strayRow>> PROVE LoadsInv'
  BY <1>9, <1>f
<1> QED
  BY <1>1, <1>2, <1>3, <1>4, <1>5, <1>6, <1>7, <1>8, <1>9
     DEF Next, ListArrives, ListFails, HistoryServed, HistoryArrives, HistoryFails, Poll, SetPage,
         ListClick,
         DetailClick, Click, RecoverClick, Handle, ActFails, Other, WorkerStarts, WorkerEnds

\* The row on the screen is the page's, unless its own is on the way or a refetch
\* of the last id came late.
THEOREM ShownRows == Spec => []ShownIsOfPage
<1>1. Init => LoadsInv
  BY DEF Init, LoadsInv, ShownIsOfPage
<1>2. LoadsInv => ShownIsOfPage
  BY DEF LoadsInv
<1> QED
  BY <1>1, <1>2, LoadsNext, SteadyInit, SteadyNext, PTL DEF Spec

-----------------------------------------------------------------------------
(* The deletes *)

\* A delete is for the row whose name was confirmed, or was sent while the screen
\* may have shown another.
ConfirmInv ==
    \A a \in acts : a.do = "delete" => a.crossed \/ a.named = a.target

LEMMA ConfirmFrame ==
    ASSUME ConfirmInv, \A b \in acts' : \E a \in acts : SameClick(a, b)
    PROVE  ConfirmInv'
  BY DEF ConfirmInv, SameClick

LEMMA ConfirmNext == Steady /\ LoadsInv /\ ConfirmInv /\ [Next]_vars => ConfirmInv'
<1> SUFFICES ASSUME Steady, LoadsInv, ConfirmInv, [Next]_vars PROVE ConfirmInv'
  OBVIOUS
<1>s. acts \in SUBSET Act
  BY SteadyIs DEF ScreenTypes
<1>f. acts' \subseteq acts => ConfirmInv'
  BY DEF ConfirmInv
<1>d. acts' = Dead(acts) => ConfirmInv'
  BY <1>s, ActTypes, ConfirmFrame
<1>c. acts' = CardsGone(acts) => ConfirmInv'
  BY <1>s, ActTypes, ConfirmFrame
<1>e. ASSUME NEW a \in acts, NEW s \in Stages, Ends(a, s) PROVE ConfirmInv'
  <2>1. SameClick(a, [a EXCEPT !.stage = s])
    BY <1>s, ActTypes DEF Stages
  <2>2. \A b \in acts : SameClick(b, b)
    BY DEF SameClick
  <2> QED
    BY <1>e, <2>1, <2>2, ConfirmFrame DEF Ends
<1>n. ASSUME NEW do, NEW id, NEW row, NEW target, NEW crossed, Click(do, id, row, target, crossed),
             do = "delete" => crossed \/ id = target
      PROVE  ConfirmInv'
  BY <1>n DEF Click, ConfirmInv
<1>1. CASE UNCHANGED acts
  BY <1>1, <1>f
<1>2. ASSUME NEW id \in Ids, Open(id) PROVE ConfirmInv'
  BY <1>2, <1>d DEF Open
<1>3. ASSUME NEW g \in gets, RowArrives(g) PROVE ConfirmInv'
  BY <1>3, <1>1, <1>c DEF RowArrives, ShowRow, ShowError
<1>4. ASSUME NEW g \in gets, RowFails(g) PROVE ConfirmInv'
  BY <1>4, <1>1, <1>c DEF RowFails, ShowError
<1>5. ASSUME NEW do \in Verb, NEW id \in Ids, ListClick(do, id) PROVE ConfirmInv'
  BY <1>5, <1>n DEF ListClick
<1>6. ASSUME NEW do \in Verb, DetailClick(do) PROVE ConfirmInv'
  <2>1. do = "delete" => Crossed \/ shown.id = DetailTarget(do)
    BY <1>6 DEF DetailClick, DetailTarget, LoadsInv, ShownIsOfPage
  <2> QED
    BY <1>6, <1>n, <2>1 DEF DetailClick
<1>7. CASE RecoverClick
  BY <1>7 DEF RecoverClick, ConfirmInv
<1>8. ASSUME NEW a \in acts, Handle(a) PROVE ConfirmInv'
  BY <1>8, <1>e, HandleEffect
<1>9. ASSUME NEW a \in acts, ActFails(a) PROVE ConfirmInv'
  BY <1>9, <1>e DEF ActFails, Stages
<1>10. ASSUME NEW a \in acts, Answer(a) PROVE ConfirmInv'
  <2>1. CASE acts' = Dead(acts \ {a})
    <3>1. \A b \in acts' : \E c \in acts \ {a} : SameClick(c, b)
      BY <1>s, <2>1, ActTypes
    <3> QED
      BY <3>1, ConfirmFrame
  <2>2. CASE acts' = acts \ {a}
    BY <1>f, <2>2
  <2> QED
    BY <1>10, <2>1, <2>2 DEF Answer
<1>11. ASSUME NEW id \in Ids, Other(id) \/ WorkerStarts(id) \/ Route(id) PROVE ConfirmInv'
  BY <1>11, <1>1 DEF Other, WorkerStarts, Route
<1>12. ASSUME NEW f \in FireIds, WorkerEnds(f) PROVE ConfirmInv'
  BY <1>12, <1>1 DEF WorkerEnds
<1>13. ASSUME NEW r \in reads, HistoryServed(r) \/ HistoryArrives(r) \/ HistoryFails(r)
       PROVE  ConfirmInv'
  BY <1>13, <1>1 DEF HistoryServed, HistoryArrives, HistoryFails
<1>14. CASE Back \/ ListArrives \/ ListFails \/ Poll \/ UNCHANGED vars
  BY <1>14, <1>1, <1>d DEF Back, ListArrives, ListFails, Poll, vars
<1>15. ASSUME NEW n \in 0..MaxFires, SetPage(n) PROVE ConfirmInv'
  BY <1>15, <1>1 DEF SetPage
<1> QED
  BY <1>2, <1>3, <1>4, <1>5, <1>6, <1>7, <1>8, <1>9, <1>10, <1>11, <1>12, <1>13, <1>14, <1>15
     DEF Next

\* What a step of the property's action formula must show.
DeletesConfirmed ==
    \A id \in Ids : Exists(id) /\ rows'[id] = Deleted =>
        \/ \E a \in acts : /\ a.do = "delete" /\ a.target = id
                           /\ a.crossed \/ a.named = id
                           /\ rows[id].resolver # None => a.force
        \/ UNCHANGED acts /\ rows[id].resolver = None

LEMMA DeletesStep == Steady /\ ConfirmInv /\ [Next]_vars => DeletesConfirmed
<1> SUFFICES ASSUME Steady, ConfirmInv, [Next]_vars PROVE DeletesConfirmed
  OBVIOUS
<1>1. RowsStep => \A id \in Ids : ~(Exists(id) /\ rows'[id] = Deleted)
  BY DEF RowsStep, Exists
<1>2. RowsStep => DeletesConfirmed
  BY <1>1 DEF DeletesConfirmed
<1>3. UNCHANGED rows => DeletesConfirmed
  BY <1>2 DEF RowsStep
<1>4. \A id \in Ids : Deletes(id) => \A j \in Ids \ {id} : rows'[j] = rows[j]
  BY DEF Deletes, Steady, TypeOK, StoreTypeOK
<1>5. ASSUME NEW a \in acts, Handle(a) PROVE DeletesConfirmed
  <2>1. CASE DeletedByClick(a)
    <3>1. a.do = "delete" /\ (a.crossed \/ a.named = a.target)
          /\ (rows[a.target].resolver # None => a.force)
      BY <2>1 DEF DeletedByClick, ConfirmInv, DeleteLocked
    <3>2. \A id \in Ids \ {a.target} : rows'[id] = rows[id]
      BY <2>1, <1>4 DEF DeletedByClick, Steady, TypeOK, Act
    <3> QED
      BY <3>1, <3>2 DEF DeletesConfirmed, Exists
  <2> QED
    BY <1>5, <1>2, <2>1, HandleEffect
<1>6. ASSUME NEW id \in Ids, Other(id) PROVE DeletesConfirmed
  <2>1. CASE DeletedByOther
    <3>1. PICK j \in Ids : ~DeleteLocked(j, FALSE) /\ Deletes(j)
      BY <2>1 DEF DeletedByOther
    <3>2. rows[j].resolver = None
      BY <3>1 DEF DeleteLocked
    <3>3. UNCHANGED acts
      BY <1>6 DEF Other
    <3> QED
      BY <1>4, <3>1, <3>2, <3>3 DEF DeletesConfirmed, Exists
  <2> QED
    BY <1>6, <1>2, <2>1, OtherEffect
<1>7. ASSUME NEW id \in Ids, WorkerStarts(id) \/ Open(id) \/ Route(id) PROVE DeletesConfirmed
  BY <1>7, <1>3 DEF WorkerStarts, Open, Route, server
<1>8. ASSUME NEW f \in FireIds, WorkerEnds(f) PROVE DeletesConfirmed
  BY <1>8, <1>3 DEF WorkerEnds
<1>9. ASSUME NEW g \in gets, RowArrives(g) \/ RowFails(g) PROVE DeletesConfirmed
  BY <1>9, <1>3 DEF RowArrives, RowFails, server
<1>10. ASSUME NEW r \in reads, HistoryServed(r) \/ HistoryArrives(r) \/ HistoryFails(r)
       PROVE  DeletesConfirmed
  BY <1>10, <1>3 DEF HistoryServed, HistoryArrives, HistoryFails, server
<1>11. CASE Back \/ ListArrives \/ ListFails \/ Poll \/ RecoverClick \/ UNCHANGED vars
  BY <1>11, <1>3 DEF Back, ListArrives, ListFails, Poll, RecoverClick, vars, server
<1>12. ASSUME NEW n \in 0..MaxFires, SetPage(n) PROVE DeletesConfirmed
  BY <1>12, <1>3 DEF SetPage, server
<1>13. ASSUME NEW do \in Verb, DetailClick(do) \/ \E id \in Ids : ListClick(do, id)
       PROVE  DeletesConfirmed
  BY <1>13, <1>3 DEF DetailClick, ListClick, Click, server
<1>14. ASSUME NEW a \in acts, ActFails(a) \/ Answer(a) PROVE DeletesConfirmed
  BY <1>14, <1>3 DEF ActFails, Answer, server
<1> QED
  BY <1>5, <1>6, <1>7, <1>8, <1>9, <1>10, <1>11, <1>12, <1>13, <1>14 DEF Next

\* A row that goes by an uncrossed click was the one confirmed, and a system row goes by
\* force only, whatever came between the click and the handler.
\* A crossed click, made while the row on the screen may be another than the id's, may
\* delete a row that was not the one confirmed.
THEOREM DeletesAreConfirmed == Spec => DeletesWhatWasConfirmed
<1>1. Init => LoadsInv /\ ConfirmInv
  BY DEF Init, LoadsInv, ShownIsOfPage, ConfirmInv
<1>2. DeletesConfirmed => [DeletesConfirmed]_vars
  OBVIOUS
<1>3. Spec => [][DeletesConfirmed]_vars
  BY <1>1, <1>2, LoadsNext, ConfirmNext, DeletesStep, SteadyInit, SteadyNext, PTL DEF Spec
<1> QED
  BY <1>3 DEF DeletesWhatWasConfirmed, DeletesConfirmed

-----------------------------------------------------------------------------
(* The history *)

\* The load that counts is the one of the row that is shown.
HistoryInv ==
    /\ \A r \in reads : r.kind = "effect" => shown # None /\ r.id = shown.id
    /\ HistoryIsOfRow

LEMMA HistoryFrame ==
    ASSUME HistoryInv, shown' = shown \/ (shown # None /\ shown' # None /\ shown'.id = shown.id),
           hist'.of = hist.of, stray => stray',
           SameLoads(reads, reads') \/ (stray' /\ reads' \subseteq reads)
    PROVE  HistoryInv'
  BY DEF HistoryInv, HistoryIsOfRow, SameLoads

\* A load of the row that is shown, which supersedes the others.
LEMMA HistoryReload ==
    ASSUME NEW rs \in SUBSET Read, NEW n \in Nat, shown' # None, shown'.id \in Ids,
           reads' = Superseded(rs) \cup HistoryLoad(shown'.id, n)
    PROVE  HistoryInv'
<1> DEFINE r == HistoryRead(shown'.id, n, "effect")
<1>1. r \in reads' /\ r.kind = "effect" /\ r.id = shown'.id
  BY DEF HistoryLoad, HistoryRead
<1>2. \A q \in reads' : q.kind = "effect" => q.id = shown'.id
  BY ReadTypes DEF HistoryLoad, HistoryRead
<1> HIDE DEF r
<1> QED
  BY <1>1, <1>2 DEF HistoryInv, HistoryIsOfRow

LEMMA HistoryNext == Steady /\ HistoryInv /\ [Next]_vars => HistoryInv'
<1> SUFFICES ASSUME Steady, HistoryInv, [Next]_vars PROVE HistoryInv'
  OBVIOUS
<1>s. ScreenTypes
  BY SteadyIs
<1>f. UNCHANGED <<shown, hist, reads, stray>> => HistoryInv'
  BY HistoryFrame DEF SameLoads
<1>u. UnmountDetail \/ ShowError => HistoryInv'
  BY DEF UnmountDetail, ShowError, HistoryInv, HistoryIsOfRow
<1>h. hist.page \in Nat
  BY <1>s DEF ScreenTypes, History
<1>1. CASE UNCHANGED vars
  BY <1>1, <1>f DEF vars, detail
<1>2. ASSUME NEW id \in Ids, Open(id) \/ Route(id) PROVE HistoryInv'
  BY <1>2, <1>f DEF Open, Route
<1>3. CASE Back
  BY <1>3, <1>u DEF Back
<1>4. ASSUME NEW g \in gets, RowArrives(g) PROVE HistoryInv'
  <2>1. CASE ~IsActive(g)
    BY <1>4, <1>f, <2>1 DEF RowArrives
  <2>2. CASE IsActive(g) /\ ~Exists(g.id)
    BY <1>4, <1>u, <2>2 DEF RowArrives
  <2>3. CASE IsActive(g) /\ Exists(g.id)
    <3>1. ShowRow(g.id) /\ g.id \in Ids
      BY <1>4, <1>s, <2>3 DEF RowArrives, ScreenTypes, Get
    <3>2. shown' = [id |-> g.id, row |-> rows[g.id]]
      BY <3>1 DEF ShowRow
    <3>3. shown' # None
      <4>1. shown' \in Shown /\ shown'.id \in Ids
        BY <3>1, <3>2, <2>3, SteadyParts, ExistingRow DEF Shown
      <4> QED
        BY <4>1, DetailAssumption
    <3>4. shown'.id = g.id
      BY <3>2
    <3>5. CASE shown # None /\ shown.id = g.id
      BY <3>1, <3>3, <3>4, <3>5, HistoryFrame DEF ShowRow, SameLoads
    <3>6. CASE ~(shown # None /\ shown.id = g.id)
      <4>1. reads' = Superseded(reads) \cup HistoryLoad(g.id, hist.page)
        BY <3>1, <3>6 DEF ShowRow
      <4> QED
        BY <1>s, <1>h, <3>1, <3>3, <3>4, <4>1, HistoryReload DEF ScreenTypes
    <3> QED
      BY <3>5, <3>6
  <2> QED
    BY <2>1, <2>2, <2>3
<1>5. ASSUME NEW g \in gets, RowFails(g) PROVE HistoryInv'
  <2>1. CASE ~IsActive(g)
    BY <1>5, <1>f, <2>1 DEF RowFails
  <2>2. CASE IsActive(g)
    BY <1>5, <1>u, <2>2 DEF RowFails
  <2> QED
    BY <2>1, <2>2
<1>12. ASSUME NEW r \in reads, HistoryServed(r) PROVE HistoryInv'
  <2> DEFINE q == [r EXCEPT !.answer = ListFires(r.id, PageSize, r.page * PageSize)]
  <2>1. q.id = r.id /\ q.kind = r.kind
    BY <1>s, SteadyParts, ServedTypes DEF ScreenTypes
  <2>2. reads' = (reads \ {r}) \cup {q} /\ UNCHANGED <<shown, hist, stray>>
    BY <1>12 DEF HistoryServed
  <2> HIDE DEF q
  <2>3. SameLoads(reads, reads')
    BY <2>1, <2>2 DEF SameLoads
  <2> QED
    BY <2>2, <2>3, HistoryFrame
<1>6. ASSUME NEW r \in reads, HistoryArrives(r) PROVE HistoryInv'
  <2>1. reads' = reads \ {r} /\ shown' = shown
    BY <1>6 DEF HistoryArrives
  <2>2. CASE ~IsActive(r)
    BY <1>6, <2>1, <2>2, HistoryFrame DEF HistoryArrives, IsActive, SameLoads
  <2>3. CASE IsActive(r)
    <3>1. hist'.of = r.id /\ stray' = (r.kind # "effect" /\ r.id # shown.id)
      BY <1>6, <1>s, <2>3 DEF HistoryArrives, ScreenTypes, History
    <3> QED
      BY <2>1, <3>1 DEF HistoryInv, HistoryIsOfRow
  <2> QED
    BY <2>2, <2>3
<1>7. ASSUME NEW r \in reads, HistoryFails(r) PROVE HistoryInv'
  <2>1. reads' = reads \ {r} /\ stray' = (stray \/ r.kind = "effect")
        /\ UNCHANGED <<shown, hist>>
    BY <1>7 DEF HistoryFails
  <2>2. r.kind # "effect" => SameLoads(reads, reads')
    BY <2>1 DEF SameLoads
  <2> QED
    BY <1>s, <2>1, <2>2, HistoryFrame DEF ScreenTypes
<1>8. CASE Poll
  <2>1. SameLoads(reads, reads')
    BY <1>8 DEF Poll, HistoryRead, SameLoads
  <2> QED
    BY <1>8, <2>1, HistoryFrame DEF Poll
<1>9. ASSUME NEW n \in 0..MaxFires, SetPage(n) PROVE HistoryInv'
  <2>1. Clamped(n) \in Nat /\ shown # None /\ shown' = shown /\ shown.id \in Ids
    BY <1>9, <1>s, FiresAssumption, ClampedType DEF SetPage, ScreenTypes, Shown
  <2>2. Late(reads) \in SUBSET Read
    BY <1>s, LateTypes DEF ScreenTypes
  <2> QED
    BY <1>9, <2>1, <2>2, HistoryReload DEF SetPage
<1>10. ASSUME NEW a \in acts, Answer(a) PROVE HistoryInv'
  <2>1. CASE UnmountDetail
    BY <1>u, <2>1
  <2>2. CASE Rereads(a)
    <3>1. SameLoads(reads, reads')
      BY <2>2 DEF Rereads, HistoryRead, SameLoads
    <3> QED
      BY <2>2, <3>1, HistoryFrame DEF Rereads
  <2> QED
    BY <1>10, <2>1, <2>2 DEF Answer
<1>11. CASE UNCHANGED detail
  BY <1>11, <1>f DEF detail
<1> QED
  BY <1>1, <1>2, <1>3, <1>4, <1>5, <1>6, <1>7, <1>8, <1>9, <1>10, <1>11, <1>12
     DEF Next, ListArrives, ListFails, ListClick, DetailClick, Click, RecoverClick, Handle,
         ActFails, Other, WorkerStarts, WorkerEnds

\* The history below a row is the row's own, unless its load is on the way or has
\* failed, or a late answer for another row was taken.
THEOREM HistoriesAreOfRows == Spec => []HistoryIsOfRow
<1>1. Init => HistoryInv
  BY DEF Init, HistoryInv, HistoryIsOfRow
<1>2. HistoryInv => HistoryIsOfRow
  BY DEF HistoryInv
<1> QED
  BY <1>1, <1>2, HistoryNext, SteadyInit, SteadyNext, PTL DEF Spec
-----------------------------------------------------------------------------
(* The table of fires, and the pages of it *)

\* Every step of the module treats the two tables like this.
LEMMA ServerNext ==
    Steady /\ [Next]_vars => FiresStep /\ (RowsStep \/ \E id \in Ids : Deletes(id))
<1> SUFFICES ASSUME Steady, [Next]_vars
             PROVE  FiresStep /\ (RowsStep \/ \E id \in Ids : Deletes(id))
  OBVIOUS
<1> DEFINE Goal == FiresStep /\ (RowsStep \/ \E id \in Ids : Deletes(id))
<1>1. rows' = rows /\ fires' = fires => Goal
  BY DEF FiresStep, RowsStep
<1>2. ASSUME NEW a \in acts, Handle(a) PROVE Goal
  <2>1. a.target \in Ids
    BY DEF Steady, TypeOK, Act
  <2> QED
    BY <1>2, <2>1, HandleEffect DEF DeletedByClick
<1>3. ASSUME NEW id \in Ids, Other(id) PROVE Goal
  BY <1>3, OtherEffect DEF DeletedByOther
<1>4. ASSUME NEW id \in Ids, WorkerStarts(id) PROVE Goal
  BY <1>4, WorkerEffect
<1>5. ASSUME NEW f \in FireIds, WorkerEnds(f) PROVE Goal
  BY <1>5, WorkerEffect
<1> HIDE DEF Goal
<1>6. ASSUME NEW id \in Ids, Open(id) \/ Route(id) PROVE Goal
  BY <1>6, <1>1 DEF Open, Route, server
<1>7. ASSUME NEW g \in gets, RowArrives(g) \/ RowFails(g) PROVE Goal
  BY <1>7, <1>1 DEF RowArrives, RowFails, server
<1>8. ASSUME NEW r \in reads, HistoryServed(r) \/ HistoryArrives(r) \/ HistoryFails(r)
      PROVE  Goal
  BY <1>8, <1>1 DEF HistoryServed, HistoryArrives, HistoryFails, server
<1>9. ASSUME Back \/ ListArrives \/ ListFails \/ Poll \/ RecoverClick \/ UNCHANGED vars PROVE Goal
  BY <1>9, <1>1 DEF Back, ListArrives, ListFails, Poll, RecoverClick, vars, server
<1>10. ASSUME NEW n \in 0..MaxFires, SetPage(n) PROVE Goal
  BY <1>10, <1>1 DEF SetPage, server
<1>11. ASSUME NEW do \in Verb, DetailClick(do) \/ \E id \in Ids : ListClick(do, id) PROVE Goal
  BY <1>11, <1>1 DEF DetailClick, ListClick, Click, server
<1>12. ASSUME NEW a \in acts, ActFails(a) \/ Answer(a) PROVE Goal
  BY <1>12, <1>1 DEF ActFails, Answer, server
<1>13. Goal
  BY <1>2, <1>3, <1>4, <1>5, <1>6, <1>7, <1>8, <1>9, <1>10, <1>11, <1>12 DEF Next
<1> QED
  BY <1>13 DEF Goal

\* A worker's fire is running until it is first finalized, and cannot be recovered
\* before.
RecoveryInv ==
    \A f \in FireIds :
        /\ fires[f].worker /\ fires[f].ends = 0 =>
              fires[f].status = "running" /\ ~fires[f].recovered
        /\ fires[f].recovered => fires[f].status = "success" \/ fires[f].ends > 1

LEMMA RecoveryStep == FiresTypeOK /\ RecoveryInv /\ FiresStep => RecoveryInv'
<1> SUFFICES ASSUME FiresTypeOK, RecoveryInv, FiresStep PROVE RecoveryInv'
  OBVIOUS
<1> DEFINE Fine(fire) ==
        /\ fire.worker /\ fire.ends = 0 => fire.status = "running" /\ ~fire.recovered
        /\ fire.recovered => fire.status = "success" \/ fire.ends > 1
<1>1. RecoveryInv <=> \A f \in FireIds : Fine(fires[f])
  BY DEF RecoveryInv
<1>2. (\A f \in FireIds' : Fine(fires'[f])) => RecoveryInv'
  BY DEF RecoveryInv
<1>t. \A f \in FireIds : fires[f].ends \in Nat
  BY FireAt, FiresAssumption DEF Fire
<1>3. CASE UNCHANGED fires
  BY <1>1, <1>2, <1>3 DEF FireIds
<1>4. ASSUME NEW id \in Ids, NEW status \in FireStatus, AppendFire(id, status)
      PROVE  RecoveryInv'
  <2> DEFINE fire == [of |-> id, status |-> status, recovered |-> FALSE,
                      worker |-> status = "running", ends |-> 0]
  <2>1. Fine(fire)
    OBVIOUS
  <2>2. /\ FireIds' = FireIds \cup {Len(fires) + 1}
        /\ \A f \in FireIds : fires'[f] = fires[f]
        /\ fires'[Len(fires) + 1] = fire
    BY <1>4, Appended
  <2> HIDE DEF fire, Fine
  <2> QED
    BY <1>1, <1>2, <2>1, <2>2
<1>5. ASSUME NEW f \in FireIds, NEW fire \in Fire, Fine(fire), fires' = [fires EXCEPT ![f] = fire]
      PROVE  RecoveryInv'
  <2>1. /\ FireIds' = FireIds /\ fires'[f] = fire
        /\ \A g \in FireIds \ {f} : fires'[g] = fires[g]
    BY <1>5, Updated
  <2> HIDE DEF Fine
  <2> QED
    BY <1>1, <1>2, <1>5, <2>1
<1>6. ASSUME NEW f \in FireIds, NEW outcome \in Outcome, fires[f].worker, fires[f].ends < MaxEnds,
             fires' = [fires EXCEPT ![f] = Finalized(f, outcome)]
      PROVE  RecoveryInv'
  <2>1. /\ Finalized(f, outcome) \in Fire
        /\ Finalized(f, outcome).recovered = fires[f].recovered
        /\ Finalized(f, outcome).ends = fires[f].ends + 1
    BY <1>6, FinalizedFields
  <2>2. Fine(fires[f]) /\ fires[f].ends \in Nat
    BY <1>1, <1>t
  <2>3. Fine(Finalized(f, outcome))
    BY <1>6, <2>1, <2>2
  <2> HIDE DEF Fine
  <2> QED
    BY <1>5, <1>6, <2>1, <2>3
<1>7. ASSUME NEW f \in FireIds, Recoverable(f), fires' = [fires EXCEPT ![f] = Reconciled(f)]
      PROVE  RecoveryInv'
  <2>1. /\ Reconciled(f) \in Fire /\ Reconciled(f).status = "success"
        /\ Reconciled(f).worker = fires[f].worker /\ Reconciled(f).ends = fires[f].ends
    BY ReconciledFields
  <2>2. Fine(fires[f]) /\ fires[f].status = "failure"
    BY <1>1, <1>7 DEF Recoverable
  <2>3. Fine(Reconciled(f))
    BY <2>1, <2>2
  <2> HIDE DEF Fine
  <2> QED
    BY <1>5, <1>7, <2>1, <2>3
<1> QED
  BY <1>3, <1>4, <1>6, <1>7 DEF FiresStep

\* A reconciled fire is a success ever after, but for a resumed worker.
THEOREM RecoveriesStay == Spec => []RecoveryStays
<1>1. Init => RecoveryInv
  BY DetailAssumption DEF Init, RecoveryInv, FireIds
<1>2. RecoveryInv => RecoveryStays
  BY DEF RecoveryInv, RecoveryStays
<1>3. Steady /\ RecoveryInv /\ [Next]_vars => RecoveryInv'
  BY ServerNext, RecoveryStep, SteadyParts
<1> QED
  BY <1>1, <1>2, <1>3, SteadyInit, SteadyNext, PTL DEF Spec

Total(id) == Cardinality(FiresOf(id))

LEMMA TotalIs ==
    ASSUME FiresTypeOK, NEW id
    PROVE  IsFiniteSet(FiresOf(id)) /\ Total(id) \in Nat /\ (~Exists(id) => Total(id) = 0)
<1>1. FiresOf(id) \subseteq 1..Len(fires) /\ Len(fires) \in Nat
  BY FireAt DEF FiresOf
<1>2. IsFiniteSet(1..Len(fires))
  BY <1>1, FS_Interval
<1>3. IsFiniteSet(FiresOf(id))
  BY <1>1, <1>2, FS_Subset
<1>4. ~Exists(id) => FiresOf(id) = {}
  BY DEF FiresOf
<1> QED
  BY <1>3, <1>4, FS_CardinalityType, FS_EmptySet DEF Total

\* TotalIs, after a step.
LEMMA TotalIsNext ==
    ASSUME FiresTypeOK', NEW id
    PROVE  IsFiniteSet(FiresOf(id)') /\ Total(id)' \in Nat
<1>1. Len(fires') \in Nat /\ DOMAIN fires' = 1..Len(fires')
  BY LenProperties DEF FiresTypeOK
<1>2. FiresOf(id)' \subseteq 1..Len(fires')
  BY <1>1 DEF FiresOf, FireIds
<1>3. IsFiniteSet(1..Len(fires'))
  BY <1>1, FS_Interval
<1>4. IsFiniteSet(FiresOf(id)')
  BY <1>2, <1>3, FS_Subset
<1> QED
  BY <1>4, FS_CardinalityType DEF Total

\* A row's fires get no fewer while it is there.
LEMMA TotalsGrow ==
    ASSUME Steady, [Next]_vars, NEW id \in Ids, Exists(id)'
    PROVE  Exists(id) /\ Total(id) <= Total(id)'
<1>1. FiresStep /\ (RowsStep \/ \E j \in Ids : Deletes(j))
  BY ServerNext
<1>2. Exists(id)
  BY <1>1 DEF RowsStep, Deletes, Exists, Steady, TypeOK, StoreTypeOK
<1>3. /\ FireIds \subseteq FireIds' /\ FiresTypeOK'
      /\ \A f \in FireIds : fires'[f].of = fires[f].of
  BY <1>1, SteadyParts, FiresStepKeeps
<1>4. FiresOf(id) \subseteq FiresOf(id)'
  BY <1>2, <1>3 DEF FiresOf
<1>5. IsFiniteSet(FiresOf(id)')
  BY <1>3, TotalIsNext
<1> QED
  BY <1>2, <1>4, <1>5, FS_Subset DEF Total

\* What the screen counts of a row's fires is no more than there are, and a page
\* chosen for the row is one of theirs and of those last counted.
PagesInv ==
    \A id \in Ids :
        /\ hist.of = id /\ Exists(id) => hist.total <= Total(id)
        /\ shown # None /\ shown.id = id /\ ~kept /\ hist.page # 0 =>
              /\ Exists(id) => hist.page * PageSize < Total(id)
              /\ hist.of = id /\ ~older /\ hist.total > 0 =>
                    hist.page * PageSize < hist.total

\* So it is for an answer on its way, unless it was given before the page was chosen.
InTime == {"effect", "refetch"}

AnswersInv ==
    \A r \in reads : r.answer # None =>
        /\ Exists(r.id) => r.answer.total <= Total(r.id)
        /\ /\ shown # None /\ shown.id = r.id /\ ~kept /\ hist.page # 0
           /\ r.kind \in InTime /\ r.answer.total > 0
           => hist.page * PageSize < r.answer.total

\* A step that brings no new answer, and chooses no page or lets none in time stand.
LEMMA AnswersFrame ==
    ASSUME Steady, [Next]_vars, AnswersInv,
           \A q \in reads' : q.answer # None =>
               \E r \in reads : /\ q.id = r.id /\ q.answer = r.answer
                                /\ q.kind \in InTime => q.kind = r.kind,
           \/ shown' # None /\ ~kept' /\ hist'.page # 0 =>
                 shown # None /\ ~kept /\ hist'.page = hist.page /\ shown'.id = shown.id
           \/ \A q \in reads' : q.answer # None => q.kind \notin InTime
    PROVE  AnswersInv'
<1> SUFFICES ASSUME NEW q \in reads', q.answer # None
             PROVE  /\ Exists(q.id)' => q.answer.total <= Total(q.id)'
                    /\ /\ shown' # None /\ shown'.id = q.id /\ ~kept' /\ hist'.page # 0
                       /\ q.kind \in InTime /\ q.answer.total > 0
                       => hist'.page * PageSize < q.answer.total
  BY DEF AnswersInv
<1>1. PICK r \in reads : /\ q.id = r.id /\ q.answer = r.answer
                         /\ q.kind \in InTime => q.kind = r.kind
  OBVIOUS
<1>2. r.id \in Ids /\ r.answer.total \in Nat /\ FiresTypeOK
  BY <1>1, SteadyIs DEF ScreenTypes, Read, FirePage
<1>3. ASSUME Exists(q.id)' PROVE q.answer.total <= Total(q.id)'
  <2> DEFINE id == q.id
  <2>1. id \in Ids /\ Exists(id)'
    BY <1>1, <1>2, <1>3
  <2> HIDE DEF id
  <2>2. Exists(id) /\ Total(id) <= Total(id)'
    BY <2>1, TotalsGrow
  <2>3. Total(id) \in Nat /\ Total(id)' \in Nat
    BY <1>2, SteadyNext, SteadyIs, TotalIs, TotalIsNext DEF Steady, TypeOK
  <2>4. r.id = id /\ r.answer.total <= Total(id)
    BY <1>1, <2>2 DEF AnswersInv, id
  <2> QED
    BY <1>1, <1>2, <2>2, <2>3, <2>4 DEF id
<1>4. ASSUME shown' # None, shown'.id = q.id, ~kept', hist'.page # 0,
             q.kind \in InTime, q.answer.total > 0
      PROVE  hist'.page * PageSize < q.answer.total
  BY <1>1, <1>4 DEF AnswersInv
<1> QED
  BY <1>3, <1>4

LEMMA AnswersNext == Steady /\ PagesInv /\ AnswersInv /\ [Next]_vars => AnswersInv'
<1> SUFFICES ASSUME Steady, PagesInv, AnswersInv, [Next]_vars PROVE AnswersInv'
  OBVIOUS
<1>s. ScreenTypes /\ FiresTypeOK
  BY SteadyIs
<1>f. UNCHANGED <<shown, hist, reads, kept>> => AnswersInv'
  BY AnswersFrame
<1>u. reads' = {} => AnswersInv'
  BY DEF AnswersInv
<1>h. hist.page \in Nat
  BY <1>s DEF ScreenTypes, History
<1>1. ASSUME NEW g \in gets, RowArrives(g) PROVE AnswersInv'
  <2>1. CASE ~IsActive(g)
    BY <1>1, <1>f, <2>1 DEF RowArrives
  <2>2. CASE IsActive(g) /\ ~Exists(g.id)
    BY <1>1, <1>u, <2>2 DEF RowArrives, ShowError
  <2>3. CASE IsActive(g) /\ Exists(g.id)
    <3>1. ShowRow(g.id) /\ shown'.id = g.id
      BY <1>1, <2>3 DEF RowArrives, ShowRow
    <3>2. CASE shown # None /\ shown.id = g.id
      <4>1. UNCHANGED <<hist, reads, kept>>
        BY <3>1, <3>2 DEF ShowRow
      <4> QED
        BY <3>1, <3>2, <4>1, AnswersFrame
    <3>3. CASE ~(shown # None /\ shown.id = g.id)
      <4>1. /\ reads' = Superseded(reads) \cup HistoryLoad(g.id, hist.page)
            /\ kept' = (kept \/ hist.page > 0) /\ hist' = hist
        BY <3>1, <3>3 DEF ShowRow
      <4>2. \A q \in reads' : q.answer # None =>
               \E r \in reads : /\ q.id = r.id /\ q.answer = r.answer
                                /\ q.kind \in InTime => q.kind = r.kind
        BY <1>s, <4>1, ReadTypes DEF ScreenTypes, HistoryLoad, HistoryRead, InTime
      <4>3. hist'.page # 0 => kept'
        <5>1. hist.page # 0 => hist.page > 0
          BY <1>h
        <5> QED
          BY <4>1, <5>1, Zenon
      <4> QED
        BY <4>2, <4>3, AnswersFrame
    <3> QED
      BY <3>2, <3>3
  <2> QED
    BY <2>1, <2>2, <2>3
<1>2. ASSUME NEW g \in gets, RowFails(g) PROVE AnswersInv'
  <2>1. CASE ~IsActive(g)
    BY <1>2, <1>f, <2>1 DEF RowFails
  <2>2. CASE IsActive(g)
    BY <1>2, <1>u, <2>2 DEF RowFails, ShowError
  <2> QED
    BY <2>1, <2>2
<1>3. ASSUME NEW r \in reads, HistoryServed(r) PROVE AnswersInv'
  <2> DEFINE answer == ListFires(r.id, PageSize, r.page * PageSize)
             s == [r EXCEPT !.answer = answer]
  <2>1. s.id = r.id /\ s.answer = answer
    BY <1>s, ServedTypes DEF ScreenTypes
  <2>2. answer.total = Total(r.id)
    BY DEF ListFires, Total
  <2>3. reads' = (reads \ {r}) \cup {s} /\ UNCHANGED <<rows, fires, shown, hist, kept>>
    BY <1>3 DEF HistoryServed, server
  <2> HIDE DEF answer, s
  <2> SUFFICES ASSUME NEW q \in reads', q.answer # None
               PROVE  /\ Exists(q.id)' => q.answer.total <= Total(q.id)'
                      /\ /\ shown' # None /\ shown'.id = q.id /\ ~kept' /\ hist'.page # 0
                         /\ q.kind \in InTime /\ q.answer.total > 0
                         => hist'.page * PageSize < q.answer.total
    BY DEF AnswersInv
  <2>4. Exists(q.id)' = Exists(q.id) /\ Total(q.id)' = Total(q.id)
    BY <2>3 DEF Exists, Total, FiresOf, FireIds
  <2>5. CASE q \in reads
    BY <2>3, <2>4, <2>5 DEF AnswersInv
  <2>6. CASE q = s
    <3>1. q.id = r.id /\ q.answer.total = Total(r.id) /\ r.id \in Ids
      BY <1>s, <2>1, <2>2, <2>6 DEF ScreenTypes, Read
    <3>2. Total(r.id) \in Nat /\ (~Exists(r.id) => Total(r.id) = 0)
      BY <1>s, TotalIs
    <3> QED
      BY <2>3, <2>4, <3>1, <3>2 DEF PagesInv
  <2> QED
    BY <2>3, <2>5, <2>6
<1>4. ASSUME NEW r \in reads, HistoryArrives(r) \/ HistoryFails(r) PROVE AnswersInv'
  <2>1. reads' = reads \ {r} /\ shown' = shown /\ kept' = kept
    BY <1>4 DEF HistoryArrives, HistoryFails
  <2>2. hist'.page = hist.page
    BY <1>4, <1>s DEF HistoryArrives, HistoryFails, ScreenTypes, History
  <2> QED
    BY <2>1, <2>2, AnswersFrame
<1>5. ASSUME NEW n \in 0..MaxFires, SetPage(n) PROVE AnswersInv'
  <2>1. reads' = Superseded(Late(reads)) \cup HistoryLoad(shown.id, Clamped(n))
    BY <1>5 DEF SetPage
  <2>2. Late(reads) \in SUBSET Read
    BY <1>s, LateTypes DEF ScreenTypes
  <2>3. ASSUME NEW q \in reads', q.answer # None
        PROVE  /\ \E r \in reads : q.id = r.id /\ q.answer = r.answer
               /\ q.kind \notin InTime
    <3>1. q \in Superseded(Late(reads))
      BY <2>1, <2>3 DEF HistoryLoad, HistoryRead
    <3>2. PICK p \in Late(reads) : /\ q.id = p.id /\ q.answer = p.answer
                                   /\ q.kind = p.kind \/ q.kind = "superseded"
      BY <2>2, <3>1, ReadTypes
    <3>3. q.kind # "effect"
      BY <2>2, <3>1, ReadTypes
    <3>4. p.kind = "refetch" => p.answer = None
      BY <1>s, LateTypes DEF ScreenTypes
    <3>5. \E r \in reads : p.id = r.id /\ p.answer = r.answer
      BY <1>s, LateTypes DEF ScreenTypes
    <3> QED
      BY <2>3, <3>2, <3>3, <3>4, <3>5 DEF InTime
  <2> QED
    BY <2>3, AnswersFrame
<1>6. ASSUME Poll PROVE AnswersInv'
  BY <1>6, AnswersFrame DEF Poll, HistoryRead
<1>7. ASSUME NEW a \in acts, Answer(a) PROVE AnswersInv'
  <2>1. CASE UnmountDetail
    BY <1>u, <2>1 DEF UnmountDetail
  <2>2. CASE Rereads(a)
    BY <2>2, AnswersFrame DEF Rereads, HistoryRead
  <2> QED
    BY <1>7, <2>1, <2>2 DEF Answer
<1>8. ASSUME Back PROVE AnswersInv'
  BY <1>8, <1>u DEF Back, UnmountDetail
<1>9. ASSUME NEW j \in Ids, Open(j) \/ Route(j) PROVE AnswersInv'
  BY <1>9, <1>f DEF Open, Route
<1>10. ASSUME UNCHANGED detail PROVE AnswersInv'
  BY <1>10, <1>f DEF detail
<1>11. CASE UNCHANGED vars
  BY <1>10, <1>11 DEF vars
<1> QED
  BY <1>1, <1>2, <1>3, <1>4, <1>5, <1>6, <1>7, <1>8, <1>9, <1>10, <1>11
     DEF Next, ListArrives, ListFails, ListClick, DetailClick, Click, RecoverClick, Handle,
         ActFails, Other, WorkerStarts, WorkerEnds

LEMMA PagesNext == Steady /\ PagesInv /\ AnswersInv /\ [Next]_vars => PagesInv'
<1> SUFFICES ASSUME Steady, PagesInv, AnswersInv, [Next]_vars, NEW id \in Ids
             PROVE  /\ hist'.of = id /\ Exists(id)' => hist'.total <= Total(id)'
                    /\ shown' # None /\ shown'.id = id /\ ~kept' /\ hist'.page # 0 =>
                          /\ Exists(id)' => hist'.page * PageSize < Total(id)'
                          /\ hist'.of = id /\ ~older' /\ hist'.total > 0 =>
                                hist'.page * PageSize < hist'.total
  BY DEF PagesInv
<1> DEFINE Counted == hist'.of = id /\ Exists(id)' => hist'.total <= Total(id)'
           Chosen == shown' # None /\ shown'.id = id /\ ~kept' /\ hist'.page # 0 =>
                          /\ Exists(id)' => hist'.page * PageSize < Total(id)'
                          /\ hist'.of = id /\ ~older' /\ hist'.total > 0 =>
                                hist'.page * PageSize < hist'.total
           Goal == Counted /\ Chosen
<1>s. ScreenTypes /\ FiresTypeOK
  BY SteadyIs
<1>g. Exists(id)' => Exists(id) /\ Total(id) <= Total(id)'
  BY TotalsGrow
<1>t. Total(id) \in Nat /\ Total(id)' \in Nat /\ (~Exists(id) => Total(id) = 0)
  BY <1>s, SteadyNext, SteadyIs, TotalIs, TotalIsNext DEF Steady, TypeOK
<1>h. /\ hist.page \in Nat /\ hist.total \in Nat /\ hist \in History
      /\ hist.page * PageSize \in Nat /\ kept \in BOOLEAN
  BY <1>s, Bounds DEF ScreenTypes, History
<1>c. hist' = hist => Counted
  BY <1>g, <1>h, <1>t DEF PagesInv
<1>f. ASSUME hist' = hist, kept' = kept, older' = older, shown' = None \/ (shown # None /\ shown'.id = shown.id)
      PROVE  Goal
  <2>1. Chosen
    BY <1>f, <1>g, <1>h, <1>t DEF PagesInv
  <2> QED
    BY <1>c, <1>f, <2>1
<1>u. ASSUME shown' = None, hist' = NoHistory PROVE Goal
  <2>1. hist'.of = None
    BY <1>u DEF NoHistory
  <2> QED
    BY <1>u, <2>1, DetailAssumption
<1>e. UNCHANGED <<hist, shown, kept, older>> => Goal
  BY <1>f
<1> HIDE DEF Goal
<1>1. ASSUME NEW g \in gets, RowArrives(g) PROVE Goal
  <2>1. CASE ~IsActive(g)
    BY <1>1, <1>e, <2>1 DEF RowArrives
  <2>2. CASE IsActive(g) /\ ~Exists(g.id)
    BY <1>1, <1>u, <2>2 DEF RowArrives, ShowError
  <2>3. CASE IsActive(g) /\ Exists(g.id)
    <3>1. ShowRow(g.id)
      BY <1>1, <2>3 DEF RowArrives
    <3>2. shown'.id = g.id /\ hist' = hist
      BY <3>1 DEF ShowRow
    <3>3. CASE shown # None /\ shown.id = g.id
      BY <1>f, <3>1, <3>2, <3>3 DEF ShowRow
    <3>4. CASE ~(shown # None /\ shown.id = g.id)
      <4>1. kept' = (kept \/ hist.page > 0)
        BY <3>1, <3>4 DEF ShowRow
      <4>2. hist'.page > 0 \/ hist'.page = 0
        BY <1>h, <3>2
      <4>3. CASE hist'.page = 0
        BY <1>c, <3>2, <4>3 DEF Goal
      <4>4. CASE hist'.page > 0
        <5>1. kept' = TRUE
          BY <1>h, <3>2, <4>1, <4>4, Zenon
        <5> QED
          BY <1>c, <3>2, <5>1 DEF Goal
      <4> QED
        BY <4>2, <4>3, <4>4
    <3> QED
      BY <3>3, <3>4
  <2> QED
    BY <2>1, <2>2, <2>3
<1>2. ASSUME NEW g \in gets, RowFails(g) PROVE Goal
  <2>1. CASE ~IsActive(g)
    BY <1>2, <1>e, <2>1 DEF RowFails
  <2>2. CASE IsActive(g)
    BY <1>2, <1>u, <2>2 DEF RowFails, ShowError
  <2> QED
    BY <2>1, <2>2
<1>3. ASSUME NEW r \in reads, HistoryArrives(r) PROVE Goal
  <2>1. CASE ~IsActive(r)
    BY <1>3, <1>e, <2>1 DEF HistoryArrives
  <2>2. CASE IsActive(r)
    <3>1. rows' = rows /\ fires' = fires /\ shown' = shown /\ kept' = kept
      BY <1>3 DEF HistoryArrives, server
    <3>2. /\ hist'.of = r.id /\ hist'.page = hist.page /\ hist'.total = r.answer.total
          /\ r.answer # None /\ older' = (r.kind = "late")
      BY <1>3, <1>h, <2>2 DEF HistoryArrives, History
    <3>3. Total(id)' = Total(id) /\ Exists(id)' = Exists(id)
      BY <3>1 DEF Total, FiresOf, FireIds, Exists
    <3>4. Counted
      BY <3>2, <3>3 DEF AnswersInv
    <3>5. ~older' => r.kind \in InTime
      BY <1>s, <2>2, <3>2 DEF ScreenTypes, Read, Kind, IsActive, InTime
    <3>6. Chosen
      BY <3>1, <3>2, <3>3, <3>5 DEF PagesInv, AnswersInv
    <3> QED
      BY <3>4, <3>6 DEF Goal
  <2> QED
    BY <2>1, <2>2
<1>4. ASSUME NEW n \in 0..MaxFires, SetPage(n) PROVE Goal
  <2>1. /\ rows' = rows /\ fires' = fires /\ shown' = shown
        /\ hist' = [hist EXCEPT !.page = Clamped(n)] /\ kept' = (hist.of # shown.id)
    BY <1>4 DEF SetPage, server
  <2>2. hist'.of = hist.of /\ hist'.total = hist.total /\ hist'.page = Clamped(n)
    BY <1>h, <2>1 DEF History
  <2>3. Total(id)' = Total(id) /\ Exists(id)' = Exists(id)
    BY <2>1 DEF Total, FiresOf, FireIds, Exists
  <2>4. Counted
    BY <2>2, <2>3 DEF PagesInv
  <2>5. /\ Clamped(n) \in Nat
        /\ PageCount \in Nat
        /\ PageCount = 0 => Clamped(n) = 0
        /\ PageCount > 0 => Clamped(n) < PageCount
    BY <1>h, FiresAssumption, ClampedType
  <2>6. Clamped(n) # 0 => Clamped(n) * PageSize < hist.total
    BY <1>h, <2>5, Ceiling DEF PageCount
  <2>7. Clamped(n) * PageSize \in Nat
    BY <2>5, Bounds
  <2>8. CASE kept'
    BY <2>4, <2>8 DEF Goal
  <2>9. CASE ~kept'
    <3>1. hist.of = shown.id /\ shown'.id = shown.id
      BY <2>1, <2>9
    <3>2. Chosen
      BY <1>h, <1>t, <2>2, <2>3, <2>4, <2>6, <2>7, <3>1
    <3> QED
      BY <2>4, <3>2 DEF Goal
  <2> QED
    BY <2>8, <2>9
<1>5. ASSUME NEW a \in acts, Answer(a) PROVE Goal
  <2>1. CASE UnmountDetail
    BY <1>u, <2>1 DEF UnmountDetail
  <2>2. CASE Rereads(a)
    <3>1. a \in acts /\ UNCHANGED <<hist, shown, kept, older>>
      BY <2>2 DEF Rereads
    <3> QED
      BY <1>e, <3>1
  <2> QED
    BY <1>5, <2>1, <2>2 DEF Answer
<1>6. ASSUME Back PROVE Goal
  BY <1>6, <1>u DEF Back, UnmountDetail
<1>7. ASSUME NEW j \in Ids, Open(j) \/ Route(j) PROVE Goal
  BY <1>7, <1>e DEF Open, Route
<1>8. ASSUME UNCHANGED detail PROVE Goal
  BY <1>8, <1>e DEF detail
<1>9. ASSUME NEW r \in reads, HistoryServed(r) \/ HistoryFails(r) PROVE Goal
  BY <1>9, <1>e DEF HistoryServed, HistoryFails
<1>10. ASSUME Poll \/ UNCHANGED vars PROVE Goal
  BY <1>10, <1>8, <1>e DEF Poll, vars
<1>11. Goal
  BY <1>1, <1>2, <1>3, <1>4, <1>5, <1>6, <1>7, <1>8, <1>9, <1>10
     DEF Next, ListArrives, ListFails, ListClick, DetailClick, Click, RecoverClick, Handle,
         ActFails, Other, WorkerStarts, WorkerEnds
<1> QED
  BY <1>11 DEF Goal

\* The page that is open is one of the history's, in whatever order the answers come,
\* unless it was chosen for another row or a poll or a refetch answered before it was
\* chosen came after: a row's fires get no fewer, so every later answer has the page.
THEOREM PagesAreInRange == Spec => []PageInRange
<1>1. Init => PagesInv /\ AnswersInv
  <2> SUFFICES ASSUME Init PROVE PagesInv /\ AnswersInv
    OBVIOUS
  <2>1. hist.of = None /\ hist.page = 0 /\ reads = {}
    BY DEF Init, NoHistory
  <2> QED
    BY <2>1, DetailAssumption DEF PagesInv, AnswersInv
<1>2. Steady /\ PagesInv => PageInRange
  <2> SUFFICES ASSUME Steady, PagesInv, shown # None, hist.total > 0, hist.of = shown.id,
                      ~kept, ~older
               PROVE  hist.page < PageCount
    BY DEF PageInRange
  <2>1. hist.page \in Nat /\ hist.total \in Nat /\ shown.id \in Ids
    BY SteadyIs DEF ScreenTypes, History, Shown
  <2>2. hist.page * PageSize < hist.total
    BY <2>1, Bounds DEF PagesInv
  <2> QED
    BY <2>1, <2>2, Ceiling DEF PageCount
<1> QED
  BY <1>1, <1>2, PagesNext, AnswersNext, SteadyInit, SteadyNext, PTL DEF Spec
=============================================================================
