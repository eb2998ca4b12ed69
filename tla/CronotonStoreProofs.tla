------------------------ MODULE CronotonStoreProofs ------------------------
(***************************************************************************)
(* What the operators' calls do to the cronoton table, for any rows,       *)
(* schedules, resolvers and inputs: the lemmas that the proofs about both  *)
(* ticks, the builder and the detail page share.                           *)
(***************************************************************************)
EXTENDS CronotonStore, TLAPS

(***************************************************************************)
(* What an operator's call does to the table, whichever call it is: it     *)
(* touches one row, which it deletes or leaves well formed; an armed row   *)
(* that is not simply kept as it was lies after the clock; a row off the   *)
(* timer stays unarmed; no call makes a row final or ends that.            *)
(***************************************************************************)
OffTimer(row) == row.ext \/ row.args \/ row.resolver \in Evented

\* Armed as before: the same slot of the same schedule, and on the timer only if
\* it was.
KeptArmed(row, old) ==
    /\ row.next = old.next /\ row.sched = old.sched /\ row.args = old.args
    /\ row.status = "active" => old.status = "active"

WellEdited(id) ==
    /\ rows'[id] \in Row
    /\ OffTimer(rows'[id]) => rows'[id].next = None
    /\ rows'[id].next # None =>
          \/ rows'[id].next > now
          \/ Exists(id) /\ KeptArmed(rows'[id], rows[id])
    /\ IF Exists(id)
       THEN rows'[id].status \in Terminal \/ rows[id].status \in Terminal
               => rows'[id].status = rows[id].status
       ELSE rows'[id].status = "active" /\ rows[id] = Unborn

OneRowWritten(id) ==
    /\ now' = now
    /\ rows[id] # Deleted
    /\ \E row \in Row \cup {Deleted} : rows' = [rows EXCEPT ![id] = row]
    /\ rows'[id] = Deleted \/ WellEdited(id)

\* Commit, edit, pause, resume and delete write one row, as described above.
LEMMA OperatorEffect ==
    ASSUME StoreTypeOK, SchedulerOffNeverArmed, NEW id \in Ids, OperatorStep(id)
    PROVE  /\ StoreTypeOK'
           /\ now' = now
           /\ \A j \in Ids \ {id} : rows'[j] = rows[j]
           /\ rows[id] # Deleted
           /\ rows'[id] # Unborn
           /\ rows'[id] = Deleted \/ WellEdited(id)
<1> USE StoreAssumption
<1>1. ASSUME OneRowWritten(id)
      PROVE  /\ StoreTypeOK'
             /\ \A j \in Ids \ {id} : rows'[j] = rows[j]
             /\ rows'[id] # Unborn
  BY <1>1 DEF OneRowWritten, StoreTypeOK
<1> USE DEF OneRowWritten, StoreTypeOK, WellEdited, KeptArmed, OffTimer, Exists, Terminal, Status
<1>2. ASSUME NEW input \in CommitInputs, Commit(id, input)
      PROVE  OneRowWritten(id)
  <2> DEFINE row == CommittedRow(input)
  <2>1. input \in CommitInput
    OBVIOUS
  <2>2. NextFire(input.sched, now) \in Nat \cup {None}
        /\ (NextFire(input.sched, now) # None => NextFire(input.sched, now) > now)
    BY <2>1, NextFireAssumption DEF CommitInput
  <2>3. /\ row \in Row
        /\ row.status = "active"
        /\ OffTimer(row) => row.next = None
        /\ row.next # None => row.next > now
    BY <2>1, <2>2 DEF CommittedRow, Row, CommitInput
  <2>4. /\ rows[id] = Unborn
        /\ now' = now
        /\ rows' = [rows EXCEPT ![id] = row]
    BY <1>2 DEF Commit
  <2> HIDE DEF row
  <2>5. rows'[id] = row /\ rows[id] # Deleted
    BY <2>4
  <2> QED
    BY <2>3, <2>4, <2>5
<1>3. ASSUME NEW patch \in EditPatches, Edit(id, patch)
      PROVE  OneRowWritten(id)
  <2> DEFINE old == rows[id]
             row == EditedRow(old, patch)
             resolver == Patched(patch.resolver, old.resolver)
             sched == Patched(patch.sched, old.sched)
  <2>1. patch \in EditPatch /\ old \in Row
    BY <1>3 DEF Edit
  <2>2. /\ resolver \in Resolvers \cup {None}
        /\ sched \in Schedules
        /\ Patched(patch.def, old.def) \in Defs
    BY <2>1 DEF Patched, EditPatch, Row
  <2>3. NextFire(sched, now) \in Nat \cup {None}
        /\ (NextFire(sched, now) # None => NextFire(sched, now) > now)
    BY <2>2, NextFireAssumption
  <2>4. OffTimer(old) => old.next = None
    BY <1>3 DEF SchedulerOffNeverArmed, Edit
  <2>5. /\ row.status = old.status /\ row.args = old.args
        /\ row.sched = sched /\ row.resolver = resolver
        /\ row.ext = (resolver \in Evented \/ GenuineExternalFireable(old))
        /\ row.next = EditedNext(old, patch)
    BY <2>1 DEF EditedRow, Row
  <2>6. row.next \in Nat \cup {None}
    BY <2>1, <2>3, <2>5 DEF EditedNext, Row
  <2>7. row \in Row
    BY <2>1, <2>2, <2>5, <2>6 DEF EditedRow, Row, GenuineExternalFireable
  <2>8. OffTimer(row) => row.next = None
    <3>1. CASE patch.eventDriven \/ resolver \in Evented
      BY <3>1, <2>1, <2>5 DEF EditedNext, EditPatch, Rearms
    <3>2. CASE ~(patch.eventDriven \/ resolver \in Evented)
      <4>1. OffTimer(row) => OffTimer(old) /\ ~Rearms(old, patch)
        BY <3>2, <2>5 DEF Rearms, SchedulerOffAfterEdit, GenuineExternalFireable
      <4>2. ~Rearms(old, patch) => row.next = old.next
        BY <3>2, <2>5 DEF EditedNext
      <4> QED
        BY <4>1, <4>2, <2>4
    <3> QED
      BY <3>1, <3>2
  <2>9. row.next # None => row.next > now \/ KeptArmed(row, old)
    <3>1. CASE patch.eventDriven \/ resolver \in Evented
      BY <3>1, <2>1, <2>5 DEF EditedNext, EditPatch, Rearms
    <3>2. CASE ~(patch.eventDriven \/ resolver \in Evented)
      <4>1. CASE Rearms(old, patch)
        BY <4>1, <3>2, <2>3, <2>5 DEF EditedNext
      <4>2. CASE ~Rearms(old, patch)
        <5>1. row.next = old.next
          BY <4>2, <3>2, <2>5 DEF EditedNext
        <5>2. old.next # None => ~OffTimer(old)
          BY <2>4
        <5>3. ~OffTimer(old) => patch.sched = Keep
          BY <4>2, <3>2
             DEF Rearms, SchedulerOffAfterEdit, GenuineExternalFireable
        <5> QED
          BY <5>1, <5>2, <5>3, <2>5 DEF Patched
      <4> QED
        BY <4>1, <4>2
    <3> QED
      BY <3>1, <3>2
  <2>10. /\ now' = now
         /\ rows' = [rows EXCEPT ![id] = row]
         /\ Exists(id)
    BY <1>3 DEF Edit
  <2> HIDE DEF row
  <2>11. rows'[id] = row
    BY <2>10
  <2> QED
    BY <2>5, <2>7, <2>8, <2>9, <2>10, <2>11
<1>4. ASSUME Pause(id)
      PROVE  OneRowWritten(id)
  <2> DEFINE row == [rows[id] EXCEPT !.status = "paused"]
  <2>1. Exists(id) /\ rows[id] \in Row /\ rows[id].status \notin Terminal
        /\ now' = now /\ rows' = [rows EXCEPT ![id] = row]
    BY <1>4 DEF Pause, NotTerminal
  <2>2. /\ row \in Row /\ row.status = "paused"
        /\ row.next = rows[id].next /\ row.sched = rows[id].sched
        /\ row.ext = rows[id].ext /\ row.args = rows[id].args
        /\ row.resolver = rows[id].resolver
    BY <2>1 DEF Row
  <2>3. OffTimer(rows[id]) => rows[id].next = None
    BY <2>1 DEF SchedulerOffNeverArmed
  <2>4. rows'[id] = row
    BY <2>1
  <2> HIDE DEF row
  <2> QED
    BY <2>1, <2>2, <2>3, <2>4
<1>5. ASSUME Resume(id)
      PROVE  OneRowWritten(id)
  <2> DEFINE row == [rows[id] EXCEPT !.status = "active",
                                     !.next = ResumedNext(rows[id])]
  <2>1. Exists(id) /\ rows[id] \in Row /\ rows[id].status \notin Terminal
        /\ now' = now
        /\ rows' = [rows EXCEPT ![id].status = "active",
                                ![id].next = ResumedNext(rows[id])]
    BY <1>5 DEF Resume, NotTerminal
  <2>2. rows' = [rows EXCEPT ![id] = row]
    BY <2>1 DEF Row
  <2>3. /\ ResumedNext(rows[id]) \in Nat \cup {None}
        /\ ResumedNext(rows[id]) # None =>
              rows[id].next # None /\ ResumedNext(rows[id]) > now
    BY <2>1, NextFireAssumption DEF ResumedNext, Row
  <2>4. /\ row \in Row /\ row.status = "active"
        /\ row.next = ResumedNext(rows[id])
        /\ row.ext = rows[id].ext /\ row.args = rows[id].args
        /\ row.resolver = rows[id].resolver
    BY <2>1, <2>3 DEF Row
  <2>5. OffTimer(rows[id]) => rows[id].next = None
    BY <2>1 DEF SchedulerOffNeverArmed
  <2>6. rows'[id] = row
    BY <2>2
  <2> HIDE DEF row
  <2> QED
    BY <2>1, <2>2, <2>3, <2>4, <2>5, <2>6
<1>6. ASSUME Delete(id)
      PROVE  OneRowWritten(id)
  BY <1>6 DEF Delete
<1> QED
  BY <1>1, <1>2, <1>3, <1>4, <1>5, <1>6 DEF OperatorStep, OneRowWritten

-----------------------------------------------------------------------------
(* The rows that commits and edits make *)

LEMMA CommittedType ==
    ASSUME now \in Time, NEW input \in CommitInput
    PROVE  CommittedRow(input) \in Row
<1>1. NextFire(input.sched, now) \in Nat \cup {None}
  BY NextFireAssumption DEF CommitInput
<1> QED
  BY <1>1 DEF CommittedRow, CommitInput, Row, Status

\* The columns of an edited row.
LEMMA EditedFields ==
    ASSUME now \in Time, NEW row \in Row, NEW patch \in EditPatch
    PROVE  LET edited == EditedRow(row, patch)
               resolver == Patched(patch.resolver, row.resolver)
           IN  /\ edited \in Row
               /\ edited = [status |-> row.status, next |-> EditedNext(row, patch),
                            sched |-> Patched(patch.sched, row.sched),
                            resolver |-> resolver,
                            ext |-> resolver \in Evented \/ GenuineExternalFireable(row),
                            args |-> row.args, def |-> Patched(patch.def, row.def)]
<1> DEFINE resolver == Patched(patch.resolver, row.resolver)
           sched == Patched(patch.sched, row.sched)
           def == Patched(patch.def, row.def)
           ext == resolver \in Evented \/ GenuineExternalFireable(row)
           next == EditedNext(row, patch)
<1>1. /\ resolver \in Resolvers \cup {None} /\ sched \in Schedules /\ def \in Defs
      /\ ext \in BOOLEAN
  BY DEF Patched, EditPatch, Row, GenuineExternalFireable
<1>2. next \in Nat \cup {None}
  <2>1. NextFire(sched, now) \in Nat \cup {None} /\ row.next \in Nat \cup {None}
    BY <1>1, NextFireAssumption DEF Row
  <2> QED
    BY <2>1 DEF EditedNext
<1>3. EditedRow(row, patch) =
         [row EXCEPT !.sched = sched, !.resolver = resolver, !.def = def,
                     !.ext = ext, !.next = next]
  BY DEF EditedRow
<1> HIDE DEF resolver, sched, def, ext, next
<1>4. EditedRow(row, patch) =
         [status |-> row.status, next |-> next, sched |-> sched, resolver |-> resolver,
          ext |-> ext, args |-> row.args, def |-> def]
  BY <1>3 DEF Row
<1>5. EditedRow(row, patch) \in Row
  BY <1>1, <1>2, <1>4 DEF Row
<1> QED
  BY <1>4, <1>5 DEF resolver, sched, def, ext, next
=============================================================================
