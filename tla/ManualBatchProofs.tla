------------------------- MODULE ManualBatchProofs -------------------------
(***************************************************************************)
(* Proofs about ManualBatch, for any cronotons, batches, totals and        *)
(* workers.                                                                *)
(***************************************************************************)
EXTENDS ManualBatch, CronotonStoreProofs, FiniteSetTheorems

InFlight == {"firing", "fired"}

JobInv == \A w \in Workers : pc[w] \in InFlight => job[w] \in Job

TypeInv == TypeOK /\ JobInv /\ SchedulerOffNeverArmed

(***************************************************************************)
(* The claim of a slot, by the values of the batch before and after.       *)
(***************************************************************************)
SlotClaimed(w, b, old, new) ==
    /\ batches[b] = old /\ old \in Batch /\ new \in Batch
    /\ old.status = "active" /\ old.nextAt \in Nat /\ old.nextAt <= at[w]
    /\ old.completed < old.total
    /\ new.parent = old.parent /\ new.total = old.total
    /\ new.completed = old.completed + 1
    /\ \/ /\ new.completed < new.total
          /\ new.status = "active" /\ new.nextAt = at[w] + Interval
       \/ /\ new.completed = new.total
          /\ new.status = "completed" /\ new.nextAt = None
    /\ batches' = [batches EXCEPT ![b] = new]
    /\ stamps' = [stamps EXCEPT ![b] = @ \cup {at[w]}]
    /\ \E r \in Resolvers \cup {None} :
          job' = [job EXCEPT ![w] = [id |-> b, resolver |-> r]]
    /\ \E s \in todo[w] : todo' = [todo EXCEPT ![w] = @ \ {s}]
    /\ pc[w] = "pass" /\ pc' = [pc EXCEPT ![w] = "firing"]
    /\ UNCHANGED <<rows, now, at, fires, crashes>>

\* A won claim counts one slot of a due batch and arms the next, or ends it.
LEMMA ClaimEffect ==
    ASSUME TypeOK, NEW w \in Workers, ClaimSlot(w)
    PROVE  \E b \in Batches, old, new \in Batch : SlotClaimed(w, b, old, new)
<1> USE StoreAssumption, BatchAssumption DEF TypeOK
<1>1. PICK s \in Oldest(w) :
         /\ ParentActive(s)
         /\ ClaimableSlot(s.id, at[w])
         /\ batches' = [batches EXCEPT ![s.id] = ClaimedSlot(@, at[w])]
         /\ stamps' = [stamps EXCEPT ![s.id] = @ \cup {at[w]}]
         /\ job' = [job EXCEPT ![w] = [id |-> s.id, resolver |-> rows[s.row.parent].resolver]]
         /\ todo' = [todo EXCEPT ![w] = @ \ {s}]
  BY DEF ClaimSlot
<1>2. s \in todo[w] /\ s.id \in Batches /\ s.row.parent \in Ids
  BY DEF Oldest, Seen, Batch
<1>3. rows[s.row.parent].resolver \in Resolvers \cup {None}
  BY <1>1, <1>2 DEF ParentActive, Exists, StoreTypeOK, Row
<1> DEFINE old == batches[s.id]
           new == ClaimedSlot(old, at[w])
<1>4. /\ old \in Batch /\ old.status = "active" /\ old.nextAt \in Nat
      /\ old.nextAt <= at[w] /\ old.completed < old.total
  BY <1>1, <1>2 DEF ClaimableSlot, Stored, SlotDueAt, Batch
<1>5. at[w] \in Nat
  BY DEF Time
<1>6. /\ new \in Batch
      /\ new.parent = old.parent /\ new.total = old.total
      /\ new.completed = old.completed + 1
      /\ \/ /\ new.completed < new.total
            /\ new.status = "active" /\ new.nextAt = at[w] + Interval
         \/ /\ new.completed = new.total
            /\ new.status = "completed" /\ new.nextAt = None
  <2> HIDE DEF old
  <2>1. /\ old.completed \in Nat /\ old.total \in Nat /\ old.parent \in Ids
        /\ at[w] + Interval \in Nat
    BY <1>4, <1>5 DEF Batch
  <2>2. CASE old.completed + 1 < old.total
    <3>1. new = [old EXCEPT !.completed = @ + 1, !.nextAt = at[w] + Interval]
      BY <2>2 DEF ClaimedSlot
    <3>2. /\ new.parent = old.parent /\ new.total = old.total
          /\ new.completed = old.completed + 1
          /\ new.status = old.status /\ new.nextAt = at[w] + Interval
      BY <3>1, <1>4 DEF Batch
    <3>3. new = [parent |-> old.parent, total |-> old.total,
                 completed |-> old.completed + 1, status |-> "active",
                 nextAt |-> at[w] + Interval]
      BY <3>1, <1>4 DEF Batch
    <3> HIDE DEF new
    <3>4. new \in Batch
      BY <3>3, <2>1 DEF Batch
    <3> QED
      BY <3>2, <3>4, <2>2, <1>4
  <2>3. CASE ~(old.completed + 1 < old.total)
    <3>1. new = [old EXCEPT !.completed = @ + 1, !.nextAt = None, !.status = "completed"]
      BY <2>3 DEF ClaimedSlot
    <3>2. /\ new.parent = old.parent /\ new.total = old.total
          /\ new.completed = old.completed + 1
          /\ new.status = "completed" /\ new.nextAt = None
      BY <3>1, <1>4 DEF Batch
    <3>3. new = [parent |-> old.parent, total |-> old.total,
                 completed |-> old.completed + 1, status |-> "completed",
                 nextAt |-> None]
      BY <3>1, <1>4 DEF Batch
    <3> HIDE DEF new
    <3>4. new \in Batch
      BY <3>3, <2>1 DEF Batch
    <3> QED
      BY <3>2, <3>4, <2>1, <2>3, <1>4
  <2> QED
    BY <2>2, <2>3
<1>7. batches' = [batches EXCEPT ![s.id] = new]
  BY <1>1
<1>8. /\ pc[w] = "pass" /\ pc' = [pc EXCEPT ![w] = "firing"]
      /\ UNCHANGED <<rows, now, at, fires, crashes>>
  BY DEF ClaimSlot
<1>9. SlotClaimed(w, s.id, old, new)
  <2> HIDE DEF new, old
  <2>1. batches[s.id] = old
    BY DEF old
  <2> QED
    BY <1>1, <1>2, <1>3, <1>4, <1>6, <1>7, <1>8, <2>1 DEF SlotClaimed
<1> QED
  BY <1>2, <1>4, <1>6, <1>9

\* A stop changes an active batch only.
LEMMA CancelEffect ==
    ASSUME TypeOK, NEW b \in Batches, Cancel(b)
    PROVE  \/ UNCHANGED batches
           \/ \E new \in Batch :
                 /\ Active(b) /\ batches[b] \in Batch
                 /\ new.parent = batches[b].parent /\ new.total = batches[b].total
                 /\ new.completed = batches[b].completed
                 /\ new.status = "cancelled" /\ new.nextAt = None
                 /\ batches' = [batches EXCEPT ![b] = new]
<1> USE DEF TypeOK
<1>1. CASE Active(b)
  <2> DEFINE new == [batches[b] EXCEPT !.status = "cancelled", !.nextAt = None]
  <2>1. batches[b] \in Batch
    BY <1>1 DEF Active, Stored
  <2>2. /\ new \in Batch /\ new.parent = batches[b].parent
        /\ new.total = batches[b].total /\ new.completed = batches[b].completed
        /\ new.status = "cancelled" /\ new.nextAt = None
    BY <2>1 DEF Batch
  <2>3. batches' = [batches EXCEPT ![b] = new]
    BY <1>1 DEF Cancel, Cancelled, Active
  <2> HIDE DEF new
  <2> QED
    BY <1>1, <2>1, <2>2, <2>3
<1>2. CASE ~Active(b)
  BY <1>2 DEF Cancel, Cancelled, Active
<1> QED
  BY <1>1, <1>2

\* The empty tables have their types.
LEMMA TypeInit == Init => TypeInv
  BY StoreAssumption, BatchAssumption
     DEF Init, StoreInit, TypeInv, TypeOK, StoreTypeOK, JobInv, InFlight,
         SchedulerOffNeverArmed, Exists, Time

\* Every call, pass step, crash and clock tick keeps them.
LEMMA TypeStep == TypeInv /\ [Next]_vars => TypeInv'
<1> SUFFICES ASSUME TypeInv, [Next]_vars
             PROVE  TypeInv'
  OBVIOUS
<1> USE StoreAssumption, BatchAssumption
<1> USE DEF TypeInv, TypeOK, JobInv, InFlight
<1>1. ASSUME NEW b \in Batches, NEW id \in Ids, NEW total \in MinTotal..MaxTotal,
             StartExecuteBatch(b, id, total)
      PROVE  TypeInv'
  <2> DEFINE new == [parent |-> id, total |-> total, completed |-> 0,
                     status |-> "active", nextAt |-> now]
  <2>1. new \in Batch
    BY DEF Batch, StoreTypeOK, Time
  <2>2. /\ batches' = [batches EXCEPT ![b] = new]
        /\ UNCHANGED <<rows, now, pc, at, todo, job, fires, stamps, crashes>>
    BY <1>1 DEF StartExecuteBatch, workerVars
  <2> HIDE DEF new
  <2> QED
    BY <2>1, <2>2 DEF StoreTypeOK, SchedulerOffNeverArmed, Exists
<1>2. ASSUME NEW id \in Ids, CancelExecuteBatch(id)
      PROVE  TypeInv'
  <2>1. PICK b \in Batches : Cancel(b)
    BY <1>2 DEF CancelExecuteBatch
  <2>2. batches' \in [Batches -> Batch \cup {Unborn, Deleted}]
    BY <2>1, CancelEffect
  <2> QED
    BY <1>2, <2>2 DEF CancelExecuteBatch, workerVars, StoreTypeOK, SchedulerOffNeverArmed, Exists
<1>3. ASSUME NEW id \in Ids, Operator(id)
      PROVE  TypeInv'
  <2>1. /\ OperatorStep(id)
        /\ batches' = [b \in Batches |-> IF Orphaned(b) THEN Deleted ELSE batches[b]]
        /\ fires' = {f \in fires : ~Orphaned(f[1])}
        /\ UNCHANGED <<pc, at, todo, job, stamps, crashes>>
    BY <1>3 DEF Operator, workerVars
  <2>2. /\ StoreTypeOK'
        /\ \A j \in Ids \ {id} : rows'[j] = rows[j]
        /\ rows'[id] # Unborn
        /\ rows'[id] = Deleted \/ WellEdited(id)
    BY <2>1, OperatorEffect
  <2>3. SchedulerOffNeverArmed'
    BY <2>2 DEF SchedulerOffNeverArmed, Exists, WellEdited, OffTimer
  <2> QED
    BY <2>1, <2>2, <2>3
<1>4. ASSUME NEW w \in Workers, SelectDue(w)
      PROVE  TypeInv'
  <2>1. PICK due \in DueBatches(now) :
           todo' = [todo EXCEPT ![w] = {[id |-> b, row |-> batches[b]] : b \in due}]
    BY <1>4 DEF SelectDue
  <2>2. \A b \in due : b \in Batches /\ batches[b] \in Batch
    BY DEF DueBatches, Stored
  <2>3. {[id |-> b, row |-> batches[b]] : b \in due} \subseteq Seen
    BY <2>2 DEF Seen
  <2> QED
    BY <1>4, <2>1, <2>3 DEF SelectDue, StoreTypeOK, SchedulerOffNeverArmed, Exists
<1>5. ASSUME NEW w \in Workers, StopBatch(w)
      PROVE  TypeInv'
  <2>1. PICK s \in Oldest(w) : Cancel(s.id) /\ todo' = [todo EXCEPT ![w] = @ \ {s}]
    BY <1>5 DEF StopBatch
  <2>2. s.id \in Batches
    BY DEF Oldest, Seen
  <2>3. batches' \in [Batches -> Batch \cup {Unborn, Deleted}]
    BY <2>1, <2>2, CancelEffect
  <2> QED
    BY <1>5, <2>1, <2>3 DEF StopBatch, StoreTypeOK, SchedulerOffNeverArmed, Exists
<1>6. ASSUME NEW w \in Workers, ClaimSlot(w)
      PROVE  TypeInv'
  <2>1. PICK b \in Batches, old \in Batch, new \in Batch : SlotClaimed(w, b, old, new)
    BY <1>6, ClaimEffect
  <2> QED
    BY <2>1 DEF SlotClaimed, StoreTypeOK, SchedulerOffNeverArmed, Exists, Job
<1>7. ASSUME NEW w \in Workers, LoseSlot(w) \/ EndPass(w) \/ FireSlot(w) \/ Crash(w)
      PROVE  TypeInv'
  BY <1>7 DEF LoseSlot, EndPass, FireSlot, Crash, StoreTypeOK, SchedulerOffNeverArmed, Exists
<1>8. ASSUME NEW w \in Workers, DispatchThrows(w) \/ RecordSlot(w) \/ RecordThrows(w)
      PROVE  TypeInv'
  <2>1. pc[w] = "fired" => <<job[w].id, at[w]>> \in Batches \X Time
    BY DEF Job
  <2> QED
    BY <1>8, <2>1 DEF DispatchThrows, RecordSlot, RecordThrows, Release, StoreTypeOK,
              SchedulerOffNeverArmed, Exists
<1>9. CASE Tick
  BY <1>9 DEF Tick, ClockTick, workerVars, StoreTypeOK, Time, SchedulerOffNeverArmed, Exists
<1>10. CASE UNCHANGED vars
  BY <1>10 DEF vars, workerVars, StoreTypeOK, SchedulerOffNeverArmed, Exists
<1> QED
  BY <1>1, <1>2, <1>3, <1>4, <1>5, <1>6, <1>7, <1>8, <1>9, <1>10 DEF Next, WorkerStep

\* The tables keep their shape under every interleaving of passes and calls.
THEOREM TypeCorrect == Spec => []TypeInv
  BY TypeInit, TypeStep, PTL DEF Spec

\* The type invariant of ManualBatch, for any number of overlapping passes.
THEOREM BatchTypes == Spec => []TypeOK
<1>1. TypeInv => TypeOK
  BY DEF TypeInv
<1> QED
  BY <1>1, TypeCorrect, PTL

-----------------------------------------------------------------------------
(***************************************************************************)
(* The schedule of a batch.  Its next slot lies one interval after every   *)
(* claim made so far, so a claim, whose pass asserts that the slot is due  *)
(* by its own clock, is a new stamp, one interval after the others.        *)
(***************************************************************************)
PastInv == \A w \in Workers : at[w] <= now

StampInv ==
    \A b \in Batches :
        /\ stamps[b] \subseteq 0..now
        /\ batches[b] = Unborn => stamps[b] = {}
        /\ Stored(b) => Cardinality(stamps[b]) = batches[b].completed
        /\ Stored(b) /\ batches[b].nextAt # None =>
              \A s \in stamps[b] : s + Interval <= batches[b].nextAt
        /\ \A s, t \in stamps[b] : s < t => s + Interval <= t

BatchInv == PastInv /\ StampInv /\ RunsToItsTotal /\ OneBatchPerCronoton

\* What a stop stores.
Stopped(b) ==
    /\ Active(b) /\ batches[b] \in Batch /\ batches'[b] \in Batch
    /\ batches'[b].parent = batches[b].parent
    /\ batches'[b].total = batches[b].total
    /\ batches'[b].completed = batches[b].completed
    /\ batches'[b].status = "cancelled" /\ batches'[b].nextAt = None

\* A step that claims and starts nothing.
QuietStep ==
    /\ UNCHANGED stamps
    /\ now' \in {now, now + 1}
    /\ \A w \in Workers : at'[w] \in {at[w], now}
    /\ \A b \in Batches :
          \/ batches'[b] = batches[b]
          \/ Stored(b) /\ batches'[b] = Deleted
          \/ Stopped(b)

\* A start stores a fresh batch in an unused id of a cronoton that runs none.
Started(b) ==
    /\ batches[b] = Unborn
    /\ \E new \in Batch :
          /\ batches' = [batches EXCEPT ![b] = new]
          /\ new.completed = 0 /\ new.total > 0
          /\ new.status = "active" /\ new.nextAt \in Nat
          /\ \A c \in Batches : Active(c) => batches[c].parent # new.parent
    /\ UNCHANGED <<rows, now, pc, at, todo, job, fires, stamps, crashes>>

\* A start is one of Started.
LEMMA StartEffect ==
    ASSUME TypeOK, NEW b \in Batches, NEW id \in Ids, NEW total \in MinTotal..MaxTotal,
           StartExecuteBatch(b, id, total)
    PROVE  Started(b)
<1> USE StoreAssumption, BatchAssumption DEF TypeOK
<1>0. now \in Nat
  BY DEF StoreTypeOK, Time
<1> DEFINE new == [parent |-> id, total |-> total, completed |-> 0,
                   status |-> "active", nextAt |-> now]
<1>1. new \in Batch
  BY <1>0 DEF Batch
<1>2. /\ batches' = [batches EXCEPT ![b] = new]
      /\ batches[b] = Unborn
      /\ UNCHANGED <<rows, now, pc, at, todo, job, fires, stamps, crashes>>
  BY DEF StartExecuteBatch, workerVars
<1>3. \A c \in Batches : Active(c) => batches[c].parent # id
  BY DEF StartExecuteBatch, Batchable
<1>4. /\ new.completed = 0 /\ new.total > 0 /\ new.status = "active"
      /\ new.nextAt \in Nat /\ new.parent = id
  BY <1>0
<1> HIDE DEF new
<1> QED
  BY <1>1, <1>2, <1>3, <1>4 DEF Started

\* Every step is a start, a claim or neither.
LEMMA StepKinds ==
    ASSUME TypeInv, [Next]_vars
    PROVE  \/ QuietStep
           \/ \E b \in Batches : Started(b)
           \/ \E w \in Workers, b \in Batches, old, new \in Batch :
                 SlotClaimed(w, b, old, new)
<1> USE StoreAssumption, BatchAssumption DEF TypeInv, TypeOK
<1>0. now \in Nat
  BY DEF StoreTypeOK, Time
<1>1. ASSUME NEW b \in Batches, NEW id \in Ids, NEW total \in MinTotal..MaxTotal,
             StartExecuteBatch(b, id, total)
      PROVE  Started(b)
  BY <1>1, StartEffect
<1>2. ASSUME NEW b \in Batches, Cancel(b)
      PROVE  \A c \in Batches : batches'[c] = batches[c] \/ Stopped(c)
  BY <1>2, CancelEffect DEF Stopped
<1>3. ASSUME NEW id \in Ids, CancelExecuteBatch(id)
      PROVE  QuietStep
  <2>1. PICK b \in Batches : Cancel(b)
    BY <1>3 DEF CancelExecuteBatch
  <2>2. \A c \in Batches : batches'[c] = batches[c] \/ Stopped(c)
    BY <2>1, <1>2
  <2> QED
    BY <1>3, <2>2 DEF QuietStep, CancelExecuteBatch, workerVars
<1>4. ASSUME NEW id \in Ids, Operator(id)
      PROVE  QuietStep
  <2>1. /\ OperatorStep(id)
        /\ batches' = [b \in Batches |-> IF Orphaned(b) THEN Deleted ELSE batches[b]]
        /\ UNCHANGED <<pc, at, todo, job, stamps, crashes>>
    BY <1>4 DEF Operator, workerVars
  <2>2. now' = now
    BY <2>1, OperatorEffect
  <2> QED
    BY <2>1, <2>2 DEF QuietStep, Orphaned
<1>5. ASSUME NEW w \in Workers, StopBatch(w)
      PROVE  QuietStep
  <2>1. PICK s \in Oldest(w) : Cancel(s.id)
    BY <1>5 DEF StopBatch
  <2>2. s.id \in Batches
    BY DEF Oldest, Seen
  <2>3. \A c \in Batches : batches'[c] = batches[c] \/ Stopped(c)
    BY <2>1, <2>2, <1>2
  <2> QED
    BY <1>5, <2>3 DEF QuietStep, StopBatch
<1>6. ASSUME NEW w \in Workers, ClaimSlot(w)
      PROVE  \E b \in Batches, old, new \in Batch : SlotClaimed(w, b, old, new)
  BY <1>6, ClaimEffect
<1>7. ASSUME NEW w \in Workers,
             \/ SelectDue(w) \/ LoseSlot(w) \/ EndPass(w) \/ FireSlot(w) \/ Crash(w)
             \/ DispatchThrows(w) \/ RecordSlot(w) \/ RecordThrows(w)
      PROVE  QuietStep
  BY <1>7 DEF QuietStep, SelectDue, LoseSlot, EndPass, FireSlot, Crash, DispatchThrows,
              RecordSlot, RecordThrows, Release
<1>8. ASSUME Tick \/ UNCHANGED vars
      PROVE  QuietStep
  BY <1>8 DEF QuietStep, Tick, ClockTick, workerVars, vars
<1> QED
  BY <1>1, <1>3, <1>4, <1>5, <1>6, <1>7, <1>8 DEF Next, WorkerStep

\* Nothing is claimed before a batch is started.
LEMMA BatchInit == Init => BatchInv
  BY StoreAssumption, BatchAssumption
     DEF Init, StoreInit, BatchInv, PastInv, StampInv, RunsToItsTotal,
         OneBatchPerCronoton, Active, Stored

\* A stop, a delete or the clock keeps the schedule of every batch.
LEMMA QuietKeeps ==
    ASSUME TypeInv, TypeInv', BatchInv, QuietStep
    PROVE  BatchInv'
<1> USE StoreAssumption, BatchAssumption DEF TypeInv, TypeOK, BatchInv
<1>0. /\ now \in Nat /\ now' \in Nat /\ now <= now'
      /\ stamps' = stamps
      /\ \A w \in Workers : at[w] \in Nat /\ at'[w] \in {at[w], now}
  BY DEF QuietStep, StoreTypeOK, Time
<1>1. PastInv'
  BY <1>0 DEF PastInv
<1>2. \A b \in Batches :
         /\ batches'[b] \notin {Unborn, Deleted} =>
               /\ Stored(b)
               /\ batches'[b].parent = batches[b].parent
               /\ batches'[b].completed = batches[b].completed
               /\ batches'[b].nextAt # None => batches'[b] = batches[b]
         /\ batches'[b] = Unborn => batches[b] = Unborn
  BY DEF QuietStep, Stopped, Stored, Active
<1>3. StampInv'
  <2> SUFFICES ASSUME NEW b \in Batches
               PROVE  /\ stamps[b] \subseteq 0..now'
                      /\ batches'[b] = Unborn => stamps[b] = {}
                      /\ batches'[b] \notin {Unborn, Deleted} =>
                            Cardinality(stamps[b]) = batches'[b].completed
                      /\ batches'[b] \notin {Unborn, Deleted} /\ batches'[b].nextAt # None =>
                            \A s \in stamps[b] : s + Interval <= batches'[b].nextAt
                      /\ \A s, t \in stamps[b] : s < t => s + Interval <= t
    BY <1>0 DEF StampInv, Stored
  <2>1. stamps[b] \subseteq 0..now'
    BY <1>0 DEF StampInv
  <2> QED
    BY <2>1, <1>2 DEF StampInv
<1>4. RunsToItsTotal'
  <2> SUFFICES ASSUME NEW b \in Batches, batches'[b] \notin {Unborn, Deleted}
               PROVE  /\ (batches'[b].nextAt # None) = (batches'[b].status = "active")
                      /\ batches'[b].status = "completed" => batches'[b].completed = batches'[b].total
                      /\ batches'[b].status # "completed" => batches'[b].completed < batches'[b].total
    BY DEF RunsToItsTotal, Stored
  <2>1. CASE batches'[b] = batches[b]
    BY <2>1 DEF RunsToItsTotal, Stored
  <2>2. CASE Stopped(b)
    BY <2>2 DEF RunsToItsTotal, Stopped, Active
  <2> QED
    BY <2>1, <2>2 DEF QuietStep
<1>5. \A b \in Batches :
         batches'[b] \notin {Unborn, Deleted} /\ batches'[b].status = "active" =>
            Active(b) /\ batches'[b].parent = batches[b].parent
  BY <1>2 DEF QuietStep, Stopped, Active
<1>6. OneBatchPerCronoton'
  BY <1>5 DEF OneBatchPerCronoton, Active, Stored
<1> QED
  BY <1>1, <1>3, <1>4, <1>6

\* A fresh batch has no claims yet.
LEMMA StartKeeps ==
    ASSUME TypeInv, BatchInv, NEW b \in Batches, Started(b)
    PROVE  BatchInv'
<1> USE StoreAssumption, BatchAssumption DEF TypeInv, TypeOK, BatchInv
<1>1. PICK new \in Batch :
         /\ batches' = [batches EXCEPT ![b] = new]
         /\ new.completed = 0 /\ new.total > 0
         /\ new.status = "active" /\ new.nextAt \in Nat
         /\ \A c \in Batches : Active(c) => batches[c].parent # new.parent
  BY DEF Started
<1>2. UNCHANGED <<now, at, stamps>> /\ batches[b] = Unborn
  BY DEF Started
<1>3. PastInv'
  BY <1>2 DEF PastInv
<1>4. batches'[b] = new /\ \A c \in Batches \ {b} : batches'[c] = batches[c]
  BY <1>1
<1>5. Cardinality({}) = 0
  BY FS_EmptySet
<1>6. StampInv'
  <2>1. stamps[b] = {}
    BY <1>2 DEF StampInv
  <2> QED
    BY <2>1, <1>1, <1>2, <1>4, <1>5 DEF StampInv, Stored
<1>7. RunsToItsTotal'
  BY <1>1, <1>4 DEF RunsToItsTotal, Stored
<1>8. OneBatchPerCronoton'
  BY <1>1, <1>4 DEF OneBatchPerCronoton, Active, Stored
<1> QED
  BY <1>3, <1>6, <1>7, <1>8

\* A claim is a new stamp, one interval after the others.
LEMMA ClaimKeeps ==
    ASSUME TypeInv, BatchInv, NEW w \in Workers, NEW b \in Batches,
           NEW old \in Batch, NEW new \in Batch, SlotClaimed(w, b, old, new)
    PROVE  BatchInv'
<1> USE StoreAssumption, BatchAssumption DEF TypeInv, TypeOK, BatchInv
<1>1. /\ UNCHANGED <<now, at>> /\ batches[b] = old
      /\ batches'[b] = new /\ \A c \in Batches \ {b} : batches'[c] = batches[c]
      /\ stamps'[b] = stamps[b] \cup {at[w]}
      /\ \A c \in Batches \ {b} : stamps'[c] = stamps[c]
  BY DEF SlotClaimed
<1>2. /\ Active(b) /\ Stored(b) /\ old.nextAt \in Nat /\ old.nextAt <= at[w]
      /\ new \notin {Unborn, Deleted} /\ new.parent = old.parent /\ new.total = old.total
      /\ new.completed = old.completed + 1
      /\ \/ /\ new.completed < new.total
            /\ new.status = "active" /\ new.nextAt = at[w] + Interval
         \/ /\ new.completed = new.total
            /\ new.status = "completed" /\ new.nextAt = None
  BY <1>1 DEF SlotClaimed, Active, Stored
<1>3. at[w] \in Nat /\ now \in Nat /\ at[w] <= now
  BY DEF PastInv, StoreTypeOK, Time
<1>4. \A s \in stamps[b] : s \in Nat /\ s + Interval <= at[w]
  BY <1>1, <1>2, <1>3 DEF StampInv
<1>5. PastInv'
  BY <1>1 DEF PastInv
<1>6. IsFiniteSet(stamps[b]) /\ at[w] \notin stamps[b]
  <2>1. IsFiniteSet(0..now)
    BY <1>3, FS_Interval
  <2>2. stamps[b] \subseteq 0..now
    BY DEF StampInv
  <2>3. at[w] \notin stamps[b]
    BY <1>3, <1>4
  <2> QED
    BY <2>1, <2>2, <2>3, FS_Subset
<1>7. Cardinality(stamps'[b]) = new.completed
  <2>1. Cardinality(stamps[b]) = old.completed
    BY <1>1, <1>2 DEF StampInv
  <2>2. Cardinality(stamps[b] \cup {at[w]}) = Cardinality(stamps[b]) + 1
    BY <1>6, FS_AddElement
  <2> QED
    BY <2>1, <2>2, <1>1, <1>2
<1>8. StampInv'
  <2> SUFFICES ASSUME NEW c \in Batches
               PROVE  /\ stamps'[c] \subseteq 0..now
                      /\ batches'[c] = Unborn => stamps'[c] = {}
                      /\ batches'[c] \notin {Unborn, Deleted} =>
                            Cardinality(stamps'[c]) = batches'[c].completed
                      /\ batches'[c] \notin {Unborn, Deleted} /\ batches'[c].nextAt # None =>
                            \A s \in stamps'[c] : s + Interval <= batches'[c].nextAt
                      /\ \A s, t \in stamps'[c] : s < t => s + Interval <= t
    BY <1>1 DEF StampInv, Stored
  <2>1. CASE c # b
    BY <2>1, <1>1 DEF StampInv, Stored
  <2>2. CASE c = b
    <3>1. stamps'[b] \subseteq 0..now
      BY <1>1, <1>3 DEF StampInv
    <3>2. new.nextAt # None => \A s \in stamps'[b] : s + Interval <= new.nextAt
      BY <1>1, <1>2, <1>3, <1>4
    <3>3. \A s, t \in stamps'[b] : s < t => s + Interval <= t
      BY <1>1, <1>3, <1>4 DEF StampInv
    <3> QED
      BY <2>2, <3>1, <3>2, <3>3, <1>1, <1>2, <1>7
  <2> QED
    BY <2>1, <2>2
<1>9. RunsToItsTotal'
  <2>1. None \notin Nat
    OBVIOUS
  <2> QED
    BY <2>1, <1>1, <1>2, <1>3 DEF RunsToItsTotal, Stored
<1>10. OneBatchPerCronoton'
  BY <1>1, <1>2 DEF OneBatchPerCronoton, Active, Stored
<1> QED
  BY <1>5, <1>8, <1>9, <1>10

\* Every step keeps the schedule of every batch.
LEMMA BatchStep == TypeInv /\ TypeInv' /\ BatchInv /\ [Next]_vars => BatchInv'
  BY StepKinds, QuietKeeps, StartKeeps, ClaimKeeps

\* The inductive invariant behind the three theorems below.
THEOREM BatchesAreConsistent == Spec => []BatchInv
  BY TypeCorrect, BatchInit, BatchStep, PTL DEF Spec

\* A batch is due exactly while it runs and ends exactly with its last slot,
\* whoever claims, stops or deletes in between.
THEOREM BatchesRunToTheirTotal == Spec => []RunsToItsTotal
<1>1. BatchInv => RunsToItsTotal
  BY DEF BatchInv
<1> QED
  BY <1>1, BatchesAreConsistent, PTL

\* The start's check keeps a cronoton to one running batch.
THEOREM OneBatchRuns == Spec => []OneBatchPerCronoton
<1>1. BatchInv => OneBatchPerCronoton
  BY DEF BatchInv
<1> QED
  BY <1>1, BatchesAreConsistent, PTL

\* Claims are counted right and lie an interval apart, for any overlap of passes.
THEOREM SlotsKeepTheirDistance == Spec => []SlotsAreSpaced
<1>1. TypeInv /\ BatchInv => SlotsAreSpaced
  BY BatchAssumption DEF TypeInv, TypeOK, Time, BatchInv, StampInv, SlotsAreSpaced
<1> QED
  BY <1>1, TypeCorrect, BatchesAreConsistent, PTL

\* A batch that ended is not claimed, stopped or started again.
THEOREM EndedBatchesAreFinal == Spec => EndedBatchesStay
<1> DEFINE Stays ==
      \A b \in Batches : Stored(b) /\ ~Active(b) => batches'[b] \in {batches[b], Deleted}
<1>1. TypeInv /\ [Next]_vars => [Stays]_vars
  <2> SUFFICES ASSUME TypeInv, [Next]_vars, NEW b \in Batches, Stored(b), ~Active(b)
               PROVE  batches'[b] \in {batches[b], Deleted}
    OBVIOUS
  <2>1. CASE QuietStep
    BY <2>1 DEF QuietStep, Stopped
  <2>2. ASSUME NEW c \in Batches, Started(c)
        PROVE  batches'[b] = batches[b]
    BY <2>2 DEF Started, Stored
  <2>3. ASSUME NEW w \in Workers, NEW c \in Batches, NEW old \in Batch, NEW new \in Batch,
               SlotClaimed(w, c, old, new)
        PROVE  batches'[b] = batches[b]
    BY <2>3 DEF SlotClaimed, Active, Stored, TypeInv, TypeOK
  <2> QED
    BY <2>1, <2>2, <2>3, StepKinds
<1> QED
  BY <1>1, TypeCorrect, PTL DEF Spec, EndedBatchesStay

-----------------------------------------------------------------------------
(* The batch worker implements ClaimLedger, a batch's slots as its claims *)

\* A lease is a stamp of its batch, held by one pass and not in the history.
SlotInv ==
    /\ \A w \in Workers : pc[w] \in InFlight =>
          /\ at[w] \in stamps[job[w].id]
          /\ <<job[w].id, at[w]>> \notin fires
          /\ \A v \in Workers \ {w} : pc[v] \in InFlight /\ job[v].id = job[w].id =>
                at[v] # at[w]
    /\ \A f \in fires : f[2] \in stamps[f[1]]

\* The latest stamp of a batch is one of its stamps.
LatestInv ==
    \A b \in Batches :
        \/ stamps[b] = {}
        \/ \E t \in stamps[b] : \A s \in stamps[b] : s <= t

MapInv == TypeInv /\ BatchInv /\ SlotInv /\ LatestInv

\* A claim's stamp lies after every earlier one of the batch.
LEMMA ClaimIsLatest ==
    ASSUME TypeInv, BatchInv, NEW w \in Workers, NEW b \in Batches,
           NEW old \in Batch, NEW new \in Batch, SlotClaimed(w, b, old, new)
    PROVE  /\ \A s \in stamps[b] : s \in Nat /\ s < at[w]
           /\ at[w] \in Nat
           /\ \A s \in stamps[b] : s < old.nextAt
<1> USE StoreAssumption, BatchAssumption DEF TypeInv, TypeOK, BatchInv
<1>1. /\ Stored(b) /\ batches[b] = old
      /\ old.nextAt \in Nat /\ old.nextAt <= at[w] /\ at[w] \in Nat
  BY DEF SlotClaimed, Stored, Time
<1>2. \A s \in stamps[b] : s \in Nat /\ s + Interval <= old.nextAt
  BY <1>1 DEF StampInv, Time
<1> QED
  BY <1>1, <1>2

\* Nothing is in flight and nothing recorded at first.
LEMMA SlotInit == Init => SlotInv /\ LatestInv
  BY DEF Init, SlotInv, LatestInv, InFlight

\* A claim's stamp is new, so its lease is too; all other steps only give
\* leases up or move them into the history.
LEMMA SlotStep == TypeInv /\ BatchInv /\ SlotInv /\ [Next]_vars => SlotInv'
<1> SUFFICES ASSUME TypeInv, BatchInv, SlotInv, [Next]_vars
             PROVE  SlotInv'
  OBVIOUS
<1> USE DEF TypeInv, TypeOK, JobInv, InFlight
<1>1. ASSUME UNCHANGED stamps, fires' \subseteq fires,
             \A w \in Workers : pc'[w] \in InFlight =>
                pc[w] \in InFlight /\ job'[w] = job[w] /\ at'[w] = at[w]
      PROVE  SlotInv'
  BY <1>1 DEF SlotInv
<1>2. ASSUME NEW w \in Workers, NEW b \in Batches, NEW old \in Batch, NEW new \in Batch,
             SlotClaimed(w, b, old, new)
      PROVE  SlotInv'
  <2>1. /\ \A s \in stamps[b] : s \in Nat /\ s < at[w]
        /\ at[w] \in Nat
    BY <1>2, ClaimIsLatest
  <2>2. at[w] \notin stamps[b]
    BY <2>1
  <2>3. PICK r \in Resolvers \cup {None} : job' = [job EXCEPT ![w] = [id |-> b, resolver |-> r]]
    BY <1>2 DEF SlotClaimed
  <2>4. /\ UNCHANGED <<at, fires>> /\ pc' = [pc EXCEPT ![w] = "firing"]
        /\ stamps' = [stamps EXCEPT ![b] = @ \cup {at[w]}]
    BY <1>2 DEF SlotClaimed
  <2>5. /\ job'[w].id = b /\ \A v \in Workers \ {w} : job'[v] = job[v] /\ pc'[v] = pc[v]
        /\ at[w] \in stamps'[b] /\ \A c \in Batches : stamps[c] \subseteq stamps'[c]
    BY <2>3, <2>4
  <2>6. \A v \in Workers : pc[v] \in InFlight => job[v].id \in Batches
    BY DEF Job
  <2>7. \A v \in Workers : pc[v] \in InFlight /\ job[v].id = b => at[v] # at[w]
    BY <2>2 DEF SlotInv
  <2>8. \A f \in fires : f[1] \in Batches
    OBVIOUS
  <2>9. \A f \in fires : f[2] \in stamps'[f[1]]
    BY <2>5, <2>8 DEF SlotInv
  <2>10. <<b, at[w]>> \notin fires
    BY <2>2 DEF SlotInv
  <2>11. ASSUME NEW v \in Workers, pc'[v] \in InFlight
         PROVE  /\ at[v] \in stamps'[job'[v].id]
                /\ <<job'[v].id, at[v]>> \notin fires
                /\ \A u \in Workers \ {v} : pc'[u] \in InFlight /\ job'[u].id = job'[v].id =>
                      at[u] # at[v]
    <3>1. CASE v = w
      BY <3>1, <2>5, <2>7, <2>10
    <3>2. CASE v # w
      BY <2>11, <3>2, <2>5, <2>6, <2>7 DEF SlotInv
    <3> QED
      BY <3>1, <3>2
  <2> QED
    BY <2>4, <2>9, <2>11 DEF SlotInv
<1>3. ASSUME NEW w \in Workers, RecordSlot(w)
      PROVE  SlotInv'
  <2>1. /\ UNCHANGED <<at, stamps>> /\ pc[w] \in InFlight
        /\ fires' = fires \cup {<<job[w].id, at[w]>>}
        /\ pc'[w] \notin InFlight
        /\ \A v \in Workers \ {w} : job'[v] = job[v] /\ pc'[v] = pc[v]
    BY <1>3 DEF RecordSlot, Release
  <2>2. \A f \in fires' : f[2] \in stamps[f[1]]
    BY <2>1 DEF SlotInv
  <2>3. \A v \in Workers \ {w} : pc[v] \in InFlight =>
           <<job[v].id, at[v]>> # <<job[w].id, at[w]>>
    BY <2>1 DEF SlotInv
  <2>4. ASSUME NEW v \in Workers, pc'[v] \in InFlight
        PROVE  /\ at[v] \in stamps[job'[v].id]
               /\ <<job'[v].id, at[v]>> \notin fires'
               /\ \A u \in Workers \ {v} : pc'[u] \in InFlight /\ job'[u].id = job'[v].id =>
                     at[u] # at[v]
    <3>1. v # w
      BY <2>1, <2>4
    <3> QED
      BY <2>1, <2>3, <2>4, <3>1 DEF SlotInv
  <2> QED
    BY <2>1, <2>2, <2>4 DEF SlotInv
<1>4. ASSUME NEW w \in Workers, ClaimSlot(w)
      PROVE  SlotInv'
  BY <1>2, <1>4, ClaimEffect
<1>5. ASSUME NEW b \in Batches, NEW id \in Ids, NEW total \in MinTotal..MaxTotal,
             StartExecuteBatch(b, id, total)
      PROVE  SlotInv'
  BY <1>5, <1>1 DEF StartExecuteBatch, workerVars
<1>6. ASSUME NEW id \in Ids, CancelExecuteBatch(id) \/ Operator(id)
      PROVE  SlotInv'
  BY <1>6, <1>1 DEF CancelExecuteBatch, Operator, workerVars
<1>7. ASSUME NEW w \in Workers,
             \/ SelectDue(w) \/ StopBatch(w) \/ LoseSlot(w) \/ EndPass(w) \/ FireSlot(w)
             \/ DispatchThrows(w) \/ RecordThrows(w) \/ Crash(w)
      PROVE  SlotInv'
  BY <1>7, <1>1 DEF SelectDue, StopBatch, LoseSlot, EndPass, FireSlot, DispatchThrows,
                    RecordThrows, Release, Crash
<1>8. ASSUME Tick \/ UNCHANGED vars
      PROVE  SlotInv'
  BY <1>8, <1>1 DEF Tick, workerVars, vars
<1> QED
  BY <1>3, <1>4, <1>5, <1>6, <1>7, <1>8 DEF Next, WorkerStep

\* Only a claim adds a stamp, and it is the latest.
LEMMA LatestStep == TypeInv /\ BatchInv /\ LatestInv /\ [Next]_vars => LatestInv'
<1> SUFFICES ASSUME TypeInv, BatchInv, LatestInv, [Next]_vars
             PROVE  LatestInv'
  OBVIOUS
<1>1. ASSUME UNCHANGED stamps
      PROVE  LatestInv'
  BY <1>1 DEF LatestInv
<1>2. ASSUME NEW w \in Workers, NEW b \in Batches, NEW old \in Batch, NEW new \in Batch,
             SlotClaimed(w, b, old, new)
      PROVE  LatestInv'
  <2>1. /\ \A s \in stamps[b] : s \in Nat /\ s < at[w]
        /\ at[w] \in Nat
    BY <1>2, ClaimIsLatest
  <2>2. /\ stamps'[b] = stamps[b] \cup {at[w]}
        /\ \A c \in Batches \ {b} : stamps'[c] = stamps[c]
    BY <1>2 DEF SlotClaimed, TypeInv, TypeOK
  <2>3. \A s \in stamps'[b] : s <= at[w]
    BY <2>1, <2>2
  <2> QED
    BY <2>2, <2>3 DEF LatestInv
<1> QED
  BY <1>1, <1>2, StepKinds DEF QuietStep, Started

\* Leases are stamps held once, and the history holds stamps.
THEOREM SlotsAreConsistent == Spec => []MapInv
<1>1. MapInv <=> TypeInv /\ BatchInv /\ SlotInv /\ LatestInv
  BY DEF MapInv
<1> QED
  BY <1>1, TypeCorrect, BatchesAreConsistent, SlotInit, SlotStep, LatestStep, PTL DEF Spec

-----------------------------------------------------------------------------
(* The refinement mapping *)

\* LastClaim is None for a batch without claims, else its latest stamp.
LEMMA LatestClaim ==
    ASSUME MapInv, NEW b \in Batches
    PROVE  IF stamps[b] = {} THEN LastClaim[b] = None
           ELSE LastClaim[b] \in stamps[b] /\ \A s \in stamps[b] : s <= LastClaim[b]
<1>1. CASE stamps[b] = {}
  BY <1>1 DEF LastClaim
<1>2. CASE stamps[b] # {}
  <2>1. \E t \in stamps[b] : \A s \in stamps[b] : s <= t
    BY <1>2 DEF MapInv, LatestInv
  <2>2. LastClaim[b] = CHOOSE t \in stamps[b] : \A s \in stamps[b] : s <= t
    BY <1>2 DEF LastClaim, Latest
  <2> QED
    BY <1>2, <2>1, <2>2
<1> QED
  BY <1>1, <1>2

\* The empty table maps to the empty ledger.
LEMMA SlotLedgerInit == Init => Ledger!Init
<1> SUFFICES ASSUME Init
             PROVE  Ledger!Init
  OBVIOUS
<1>1. NextSlot = [b \in Batches |-> None]
  BY DEF Init, NextSlot, Stored
<1>2. LastClaim = [b \in Batches |-> None]
  BY DEF Init, LastClaim
<1>3. Leased = {}
  BY DEF Init, Leased
<1> QED
  BY <1>1, <1>2, <1>3 DEF Init, Ledger!Init

\* A step that leaves the batches, the stamps and the leases' holders alone.
LEMMA LeasesKept ==
    ASSUME TypeOK,
           \A w \in Workers : pc[w] \in InFlight \/ pc'[w] \in InFlight =>
              /\ pc[w] \in InFlight /\ pc'[w] \in InFlight
              /\ job'[w] = job[w] /\ at'[w] = at[w]
    PROVE  Leased' = Leased
  BY DEF Leased, InFlight

\* A start or a stop arms or disarms one batch.
LEMMA StartOrStopRearms ==
    ASSUME MapInv, NEW b \in Batches, UNCHANGED <<stamps, fires, Leased>>,
           \A c \in Batches \ {b} : batches'[c] = batches[c],
           batches'[b] \notin {Unborn, Deleted} /\ batches'[b].nextAt # None
              => stamps[b] = {}
    PROVE  Ledger!Rearm(b)
<1>1. LastClaim' = LastClaim
  BY DEF LastClaim
<1>2. \A c \in Batches \ {b} : NextSlot'[c] = NextSlot[c]
  BY DEF NextSlot, Stored
<1>3. NextSlot'[b] # None => LastClaim[b] = None
  BY LatestClaim DEF NextSlot, Stored
<1> QED
  BY <1>1, <1>2, <1>3 DEF Ledger!Rearm, Ledger!PastMark

\* A pass that gives its lease up takes no other pass's lease with it.
LEMMA LeaseGivenUp ==
    ASSUME MapInv, NEW w \in Workers, pc[w] \in InFlight, pc'[w] \notin InFlight,
           UNCHANGED at,
           \A v \in Workers \ {w} : pc'[v] = pc[v] /\ job'[v] = job[v]
    PROVE  /\ <<job[w].id, at[w]>> \in Leased
           /\ Leased' = Leased \ {<<job[w].id, at[w]>>}
<1>1. \A v \in Workers \ {w} : pc[v] \in InFlight =>
         <<job[v].id, at[v]>> # <<job[w].id, at[w]>>
  BY DEF MapInv, SlotInv
<1> QED
  BY <1>1 DEF Leased, InFlight

\* The claim of a slot is a claim of the ledger.
LEMMA ClaimClaims ==
    ASSUME MapInv, MapInv', NEW w \in Workers, NEW b \in Batches,
           NEW old \in Batch, NEW new \in Batch, SlotClaimed(w, b, old, new)
    PROVE  Ledger!Claim(b, at[w])
<1> USE StoreAssumption, BatchAssumption DEF MapInv, TypeInv, TypeOK
<1>1. /\ \A s \in stamps[b] : s \in Nat /\ s < at[w] /\ s < old.nextAt
      /\ at[w] \in Nat
  BY ClaimIsLatest
<1>2. /\ batches[b] = old /\ Stored(b) /\ old.nextAt \in Nat /\ old.nextAt <= at[w]
      /\ batches'[b] = new /\ new \notin {Unborn, Deleted}
      /\ new.nextAt \in {at[w] + Interval, None}
      /\ \A c \in Batches \ {b} : batches'[c] = batches[c]
      /\ stamps'[b] = stamps[b] \cup {at[w]}
      /\ \A c \in Batches \ {b} : stamps'[c] = stamps[c]
      /\ UNCHANGED <<at, fires>>
      /\ pc[w] \notin InFlight /\ pc'[w] = "firing"
  BY DEF SlotClaimed, Stored, InFlight
<1>3. PICK r \in Resolvers \cup {None} : job' = [job EXCEPT ![w] = [id |-> b, resolver |-> r]]
  BY DEF SlotClaimed
<1>4. /\ job'[w].id = b
      /\ \A v \in Workers \ {w} : job'[v] = job[v] /\ pc'[v] = pc[v]
  BY <1>3 DEF SlotClaimed
<1>5. NextSlot[b] = old.nextAt /\ NextSlot'[b] = new.nextAt
  BY <1>2 DEF NextSlot, Stored
<1>6. \A c \in Batches \ {b} : NextSlot'[c] = NextSlot[c]
  BY <1>2 DEF NextSlot, Stored
<1>7. Ledger!PastMark(old.nextAt, b)
  BY <1>1, LatestClaim DEF Ledger!PastMark
<1>8. LastClaim' = [LastClaim EXCEPT ![b] = at[w]]
  <2>1. LastClaim'[b] = CHOOSE t \in stamps'[b] : \A s \in stamps'[b] : s <= t
    BY <1>2 DEF LastClaim, Latest
  <2>2. at[w] \in stamps'[b] /\ \A s \in stamps'[b] : s <= at[w]
    BY <1>1, <1>2
  <2>3. \A t \in stamps'[b] : at[w] <= t => t = at[w]
    BY <1>1, <1>2
  <2>4. LastClaim'[b] = at[w]
    BY <2>1, <2>2, <2>3
  <2>5. \A c \in Batches \ {b} : LastClaim'[c] = LastClaim[c]
    BY <1>2 DEF LastClaim
  <2>6. /\ LastClaim = [c \in Batches |-> LastClaim[c]]
        /\ LastClaim' = [c \in Batches |-> LastClaim'[c]]
    BY DEF LastClaim
  <2> QED
    BY <2>4, <2>5, <2>6
<1>9. Leased' = Leased \cup {<<b, at[w]>>}
  BY <1>2, <1>4 DEF Leased, InFlight
<1>10. <<b, at[w]>> \notin Leased \cup fires
  <2>1. at[w] \notin stamps[b]
    BY <1>1
  <2>2. <<b, at[w]>> \notin Leased
    <3> SUFFICES ASSUME NEW v \in Workers, pc[v] \in InFlight,
                        job[v].id = b, at[v] = at[w]
                 PROVE  FALSE
      BY DEF Leased, InFlight
    <3> QED
      BY <2>1 DEF SlotInv
  <2>3. <<b, at[w]>> \notin fires
    BY <2>1 DEF SlotInv
  <2> QED
    BY <2>2, <2>3
<1>11. new.nextAt # None => new.nextAt > at[w]
  BY <1>1, <1>2
<1> QED
  BY <1>2, <1>5, <1>6, <1>7, <1>8, <1>9, <1>10, <1>11 DEF Ledger!Claim

\* Every step is one step of the ledger or none: a claim claims, a record
\* enters, a crash or a throw loses, a start or a stop rearms, a delete forgets.
LEMMA SlotLedgerStep == MapInv /\ MapInv' /\ [Next]_vars => [Ledger!Next]_(Ledger!vars)
<1> SUFFICES ASSUME MapInv, MapInv', [Next]_vars
             PROVE  Ledger!Next \/ UNCHANGED Ledger!vars
  OBVIOUS
<1> USE DEF MapInv, TypeInv, TypeOK
<1>1. ASSUME UNCHANGED <<batches, stamps, fires>>, Leased' = Leased
      PROVE  UNCHANGED Ledger!vars
  BY <1>1 DEF Ledger!vars, NextSlot, LastClaim, Stored
<1>2. ASSUME NEW w \in Workers, pc[w] \in InFlight, pc'[w] \notin InFlight,
             UNCHANGED <<batches, at, stamps, fires>>,
             \A v \in Workers \ {w} : pc'[v] = pc[v] /\ job'[v] = job[v]
      PROVE  Ledger!Next
  <2> DEFINE lease == <<job[w].id, at[w]>>
  <2>1. lease \in Leased /\ Leased' = Leased \ {lease}
    BY <1>2, LeaseGivenUp
  <2>2. NextSlot' = NextSlot /\ LastClaim' = LastClaim
    BY <1>2 DEF NextSlot, LastClaim, Stored
  <2> HIDE DEF lease
  <2> QED
    BY <1>2, <2>1, <2>2 DEF Ledger!Next, Ledger!Lose
<1>3. ASSUME NEW w \in Workers, RecordSlot(w)
      PROVE  Ledger!Next
  <2> DEFINE lease == <<job[w].id, at[w]>>
  <2>1. /\ UNCHANGED <<batches, at, stamps>> /\ fires' = fires \cup {lease}
        /\ pc[w] \in InFlight /\ pc'[w] \notin InFlight
        /\ \A v \in Workers \ {w} : pc'[v] = pc[v] /\ job'[v] = job[v]
    BY <1>3 DEF RecordSlot, Release, InFlight
  <2>2. lease \in Leased /\ Leased' = Leased \ {lease}
    BY <2>1, LeaseGivenUp
  <2>3. lease \notin fires
    BY <2>1 DEF SlotInv
  <2>4. NextSlot' = NextSlot /\ LastClaim' = LastClaim
    BY <2>1 DEF NextSlot, LastClaim, Stored
  <2> HIDE DEF lease
  <2> QED
    BY <2>1, <2>2, <2>3, <2>4 DEF Ledger!Next, Ledger!Enter
<1>4. ASSUME NEW w \in Workers, ClaimSlot(w)
      PROVE  Ledger!Next
  <2>1. PICK b \in Batches, old \in Batch, new \in Batch : SlotClaimed(w, b, old, new)
    BY <1>4, ClaimEffect
  <2>2. Ledger!Claim(b, at[w])
    BY <2>1, ClaimClaims
  <2>3. at[w] \in Time
    OBVIOUS
  <2> QED
    BY <2>2, <2>3 DEF Ledger!Next
<1>5. ASSUME NEW b \in Batches, Started(b)
      PROVE  Ledger!Next
  <2>1. /\ UNCHANGED <<pc, at, job, stamps, fires>> /\ batches[b] = Unborn
        /\ \A c \in Batches \ {b} : batches'[c] = batches[c]
    BY <1>5 DEF Started
  <2>2. stamps[b] = {}
    BY <2>1 DEF BatchInv, StampInv
  <2>3. Leased' = Leased
    BY <2>1 DEF Leased
  <2>4. Ledger!Rearm(b)
    BY <2>1, <2>2, <2>3, StartOrStopRearms
  <2> QED
    BY <2>4 DEF Ledger!Next
<1>6. ASSUME NEW b \in Batches, Cancel(b), UNCHANGED <<pc, at, job, stamps, fires>>
      PROVE  Ledger!Next \/ UNCHANGED Ledger!vars
  <2>1. Leased' = Leased
    BY <1>6 DEF Leased
  <2>2. CASE UNCHANGED batches
    BY <1>6, <2>1, <2>2, <1>1
  <2>3. ASSUME NEW new \in Batch, new.nextAt = None, batches' = [batches EXCEPT ![b] = new]
        PROVE  Ledger!Next
    <3>1. batches'[b] = new /\ \A c \in Batches \ {b} : batches'[c] = batches[c]
      BY <2>3
    <3>2. Ledger!Rearm(b)
      BY <1>6, <2>1, <2>3, <3>1, StartOrStopRearms
    <3> QED
      BY <3>2 DEF Ledger!Next
  <2> QED
    BY <1>6, <2>2, <2>3, CancelEffect
<1>7. ASSUME NEW id \in Ids, Operator(id)
      PROVE  Ledger!Next
  <2> DEFINE gone == {b \in Batches : Orphaned(b)}
  <2>1. /\ batches' = [b \in Batches |-> IF Orphaned(b) THEN Deleted ELSE batches[b]]
        /\ fires' = {f \in fires : ~Orphaned(f[1])}
        /\ UNCHANGED <<pc, at, job, stamps>>
    BY <1>7 DEF Operator, workerVars
  <2>2. NextSlot' = [b \in Batches |-> IF b \in gone THEN None ELSE NextSlot[b]]
    BY <2>1 DEF NextSlot, Stored
  <2>3. LastClaim' = LastClaim /\ Leased' = Leased
    BY <2>1 DEF LastClaim, Leased
  <2>4. fires' = {f \in fires : f[1] \notin gone}
    BY <2>1
  <2>5. gone \in SUBSET Batches
    OBVIOUS
  <2> HIDE DEF gone
  <2>6. Ledger!Forget(gone)
    BY <2>2, <2>3, <2>4 DEF Ledger!Forget
  <2> QED
    BY <2>5, <2>6 DEF Ledger!Next
<1>8. ASSUME NEW w \in Workers, SelectDue(w) \/ LoseSlot(w) \/ EndPass(w) \/ FireSlot(w)
      PROVE  UNCHANGED Ledger!vars
  <2>1. UNCHANGED <<batches, stamps, fires, job>>
    BY <1>8 DEF SelectDue, LoseSlot, EndPass, FireSlot
  <2>2. \A v \in Workers : pc[v] \in InFlight \/ pc'[v] \in InFlight =>
           pc[v] \in InFlight /\ pc'[v] \in InFlight /\ at'[v] = at[v]
    BY <1>8 DEF SelectDue, LoseSlot, EndPass, FireSlot, InFlight
  <2> QED
    BY <2>1, <2>2, LeasesKept, <1>1
<1>9. ASSUME NEW w \in Workers, DispatchThrows(w) \/ RecordThrows(w) \/ Crash(w)
      PROVE  Ledger!Next \/ UNCHANGED Ledger!vars
  <2>1. /\ UNCHANGED <<batches, at, stamps, fires>>
        /\ pc'[w] \notin InFlight
        /\ \A v \in Workers \ {w} : pc'[v] = pc[v] /\ job'[v] = job[v]
    BY <1>9 DEF DispatchThrows, RecordThrows, Crash, Release, InFlight
  <2>2. CASE pc[w] \in InFlight
    BY <2>1, <2>2, <1>2
  <2>3. CASE pc[w] \notin InFlight
    BY <2>1, <2>3, LeasesKept, <1>1
  <2> QED
    BY <2>2, <2>3
<1>10. ASSUME NEW b \in Batches, NEW id \in Ids, NEW total \in MinTotal..MaxTotal,
              StartExecuteBatch(b, id, total)
       PROVE  Ledger!Next
  BY <1>5, <1>10, StartEffect
<1>11. ASSUME NEW id \in Ids, CancelExecuteBatch(id)
       PROVE  Ledger!Next \/ UNCHANGED Ledger!vars
  BY <1>6, <1>11 DEF CancelExecuteBatch, workerVars
<1>12. ASSUME NEW w \in Workers, StopBatch(w)
       PROVE  Ledger!Next \/ UNCHANGED Ledger!vars
  <2>1. PICK s \in Oldest(w) : Cancel(s.id)
    BY <1>12 DEF StopBatch
  <2>2. s.id \in Batches
    BY DEF Oldest, Seen
  <2> QED
    BY <2>1, <2>2, <1>6, <1>12 DEF StopBatch
<1>13. ASSUME Tick \/ UNCHANGED vars
       PROVE  UNCHANGED Ledger!vars
  <2>1. UNCHANGED <<batches, stamps, fires, pc, at, job>>
    BY <1>13 DEF Tick, workerVars, vars
  <2>2. Leased' = Leased
    BY <2>1 DEF Leased
  <2> QED
    BY <2>1, <2>2, <1>1
<1> QED
  BY <1>3, <1>4, <1>7, <1>8, <1>9, <1>10, <1>11, <1>12, <1>13 DEF Next, WorkerStep

\* A slot is claimed once, fired by the pass that claimed it and recorded at
\* most once: the worker implements the claim ledger.
THEOREM BatchesKeepTheSlotLedger == Spec => KeepsSlotLedger
<1>1. Init => Ledger!Init
  BY SlotLedgerInit
<1> QED
  BY <1>1, SlotsAreConsistent, SlotLedgerStep, PTL DEF Spec, KeepsSlotLedger, Ledger!Spec
=============================================================================
