---------------------------- MODULE ManualBatch ----------------------------
(***************************************************************************)
(* "Execute Now xN": the codex_cronoton_manual_batches table               *)
(* (store/manual-batch.ts), the confirm-free stop (handlers/batch.ts) and  *)
(* any number of overlapping worker passes of processDueManualBatchesOnce  *)
(* (server/tick.ts), over the cronoton table and its operators.            *)
(*                                                                         *)
(* A batch fires its parent cronoton `total` times, one interval apart.    *)
(* A pass reads the due batches once and then, for each, looks at the      *)
(* parent, claims one slot, fires and records; it awaits only the fire and *)
(* the audit.  last_fire_at, which no batch operation reads, is left out.  *)
(***************************************************************************)
EXTENDS CronotonStore, FiniteSets

CONSTANTS
    MultiTx,     \* resolvers registered as multi-tx
    Batches,     \* batch ids (random UUIDs, never reused)
    MinTotal, MaxTotal,  \* the count bounds
    Interval,    \* the cadence
    Workers,     \* passes that may overlap (a restarted loop, two hosts)
    BatchLimit,  \* Config.tickBatchLimit
    MaxCrashes   \* bound on process crashes

Batch == [parent : Ids, total : Nat, completed : Nat,
          status : {"active", "completed", "cancelled"},
          nextAt : Nat \cup {None}]

ASSUME BatchAssumption ==
    /\ Unborn \notin Batch /\ Deleted \notin Batch
    /\ MinTotal \in Nat \ {0} /\ MaxTotal \in Nat
    /\ Interval \in Nat \ {0}
    /\ BatchLimit \in Nat \ {0}
    /\ MaxCrashes \in Nat

VARIABLES
    batches,  \* the table: each id's row, or Unborn, or Deleted
    pc,       \* where each pass is
    at,       \* the `now` it was started with
    todo,     \* the batches it has read and not reached yet
    job,      \* the batch it is firing a slot of, and the parent's resolver
    fires,    \* fire rows of batches: <<batch, the pass's now>>
    stamps,   \* history: the `now` of every claim of a batch
    crashes

workerVars == <<pc, at, todo, job>>
vars == <<rows, now, batches, pc, at, todo, job, fires, stamps, crashes>>

Seen == [id : Batches, row : Batch]
Job == [id : Batches, resolver : Resolvers \cup {None}]

TypeOK ==
    /\ StoreTypeOK
    /\ batches \in [Batches -> Batch \cup {Unborn, Deleted}]
    /\ pc \in [Workers -> {"idle", "pass", "firing", "fired"}]
    /\ at \in [Workers -> Time]
    /\ todo \in [Workers -> SUBSET Seen]
    /\ job \in [Workers -> Job \cup {None}]
    /\ fires \subseteq Batches \X Time
    /\ stamps \in [Batches -> SUBSET Time]
    /\ crashes \in 0..MaxCrashes

Init ==
    /\ StoreInit
    /\ batches = [b \in Batches |-> Unborn]
    /\ pc = [w \in Workers |-> "idle"]
    /\ at = [w \in Workers |-> 0]
    /\ todo = [w \in Workers |-> {}]
    /\ job = [w \in Workers |-> None]
    /\ fires = {}
    /\ stamps = [b \in Batches |-> {}]
    /\ crashes = 0

-----------------------------------------------------------------------------
(* The table *)

Stored(b) == batches[b] \notin {Unborn, Deleted}
Active(b) == Stored(b) /\ batches[b].status = "active"

\* Fault variant of Batchable: a running batch is not looked for.
BatchableAlways(id) ==
    Exists(id) /\ rows[id].status = "active" /\ rows[id].sched \notin OneTime

\* An active recurring cronoton with no batch running.
Batchable(id) ==
    /\ Exists(id)
    /\ rows[id].status = "active"
    /\ rows[id].sched \notin OneTime
    /\ ~\E b \in Batches : Active(b) /\ batches[b].parent = id

\* The checks and the insert are separate statements without a transaction; they
\* are one step because the database driver is synchronous and one process serves
\* the requests, whatever processes the passes run in.
StartExecuteBatch(b, id, total) ==
    /\ batches[b] = Unborn
    /\ total \in MinTotal..MaxTotal
    /\ Batchable(id)
    /\ batches' = [batches EXCEPT ![b] =
          [parent |-> id, total |-> total, completed |-> 0,
           status |-> "active", nextAt |-> now]]
    /\ UNCHANGED <<rows, now, workerVars, fires, stamps, crashes>>

\* Fault variant of Cancelled: the update forgets the status.
CancelledAlways(batch) == [batch EXCEPT !.status = "cancelled", !.nextAt = None]

\* The conditional update of a cancel.
Cancelled(batch) ==
    IF batch.status = "active"
    THEN [batch EXCEPT !.status = "cancelled", !.nextAt = None]
    ELSE batch

Cancel(b) ==
    batches' = IF Stored(b) THEN [batches EXCEPT ![b] = Cancelled(@)] ELSE batches

\* The one-click stop of a cronoton's running batch.
CancelExecuteBatch(id) ==
    /\ \E b \in Batches : Active(b) /\ batches[b].parent = id /\ Cancel(b)
    /\ UNCHANGED <<rows, now, workerVars, fires, stamps, crashes>>

\* Fault variant of SlotDueAt: the claim does not re-assert the due time.
SlotWithoutTime(batch, t) == batch.status = "active" /\ batch.nextAt # None

SlotDueAt(batch, t) ==
    /\ batch.status = "active"
    /\ batch.nextAt # None
    /\ batch.nextAt <= t

\* Fault variant of ClaimedSlot: the last slot is claimed one too late.
ClaimedSlotOffByOne(batch, t) ==
    IF batch.completed < batch.total
    THEN [batch EXCEPT !.completed = @ + 1, !.nextAt = t + Interval]
    ELSE [batch EXCEPT !.completed = @ + 1, !.nextAt = None, !.status = "completed"]
\* Fault variant of ClaimedSlot: the next slot is due at once.
ClaimedSlotAtOnce(batch, t) ==
    IF batch.completed + 1 < batch.total
    THEN [batch EXCEPT !.completed = @ + 1, !.nextAt = t]
    ELSE [batch EXCEPT !.completed = @ + 1, !.nextAt = None, !.status = "completed"]

\* What the claim of a slot stores; the last slot ends the batch.
ClaimedSlot(batch, t) ==
    IF batch.completed + 1 < batch.total
    THEN [batch EXCEPT !.completed = @ + 1, !.nextAt = t + Interval]
    ELSE [batch EXCEPT !.completed = @ + 1, !.nextAt = None, !.status = "completed"]

ClaimableSlot(b, t) ==
    /\ Stored(b)
    /\ SlotDueAt(batches[b], t)
    /\ batches[b].completed < batches[b].total

-----------------------------------------------------------------------------
(* A worker pass *)

DueBatches(t) ==
    LET due == {b \in Batches : Stored(b) /\ SlotDueAt(batches[b], t)}
    IN  {batch \in SUBSET due :
            /\ Cardinality(batch) <= BatchLimit
            /\ batch # due => Cardinality(batch) = BatchLimit
            /\ \A i \in batch, j \in due \ batch :
                  batches[i].nextAt <= batches[j].nextAt}

SelectDue(w) ==
    /\ pc[w] = "idle"
    /\ \E due \in DueBatches(now) :
          todo' = [todo EXCEPT ![w] = {[id |-> b, row |-> batches[b]] : b \in due}]
    /\ at' = [at EXCEPT ![w] = now]
    /\ pc' = [pc EXCEPT ![w] = "pass"]
    /\ UNCHANGED <<rows, now, batches, job, fires, stamps, crashes>>

Oldest(w) ==
    {s \in todo[w] : \A o \in todo[w] : s.row.nextAt <= o.row.nextAt}

ParentActive(s) ==
    Exists(s.row.parent) /\ rows[s.row.parent].status = "active"

\* The parent is paused, final or gone: the batch is stopped.
StopBatch(w) ==
    /\ pc[w] = "pass"
    /\ \E s \in Oldest(w) :
          /\ ~ParentActive(s)
          /\ Cancel(s.id)
          /\ todo' = [todo EXCEPT ![w] = @ \ {s}]
    /\ UNCHANGED <<rows, now, pc, at, job, fires, stamps, crashes>>

ClaimSlot(w) ==
    /\ pc[w] = "pass"
    /\ \E s \in Oldest(w) :
          /\ ParentActive(s)
          /\ ClaimableSlot(s.id, at[w])
          /\ batches' = [batches EXCEPT ![s.id] = ClaimedSlot(@, at[w])]
          /\ stamps' = [stamps EXCEPT ![s.id] = @ \cup {at[w]}]
          /\ job' = [job EXCEPT ![w] =
                [id |-> s.id, resolver |-> rows[s.row.parent].resolver]]
          /\ todo' = [todo EXCEPT ![w] = @ \ {s}]
    /\ pc' = [pc EXCEPT ![w] = "firing"]
    /\ UNCHANGED <<rows, now, at, fires, crashes>>

LoseSlot(w) ==
    /\ pc[w] = "pass"
    /\ \E s \in Oldest(w) :
          /\ ParentActive(s)
          /\ ~ClaimableSlot(s.id, at[w])
          /\ todo' = [todo EXCEPT ![w] = @ \ {s}]
    /\ UNCHANGED <<rows, now, batches, pc, at, job, fires, stamps, crashes>>

EndPass(w) ==
    /\ pc[w] = "pass"
    /\ todo[w] = {}
    /\ pc' = [pc EXCEPT ![w] = "idle"]
    /\ UNCHANGED <<rows, now, batches, at, todo, job, fires, stamps, crashes>>

\* The fire returns; whether it worked is for the fire row only.
FireSlot(w) ==
    /\ pc[w] = "firing"
    /\ pc' = [pc EXCEPT ![w] = "fired"]
    /\ UNCHANGED <<rows, now, batches, at, todo, job, fires, stamps, crashes>>

Release(w) ==
    /\ pc' = [pc EXCEPT ![w] = "pass"]
    /\ job' = [job EXCEPT ![w] = None]
    /\ UNCHANGED <<at, todo>>

\* A single-tx resolver throws out of the dispatcher; the pass isolates the error.
DispatchThrows(w) ==
    /\ pc[w] = "firing"
    /\ job[w].resolver \in Resolvers \ MultiTx
    /\ Release(w)
    /\ UNCHANGED <<rows, now, batches, fires, stamps, crashes>>

RecordSlot(w) ==
    /\ pc[w] = "fired"
    /\ Stored(job[w].id)
    /\ fires' = fires \cup {<<job[w].id, at[w]>>}
    /\ Release(w)
    /\ UNCHANGED <<rows, now, batches, stamps, crashes>>

\* recordFire throws: the cronoton is gone, and its batches with it, or the
\* resolveFireMode hook or the database fails.  The slot stays spent.
RecordThrows(w) ==
    /\ pc[w] = "fired"
    /\ Release(w)
    /\ UNCHANGED <<rows, now, batches, fires, stamps, crashes>>

WorkerStep(w) ==
    \/ SelectDue(w) \/ StopBatch(w) \/ ClaimSlot(w) \/ LoseSlot(w) \/ EndPass(w)
    \/ FireSlot(w) \/ DispatchThrows(w) \/ RecordSlot(w) \/ RecordThrows(w)

-----------------------------------------------------------------------------
(* The environment *)

Crash(w) ==
    /\ crashes < MaxCrashes
    /\ pc[w] # "idle"
    /\ crashes' = crashes + 1
    /\ pc' = [pc EXCEPT ![w] = "idle"]
    /\ todo' = [todo EXCEPT ![w] = {}]
    /\ job' = [job EXCEPT ![w] = None]
    /\ UNCHANGED <<rows, now, batches, at, fires, stamps>>

\* A delete takes the cronoton's batches and their fires with it (ON DELETE
\* CASCADE).
Orphaned(b) == Stored(b) /\ rows'[batches[b].parent] = Deleted

Operator(id) ==
    /\ OperatorStep(id)
    /\ batches' = [b \in Batches |-> IF Orphaned(b) THEN Deleted ELSE batches[b]]
    /\ fires' = {f \in fires : ~Orphaned(f[1])}
    /\ UNCHANGED <<workerVars, stamps, crashes>>

Tick == ClockTick /\ UNCHANGED <<batches, workerVars, fires, stamps, crashes>>

Next ==
    \/ \E b \in Batches, id \in Ids, total \in MinTotal..MaxTotal :
          StartExecuteBatch(b, id, total)
    \/ \E id \in Ids : CancelExecuteBatch(id) \/ Operator(id)
    \/ \E w \in Workers : WorkerStep(w) \/ Crash(w)
    \/ Tick

Spec == Init /\ [][Next]_vars

-----------------------------------------------------------------------------
(* Properties *)

\* A batch is due exactly while it runs, and runs exactly until its last slot is
\* claimed or it is stopped.
RunsToItsTotal ==
    \A b \in Batches : Stored(b) =>
        LET batch == batches[b]
        IN  /\ (batch.nextAt # None) = (batch.status = "active")
            /\ batch.status = "completed" => batch.completed = batch.total
            /\ batch.status # "completed" => batch.completed < batch.total

\* A cronoton runs one batch at a time, where one process serves the start
\* requests (see StartExecuteBatch).
OneBatchPerCronoton ==
    \A b, c \in Batches : Active(b) /\ Active(c) /\ b # c =>
        batches[b].parent # batches[c].parent

\* Claims of a batch are counted right and lie at least one interval apart, by
\* the clocks of the passes that made them.
SlotsAreSpaced ==
    \A b \in Batches : Stored(b) =>
        /\ Cardinality(stamps[b]) = batches[b].completed
        /\ \A s, t \in stamps[b] : s < t => t >= s + Interval

\* completed and cancelled are final, for a pass that still holds the batch too.
EndedBatchesStay ==
    [][\A b \in Batches : Stored(b) /\ ~Active(b) =>
          batches'[b] \in {batches[b], Deleted}]_vars

-----------------------------------------------------------------------------
(***************************************************************************)
(* A slot is a claim of the batch: it is fired by one pass and recorded at *)
(* most once (module ClaimLedger).                                         *)
(***************************************************************************)

NextSlot == [b \in Batches |-> IF Stored(b) THEN batches[b].nextAt ELSE None]
Latest(times) == CHOOSE t \in times : \A s \in times : s <= t
LastClaim ==
    [b \in Batches |-> IF stamps[b] = {} THEN None ELSE Latest(stamps[b])]
Leased == {<<job[w].id, at[w]>> : w \in {v \in Workers : pc[v] \in {"firing", "fired"}}}

Ledger == INSTANCE ClaimLedger
            WITH Ids <- Batches, armed <- NextSlot, mark <- LastClaim,
                 leased <- Leased, ledger <- fires

\* The worker implements the claim ledger, a batch's slots as its claims.
KeepsSlotLedger == Ledger!Spec
=============================================================================
