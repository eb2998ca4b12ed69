---------------------------- MODULE FireRecords ----------------------------
(***************************************************************************)
(* The codex_cronoton_fires table (server/store/fires.ts): one record per  *)
(* dispatch, written at once by recordFire, or opened as running by a      *)
(* host's background worker and finalized later, and reconciled by an      *)
(* operator.  A fire's id is its place in the table, which is also the     *)
(* order of fired_at; the fires of a deleted row go with it.  Request      *)
(* keys, messages, modes and fingerprints are left out.                    *)
(***************************************************************************)
EXTENDS CronotonStore, FiniteSets, Sequences

CONSTANTS MaxFires, MaxEnds  \* bounds: records, and finalizations of one

ASSUME FiresAssumption == MaxFires \in Nat /\ MaxEnds \in Nat

VARIABLE fires

Outcome == {"success", "failure", "nothing"}

Fire == [of : Ids, status : Outcome \cup {"running"}, recovered : BOOLEAN,
         worker : BOOLEAN,   \* opened by a worker
         ends : 0..MaxEnds]  \* history: how often that worker has finalized it

FiresTypeOK == fires \in Seq(Fire) /\ Len(fires) <= MaxFires

FireIds == DOMAIN fires

\* The record is there: ON DELETE CASCADE takes it with its row.
Recorded(f) == f \in FireIds /\ Exists(fires[f].of)

AppendFire(id, status) ==
    /\ Exists(id)
    /\ Len(fires) < MaxFires
    /\ fires' = Append(fires, [of |-> id, status |-> status, recovered |-> FALSE,
                               worker |-> status = "running", ends |-> 0])

\* A dispatch that is over when it is written.
RecordFire(id, ok) == AppendFire(id, IF ok THEN "success" ELSE "failure")

\* A worker's dispatch, shown at once.
CreateRunningFire(id) == AppendFire(id, "running")

\* An update by id, whatever the status is.
FinalizeFire(f, outcome) ==
    fires' = IF Recorded(f)
             THEN [fires EXCEPT ![f].status = outcome, ![f].ends = @ + 1]
             ELSE fires

\* Fault variant of Recoverable: a fire that is still running is reconciled too.
RecoverableUnlessSuccess(f) == Recorded(f) /\ fires[f].status \in {"failure", "running"}

Recoverable(f) == Recorded(f) /\ fires[f].status = "failure"

\* Fault variant of RecoverFire: a status word of its own.
RecoverFireByItsOwnWord(f) ==
    fires' = [fires EXCEPT ![f].status = "recovered", ![f].recovered = TRUE]

RecoverFire(f) ==
    fires' = [fires EXCEPT ![f].status = "success", ![f].recovered = TRUE]

\* A row's history.
FiresOf(id) == {f \in FireIds : fires[f].of = id /\ Exists(id)}

NewerFires(f, id) == {g \in FiresOf(id) : g > f}

\* The page of it that skips the offset newest fires, and the total.
ListFires(id, limit, offset) ==
    LET OnPage(f) == Cardinality(NewerFires(f, id)) \in offset..(offset + limit - 1)
    IN  [fires |-> {[id |-> f, status |-> fires[f].status] : f \in {g \in FiresOf(id) : OnPage(g)}},
         total |-> Cardinality(FiresOf(id))]

-----------------------------------------------------------------------------

\* A recovery stays: the fire that an operator reconciled with the chain is a
\* success ever after, unless its worker is resumed and finalizes it once more.
RecoveryStays ==
    \A f \in FireIds : fires[f].recovered => fires[f].status = "success" \/ fires[f].ends > 1
=============================================================================
