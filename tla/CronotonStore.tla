--------------------------- MODULE CronotonStore ---------------------------
(***************************************************************************)
(* The codex_cronotons table of packages/khronoton-core/src/server/store:  *)
(* the operator's calls (commit, edit, pause, resume, delete), the claim   *)
(* and the terminal write.  Every store call is one synchronous sequence   *)
(* of database statements, so each is one action here.  For a call of      *)
(* several statements (the checks of a commit, an edit, a resume) that     *)
(* takes one process to serve the operators; the claim and the terminal    *)
(* write are single statements, whatever process they run in.              *)
(*                                                                         *)
(* A schedule is an abstract value: NextFire(s, t) is computeNextFire of   *)
(* its (mode, config) pair at t, None standing for both outcomes that give *)
(* no future fire (null, and a throw, which every caller in the store      *)
(* treats alike).  Name, description, code, gas and signers are one        *)
(* abstract definition value, whose identity is its fingerprint.           *)
(***************************************************************************)
EXTENDS Integers

CONSTANTS
    Ids,             \* the cronoton ids (random UUIDs, never reused)
    Schedules,       \* (schedule_mode, schedule_config_json) pairs
    OneTime,         \* those whose mode is 'one-time'
    NextFire(_, _),  \* computeNextFire(schedule, now)
    Resolvers,       \* names in the server-resolver registry
    Evented,         \* those registered evented
    Defs,            \* definition fingerprints
    CommitInputs,    \* the commit bodies operators send
    EditPatches,     \* the edit patches operators send
    MaxTime,         \* bound on the clock
    None,            \* SQL NULL
    Keep,            \* a field an edit patch leaves out
    Unborn, Deleted  \* no row yet, no row any more

Time == 0..MaxTime

CommitInput == [sched : Schedules, resolver : Resolvers \cup {None},
                ext : BOOLEAN, args : BOOLEAN, eventDriven : BOOLEAN,
                def : Defs]

EditPatch == [sched : Schedules \cup {Keep},
              resolver : Resolvers \cup {None, Keep},
              eventDriven : BOOLEAN, def : Defs \cup {Keep}]

Terminal == {"completed", "error"}
Status == {"active", "paused"} \cup Terminal

Row == [status : Status, next : Nat \cup {None}, sched : Schedules,
        resolver : Resolvers \cup {None}, ext : BOOLEAN, args : BOOLEAN,
        def : Defs]

ASSUME StoreAssumption ==
    /\ MaxTime \in Nat
    /\ OneTime \subseteq Schedules
    /\ Evented \subseteq Resolvers
    /\ None \notin Nat \cup Resolvers \cup Terminal
    /\ Keep \notin Schedules \cup Resolvers \cup Defs \cup {None}
    /\ Unborn \notin Row
    /\ Deleted \notin Row \cup {Unborn}
    /\ CommitInputs \subseteq CommitInput
    /\ EditPatches \subseteq EditPatch

\* What schedule.ts promises of computeNextFire (MONOTONIC).
ASSUME NextFireAssumption ==
    \A s \in Schedules, t \in Time :
        /\ NextFire(s, t) \in Nat \cup {None}
        /\ NextFire(s, t) # None => NextFire(s, t) > t

VARIABLES
    rows,  \* the table: each id's row, or Unborn, or Deleted
    now    \* the host's clock

StoreTypeOK ==
    /\ rows \in [Ids -> Row \cup {Unborn, Deleted}]
    /\ now \in Time

StoreInit ==
    /\ rows = [id \in Ids |-> Unborn]
    /\ now = 0

Exists(id) == rows[id] \notin {Unborn, Deleted}

-----------------------------------------------------------------------------
(* Commit and edit *)

\* One-resolver-one-cronoton, as commit checks it.
BoundResolver(r) == \E id \in Ids : Exists(id) /\ rows[id].resolver = r

\* The row a commit inserts.  An evented resolver forces external firing, and
\* anything a host or an operator triggers carries no schedule.
CommittedRow(input) ==
    LET ext == input.ext \/ input.resolver \in Evented
    IN  [status |-> "active",
         next |-> IF ext \/ input.args \/ input.eventDriven
                  THEN None ELSE NextFire(input.sched, now),
         sched |-> input.sched, resolver |-> input.resolver,
         ext |-> ext, args |-> input.args, def |-> input.def]

Commit(id, input) ==
    /\ rows[id] = Unborn
    /\ input.resolver # None => ~input.args /\ ~BoundResolver(input.resolver)
    /\ LET row == CommittedRow(input)
       IN  /\ row.next = None => row.ext \/ input.args \/ input.eventDriven
           /\ rows' = [rows EXCEPT ![id] = row]
    /\ UNCHANGED now

Patched(field, value) == IF field = Keep THEN value ELSE field

\* external_fireable set by the operator, not forced by an evented resolver.
GenuineExternalFireable(row) == row.ext /\ row.resolver \notin Evented

\* Fault variant of SchedulerOffAfterEdit: the edit forgets runtime-arg rows.
OffIgnoringRuntimeArgs(row, resolver) ==
    resolver \in Evented \/ GenuineExternalFireable(row)

\* rowSchedulerOff: the edit may not give this row a timer.
SchedulerOffAfterEdit(row, resolver) ==
    resolver \in Evented \/ row.args \/ GenuineExternalFireable(row)

\* The edit must compute a new next fire: its schedule changed, or it leaves
\* an evented resolver, and nothing keeps it off the timer.
Rearms(row, patch) ==
    LET resolver == Patched(patch.resolver, row.resolver)
    IN  /\ ~patch.eventDriven /\ resolver \notin Evented
        /\ \/ patch.sched # Keep
           \/ row.resolver \in Evented
        /\ ~SchedulerOffAfterEdit(row, resolver)

\* Fault variant of EditedNext: an edit that keeps the old next_fire_at.
EditedNextNotRecomputed(row, patch) ==
    IF patch.eventDriven \/ Patched(patch.resolver, row.resolver) \in Evented
    THEN None ELSE row.next

EditedNext(row, patch) ==
    CASE patch.eventDriven \/ Patched(patch.resolver, row.resolver) \in Evented
            -> None
      [] Rearms(row, patch) -> NextFire(Patched(patch.sched, row.sched), now)
      [] OTHER -> row.next

EditedRow(row, patch) ==
    LET resolver == Patched(patch.resolver, row.resolver)
    IN  [row EXCEPT !.sched = Patched(patch.sched, @),
                    !.resolver = resolver,
                    !.def = Patched(patch.def, @),
                    !.ext = resolver \in Evented \/ GenuineExternalFireable(row),
                    !.next = EditedNext(row, patch)]

\* An edit never looks at the status, nor at other rows' resolvers; it is
\* rejected only when a re-armed schedule has no future fire.
Edit(id, patch) ==
    /\ Exists(id)
    /\ Rearms(rows[id], patch) => EditedNext(rows[id], patch) # None
    /\ rows' = [rows EXCEPT ![id] = EditedRow(rows[id], patch)]
    /\ UNCHANGED now

-----------------------------------------------------------------------------
(* Pause, resume, delete *)

\* Fault variant of NotTerminal: the terminal check forgets failed rows.
NotCompleted(row) == row.status # "completed"

NotTerminal(row) == row.status \notin Terminal

Pause(id) ==
    /\ Exists(id)
    /\ NotTerminal(rows[id])
    /\ rows' = [rows EXCEPT ![id].status = "paused"]
    /\ UNCHANGED now

\* A row without a next fire keeps none; any other is computed afresh.
ResumedNext(row) ==
    IF row.next = None THEN None ELSE NextFire(row.sched, now)

Resume(id) ==
    /\ Exists(id)
    /\ NotTerminal(rows[id])
    /\ rows[id].next # None => ResumedNext(rows[id]) # None
    /\ rows' = [rows EXCEPT ![id].status = "active",
                            ![id].next = ResumedNext(rows[id])]
    /\ UNCHANGED now

Delete(id) ==
    /\ Exists(id)
    /\ rows' = [rows EXCEPT ![id] = Deleted]
    /\ UNCHANGED now

OperatorStep(id) ==
    \/ \E input \in CommitInputs : Commit(id, input)
    \/ \E patch \in EditPatches : Edit(id, patch)
    \/ Pause(id)
    \/ Resume(id)
    \/ Delete(id)

-----------------------------------------------------------------------------
(* Due selection, the claim, the terminal write *)

\* Fault variant of DueAt: the claim does not re-assert the due time.
DueWithoutTime(row, t) == row.status = "active" /\ row.next # None

\* The due predicate that the selection reads and the claim re-asserts.
DueAt(row, t) ==
    /\ row.status = "active"
    /\ row.next # None
    /\ row.next <= t

\* The selection also leaves runtime-arg rows out.
Selectable(id, t) == Exists(id) /\ DueAt(rows[id], t) /\ ~rows[id].args

\* Fault variant of ClaimedNext: the claim leaves a one-time row armed.
ClaimedNextKeepsOneTime(seen, t) ==
    IF seen.sched \in OneTime THEN seen.next ELSE NextFire(seen.sched, t)

\* Fault variant of ClaimedNext: the claim stores the slot it has just taken.
ClaimedNextKeepsSlot(seen, t) == seen.next

\* What a claim stores: nothing for a one-time row, else the next fire of the
\* schedule the pass has read.
ClaimedNext(seen, t) ==
    IF seen.sched \in OneTime THEN None ELSE NextFire(seen.sched, t)

ClaimWins(id, t) == Exists(id) /\ DueAt(rows[id], t)

ClaimRow(id, seen, t) == rows' = [rows EXCEPT ![id].next = ClaimedNext(seen, t)]

\* Fault variant of TerminalIntent: a failed one-time fire completes the row.
TerminalIntentIgnoresFailure(sched, ok) ==
    IF sched \in OneTime THEN "completed" ELSE None

\* computeTerminalIntent of a fire of the schedule.
TerminalIntent(sched, ok) ==
    CASE sched \notin OneTime -> None
      [] sched \in OneTime /\ ok -> "completed"
      [] OTHER -> "error"

\* Fault variant of ApplyTerminal: the update asks for an active row.
ApplyTerminalIfActive(id, intent) ==
    rows' = IF intent # None /\ Exists(id) /\ rows[id].status = "active"
            THEN [rows EXCEPT ![id].status = intent, ![id].next = None]
            ELSE rows

\* applyTerminalIntent: an update by id alone, and none at all on None.
ApplyTerminal(id, intent) ==
    rows' = IF intent # None /\ Exists(id)
            THEN [rows EXCEPT ![id].status = intent, ![id].next = None]
            ELSE rows

ClockTick ==
    /\ now < MaxTime
    /\ now' = now + 1
    /\ UNCHANGED rows

-----------------------------------------------------------------------------
(* Property of the table *)

\* A row that an operator, a trigger or an event fires is never on the timer:
\* no sequence of commits, edits, pauses and resumes arms it.
SchedulerOffNeverArmed ==
    \A id \in Ids :
        /\ Exists(id)
        /\ rows[id].ext \/ rows[id].args \/ rows[id].resolver \in Evented
        => rows[id].next = None
=============================================================================
