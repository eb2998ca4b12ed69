----------------------------- MODULE ServerTick -----------------------------
(***************************************************************************)
(* The server tick over the cronoton table: any number of overlapping      *)
(* passes of codexCronotonTickOnce (server/tick.ts) and of in-flight       *)
(* executeNow / triggerCronoton requests (handlers/execute.ts), with the   *)
(* operator's calls, the clock and crashes interleaved at every await and  *)
(* between any two database statements of a fire.                          *)
(*                                                                         *)
(* A pass reads the due rows once, then claims, fires, records and         *)
(* finalizes each of them in turn; a fire may take minutes, so the clock   *)
(* and every other process move while it is in flight.  Audit calls, which *)
(* follow the last write of a fire and change nothing here, are left out.  *)
(***************************************************************************)
EXTENDS CronotonStore, FiniteSets

CONSTANTS
    Passes,      \* tick passes that may overlap (a restarted loop, two hosts)
    Callers,     \* executeNow / triggerCronoton requests, one shot each
    MultiTx,     \* resolvers registered as multi-tx
    BatchLimit,  \* Config.tickBatchLimit
    MaxFaults    \* bound on crashes and failing writes

Procs == Passes \cup Callers

ASSUME TickAssumption ==
    /\ Passes \cap Callers = {}
    /\ MultiTx \subseteq Resolvers
    /\ BatchLimit \in Nat \ {0}
    /\ MaxFaults \in Nat
    /\ "scheduler" \notin Callers
    /\ Schedules \cap {None} = {}

VARIABLES
    pc,        \* where each process is
    at,        \* the `now` a pass was started with
    todo,      \* the rows a pass has read and not reached yet
    job,       \* the row a process is firing, as it read it
    out,       \* the outcome of that fire
    fires,     \* the codex_cronoton_fires table
    lastFire,  \* the last_fire_at column
    mark,      \* history: the `now` of the last claim each row gave
    faults     \* crashes and failing writes so far

procVars == <<pc, at, todo, job, out>>
vars == <<rows, now, pc, at, todo, job, out, fires, lastFire, mark, faults>>

Snapshot == [id : Ids, row : Row]
Outcome == [ok : BOOLEAN, intent : Terminal \cup {None}]
Fire == [id : Ids, at : Time, by : {"scheduler"} \cup Callers,
         once : BOOLEAN, ok : BOOLEAN]
InFlight == {"firing", "fired", "recorded"}

TypeOK ==
    /\ StoreTypeOK
    /\ pc \in [Procs -> {"idle", "pass", "done"} \cup InFlight]
    /\ at \in [Procs -> Time]
    /\ todo \in [Procs -> SUBSET Snapshot]
    /\ job \in [Procs -> Snapshot \cup {None}]
    /\ out \in [Procs -> Outcome \cup {None}]
    /\ fires \subseteq Fire
    /\ lastFire \in [Ids -> Time \cup {None}]
    /\ mark \in [Ids -> Time \cup {None}]
    /\ faults \in 0..MaxFaults

Init ==
    /\ StoreInit
    /\ pc = [p \in Procs |-> "idle"]
    /\ at = [p \in Procs |-> 0]
    /\ todo = [p \in Procs |-> {}]
    /\ job = [p \in Procs |-> None]
    /\ out = [p \in Procs |-> None]
    /\ fires = {}
    /\ lastFire = [id \in Ids |-> None]
    /\ mark = [id \in Ids |-> None]
    /\ faults = 0

-----------------------------------------------------------------------------
(* A tick pass *)

\* Fault variant of DueBatches: the selection has a limit and no order.
DueBatchesInAnyOrder(t) ==
    LET due == {id \in Ids : Selectable(id, t)}
    IN  {batch \in SUBSET due :
            /\ Cardinality(batch) <= BatchLimit
            /\ batch # due => Cardinality(batch) = BatchLimit}

\* The BatchLimit oldest due rows; equal times in any order.
DueBatches(t) ==
    LET due == {id \in Ids : Selectable(id, t)}
    IN  {batch \in SUBSET due :
            /\ Cardinality(batch) <= BatchLimit
            /\ batch # due => Cardinality(batch) = BatchLimit
            /\ \A i \in batch, j \in due \ batch : rows[i].next <= rows[j].next}

SelectDue(p) ==
    /\ pc[p] = "idle"
    /\ \E batch \in DueBatches(now) :
          todo' = [todo EXCEPT ![p] = {[id |-> i, row |-> rows[i]] : i \in batch}]
    /\ at' = [at EXCEPT ![p] = now]
    /\ pc' = [pc EXCEPT ![p] = "pass"]
    /\ UNCHANGED <<rows, now, job, out, fires, lastFire, mark, faults>>

\* The pass takes its rows in the order the query returned them.
Oldest(p) == {s \in todo[p] : \A o \in todo[p] : s.row.next <= o.row.next}

ClaimWon(p) ==
    /\ pc[p] = "pass"
    /\ \E s \in Oldest(p) :
          /\ ClaimWins(s.id, at[p])
          /\ ClaimRow(s.id, s.row, at[p])
          /\ lastFire' = [lastFire EXCEPT ![s.id] = at[p]]
          /\ mark' = [mark EXCEPT ![s.id] = at[p]]
          /\ todo' = [todo EXCEPT ![p] = @ \ {s}]
          /\ job' = [job EXCEPT ![p] = s]
    /\ pc' = [pc EXCEPT ![p] = "firing"]
    /\ UNCHANGED <<now, at, out, fires, faults>>

ClaimLost(p) ==
    /\ pc[p] = "pass"
    /\ \E s \in Oldest(p) :
          /\ ~ClaimWins(s.id, at[p])
          /\ todo' = [todo EXCEPT ![p] = @ \ {s}]
    /\ UNCHANGED <<rows, now, pc, at, job, out, fires, lastFire, mark, faults>>

EndPass(p) ==
    /\ pc[p] = "pass"
    /\ todo[p] = {}
    /\ pc' = [pc EXCEPT ![p] = "idle"]
    /\ UNCHANGED <<rows, now, at, todo, job, out, fires, lastFire, mark, faults>>

-----------------------------------------------------------------------------
(* An on-demand fire: the row is read once, and never claimed *)

ReadActive(p, id) ==
    /\ pc[p] = "idle"
    /\ Exists(id)
    /\ rows[id].status = "active"
    /\ job' = [job EXCEPT ![p] = [id |-> id, row |-> rows[id]]]
    /\ pc' = [pc EXCEPT ![p] = "firing"]
    /\ UNCHANGED <<rows, now, at, todo, out, fires, lastFire, mark, faults>>

\* A multi-tx row is queued for the host's worker instead (202).
ExecuteNow(p, id) == ReadActive(p, id) /\ rows[id].resolver \notin MultiTx

\* Only a row that declares runtime args can be triggered with some.
TriggerCronoton(p, id) == ReadActive(p, id) /\ rows[id].args

-----------------------------------------------------------------------------
(* Fire, record, finalize: shared by both kinds of process *)

\* A crash or a write that fails, of which there are MaxFaults at most.
Fault ==
    /\ faults < MaxFaults
    /\ faults' = faults + 1

\* What fireByServerResolver returns for the row: a resolver row may also be
\* postponed (a failure with no terminal intent), a multi-tx run never carries
\* an intent.
Outcomes(row) ==
    LET plain(ok) == [ok |-> ok, intent |-> TerminalIntent(row.sched, ok)]
        bare(ok) == [ok |-> ok, intent |-> None]
    IN  CASE row.resolver = None -> {plain(TRUE), plain(FALSE)}
          [] row.resolver \in MultiTx -> {bare(TRUE), bare(FALSE)}
          [] OTHER -> {plain(TRUE), plain(FALSE), bare(FALSE)}

FireJob(p) ==
    /\ pc[p] = "firing"
    /\ \E o \in Outcomes(job[p].row) : out' = [out EXCEPT ![p] = o]
    /\ pc' = [pc EXCEPT ![p] = "fired"]
    /\ UNCHANGED <<rows, now, at, todo, job, fires, lastFire, mark, faults>>

\* A pass goes on to its next row; a request is answered.
AfterFire(p) == IF p \in Passes THEN "pass" ELSE "done"

\* The process drops its job and goes on.
Release(p) ==
    /\ pc' = [pc EXCEPT ![p] = AfterFire(p)]
    /\ job' = [job EXCEPT ![p] = None]
    /\ out' = [out EXCEPT ![p] = None]
    /\ UNCHANGED <<at, todo>>

\* A single-tx resolver's resolve or its guard simulate throws out of the
\* dispatcher; the pass isolates the error, the request answers 500.
DispatchThrows(p) ==
    /\ pc[p] = "firing"
    /\ job[p].row.resolver \in Resolvers \ MultiTx
    /\ Release(p)
    /\ UNCHANGED <<rows, now, fires, lastFire, mark, faults>>

\* fired_at: the pass's own `now`, or the clock for an on-demand fire.
FiredAt(p) == IF p \in Passes THEN at[p] ELSE now

RecordedFire(p) ==
    [id |-> job[p].id, at |-> FiredAt(p),
     by |-> IF p \in Passes THEN "scheduler" ELSE p,
     once |-> job[p].row.sched \in OneTime, ok |-> out[p].ok]

Record(p) ==
    /\ pc[p] = "fired"
    /\ Exists(job[p].id)
    /\ fires' = fires \cup {RecordedFire(p)}
    /\ lastFire' = [lastFire EXCEPT ![job[p].id] = FiredAt(p)]
    /\ pc' = [pc EXCEPT ![p] = "recorded"]
    /\ UNCHANGED <<rows, now, at, todo, job, out, mark, faults>>

\* recordFire throws before it has written: always when the row is gone (the
\* insert breaks the foreign key), and over an existing row when the host's
\* resolveFireMode hook or the database fails.  The landed fire has no record,
\* and a one-time row stays active with its slot spent.
RecordThrows(p) ==
    /\ pc[p] = "fired"
    /\ \/ ~Exists(job[p].id) /\ UNCHANGED faults
       \/ Exists(job[p].id) /\ Fault
    /\ Release(p)
    /\ UNCHANGED <<rows, now, fires, lastFire, mark>>

\* Only the fire of a one-time row carries an intent to write.
Finalize(p) ==
    /\ pc[p] = "recorded"
    /\ ApplyTerminal(job[p].id, out[p].intent)
    /\ Release(p)
    /\ UNCHANGED <<now, fires, lastFire, mark, faults>>

\* The terminal write fails after the fire is recorded.
FinalizeThrows(p) ==
    /\ pc[p] = "recorded"
    /\ out[p].intent # None
    /\ Fault
    /\ Release(p)
    /\ UNCHANGED <<rows, now, fires, lastFire, mark>>

FireStep(p) ==
    \/ FireJob(p) \/ DispatchThrows(p)
    \/ Record(p) \/ RecordThrows(p)
    \/ Finalize(p) \/ FinalizeThrows(p)

PassStep(p) ==
    SelectDue(p) \/ ClaimWon(p) \/ ClaimLost(p) \/ EndPass(p) \/ FireStep(p)

CallerStep(p) ==
    \/ \E id \in Ids : ExecuteNow(p, id) \/ TriggerCronoton(p, id)
    \/ FireStep(p)

-----------------------------------------------------------------------------
(* The environment *)

\* The process dies: whatever it had read or won is lost, the tables stay.
Crash(p) ==
    /\ Fault
    /\ pc[p] \notin {"idle", "done"}
    /\ pc' = [pc EXCEPT ![p] = IF p \in Passes THEN "idle" ELSE "done"]
    /\ todo' = [todo EXCEPT ![p] = {}]
    /\ job' = [job EXCEPT ![p] = None]
    /\ out' = [out EXCEPT ![p] = None]
    /\ UNCHANGED <<rows, now, at, fires, lastFire, mark>>

\* Fires whose cronoton still exists (ON DELETE CASCADE).
SurvivingFires == {f \in fires : rows'[f.id] # Deleted}

Operator(id) ==
    /\ OperatorStep(id)
    /\ fires' = SurvivingFires
    /\ UNCHANGED <<procVars, lastFire, mark, faults>>

Tick == ClockTick /\ UNCHANGED <<procVars, fires, lastFire, mark, faults>>

Next ==
    \/ \E p \in Passes : PassStep(p)
    \/ \E p \in Callers : CallerStep(p)
    \/ \E p \in Procs : Crash(p)
    \/ \E id \in Ids : Operator(id)
    \/ Tick

Spec == Init /\ [][Next]_vars

(***************************************************************************)
(* A pass that has begun runs to its end and the loop's interval starts    *)
(* another (server/loop.ts).  Nothing is assumed of operators or requests. *)
(***************************************************************************)
Fairness == \A p \in Passes : WF_vars(PassStep(p))

FairSpec == Spec /\ Fairness

-----------------------------------------------------------------------------
(* Invariants *)

\* Whatever a row is armed for lies after the last claim it gave, so a slot
\* that was claimed is never claimed again, by any pass, after any crash.
ArmedPastMark ==
    \A id \in Ids :
        Exists(id) /\ rows[id].next # None /\ mark[id] # None
            => rows[id].next > mark[id]

\* A claim is fired by one pass and recorded at most once: two passes in flight
\* on one row hold different claims, and the claim of a fire that is still to be
\* recorded is not in the history.
OneFirePerClaim ==
    \A p \in Passes : pc[p] \in InFlight =>
        /\ \A q \in Passes \ {p} :
              pc[q] \in InFlight /\ job[q].id = job[p].id => at[q] # at[p]
        /\ pc[p] # "recorded" =>
              \A f \in fires : ~(f.by = "scheduler" /\ f.id = job[p].id
                                                    /\ f.at = at[p])

\* A row ends completed (error) only with a successful (failed) fire in its
\* history: a crash never leaves a final status without its fire.
FinalStatusHasItsFire ==
    \A id \in Ids : Exists(id) /\ rows[id].status \in Terminal =>
        \E f \in fires : f.id = id /\ f.ok = (rows[id].status = "completed")

\* A one-time row is fired once.
OneTimeFiresOnce ==
    \A f, g \in fires : f.once /\ g.once /\ f.id = g.id => f = g

(* Action properties *)

ClaimedBy(p) == pc[p] = "pass" /\ pc'[p] = "firing"

\* A pass that wins a claim has read the schedule the row still has, and the
\* row is on the timer: an edit in between moves the row out of the claim.
ClaimIsOfCurrentSchedule ==
    [][\A p \in Passes : ClaimedBy(p) =>
          LET row == rows[job'[p].id]
          IN  row.sched = job'[p].row.sched /\ ~row.ext /\ ~row.args]_vars

\* A pass never takes a row while another, due by the pass's clock, is armed for
\* an earlier slot than the one it has read: however rows are claimed, edited,
\* paused and resumed between its selection and its claims, nobody overtakes.
\* A claimed row is armed past the claim (ArmedPastMark), so a row that waits is
\* passed over by each other row only for slots older than its own.
OldestIsServed ==
    [][\A p \in Passes : ClaimedBy(p) =>
          \A id \in Ids : Selectable(id, at[p]) => rows[id].next >= job'[p].row.next]_vars

\* A process that has recorded a fire of the row writes its verdict.
LateVerdict(id) ==
    \E p \in Procs :
        /\ pc[p] = "recorded" /\ pc'[p] # "recorded"
        /\ job[p].id = id
        /\ out[p].intent = rows'[id].status

\* completed and error leave the timer for good: nothing resumes, pauses or
\* claims the row.  What may still change the one into the other is the verdict
\* of another fire recorded meanwhile (a request next to a pass): the terminal
\* write is by id alone, and the last one stands.
FinalStatusStays ==
    [][\A id \in Ids :
          Exists(id) /\ rows[id].status \in Terminal =>
              \/ rows'[id] = Deleted
              \/ /\ mark'[id] = mark[id]
                 /\ rows'[id].status = rows[id].status \/ LateVerdict(id)]_vars

(* Liveness *)

\* A due row is claimed, or an operator takes it off the timer: lost claims,
\* throws and slow fires of other rows hold no pass up for ever.  The clock
\* stops at MaxTime here, so this says nothing of rows that keep becoming due;
\* that they do not starve the others is OldestIsServed.
DueIsServed ==
    \A id \in Ids : Selectable(id, now) ~> ~Selectable(id, now)

\* The fire of a one-time row ends the row, also when an operator pauses it in
\* the meantime, unless the row is deleted, the process dies, or the record or
\* the terminal write fails: no fault is left.  After one the row stays active
\* and spent.  A resolver row is left out: a postponed fire and a multi-tx run
\* carry no terminal intent, so it may stay that way without any fault.
OneTimeRowEnds ==
    \A p \in Passes, id \in Ids :
        /\ pc[p] = "fired" /\ faults = MaxFaults
        /\ job[p].id = id /\ job[p].row.sched \in OneTime /\ job[p].row.resolver = None
        ~> ~Exists(id) \/ rows[id].status \in Terminal

-----------------------------------------------------------------------------
(***************************************************************************)
(* What the tick promises of each claim (module ClaimLedger): the armed    *)
(* slot is next_fire_at, a lease is a claim some pass is still firing, and *)
(* the ledger holds the recorded claims.                                   *)
(***************************************************************************)
Armed == [id \in Ids |-> IF Exists(id) THEN rows[id].next ELSE None]
Leased == {<<job[p].id, at[p]>> : p \in {q \in Passes : pc[q] \in {"firing", "fired"}}}
Entered == {<<f.id, f.at>> : f \in {g \in fires : g.by = "scheduler"}}

Ledger == INSTANCE ClaimLedger WITH armed <- Armed, leased <- Leased, ledger <- Entered

\* The tick implements the claim ledger.
KeepsClaimLedger == Ledger!Spec

=============================================================================
