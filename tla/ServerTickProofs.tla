-------------------------- MODULE ServerTickProofs --------------------------
(***************************************************************************)
(* Proofs about ServerTick, for any schedules, rows, passes and requests.  *)
(***************************************************************************)
EXTENDS ServerTick, CronotonStoreProofs

-----------------------------------------------------------------------------
(* Types, and rows off the timer *)

\* A process in flight holds the row it fires, and the outcome once it has one;
\* requests make no passes.
JobInv ==
    \A p \in Procs :
        /\ pc[p] \in InFlight => job[p] \in Snapshot
        /\ pc[p] \in {"fired", "recorded"} => out[p] \in Outcome
        /\ p \in Callers => pc[p] # "pass"

TypeInv == TypeOK /\ JobInv /\ SchedulerOffNeverArmed

\* What a fire returns: a final status that agrees with the result, or none.
LEMMA OutcomeShape ==
    ASSUME NEW row \in Row, NEW o \in Outcomes(row)
    PROVE  /\ o \in Outcome
           /\ o.intent # None => o.intent = IF o.ok THEN "completed" ELSE "error"
<1>1. \A ok \in BOOLEAN :
         /\ TerminalIntent(row.sched, ok) \in Terminal \cup {None}
         /\ TerminalIntent(row.sched, ok) # None =>
               TerminalIntent(row.sched, ok) = IF ok THEN "completed" ELSE "error"
  BY DEF TerminalIntent, Terminal
<1>2. \E ok \in BOOLEAN :
         \/ o = [ok |-> ok, intent |-> TerminalIntent(row.sched, ok)]
         \/ o = [ok |-> ok, intent |-> None]
  BY DEF Outcomes
<1> QED
  BY <1>1, <1>2 DEF Outcome

\* A won claim touches one row, which it takes off the timer or arms for an
\* instant after the pass's `now`.
LEMMA ClaimEffect ==
    ASSUME TypeOK, NEW p \in Passes, ClaimWon(p)
    PROVE  \E s \in todo[p], row \in Row :
              /\ s \in Snapshot /\ s \in Oldest(p)
              /\ rows[s.id] \in Row /\ Exists(s.id) /\ rows[s.id].status = "active"
              /\ rows[s.id].next # None /\ rows[s.id].next <= at[p]
              /\ rows' = [rows EXCEPT ![s.id] = row]
              /\ row.next = ClaimedNext(s.row, at[p])
              /\ row.next # None => row.next > at[p]
              /\ row.status = rows[s.id].status /\ row.sched = rows[s.id].sched
              /\ row.ext = rows[s.id].ext /\ row.args = rows[s.id].args
              /\ row.resolver = rows[s.id].resolver
              /\ lastFire' = [lastFire EXCEPT ![s.id] = at[p]]
              /\ mark' = [mark EXCEPT ![s.id] = at[p]]
              /\ todo' = [todo EXCEPT ![p] = @ \ {s}]
              /\ job' = [job EXCEPT ![p] = s]
<1> USE StoreAssumption DEF TypeOK, Procs
<1>1. PICK s \in Oldest(p) :
         /\ ClaimWins(s.id, at[p])
         /\ ClaimRow(s.id, s.row, at[p])
         /\ lastFire' = [lastFire EXCEPT ![s.id] = at[p]]
         /\ mark' = [mark EXCEPT ![s.id] = at[p]]
         /\ todo' = [todo EXCEPT ![p] = @ \ {s}]
         /\ job' = [job EXCEPT ![p] = s]
  BY DEF ClaimWon
<1>2. s \in todo[p] /\ s \in Snapshot /\ s.id \in Ids /\ s.row \in Row
  BY DEF Oldest, Snapshot
<1>3. /\ Exists(s.id) /\ rows[s.id] \in Row /\ rows[s.id].status = "active"
      /\ rows[s.id].next # None /\ rows[s.id].next <= at[p]
  BY <1>1, <1>2 DEF ClaimWins, DueAt, Exists, StoreTypeOK
<1>4. /\ ClaimedNext(s.row, at[p]) \in Nat \cup {None}
      /\ ClaimedNext(s.row, at[p]) # None => ClaimedNext(s.row, at[p]) > at[p]
  BY <1>2, NextFireAssumption DEF ClaimedNext, Row
<1> DEFINE row == [rows[s.id] EXCEPT !.next = ClaimedNext(s.row, at[p])]
<1>5. /\ row \in Row /\ row.next = ClaimedNext(s.row, at[p])
      /\ row.status = rows[s.id].status /\ row.sched = rows[s.id].sched
      /\ row.ext = rows[s.id].ext /\ row.args = rows[s.id].args
      /\ row.resolver = rows[s.id].resolver
  BY <1>3, <1>4 DEF Row
<1>6. rows' = [rows EXCEPT ![s.id] = row]
  BY <1>1 DEF ClaimRow
<1> HIDE DEF row
<1> QED
  BY <1>1, <1>2, <1>3, <1>4, <1>5, <1>6

\* A finished fire takes its row off the timer with a final status, or leaves
\* the table alone.
LEMMA FinalizeEffect ==
    ASSUME StoreTypeOK, NEW p, job[p] \in Snapshot, out[p] \in Outcome, Finalize(p)
    PROVE  \/ UNCHANGED rows
           \/ \E row \in Row :
                 /\ rows' = [rows EXCEPT ![job[p].id] = row]
                 /\ Exists(job[p].id) /\ rows[job[p].id] \in Row
                 /\ row.next = None /\ row.status = out[p].intent
                 /\ row.sched = rows[job[p].id].sched
                 /\ out[p].intent \in Terminal
<1>1. ApplyTerminal(job[p].id, out[p].intent)
  BY DEF Finalize
<1>2. CASE out[p].intent # None /\ Exists(job[p].id)
  <2> DEFINE row == [rows[job[p].id] EXCEPT !.status = out[p].intent, !.next = None]
  <2>1. rows[job[p].id] \in Row
    BY <1>2 DEF Exists, StoreTypeOK, Snapshot
  <2>2. out[p].intent \in Terminal
    BY <1>2 DEF Outcome
  <2>3. /\ row \in Row /\ row.next = None /\ row.status = out[p].intent
        /\ row.sched = rows[job[p].id].sched
    BY <2>1, <2>2 DEF Row, Status
  <2>4. rows' = [rows EXCEPT ![job[p].id] = row]
    BY <1>1, <1>2 DEF ApplyTerminal
  <2> HIDE DEF row
  <2> QED
    BY <1>2, <2>1, <2>2, <2>3, <2>4
<1>3. CASE ~(out[p].intent # None /\ Exists(job[p].id))
  BY <1>1, <1>3 DEF ApplyTerminal
<1> QED
  BY <1>2, <1>3

\* The empty table is well typed.
LEMMA TypeInit == Init => TypeInv
  BY StoreAssumption, TickAssumption
     DEF Init, StoreInit, TypeInv, TypeOK, StoreTypeOK, JobInv, InFlight,
         SchedulerOffNeverArmed, Exists, Time

\* Every step of an operator, a pass, a request or the clock keeps the table
\* well typed, each process's job where its program counter says it is, and
\* scheduler-off rows unarmed.
LEMMA TypeStep == TypeInv /\ [Next]_vars => TypeInv'
<1> SUFFICES ASSUME TypeInv, [Next]_vars
             PROVE  TypeInv'
  OBVIOUS
<1> USE StoreAssumption, TickAssumption
<1> USE DEF TypeInv, TypeOK, JobInv, InFlight, Procs
<1>1. ASSUME NEW p \in Passes, SelectDue(p)
      PROVE  TypeInv'
  <2>1. /\ UNCHANGED <<rows, now, job, out, fires, lastFire, mark, faults>>
        /\ pc' = [pc EXCEPT ![p] = "pass"]
        /\ at' = [at EXCEPT ![p] = now]
    BY <1>1 DEF SelectDue
  <2>2. PICK batch \in DueBatches(now) :
           todo' = [todo EXCEPT ![p] = {[id |-> i, row |-> rows[i]] : i \in batch}]
    BY <1>1 DEF SelectDue
  <2>3. {[id |-> i, row |-> rows[i]] : i \in batch} \subseteq Snapshot
    <3>1. batch \subseteq {i \in Ids : Selectable(i, now)}
      BY DEF DueBatches
    <3>2. \A i \in batch : i \in Ids /\ rows[i] \in Row
      BY <3>1 DEF Selectable, Exists, StoreTypeOK
    <3> QED
      BY <3>2 DEF Snapshot
  <2>4. todo' \in [Procs -> SUBSET Snapshot]
    BY <2>2, <2>3
  <2>5. StoreTypeOK' /\ SchedulerOffNeverArmed'
    BY <2>1 DEF StoreTypeOK, SchedulerOffNeverArmed, Exists
  <2>6. JobInv'
    BY <2>1
  <2> QED
    BY <2>1, <2>4, <2>5, <2>6 DEF StoreTypeOK
<1>2. ASSUME NEW p \in Passes, ClaimWon(p)
      PROVE  TypeInv'
  <2>1. PICK s \in todo[p], row \in Row :
           /\ s \in Snapshot /\ Exists(s.id) /\ rows[s.id].next # None
           /\ rows' = [rows EXCEPT ![s.id] = row]
           /\ row.ext = rows[s.id].ext /\ row.args = rows[s.id].args
           /\ row.resolver = rows[s.id].resolver
           /\ lastFire' = [lastFire EXCEPT ![s.id] = at[p]]
           /\ mark' = [mark EXCEPT ![s.id] = at[p]]
           /\ todo' = [todo EXCEPT ![p] = @ \ {s}]
           /\ job' = [job EXCEPT ![p] = s]
    BY <1>2, ClaimEffect
  <2>2. pc' = [pc EXCEPT ![p] = "firing"] /\ UNCHANGED <<now, at, out, fires, faults>>
    BY <1>2 DEF ClaimWon
  <2>3. StoreTypeOK'
    BY <2>1, <2>2 DEF StoreTypeOK
  <2>4. SchedulerOffNeverArmed'
    BY <2>1 DEF SchedulerOffNeverArmed, Exists, StoreTypeOK, Snapshot
  <2> QED
    BY <2>1, <2>2, <2>3, <2>4 DEF Snapshot
<1>3. ASSUME NEW p \in Passes, ClaimLost(p) \/ EndPass(p)
      PROVE  TypeInv'
  BY <1>3 DEF ClaimLost, EndPass, StoreTypeOK, SchedulerOffNeverArmed, Exists
<1>4. ASSUME NEW p \in Callers, NEW id \in Ids, ReadActive(p, id)
      PROVE  TypeInv'
  BY <1>4 DEF ReadActive, StoreTypeOK, SchedulerOffNeverArmed, Exists, Snapshot
<1>5. ASSUME NEW p \in Procs, FireJob(p)
      PROVE  TypeInv'
  <2>1. PICK o \in Outcomes(job[p].row) : out' = [out EXCEPT ![p] = o]
    BY <1>5 DEF FireJob
  <2>2. o \in Outcome
    BY <1>5, OutcomeShape DEF FireJob, Snapshot
  <2> QED
    BY <1>5, <2>1, <2>2 DEF FireJob, StoreTypeOK, SchedulerOffNeverArmed, Exists
<1>6. ASSUME NEW p \in Procs, DispatchThrows(p) \/ RecordThrows(p) \/ FinalizeThrows(p)
      PROVE  TypeInv'
  <2>1. /\ Release(p) /\ UNCHANGED <<rows, now, fires, lastFire, mark>>
        /\ UNCHANGED faults \/ Fault
    BY <1>6 DEF DispatchThrows, RecordThrows, FinalizeThrows
  <2>2. faults' \in 0..MaxFaults
    BY <2>1 DEF Fault
  <2> QED
    BY <2>1, <2>2 DEF Release, AfterFire, StoreTypeOK, SchedulerOffNeverArmed, Exists
<1>7. ASSUME NEW p \in Procs, Record(p)
      PROVE  TypeInv'
  <2>1. /\ fires' = fires \cup {RecordedFire(p)}
        /\ lastFire' = [lastFire EXCEPT ![job[p].id] = FiredAt(p)]
        /\ pc' = [pc EXCEPT ![p] = "recorded"]
        /\ UNCHANGED <<rows, now, at, todo, job, out, mark, faults>>
    BY <1>7 DEF Record
  <2>2. job[p] \in Snapshot /\ out[p] \in Outcome
    BY <1>7 DEF Record
  <2>3. FiredAt(p) \in Time
    BY DEF FiredAt, StoreTypeOK
  <2>4. RecordedFire(p) \in Fire
    BY <2>2, <2>3 DEF RecordedFire, Fire, Snapshot, Outcome
  <2> QED
    BY <2>1, <2>2, <2>3, <2>4 DEF StoreTypeOK, SchedulerOffNeverArmed, Exists
<1>8. ASSUME NEW p \in Procs, Finalize(p)
      PROVE  TypeInv'
  <2>1. /\ Release(p)
        /\ UNCHANGED <<now, fires, lastFire, mark, faults>>
        /\ job[p] \in Snapshot /\ out[p] \in Outcome
    BY <1>8 DEF Finalize
  <2>2. \/ UNCHANGED rows
        \/ \E row \in Row : rows' = [rows EXCEPT ![job[p].id] = row] /\ row.next = None
    BY <1>8, <2>1, FinalizeEffect
  <2>3. StoreTypeOK' /\ SchedulerOffNeverArmed'
    BY <2>1, <2>2 DEF StoreTypeOK, SchedulerOffNeverArmed, Exists
  <2> QED
    BY <1>8, <2>1, <2>3 DEF Finalize, Release, AfterFire
<1>9. ASSUME NEW p \in Procs, Crash(p)
      PROVE  TypeInv'
  BY <1>9 DEF Crash, Fault, StoreTypeOK, SchedulerOffNeverArmed, Exists
<1>10. ASSUME NEW id \in Ids, Operator(id)
       PROVE  TypeInv'
  <2>1. OperatorStep(id) /\ fires' = SurvivingFires
        /\ UNCHANGED <<pc, at, todo, job, out, lastFire, mark, faults>>
    BY <1>10 DEF Operator, procVars
  <2>2. /\ StoreTypeOK'
        /\ \A j \in Ids \ {id} : rows'[j] = rows[j]
        /\ rows'[id] # Unborn
        /\ rows'[id] = Deleted \/ WellEdited(id)
    BY <2>1, OperatorEffect
  <2>3. SchedulerOffNeverArmed'
    BY <2>2 DEF SchedulerOffNeverArmed, Exists, WellEdited, OffTimer
  <2> QED
    BY <2>1, <2>2, <2>3 DEF SurvivingFires
<1>11. ASSUME Tick
       PROVE  TypeInv'
  BY <1>11 DEF Tick, ClockTick, procVars, StoreTypeOK, Time,
               SchedulerOffNeverArmed, Exists
<1>12. ASSUME UNCHANGED vars
       PROVE  TypeInv'
  BY <1>12 DEF vars, StoreTypeOK, SchedulerOffNeverArmed, Exists
<1> QED
  BY <1>1, <1>2, <1>3, <1>4, <1>5, <1>6, <1>7, <1>8, <1>9, <1>10, <1>11, <1>12
     DEF Next, PassStep, CallerStep, FireStep, ExecuteNow, TriggerCronoton

\* The tick's state is well typed, jobs included, and scheduler-off rows stay
\* off the timer: the invariant every other proof starts from.
THEOREM TypeCorrect == Spec => []TypeInv
  BY TypeInit, TypeStep, PTL DEF Spec

-----------------------------------------------------------------------------
(***************************************************************************)
(* Claims.  The strengthening is one order on times: a pass's `now` and    *)
(* every stamp are in the past; a row is armed after its last stamp; and   *)
(* every claim in flight or in the history bears that stamp or an earlier  *)
(* one.  A new claim, no earlier than the slot it takes, is then later     *)
(* than all of them.                                                       *)
(***************************************************************************)
PastInv ==
    /\ \A p \in Procs : at[p] <= now
    /\ \A id \in Ids : mark[id] # None => mark[id] <= now

LeaseInv ==
    \A p \in Passes : pc[p] \in InFlight =>
        mark[job[p].id] # None /\ at[p] <= mark[job[p].id]

HistoryInv ==
    \A f \in fires : f.by = "scheduler" => mark[f.id] # None /\ f.at <= mark[f.id]

ClaimInv == PastInv /\ ArmedPastMark /\ LeaseInv /\ HistoryInv /\ OneFirePerClaim

\* Nothing is claimed before the first pass.
LEMMA ClaimInit == Init => ClaimInv
  BY StoreAssumption, TickAssumption
     DEF Init, StoreInit, ClaimInv, PastInv, ArmedPastMark, LeaseInv, HistoryInv,
         OneFirePerClaim, InFlight, Exists, Procs

\* Claims, slots, leases and recorded claims stay in order in every step.
LEMMA ClaimStep == TypeInv /\ ClaimInv /\ [Next]_vars => ClaimInv'
<1> SUFFICES ASSUME TypeInv, ClaimInv, [Next]_vars
             PROVE  ClaimInv'
  OBVIOUS
<1> USE StoreAssumption, TickAssumption
<1> USE DEF TypeInv, TypeOK, StoreTypeOK, Time, JobInv, InFlight, Procs, ClaimInv
<1>1. ASSUME NEW p \in Passes, SelectDue(p)
      PROVE  ClaimInv'
  <2>1. /\ UNCHANGED <<rows, now, job, out, fires, lastFire, mark, faults>>
        /\ pc' = [pc EXCEPT ![p] = "pass"]
        /\ at' = [at EXCEPT ![p] = now]
    BY <1>1 DEF SelectDue
  <2>2. PastInv' /\ ArmedPastMark' /\ HistoryInv'
    BY <2>1 DEF PastInv, ArmedPastMark, HistoryInv, Exists
  <2>3. \A q \in Passes : pc'[q] \in InFlight =>
           pc[q] = pc'[q] /\ at'[q] = at[q] /\ job'[q] = job[q]
    BY <2>1
  <2>4. LeaseInv' /\ OneFirePerClaim'
    BY <2>1, <2>3 DEF LeaseInv, OneFirePerClaim
  <2> QED
    BY <2>2, <2>4
<1>2. ASSUME NEW p \in Passes, ClaimWon(p)
      PROVE  ClaimInv'
  <2>1. PICK s \in todo[p], row \in Row :
           /\ s \in Snapshot
           /\ rows[s.id] \in Row /\ Exists(s.id)
           /\ rows[s.id].next # None /\ rows[s.id].next <= at[p]
           /\ rows' = [rows EXCEPT ![s.id] = row]
           /\ row.next # None => row.next > at[p]
           /\ mark' = [mark EXCEPT ![s.id] = at[p]]
           /\ job' = [job EXCEPT ![p] = s]
    BY <1>2, ClaimEffect
  <2>2. /\ pc[p] = "pass" /\ pc' = [pc EXCEPT ![p] = "firing"]
        /\ UNCHANGED <<now, at, out, fires, faults>>
    BY <1>2 DEF ClaimWon
  <2>3. s.id \in Ids /\ at[p] \in Nat /\ rows[s.id].next \in Nat
    BY <2>1 DEF Snapshot, Row
  <2>4. mark[s.id] # None => mark[s.id] < at[p]
    BY <2>1, <2>3 DEF ArmedPastMark
  <2>5. PastInv'
    BY <2>1, <2>2, <2>3 DEF PastInv
  <2>6. ArmedPastMark'
    BY <2>1, <2>2, <2>3 DEF ArmedPastMark, Exists
  <2>7. \A q \in Passes \ {p} : pc[q] \in InFlight /\ job[q].id = s.id =>
           at[q] < at[p]
    BY <2>4, <2>3 DEF LeaseInv
  <2>8. \A f \in fires : f.by = "scheduler" /\ f.id = s.id => f.at < at[p]
    BY <2>4, <2>3 DEF HistoryInv, Fire
  <2>9. LeaseInv'
    <3> SUFFICES ASSUME NEW q \in Passes, pc'[q] \in InFlight
                 PROVE  mark'[job'[q].id] # None /\ at[q] <= mark'[job'[q].id]
      BY <2>2 DEF LeaseInv
    <3>1. CASE q = p
      BY <3>1, <2>1, <2>3
    <3>2. CASE q # p
      BY <3>2, <2>1, <2>2, <2>3, <2>7 DEF LeaseInv, Snapshot
    <3> QED
      BY <3>1, <3>2
  <2>10. HistoryInv'
    BY <2>1, <2>2, <2>3, <2>8 DEF HistoryInv, Fire
  <2>11. OneFirePerClaim'
    <3> SUFFICES ASSUME NEW r \in Passes, pc'[r] \in InFlight
                 PROVE  /\ \A q \in Passes \ {r} :
                              pc'[q] \in InFlight /\ job'[q].id = job'[r].id
                                 => at[q] # at[r]
                        /\ pc'[r] # "recorded" =>
                              \A f \in fires : ~(f.by = "scheduler"
                                    /\ f.id = job'[r].id /\ f.at = at[r])
      BY <2>2 DEF OneFirePerClaim
    <3>1. CASE r = p
      BY <3>1, <2>1, <2>2, <2>3, <2>7, <2>8 DEF Fire
    <3>2. CASE r # p
      BY <3>2, <2>1, <2>2, <2>3, <2>7 DEF OneFirePerClaim
    <3> QED
      BY <3>1, <3>2
  <2> QED
    BY <2>5, <2>6, <2>9, <2>10, <2>11
<1>3. ASSUME NEW p \in Passes, ClaimLost(p) \/ EndPass(p)
      PROVE  ClaimInv'
  <2>1. /\ UNCHANGED <<rows, now, at, job, fires, mark>>
        /\ \A q \in Passes : pc'[q] \in InFlight => pc'[q] = pc[q]
    BY <1>3 DEF ClaimLost, EndPass
  <2> QED
    BY <2>1 DEF PastInv, ArmedPastMark, LeaseInv, HistoryInv, OneFirePerClaim, Exists
<1>4. ASSUME NEW p \in Callers, NEW id \in Ids, ReadActive(p, id)
      PROVE  ClaimInv'
  <2>1. /\ UNCHANGED <<rows, now, at, fires, mark>>
        /\ \A q \in Passes : pc'[q] = pc[q] /\ job'[q] = job[q]
    BY <1>4 DEF ReadActive
  <2> QED
    BY <2>1 DEF PastInv, ArmedPastMark, LeaseInv, HistoryInv, OneFirePerClaim, Exists
<1>5. ASSUME NEW p \in Procs, FireJob(p)
      PROVE  ClaimInv'
  <2>1. /\ UNCHANGED <<rows, now, at, job, fires, mark>>
        /\ pc[p] = "firing" /\ pc' = [pc EXCEPT ![p] = "fired"]
    BY <1>5 DEF FireJob
  <2> QED
    BY <2>1 DEF PastInv, ArmedPastMark, LeaseInv, HistoryInv, OneFirePerClaim, Exists
<1>6. ASSUME NEW p \in Procs, DispatchThrows(p) \/ RecordThrows(p) \/ FinalizeThrows(p)
      PROVE  ClaimInv'
  <2>1. /\ UNCHANGED <<rows, now, at, fires, mark>>
        /\ \A q \in Passes : pc'[q] \in InFlight =>
              pc'[q] = pc[q] /\ job'[q] = job[q]
    BY <1>6 DEF DispatchThrows, RecordThrows, FinalizeThrows, Release, AfterFire
  <2> QED
    BY <2>1 DEF PastInv, ArmedPastMark, LeaseInv, HistoryInv, OneFirePerClaim, Exists
<1>7. ASSUME NEW p \in Procs, Record(p)
      PROVE  ClaimInv'
  <2>1. /\ UNCHANGED <<rows, now, at, job, mark>>
        /\ fires' = fires \cup {RecordedFire(p)}
        /\ pc[p] = "fired" /\ pc' = [pc EXCEPT ![p] = "recorded"]
    BY <1>7 DEF Record
  <2>2. PastInv' /\ ArmedPastMark'
    BY <2>1 DEF PastInv, ArmedPastMark, Exists
  <2>3. LeaseInv'
    BY <2>1 DEF LeaseInv
  <2>4. CASE p \in Passes
    <3>1. /\ RecordedFire(p).id = job[p].id /\ RecordedFire(p).at = at[p]
      BY <2>4 DEF RecordedFire, FiredAt
    <3>2. HistoryInv'
      BY <2>1, <2>4, <3>1 DEF HistoryInv, LeaseInv
    <3>3. OneFirePerClaim'
      BY <2>1, <2>4, <3>1 DEF OneFirePerClaim
    <3> QED
      BY <2>2, <2>3, <3>2, <3>3
  <2>5. CASE p \in Callers
    <3>1. RecordedFire(p).by # "scheduler" /\ p \notin Passes
      BY <2>5 DEF RecordedFire
    <3>2. HistoryInv' /\ OneFirePerClaim'
      BY <2>1, <3>1 DEF HistoryInv, OneFirePerClaim
    <3> QED
      BY <2>2, <2>3, <3>2
  <2> QED
    BY <2>4, <2>5
<1>8. ASSUME NEW p \in Procs, Finalize(p)
      PROVE  ClaimInv'
  <2>1. /\ UNCHANGED <<now, at, fires, mark>>
        /\ \A q \in Passes : pc'[q] \in InFlight =>
              pc'[q] = pc[q] /\ job'[q] = job[q]
        /\ job[p] \in Snapshot /\ out[p] \in Outcome
    BY <1>8 DEF Finalize, Release, AfterFire
  <2>2. \/ UNCHANGED rows
        \/ \E row \in Row : rows' = [rows EXCEPT ![job[p].id] = row] /\ row.next = None
    BY <1>8, <2>1, FinalizeEffect
  <2>3. ArmedPastMark'
    BY <2>1, <2>2 DEF ArmedPastMark, Exists
  <2> QED
    BY <2>1, <2>3 DEF PastInv, LeaseInv, HistoryInv, OneFirePerClaim
<1>9. ASSUME NEW p \in Procs, Crash(p)
      PROVE  ClaimInv'
  <2>1. /\ UNCHANGED <<rows, now, at, fires, mark>>
        /\ \A q \in Passes : pc'[q] \in InFlight =>
              pc'[q] = pc[q] /\ job'[q] = job[q]
    BY <1>9 DEF Crash
  <2> QED
    BY <2>1 DEF PastInv, ArmedPastMark, LeaseInv, HistoryInv, OneFirePerClaim, Exists
<1>10. ASSUME NEW id \in Ids, Operator(id)
       PROVE  ClaimInv'
  <2>1. OperatorStep(id) /\ fires' \subseteq fires
        /\ UNCHANGED <<pc, at, job, mark>>
    BY <1>10 DEF Operator, procVars, SurvivingFires
  <2>2. /\ now' = now
        /\ \A j \in Ids \ {id} : rows'[j] = rows[j]
        /\ rows'[id] # Unborn
        /\ rows'[id] = Deleted \/ WellEdited(id)
    BY <2>1, OperatorEffect
  <2>3. ArmedPastMark'
    <3> SUFFICES ASSUME NEW j \in Ids, rows'[j] \notin {Unborn, Deleted},
                        rows'[j].next # None, mark[j] # None
                 PROVE  rows'[j].next > mark[j]
      BY <2>1 DEF ArmedPastMark, Exists
    <3>1. CASE j = id
      BY <3>1, <2>2 DEF WellEdited, KeptArmed, ArmedPastMark, PastInv, Row
    <3>2. CASE j # id
      BY <3>2, <2>2 DEF ArmedPastMark, Exists
    <3> QED
      BY <3>1, <3>2
  <2> QED
    BY <2>1, <2>2, <2>3 DEF PastInv, LeaseInv, HistoryInv, OneFirePerClaim
<1>11. ASSUME Tick
       PROVE  ClaimInv'
  <2>1. UNCHANGED <<rows, pc, at, job, fires, mark>> /\ now' = now + 1
    BY <1>11 DEF Tick, ClockTick, procVars
  <2> QED
    BY <2>1 DEF PastInv, ArmedPastMark, LeaseInv, HistoryInv, OneFirePerClaim, Exists
<1>12. ASSUME UNCHANGED vars
       PROVE  ClaimInv'
  BY <1>12 DEF vars, PastInv, ArmedPastMark, LeaseInv, HistoryInv, OneFirePerClaim,
               Exists
<1> QED
  BY <1>1, <1>2, <1>3, <1>4, <1>5, <1>6, <1>7, <1>8, <1>9, <1>10, <1>11, <1>12
     DEF Next, PassStep, CallerStep, FireStep, ExecuteNow, TriggerCronoton

\* Every pass, stamp, slot, lease and recorded claim stands in the order above.
THEOREM ClaimsAreOrdered == Spec => []ClaimInv
  BY TypeCorrect, ClaimInit, ClaimStep, PTL DEF Spec

\* Every variable of the tick keeps its type.
THEOREM TypesHold == Spec => []TypeOK
<1>1. TypeInv => TypeOK
  BY DEF TypeInv
<1> QED
  BY <1>1, TypeCorrect, PTL

\* No sequence of operator calls and claims puts an externally fired row, a
\* runtime-arg row or an evented row on the timer.
THEOREM SchedulerOffIsNeverArmed == Spec => []SchedulerOffNeverArmed
<1>1. TypeInv => SchedulerOffNeverArmed
  BY DEF TypeInv
<1> QED
  BY <1>1, TypeCorrect, PTL

\* A slot that was claimed is not armed again.
THEOREM SlotsAreNotReused == Spec => []ArmedPastMark
<1>1. ClaimInv => ArmedPastMark
  BY DEF ClaimInv
<1> QED
  BY <1>1, ClaimsAreOrdered, PTL

\* However many passes overlap, crash and restart, a claim has one firing pass
\* and at most one fire row.
THEOREM ClaimsFireOnce == Spec => []OneFirePerClaim
<1>1. ClaimInv => OneFirePerClaim
  BY DEF ClaimInv
<1> QED
  BY <1>1, ClaimsAreOrdered, PTL

-----------------------------------------------------------------------------
(***************************************************************************)
(* The schedule a claim advances.  The pass claims with the row it read    *)
(* earlier; a row that is still armed for an instant the pass may claim    *)
(* cannot have changed its schedule since, because whatever changes a      *)
(* schedule arms the row after the clock, and so after the pass's `now`.   *)
(***************************************************************************)
SnapshotInv ==
    \A p \in Passes : \A s \in todo[p] :
        /\ rows[s.id] # Unborn
        /\ Exists(s.id) /\ rows[s.id].next # None /\ rows[s.id].next <= at[p]
              => rows[s.id].sched = s.row.sched

\* No pass has read anything at first.
LEMMA SnapshotInit == Init => SnapshotInv
  BY DEF Init, SnapshotInv, Procs

\* An operator's call between a pass's read and its claim either keeps the
\* schedule the pass has read or moves the row out of the claim.
LEMMA SnapshotStep == TypeInv /\ ClaimInv /\ SnapshotInv /\ [Next]_vars => SnapshotInv'
<1> SUFFICES ASSUME TypeInv, ClaimInv, SnapshotInv, [Next]_vars
             PROVE  SnapshotInv'
  OBVIOUS
<1> USE StoreAssumption, TickAssumption
<1> USE DEF TypeInv, TypeOK, StoreTypeOK, Time, JobInv, InFlight, Procs
<1>1. ASSUME NEW p \in Passes, SelectDue(p)
      PROVE  SnapshotInv'
  <2>1. UNCHANGED rows /\ at' = [at EXCEPT ![p] = now]
    BY <1>1 DEF SelectDue
  <2>2. PICK batch \in DueBatches(now) :
           todo' = [todo EXCEPT ![p] = {[id |-> i, row |-> rows[i]] : i \in batch}]
    BY <1>1 DEF SelectDue
  <2>3. \A i \in batch : i \in Ids /\ Exists(i)
    BY DEF DueBatches, Selectable
  <2>4. \A s \in todo'[p] : Exists(s.id) /\ rows[s.id].sched = s.row.sched
    BY <2>2, <2>3
  <2> QED
    BY <2>1, <2>2, <2>4 DEF SnapshotInv, Exists
<1>2. ASSUME NEW p \in Passes, ClaimWon(p)
      PROVE  SnapshotInv'
  <2>1. PICK s \in todo[p], row \in Row :
           /\ s \in Snapshot
           /\ rows[s.id] \in Row /\ Exists(s.id)
           /\ rows[s.id].next # None /\ rows[s.id].next <= at[p]
           /\ rows' = [rows EXCEPT ![s.id] = row]
           /\ row.next # None => row.next > at[p]
           /\ row.sched = rows[s.id].sched
           /\ todo' = [todo EXCEPT ![p] = @ \ {s}]
    BY <1>2, ClaimEffect
  <2>2. UNCHANGED at
    BY <1>2 DEF ClaimWon
  <2> SUFFICES ASSUME NEW q \in Passes, NEW o \in todo[q]
               PROVE  /\ rows'[o.id] # Unborn
                      /\ rows'[o.id] # Deleted /\ rows'[o.id].next # None
                            /\ rows'[o.id].next <= at[q]
                            => rows'[o.id].sched = o.row.sched
    BY <2>1, <2>2 DEF SnapshotInv, Exists
  <2>3. o \in Snapshot /\ o.id \in Ids /\ s.id \in Ids
    BY <2>1 DEF Snapshot
  <2>4. /\ at[p] \in Nat /\ at[q] \in Nat /\ rows[s.id].next \in Nat
        /\ row.next # None => row.next \in Nat
    BY <2>1 DEF Row
  <2>5. CASE o.id = s.id
    BY <2>1, <2>3, <2>4, <2>5 DEF SnapshotInv
  <2>6. CASE o.id # s.id
    BY <2>1, <2>3, <2>6 DEF SnapshotInv, Exists
  <2> QED
    BY <2>5, <2>6
<1>3. ASSUME NEW p \in Procs, ClaimLost(p) \/ EndPass(p) \/ Crash(p)
      PROVE  SnapshotInv'
  <2>1. UNCHANGED <<rows, at>> /\ \A q \in Passes : todo'[q] \subseteq todo[q]
    BY <1>3 DEF ClaimLost, EndPass, Crash
  <2> QED
    BY <2>1 DEF SnapshotInv, Exists
<1>4. ASSUME NEW p \in Procs,
             (\E id \in Ids : ReadActive(p, id)) \/ FireJob(p)
                \/ DispatchThrows(p) \/ Record(p) \/ RecordThrows(p) \/ FinalizeThrows(p)
      PROVE  SnapshotInv'
  <2>1. UNCHANGED <<rows, at, todo>>
    BY <1>4 DEF ReadActive, FireJob, DispatchThrows, Record, RecordThrows, FinalizeThrows,
                Release
  <2> QED
    BY <2>1 DEF SnapshotInv, Exists
<1>5. ASSUME NEW p \in Procs, Finalize(p)
      PROVE  SnapshotInv'
  <2>1. UNCHANGED <<at, todo>> /\ job[p] \in Snapshot /\ out[p] \in Outcome
    BY <1>5 DEF Finalize, Release
  <2>2. \/ UNCHANGED rows
        \/ \E row \in Row : rows' = [rows EXCEPT ![job[p].id] = row] /\ row.next = None
    BY <1>5, <2>1, FinalizeEffect
  <2>3. \A i \in Ids : rows'[i] # rows[i] => rows'[i] # Unborn /\ rows'[i].next = None
    BY <2>2
  <2>4. \A q \in Passes : \A s \in todo[q] : s.id \in Ids
    BY DEF Snapshot
  <2> QED
    BY <2>1, <2>3, <2>4 DEF SnapshotInv, Exists
<1>6. ASSUME NEW id \in Ids, Operator(id)
      PROVE  SnapshotInv'
  <2>1. OperatorStep(id) /\ UNCHANGED <<at, todo>>
    BY <1>6 DEF Operator, procVars
  <2>2. /\ \A j \in Ids \ {id} : rows'[j] = rows[j]
        /\ rows'[id] # Unborn
        /\ rows'[id] = Deleted \/ WellEdited(id)
    BY <2>1, OperatorEffect
  <2> SUFFICES ASSUME NEW q \in Passes, NEW o \in todo[q]
               PROVE  /\ rows'[o.id] # Unborn
                      /\ rows'[o.id] # Deleted /\ rows'[o.id].next # None
                            /\ rows'[o.id].next <= at[q]
                            => rows'[o.id].sched = o.row.sched
    BY <2>1 DEF SnapshotInv, Exists
  <2>3. o.id \in Ids /\ at[q] \in Nat /\ now \in Nat /\ at[q] <= now
    BY DEF Snapshot, ClaimInv, PastInv
  <2>4. CASE o.id = id
    <3>1. CASE rows'[id] = Deleted
      BY <3>1, <2>2, <2>4
    <3>2. CASE rows'[id] # Deleted /\ rows'[id].next # None /\ rows'[id].next > now
      <4>1. rows'[id].next \in Nat
        BY <3>2, <2>2 DEF WellEdited, Row
      <4> QED
        BY <4>1, <3>2, <2>2, <2>3, <2>4
    <3>3. CASE Exists(id) /\ KeptArmed(rows'[id], rows[id])
      BY <3>3, <2>2, <2>4 DEF KeptArmed, SnapshotInv
    <3> QED
      BY <3>1, <3>2, <3>3, <2>2, <2>4 DEF WellEdited
  <2>5. CASE o.id # id
    BY <2>2, <2>3, <2>5 DEF SnapshotInv, Exists
  <2> QED
    BY <2>4, <2>5
<1>7. ASSUME Tick \/ UNCHANGED vars
      PROVE  SnapshotInv'
  BY <1>7 DEF Tick, ClockTick, procVars, vars, SnapshotInv, Exists
<1> QED
  BY <1>1, <1>2, <1>3, <1>4, <1>5, <1>6, <1>7
     DEF Next, PassStep, CallerStep, FireStep, ExecuteNow, TriggerCronoton

\* A row that a pass could still claim has the schedule the pass has read.
THEOREM SnapshotsAreCurrent == Spec => []SnapshotInv
  BY TypeCorrect, ClaimsAreOrdered, SnapshotInit, SnapshotStep, PTL DEF Spec

\* A pass starts a fire only by winning a claim.
LEMMA OnlyClaimsStartFires ==
    ASSUME TypeInv, [Next]_vars, NEW p \in Passes, ClaimedBy(p)
    PROVE  ClaimWon(p)
<1> USE TickAssumption
<1> USE DEF TypeInv, TypeOK, Procs, ClaimedBy
<1>1. \A q \in Passes : ~SelectDue(q) /\ ~EndPass(q)
  BY DEF SelectDue, EndPass
<1>2. \A q \in Passes : ~ClaimLost(q)
  BY DEF ClaimLost
<1>3. \A q \in Procs : ~FireStep(q) /\ ~Crash(q)
  BY DEF FireStep, FireJob, DispatchThrows, Record, RecordThrows, Finalize, FinalizeThrows,
         Release, AfterFire, Crash
<1>4. \A q \in Callers, id \in Ids : ~ReadActive(q, id)
  BY DEF ReadActive
<1>5. /\ \A id \in Ids : ~Operator(id)
      /\ ~Tick
      /\ ~UNCHANGED vars
  BY DEF Operator, Tick, procVars, vars
<1>6. PICK q \in Passes : ClaimWon(q)
  BY <1>1, <1>2, <1>3, <1>4, <1>5 DEF Next, PassStep, CallerStep, ExecuteNow, TriggerCronoton
<1>7. q = p
  BY <1>6 DEF ClaimWon
<1> QED
  BY <1>6, <1>7

\* A claim advances the schedule the row has at the claim, although the pass
\* read it earlier, and only takes rows that belong on the timer.
THEOREM ClaimsAreOfCurrentSchedules == Spec => ClaimIsOfCurrentSchedule
<1> DEFINE Current ==
      \A p \in Passes : ClaimedBy(p) =>
          LET row == rows[job'[p].id]
          IN  row.sched = job'[p].row.sched /\ ~row.ext /\ ~row.args
<1>1. TypeInv /\ SnapshotInv /\ [Next]_vars => [Current]_vars
  <2> SUFFICES ASSUME TypeInv, SnapshotInv, [Next]_vars, NEW p \in Passes, ClaimedBy(p)
               PROVE  /\ rows[job'[p].id].sched = job'[p].row.sched
                      /\ ~rows[job'[p].id].ext /\ ~rows[job'[p].id].args
    OBVIOUS
  <2>1. ClaimWon(p)
    BY OnlyClaimsStartFires
  <2>2. PICK s \in todo[p] :
           /\ s \in Snapshot
           /\ Exists(s.id) /\ rows[s.id].next # None /\ rows[s.id].next <= at[p]
           /\ job' = [job EXCEPT ![p] = s]
    BY <2>1, ClaimEffect DEF TypeInv
  <2>3. job'[p] = s
    BY <2>2 DEF TypeInv, TypeOK, Procs
  <2>4. rows[s.id].sched = s.row.sched
    BY <2>2 DEF SnapshotInv
  <2>5. ~rows[s.id].ext /\ ~rows[s.id].args
    BY <2>2 DEF TypeInv, SchedulerOffNeverArmed, Snapshot
  <2> QED
    BY <2>3, <2>4, <2>5
<1> QED
  BY <1>1, TypeCorrect, SnapshotsAreCurrent, PTL DEF Spec, ClaimIsOfCurrentSchedule

\* A completed or failed row gives no further claim, and whatever operators,
\* passes and requests do, its status changes only by the verdict of another
\* recorded fire of the row, which completed may turn into error or back.
THEOREM FinalStatusesStay == Spec => FinalStatusStays
<1> DEFINE Stays ==
      \A id \in Ids :
          Exists(id) /\ rows[id].status \in Terminal =>
              \/ rows'[id] = Deleted
              \/ /\ mark'[id] = mark[id]
                 /\ rows'[id].status = rows[id].status \/ LateVerdict(id)
<1>1. TypeInv /\ [Next]_vars => [Stays]_vars
  <2> SUFFICES ASSUME TypeInv, [Next]_vars, NEW id \in Ids,
                      Exists(id), rows[id].status \in Terminal
               PROVE  \/ rows'[id] = Deleted
                      \/ /\ mark'[id] = mark[id]
                         /\ rows'[id].status = rows[id].status \/ LateVerdict(id)
    OBVIOUS
  <2> USE DEF TypeInv, TypeOK, JobInv, InFlight, Procs
  <2>1. ASSUME NEW p \in Passes, ClaimWon(p)
        PROVE  rows'[id] = rows[id] /\ mark'[id] = mark[id]
    <3>1. PICK s \in todo[p], row \in Row :
             /\ rows[s.id].status = "active"
             /\ rows' = [rows EXCEPT ![s.id] = row]
             /\ mark' = [mark EXCEPT ![s.id] = at[p]]
      BY <2>1, ClaimEffect
    <3>2. s.id # id
      BY <3>1 DEF Terminal
    <3>3. rows \in [Ids -> Row \cup {Unborn, Deleted}]
      BY DEF StoreTypeOK
    <3> QED
      BY <3>1, <3>2, <3>3
  <2>2. ASSUME NEW p \in Procs, Finalize(p)
        PROVE  /\ mark'[id] = mark[id]
               /\ rows'[id].status = rows[id].status \/ LateVerdict(id)
    <3>1. /\ UNCHANGED mark /\ job[p] \in Snapshot /\ out[p] \in Outcome
          /\ pc[p] = "recorded" /\ pc'[p] # "recorded"
      BY <2>2 DEF Finalize, Release, AfterFire
    <3>2. CASE UNCHANGED rows
      BY <3>1, <3>2
    <3>3. ASSUME NEW row \in Row,
                 rows' = [rows EXCEPT ![job[p].id] = row],
                 row.status = out[p].intent, out[p].intent \in Terminal
          PROVE  rows'[id].status = rows[id].status \/ LateVerdict(id)
      <4>1. rows \in [Ids -> Row \cup {Unborn, Deleted}]
        BY DEF StoreTypeOK
      <4>2. CASE job[p].id = id
        <5>1. rows'[id] = row
          BY <3>3, <4>1, <4>2
        <5> QED
          BY <3>1, <3>3, <4>2, <5>1 DEF LateVerdict
      <4>3. CASE job[p].id # id
        BY <3>3, <4>1, <4>3
      <4> QED
        BY <4>2, <4>3
    <3> QED
      BY <2>2, <3>1, <3>2, <3>3, FinalizeEffect
  <2>3. ASSUME NEW j \in Ids, Operator(j)
        PROVE  \/ rows'[id] = Deleted
               \/ rows'[id].status = rows[id].status /\ mark'[id] = mark[id]
    <3>1. OperatorStep(j) /\ UNCHANGED mark
      BY <2>3 DEF Operator
    <3>2. /\ \A i \in Ids \ {j} : rows'[i] = rows[i]
          /\ rows'[j] = Deleted \/ WellEdited(j)
      BY <3>1, OperatorEffect
    <3> QED
      BY <3>1, <3>2 DEF WellEdited
  <2>4. CASE UNCHANGED <<rows, mark>>
    BY <2>4
  <2> QED
    BY <2>1, <2>2, <2>3, <2>4
       DEF Next, PassStep, CallerStep, FireStep, SelectDue, ClaimLost, EndPass,
           ExecuteNow, TriggerCronoton, ReadActive, FireJob, DispatchThrows, Record,
           RecordThrows, FinalizeThrows, Crash, Tick, ClockTick, vars
<1> QED
  BY <1>1, TypeCorrect, PTL DEF Spec, FinalStatusStays

-----------------------------------------------------------------------------
(***************************************************************************)
(* The order of service.  A row that is due by a pass's clock was due when *)
(* the pass selected, for the same slot or an older one, because whatever  *)
(* arms a row in between arms it past a clock at or after the pass's own,  *)
(* or past the slot it had.  So it is either in the batch, for a slot no   *)
(* newer than the one it has now, or younger than all of the batch.        *)
(***************************************************************************)
OrderInv ==
    \A p \in Passes : \A s \in todo[p] :
        /\ s.row.next # None
        /\ \A id \in Ids : Selectable(id, at[p]) /\ rows[id].next < s.row.next =>
               \E o \in todo[p] : o.id = id /\ o.row.next <= rows[id].next

\* No pass has read anything at first.
LEMMA OrderInit == Init => OrderInv
  BY DEF Init, OrderInv, Procs

\* Nothing that lets a pass drop only rows it can no longer take, and makes no
\* row due by a pass's clock or due for an earlier slot, breaks the order.
LEMMA OrderKept ==
    ASSUME TypeInv, TypeInv', OrderInv, UNCHANGED at,
           \A p \in Passes :
              /\ todo'[p] \subseteq todo[p]
              /\ \A id \in Ids : Selectable(id, at[p])' =>
                    /\ Selectable(id, at[p]) /\ rows[id].next <= rows'[id].next
                    /\ todo'[p] # {} => \A o \in todo[p] \ todo'[p] : o.id # id
    PROVE  OrderInv'
<1> USE StoreAssumption, TickAssumption
<1> USE DEF TypeInv, TypeOK, StoreTypeOK, Procs
<1> SUFFICES ASSUME NEW p \in Passes, NEW s \in todo'[p]
             PROVE  /\ s.row.next # None
                    /\ \A id \in Ids : Selectable(id, at[p])' /\ rows'[id].next < s.row.next =>
                          \E o \in todo'[p] : o.id = id /\ o.row.next <= rows'[id].next
  BY DEF OrderInv
<1>1. s \in todo[p] /\ s.row.next # None
  BY DEF OrderInv
<1> SUFFICES ASSUME NEW id \in Ids, Selectable(id, at[p])', rows'[id].next < s.row.next
             PROVE  \E o \in todo'[p] : o.id = id /\ o.row.next <= rows'[id].next
  BY <1>1
<1>2. /\ Selectable(id, at[p]) /\ rows[id].next <= rows'[id].next
      /\ \A o \in todo[p] \ todo'[p] : o.id # id
  OBVIOUS
<1>3. rows[id].next \in Nat /\ rows'[id].next \in Nat
  <2>1. rows[id] \in Row /\ rows'[id] \in Row
    BY <1>2 DEF Selectable, Exists
  <2>2. rows[id].next # None /\ rows'[id].next # None
    BY <1>2 DEF Selectable, DueAt
  <2> QED
    BY <2>1, <2>2 DEF Row
<1>4. \A o \in todo[p] : o.row.next \in Nat
  BY DEF OrderInv, Snapshot, Row
<1>5. rows[id].next < s.row.next
  BY <1>1, <1>2, <1>3, <1>4
<1>6. PICK o \in todo[p] : o.id = id /\ o.row.next <= rows[id].next
  BY <1>1, <1>2, <1>5 DEF OrderInv
<1> QED
  BY <1>2, <1>3, <1>4, <1>6

\* A selection is in order, and every later step keeps it so.
LEMMA OrderStep ==
    TypeInv /\ TypeInv' /\ ClaimInv /\ OrderInv /\ [Next]_vars => OrderInv'
<1> SUFFICES ASSUME TypeInv, TypeInv', ClaimInv, OrderInv, [Next]_vars
             PROVE  OrderInv'
  OBVIOUS
<1> USE StoreAssumption, TickAssumption
<1>1. ASSUME NEW p \in Passes, SelectDue(p)
      PROVE  OrderInv'
  <2>1. /\ UNCHANGED rows /\ at' = [at EXCEPT ![p] = now]
        /\ at \in [Procs -> Time] /\ todo \in [Procs -> SUBSET Snapshot] /\ p \in Procs
    BY <1>1 DEF SelectDue, TypeInv, TypeOK, Procs
  <2>2. PICK batch \in DueBatches(now) :
           todo' = [todo EXCEPT ![p] = {[id |-> i, row |-> rows[i]] : i \in batch}]
    BY <1>1 DEF SelectDue
  <2>3. /\ todo'[p] = {[id |-> i, row |-> rows[i]] : i \in batch} /\ at'[p] = now
        /\ \A q \in Passes \ {p} : todo'[q] = todo[q] /\ at'[q] = at[q]
    BY <2>1, <2>2 DEF Procs
  <2>4. /\ \A i \in batch : i \in Ids /\ Selectable(i, now)
        /\ \A i \in batch : \A j \in Ids \ batch :
              Selectable(j, now) => rows[i].next <= rows[j].next
    BY DEF DueBatches
  <2>5. \A i \in Ids : Selectable(i, now) => rows[i].next # None /\ rows[i].next \in Nat
    BY DEF Selectable, DueAt, Exists, TypeInv, TypeOK, StoreTypeOK, Row
  <2> SUFFICES ASSUME NEW q \in Passes, NEW s \in todo'[q]
               PROVE  /\ s.row.next # None
                      /\ \A id \in Ids :
                            Selectable(id, at'[q]) /\ rows[id].next < s.row.next =>
                               \E o \in todo'[q] : o.id = id /\ o.row.next <= rows[id].next
    BY <2>1 DEF OrderInv, Selectable, Exists
  <2>6. CASE q = p
    <3>1. PICK i \in batch : s = [id |-> i, row |-> rows[i]]
      BY <2>3, <2>6
    <3>2. s.row.next = rows[i].next /\ s.row.next # None /\ s.row.next \in Nat
      BY <2>4, <2>5, <3>1
    <3> SUFFICES ASSUME NEW id \in Ids, Selectable(id, now), rows[id].next < rows[i].next
                 PROVE  \E o \in todo'[p] : o.id = id /\ o.row.next <= rows[id].next
      BY <2>3, <2>6, <3>2
    <3>3. id \in batch
      BY <2>4, <2>5, <3>2
    <3>4. [id |-> id, row |-> rows[id]] \in todo'[p]
      BY <2>3, <3>3
    <3>5. rows[id].next \in Nat
      BY <2>5
    <3>6. rows[id].next <= rows[id].next
      BY <3>5
    <3> QED
      BY <3>4, <3>6
  <2>7. CASE q # p
    BY <2>3, <2>7 DEF OrderInv
  <2> QED
    BY <2>6, <2>7
<1>2. ASSUME UNCHANGED <<rows, at>>, \A q \in Passes : todo'[q] \in {todo[q], {}}
      PROVE  OrderInv'
  <2>1. \A id \in Ids, q \in Passes : Selectable(id, at[q])' =>
           Selectable(id, at[q]) /\ rows[id].next \in Nat /\ rows'[id].next = rows[id].next
    BY <1>2 DEF Selectable, DueAt, Exists, TypeInv, TypeOK, StoreTypeOK, Row
  <2>2. \A id \in Ids, q \in Passes : Selectable(id, at[q])' =>
           Selectable(id, at[q]) /\ rows[id].next <= rows'[id].next
    BY <2>1
  <2> QED
    BY <1>2, <2>2, OrderKept
<1>3. ASSUME NEW p \in Passes, ClaimWon(p)
      PROVE  OrderInv'
  <2>1. PICK s \in todo[p], row \in Row :
           /\ s \in Snapshot
           /\ rows[s.id] \in Row /\ Exists(s.id) /\ rows[s.id].status = "active"
           /\ rows[s.id].next # None /\ rows[s.id].next <= at[p]
           /\ rows' = [rows EXCEPT ![s.id] = row]
           /\ row.next # None => row.next > at[p]
           /\ row.args = rows[s.id].args
           /\ todo' = [todo EXCEPT ![p] = @ \ {s}]
    BY <1>3, ClaimEffect DEF TypeInv
  <2>2. UNCHANGED at
    BY <1>3 DEF ClaimWon
  <2> USE DEF TypeInv, TypeOK, StoreTypeOK, Procs
  <2>3. s.id \in Ids /\ \A q \in Passes : at[q] \in Nat
    BY <2>1 DEF Snapshot, Time
  <2>4. ASSUME NEW q \in Passes, NEW id \in Ids, Selectable(id, at[q])'
        PROVE  /\ Selectable(id, at[q]) /\ rows[id].next <= rows'[id].next
               /\ \A o \in todo[q] \ todo'[q] : o.id # id
    <3>1. rows'[id] \in Row /\ rows'[id].next \in Nat /\ rows'[id].next <= at[q]
      BY <2>2, <2>4 DEF Selectable, DueAt, Exists, Row
    <3>2. CASE id = s.id
      <4>1. rows'[id].next > at[p] /\ rows'[id] = row
        BY <2>1, <2>3, <3>1, <3>2
      <4>2. rows[id].next \in Nat
        BY <2>1, <3>2 DEF Row
      <4>3. rows[id].next <= rows'[id].next /\ rows[id].next <= at[q] /\ q # p
        BY <2>1, <2>3, <3>1, <3>2, <4>1, <4>2
      <4>4. ~rows[id].args
        BY <2>1, <2>4, <3>2, <4>1 DEF Selectable
      <4>5. Selectable(id, at[q])
        BY <2>1, <3>2, <4>3, <4>4 DEF Selectable, DueAt
      <4> QED
        BY <2>1, <4>3, <4>5
    <3>3. CASE id # s.id
      <4>1. rows'[id] = rows[id]
        BY <2>1, <3>3
      <4>2. Selectable(id, at[q])
        BY <2>2, <2>4, <4>1 DEF Selectable, Exists
      <4>3. \A o \in todo[q] \ todo'[q] : o = s
        BY <2>1
      <4> QED
        BY <3>1, <3>3, <4>1, <4>2, <4>3
    <3> QED
      BY <3>2, <3>3
  <2>5. \A q \in Passes : todo'[q] \subseteq todo[q]
    BY <2>1
  <2> QED
    BY <2>2, <2>4, <2>5, OrderKept
<1>4. ASSUME NEW p \in Passes, ClaimLost(p)
      PROVE  OrderInv'
  <2>1. PICK s \in todo[p] : ~ClaimWins(s.id, at[p]) /\ todo' = [todo EXCEPT ![p] = @ \ {s}]
    BY <1>4 DEF ClaimLost, Oldest
  <2>2. UNCHANGED <<rows, at>>
    BY <1>4 DEF ClaimLost
  <2>3. ASSUME NEW q \in Passes
        PROVE  /\ todo'[q] \subseteq todo[q]
               /\ \A o \in todo[q] \ todo'[q] : o.id = s.id /\ q = p
    BY <2>1 DEF TypeInv, TypeOK, Procs
  <2>4. ASSUME NEW q \in Passes, NEW id \in Ids, Selectable(id, at[q])'
        PROVE  /\ Selectable(id, at[q]) /\ rows[id].next <= rows'[id].next
               /\ \A o \in todo[q] \ todo'[q] : o.id # id
    <3>1. Selectable(id, at[q])
      BY <2>2, <2>4 DEF Selectable, Exists
    <3>2. rows[id].next \in Nat
      BY <3>1 DEF Selectable, DueAt, Exists, TypeInv, TypeOK, StoreTypeOK, Row
    <3>3. rows[id].next <= rows'[id].next
      BY <2>2, <3>2
    <3>4. ClaimWins(id, at[q])
      BY <3>1 DEF Selectable, ClaimWins
    <3> QED
      BY <2>1, <2>3, <3>1, <3>3, <3>4
  <2> QED
    BY <2>2, <2>3, <2>4, OrderKept
<1>5. ASSUME NEW p \in Procs,
             \/ (\E id \in Ids : ReadActive(p, id)) \/ EndPass(p)
             \/ FireJob(p) \/ DispatchThrows(p) \/ Record(p) \/ RecordThrows(p)
             \/ FinalizeThrows(p) \/ Crash(p)
      PROVE  OrderInv'
  <2>1. UNCHANGED <<rows, at>> /\ \A q \in Passes : todo'[q] \in {todo[q], {}}
    BY <1>5 DEF ReadActive, EndPass, FireJob, DispatchThrows, Record, RecordThrows,
                FinalizeThrows, Release, Crash, TypeInv, TypeOK, Procs
  <2> QED
    BY <1>2, <2>1
<1>6. ASSUME UNCHANGED <<at, todo>>, NEW i \in Ids, NEW row \in Row \cup {Deleted},
             rows' = [rows EXCEPT ![i] = row],
             \A q \in Passes : Selectable(i, at[q])' =>
                Selectable(i, at[q]) /\ rows[i].next = row.next
      PROVE  OrderInv'
  <2> USE DEF TypeInv, TypeOK, StoreTypeOK, Procs
  <2>1. ASSUME NEW q \in Passes, NEW id \in Ids, Selectable(id, at[q])'
        PROVE  Selectable(id, at[q]) /\ rows[id].next <= rows'[id].next
    <3>1. rows'[id].next \in Nat
      BY <1>6, <2>1 DEF Selectable, DueAt, Exists, Row
    <3>2. CASE id = i
      BY <1>6, <2>1, <3>1, <3>2
    <3>3. CASE id # i
      <4>1. rows'[id] = rows[id]
        BY <1>6, <3>3
      <4>2. Selectable(id, at[q])
        BY <1>6, <2>1, <4>1 DEF Selectable, Exists
      <4> QED
        BY <3>1, <4>1, <4>2
    <3> QED
      BY <3>2, <3>3
  <2> QED
    BY <1>6, <2>1, OrderKept
<1>7. ASSUME NEW p \in Procs, Finalize(p)
      PROVE  OrderInv'
  <2>1. UNCHANGED <<at, todo>> /\ job[p] \in Snapshot /\ out[p] \in Outcome
    BY <1>7 DEF Finalize, Release, TypeInv, JobInv, InFlight
  <2>2. CASE UNCHANGED rows
    BY <1>2, <2>1, <2>2
  <2>3. ASSUME NEW row \in Row, rows' = [rows EXCEPT ![job[p].id] = row], row.next = None
        PROVE  OrderInv'
    <3>1. PICK i \in Ids : i = job[p].id
      BY <2>1 DEF Snapshot
    <3>2. rows'[i] = row /\ rows' = [rows EXCEPT ![i] = row]
      BY <2>3, <3>1 DEF TypeInv, TypeOK, StoreTypeOK
    <3>3. \A q \in Passes : ~Selectable(i, at[q])'
      BY <2>3, <3>2 DEF Selectable, DueAt
    <3> QED
      BY <1>6, <2>1, <3>2, <3>3
  <2> QED
    BY <1>7, <2>1, <2>2, <2>3, FinalizeEffect DEF TypeInv, TypeOK
<1>8. ASSUME NEW id \in Ids, Operator(id)
      PROVE  OrderInv'
  <2>1. OperatorStep(id) /\ UNCHANGED <<at, todo>>
    BY <1>8 DEF Operator, procVars
  <2>2. /\ StoreTypeOK' /\ \A j \in Ids \ {id} : rows'[j] = rows[j]
        /\ rows'[id] # Unborn
        /\ rows'[id] = Deleted \/ WellEdited(id)
    BY <2>1, OperatorEffect DEF TypeInv, TypeOK
  <2>3. rows'[id] \in Row \cup {Deleted} /\ rows' = [rows EXCEPT ![id] = rows'[id]]
    BY <2>2 DEF TypeInv, TypeOK, StoreTypeOK
  <2>4. ASSUME NEW q \in Passes, Selectable(id, at[q])'
        PROVE  Selectable(id, at[q]) /\ rows[id].next = rows'[id].next
    <3>1. /\ rows'[id] \in Row /\ rows'[id].next \in Nat /\ rows'[id].next <= at[q]
          /\ rows'[id].status = "active" /\ ~rows'[id].args /\ rows'[id].next # None
      BY <2>1, <2>3, <2>4 DEF Selectable, DueAt, Exists, Row
    <3>2. at[q] \in Nat /\ now \in Nat /\ at[q] <= now
      BY DEF ClaimInv, PastInv, TypeInv, TypeOK, StoreTypeOK, Time, Procs
    <3>3. ~(rows'[id].next > now)
      BY <3>1, <3>2
    <3>4. rows'[id] # Deleted
      BY <2>4 DEF Selectable, Exists
    <3>5. Exists(id) /\ KeptArmed(rows'[id], rows[id])
      BY <2>2, <3>1, <3>3, <3>4 DEF WellEdited
    <3> QED
      BY <3>1, <3>5 DEF KeptArmed, Selectable, DueAt
  <2> QED
    BY <1>6, <2>1, <2>3, <2>4
<1>9. ASSUME Tick \/ UNCHANGED vars
      PROVE  OrderInv'
  BY <1>2, <1>9 DEF Tick, ClockTick, procVars, vars
<1> QED
  BY <1>1, <1>3, <1>4, <1>5, <1>7, <1>8, <1>9
     DEF Next, PassStep, CallerStep, FireStep, ExecuteNow, TriggerCronoton, Procs

\* However many passes overlap, and whatever operators do between a pass's
\* selection and its claims, a pass takes no row while another that is due by its
\* clock is armed for an earlier slot.
THEOREM OldestRowsAreServed == Spec => OldestIsServed
<1> DEFINE InOrder ==
      \A p \in Passes : ClaimedBy(p) =>
          \A id \in Ids : Selectable(id, at[p]) => rows[id].next >= job'[p].row.next
<1>1. Spec => []OrderInv
  BY TypeCorrect, ClaimsAreOrdered, OrderInit, OrderStep, PTL DEF Spec
<1>2. TypeInv /\ OrderInv /\ [Next]_vars => [InOrder]_vars
  <2> SUFFICES ASSUME TypeInv, OrderInv, [Next]_vars, NEW p \in Passes, ClaimedBy(p),
                      NEW id \in Ids, Selectable(id, at[p])
               PROVE  rows[id].next >= job'[p].row.next
    OBVIOUS
  <2>1. ClaimWon(p)
    BY OnlyClaimsStartFires
  <2>2. PICK s \in todo[p] : s \in Oldest(p) /\ job' = [job EXCEPT ![p] = s]
    BY <2>1, ClaimEffect DEF TypeInv
  <2> USE StoreAssumption DEF TypeInv, TypeOK, StoreTypeOK, Procs
  <2>3. job'[p] = s
    BY <2>2
  <2>4. \A o \in todo[p] : o.row.next \in Nat /\ s.row.next <= o.row.next
    BY <2>2 DEF OrderInv, Oldest, Snapshot, Row
  <2>5. rows[id].next \in Nat
    BY DEF Selectable, DueAt, Exists, Row
  <2>6. ~(rows[id].next < s.row.next)
    <3> SUFFICES ASSUME rows[id].next < s.row.next PROVE FALSE
      OBVIOUS
    <3>1. PICK o \in todo[p] : o.id = id /\ o.row.next <= rows[id].next
      BY DEF OrderInv
    <3> QED
      BY <2>4, <2>5, <3>1
  <2> QED
    BY <2>3, <2>4, <2>5, <2>6
<1> QED
  BY <1>1, <1>2, TypeCorrect, PTL DEF Spec, OldestIsServed

-----------------------------------------------------------------------------
(***************************************************************************)
(* Final statuses and the history.  A final status is written after its    *)
(* fire row, by the process that recorded it, so the row is in the history *)
(* at that moment unless the cronoton was deleted, and then the write      *)
(* finds no row; ids are never reused, so it cannot find another one.      *)
(***************************************************************************)
BornInv == \A p \in Procs : pc[p] \in InFlight => rows[job[p].id] # Unborn

OutcomeInv ==
    \A p \in Procs : pc[p] \in {"fired", "recorded"} /\ out[p].intent # None =>
        out[p].intent = IF out[p].ok THEN "completed" ELSE "error"

RecordedInv ==
    \A p \in Procs : pc[p] = "recorded" /\ Exists(job[p].id) =>
        \E f \in fires : f.id = job[p].id /\ f.ok = out[p].ok

HistoryRowsInv == \A f \in fires : Exists(f.id)

FinalInv ==
    BornInv /\ OutcomeInv /\ RecordedInv /\ HistoryRowsInv /\ FinalStatusHasItsFire

\* No row is final before the first commit.
LEMMA FinalInit == Init => FinalInv
  BY StoreAssumption
     DEF Init, StoreInit, FinalInv, BornInv, OutcomeInv, RecordedInv, HistoryRowsInv,
         FinalStatusHasItsFire, InFlight, Exists, Procs

\* Recording precedes the final status, and only a delete, which takes the row
\* too, removes history.
LEMMA FinalStep == TypeInv /\ SnapshotInv /\ FinalInv /\ [Next]_vars => FinalInv'
<1> SUFFICES ASSUME TypeInv, SnapshotInv, FinalInv, [Next]_vars
             PROVE  FinalInv'
  OBVIOUS
<1> USE StoreAssumption, TickAssumption
<1> USE DEF TypeInv, TypeOK, StoreTypeOK, JobInv, InFlight, Procs, FinalInv
<1>1. ASSUME UNCHANGED <<rows, fires>>,
             \A q \in Procs : pc'[q] \in InFlight =>
                pc'[q] = pc[q] /\ job'[q] = job[q] /\ out'[q] = out[q]
      PROVE  FinalInv'
  BY <1>1 DEF BornInv, OutcomeInv, RecordedInv, HistoryRowsInv, FinalStatusHasItsFire,
              Exists
<1>2. ASSUME NEW p \in Passes, ClaimWon(p)
      PROVE  FinalInv'
  <2>1. PICK s \in todo[p], row \in Row :
           /\ s \in Snapshot
           /\ rows[s.id] \in Row /\ Exists(s.id) /\ rows[s.id].status = "active"
           /\ rows' = [rows EXCEPT ![s.id] = row]
           /\ row.status = rows[s.id].status
           /\ job' = [job EXCEPT ![p] = s]
    BY <1>2, ClaimEffect
  <2>2. /\ pc' = [pc EXCEPT ![p] = "firing"]
        /\ UNCHANGED <<out, fires>>
    BY <1>2 DEF ClaimWon
  <2>3. \A i \in Ids :
           /\ rows'[i] = Unborn <=> rows[i] = Unborn
           /\ rows'[i] \notin {Unborn, Deleted} <=> Exists(i)
           /\ Exists(i) => rows'[i].status = rows[i].status
    BY <2>1 DEF Exists
  <2>4. s.id \in Ids /\ \A q \in Procs : pc[q] \in InFlight => job[q].id \in Ids
    BY <2>1 DEF Snapshot
  <2>5. BornInv'
    BY <2>1, <2>2, <2>3, <2>4 DEF BornInv, Exists
  <2>6. OutcomeInv'
    BY <2>2 DEF OutcomeInv
  <2>7. RecordedInv'
    BY <2>1, <2>2, <2>3, <2>4 DEF RecordedInv, Exists
  <2>8. HistoryRowsInv'
    BY <2>2, <2>3 DEF HistoryRowsInv, Exists, Fire
  <2>9. FinalStatusHasItsFire'
    BY <2>2, <2>3 DEF FinalStatusHasItsFire, Exists
  <2> QED
    BY <2>5, <2>6, <2>7, <2>8, <2>9
<1>3. ASSUME NEW p \in Callers, NEW id \in Ids, ReadActive(p, id)
      PROVE  FinalInv'
  <2>1. /\ UNCHANGED <<rows, out, fires>> /\ Exists(id)
        /\ job' = [job EXCEPT ![p] = [id |-> id, row |-> rows[id]]]
        /\ pc' = [pc EXCEPT ![p] = "firing"]
    BY <1>3 DEF ReadActive
  <2> QED
    BY <2>1 DEF BornInv, OutcomeInv, RecordedInv, HistoryRowsInv,
                FinalStatusHasItsFire, Exists
<1>4. ASSUME NEW p \in Procs, FireJob(p)
      PROVE  FinalInv'
  <2>1. /\ UNCHANGED <<rows, job, fires>>
        /\ pc[p] = "firing" /\ pc' = [pc EXCEPT ![p] = "fired"]
    BY <1>4 DEF FireJob
  <2>2. PICK o \in Outcomes(job[p].row) : out' = [out EXCEPT ![p] = o]
    BY <1>4 DEF FireJob
  <2>3. o.intent # None => o.intent = IF o.ok THEN "completed" ELSE "error"
    BY <2>1, OutcomeShape DEF Snapshot
  <2>4. OutcomeInv'
    BY <2>1, <2>2, <2>3 DEF OutcomeInv
  <2> QED
    BY <2>1, <2>2, <2>4 DEF BornInv, RecordedInv, HistoryRowsInv,
                            FinalStatusHasItsFire, Exists
<1>5. ASSUME NEW p \in Procs, Record(p)
      PROVE  FinalInv'
  <2>1. /\ UNCHANGED <<rows, job, out>> /\ Exists(job[p].id)
        /\ fires' = fires \cup {RecordedFire(p)}
        /\ pc[p] = "fired" /\ pc' = [pc EXCEPT ![p] = "recorded"]
    BY <1>5 DEF Record
  <2>2. RecordedFire(p).id = job[p].id /\ RecordedFire(p).ok = out[p].ok
    BY DEF RecordedFire
  <2>3. BornInv' /\ OutcomeInv'
    BY <2>1 DEF BornInv, OutcomeInv
  <2>4. RecordedInv'
    BY <2>1, <2>2 DEF RecordedInv, Exists
  <2>5. HistoryRowsInv'
    BY <2>1, <2>2 DEF HistoryRowsInv, Exists
  <2>6. FinalStatusHasItsFire'
    BY <2>1 DEF FinalStatusHasItsFire, Exists
  <2> QED
    BY <2>3, <2>4, <2>5, <2>6
<1>6. ASSUME NEW p \in Procs, Finalize(p)
      PROVE  FinalInv'
  <2>1. /\ UNCHANGED fires /\ pc[p] = "recorded"
        /\ job[p] \in Snapshot /\ out[p] \in Outcome
        /\ \A q \in Procs : pc'[q] \in InFlight =>
              pc'[q] = pc[q] /\ job'[q] = job[q] /\ out'[q] = out[q]
    BY <1>6 DEF Finalize, Release, AfterFire
  <2>2. CASE UNCHANGED rows
    BY <1>1, <2>1, <2>2
  <2>3. ASSUME NEW row \in Row,
               rows' = [rows EXCEPT ![job[p].id] = row],
               Exists(job[p].id),
               row.status = out[p].intent, out[p].intent \in Terminal
        PROVE  FinalInv'
    <3>1. job[p].id \in Ids /\ \A q \in Procs : pc[q] \in InFlight => job[q].id \in Ids
      BY <2>1 DEF Snapshot
    <3>2. \A i \in Ids :
             /\ rows'[i] = Unborn <=> rows[i] = Unborn
             /\ rows'[i] \notin {Unborn, Deleted} <=> Exists(i)
      BY <2>3, <3>1 DEF Exists
    <3>3. BornInv'
      BY <2>1, <3>1, <3>2 DEF BornInv
    <3>4. OutcomeInv'
      BY <2>1 DEF OutcomeInv
    <3>5. RecordedInv'
      BY <2>1, <3>1, <3>2 DEF RecordedInv, Exists
    <3>6. HistoryRowsInv'
      BY <2>1, <3>2 DEF HistoryRowsInv, Exists, Fire
    <3>7. PICK f \in fires : f.id = job[p].id /\ f.ok = out[p].ok
      BY <2>1, <2>3 DEF RecordedInv
    <3>8. f.ok = (row.status = "completed")
      <4>1. out[p].ok \in BOOLEAN
        BY <2>1 DEF Outcome
      <4>2. out[p].intent = IF out[p].ok THEN "completed" ELSE "error"
        BY <2>1, <2>3 DEF OutcomeInv
      <4> QED
        BY <4>1, <4>2, <3>7, <2>3
    <3>9. FinalStatusHasItsFire'
      <4> SUFFICES ASSUME NEW i \in Ids, rows'[i] \notin {Unborn, Deleted},
                          rows'[i].status \in Terminal
                   PROVE  \E g \in fires : g.id = i /\ g.ok = (rows'[i].status = "completed")
        BY <2>1 DEF FinalStatusHasItsFire, Exists
      <4>1. CASE i = job[p].id
        BY <4>1, <2>3, <3>1, <3>7, <3>8
      <4>2. CASE i # job[p].id
        BY <4>2, <2>3, <3>1 DEF FinalStatusHasItsFire, Exists
      <4> QED
        BY <4>1, <4>2
    <3> QED
      BY <3>3, <3>4, <3>5, <3>6, <3>9
  <2> QED
    BY <1>6, <2>1, <2>2, <2>3, FinalizeEffect
<1>7. ASSUME NEW id \in Ids, Operator(id)
      PROVE  FinalInv'
  <2>1. /\ OperatorStep(id) /\ UNCHANGED <<pc, job, out>>
        /\ fires' = {f \in fires : rows'[f.id] # Deleted}
    BY <1>7 DEF Operator, procVars, SurvivingFires
  <2>2. /\ StoreTypeOK'
        /\ \A j \in Ids \ {id} : rows'[j] = rows[j]
        /\ rows[id] # Deleted
        /\ rows'[id] # Unborn
        /\ rows'[id] = Deleted \/ WellEdited(id)
    BY <2>1, OperatorEffect
  <2>3. \A q \in Procs : pc[q] \in InFlight => job[q].id \in Ids
    BY DEF Snapshot
  <2>4. \A i \in Ids : rows[i] # Unborn => rows'[i] # Unborn /\ (rows'[i] # Deleted => Exists(i))
    BY <2>2 DEF Exists
  <2>5. BornInv' /\ OutcomeInv'
    BY <2>1, <2>3, <2>4 DEF BornInv, OutcomeInv
  <2>6. RecordedInv'
    <3> SUFFICES ASSUME NEW q \in Procs, pc[q] = "recorded",
                        rows'[job[q].id] \notin {Unborn, Deleted}
                 PROVE  \E f \in fires' : f.id = job[q].id /\ f.ok = out[q].ok
      BY <2>1 DEF RecordedInv, Exists
    <3>1. Exists(job[q].id)
      BY <2>3, <2>4 DEF BornInv
    <3> QED
      BY <2>1, <3>1 DEF RecordedInv
  <2>7. HistoryRowsInv'
    BY <2>1, <2>4 DEF HistoryRowsInv, Exists, Fire
  <2>8. FinalStatusHasItsFire'
    <3> SUFFICES ASSUME NEW i \in Ids, rows'[i] \notin {Unborn, Deleted},
                        rows'[i].status \in Terminal
                 PROVE  \E g \in fires' : g.id = i /\ g.ok = (rows'[i].status = "completed")
      BY DEF FinalStatusHasItsFire, Exists
    <3>1. CASE i = id
      <4>1. WellEdited(i)
        BY <3>1, <2>2
      <4>2. Exists(i) /\ rows'[i].status = rows[i].status
        BY <4>1 DEF WellEdited, Terminal
      <4>3. PICK g \in fires : g.id = i /\ g.ok = (rows[i].status = "completed")
        BY <4>2 DEF FinalStatusHasItsFire
      <4> QED
        BY <2>1, <4>2, <4>3
    <3>2. CASE i # id
      BY <3>2, <2>1, <2>2 DEF FinalStatusHasItsFire, Exists
    <3> QED
      BY <3>1, <3>2
  <2> QED
    BY <2>5, <2>6, <2>7, <2>8
<1>8. ASSUME NEW p \in Passes, SelectDue(p) \/ ClaimLost(p) \/ EndPass(p)
      PROVE  FinalInv'
  BY <1>8, <1>1 DEF SelectDue, ClaimLost, EndPass
<1>9. ASSUME NEW p \in Procs,
             DispatchThrows(p) \/ RecordThrows(p) \/ FinalizeThrows(p) \/ Crash(p)
      PROVE  FinalInv'
  BY <1>9, <1>1 DEF DispatchThrows, RecordThrows, FinalizeThrows, Release, AfterFire, Crash
<1>10. ASSUME Tick \/ UNCHANGED vars
       PROVE  FinalInv'
  BY <1>10 DEF Tick, ClockTick, procVars, vars, BornInv, OutcomeInv, RecordedInv,
               HistoryRowsInv, FinalStatusHasItsFire, Exists
<1> QED
  BY <1>2, <1>3, <1>4, <1>5, <1>6, <1>7, <1>8, <1>9, <1>10
     DEF Next, PassStep, CallerStep, FireStep, ExecuteNow, TriggerCronoton

\* A recorded fire has its cronoton, a process in flight a row that was born.
THEOREM HistoryIsConsistent == Spec => []FinalInv
  BY TypeCorrect, SnapshotsAreCurrent, FinalInit, FinalStep, PTL DEF Spec

\* A completed (failed) cronoton has a successful (failed) fire, after any crash.
THEOREM FinalStatusesHaveTheirFire == Spec => []FinalStatusHasItsFire
<1>1. FinalInv => FinalStatusHasItsFire
  BY DEF FinalInv
<1> QED
  BY <1>1, HistoryIsConsistent, PTL

-----------------------------------------------------------------------------
(* The server tick implements ClaimLedger *)

MapInv == TypeInv /\ ClaimInv /\ FinalInv

\* The empty table maps to the empty ledger.
LEMMA LedgerInit == Init => Ledger!Init
<1> SUFFICES ASSUME Init
             PROVE  Ledger!Init
  OBVIOUS
<1>1. Armed = [id \in Ids |-> None]
  BY DEF Init, StoreInit, Armed, Exists
<1>2. Leased = {}
  BY DEF Init, Leased, Procs
<1>3. Entered = {}
  BY DEF Init, Entered
<1> QED
  BY <1>1, <1>2, <1>3 DEF Init, Ledger!Init

\* A pass that gives its lease up takes no other pass's lease with it.
LEMMA LeaseGivenUp ==
    ASSUME MapInv, NEW p \in Passes, pc[p] \in {"firing", "fired"},
           pc'[p] \notin {"firing", "fired"}, UNCHANGED at,
           \A q \in Passes \ {p} : pc'[q] = pc[q] /\ job'[q] = job[q]
    PROVE  /\ <<job[p].id, at[p]>> \in Leased
           /\ Leased' = Leased \ {<<job[p].id, at[p]>>}
<1>1. \A q \in Passes \ {p} : pc[q] \in {"firing", "fired"} =>
         <<job[q].id, at[q]>> # <<job[p].id, at[p]>>
  BY DEF MapInv, ClaimInv, OneFirePerClaim, InFlight
<1> QED
  BY <1>1 DEF Leased

\* Nothing that leaves leases and history alone and touches the table at one id
\* is more than a rearming.
LEMMA RearmOrStutter ==
    ASSUME MapInv, NEW id \in Ids, UNCHANGED <<mark, Leased, Entered>>,
           \A j \in Ids \ {id} : rows'[j] = rows[j],
           Exists(id)' /\ rows'[id].next # None /\ mark[id] # None
              => rows'[id].next > mark[id]
    PROVE  Ledger!Rearm(id)
<1>1. \A j \in Ids \ {id} : Armed'[j] = Armed[j]
  BY DEF Armed, Exists
<1>2. Armed'[id] # None => Ledger!PastMark(Armed'[id], id)
  BY DEF Armed, Ledger!PastMark, Exists
<1> QED
  BY <1>1, <1>2 DEF Ledger!Rearm

\* Every step of the tick is one step of the ledger, or none: a claim claims, a
\* record enters, a crash or a throw loses, an operator's call rearms or forgets.
LEMMA LedgerStep == MapInv /\ MapInv' /\ [Next]_vars => [Ledger!Next]_(Ledger!vars)
<1> SUFFICES ASSUME MapInv, MapInv', [Next]_vars
             PROVE  Ledger!Next \/ UNCHANGED Ledger!vars
  OBVIOUS
<1> USE StoreAssumption, TickAssumption
<1> USE DEF MapInv, TypeInv, TypeOK, StoreTypeOK, JobInv, InFlight, Procs
<1>1. ASSUME UNCHANGED <<rows, at, fires, mark>>,
             \A q \in Passes : pc[q] \in {"firing", "fired"} \/ pc'[q] \in {"firing", "fired"}
                => pc'[q] \in {"firing", "fired"} /\ pc[q] \in {"firing", "fired"}
                      /\ job'[q] = job[q]
      PROVE  UNCHANGED Ledger!vars
  <2>1. Armed' = Armed /\ Entered' = Entered
    BY <1>1 DEF Armed, Exists, Entered
  <2>2. Leased' = Leased
    BY <1>1 DEF Leased
  <2> QED
    BY <1>1, <2>1, <2>2 DEF Ledger!vars
<1>2. ASSUME NEW p \in Passes, SelectDue(p)
      PROVE  UNCHANGED Ledger!vars
  <2>1. /\ UNCHANGED <<rows, job, fires, mark>> /\ pc[p] = "idle"
        /\ pc' = [pc EXCEPT ![p] = "pass"] /\ at' = [at EXCEPT ![p] = now]
    BY <1>2 DEF SelectDue
  <2>2. Armed' = Armed /\ Entered' = Entered
    BY <2>1 DEF Armed, Exists, Entered
  <2>3. \A q \in Passes : pc[q] \in {"firing", "fired"} \/ pc'[q] \in {"firing", "fired"}
           => pc'[q] = pc[q] /\ at'[q] = at[q]
    BY <2>1
  <2>4. Leased' = Leased
    BY <2>1, <2>3 DEF Leased
  <2> QED
    BY <2>1, <2>2, <2>4 DEF Ledger!vars
<1>3. ASSUME NEW p \in Passes, ClaimWon(p)
      PROVE  Ledger!Next
  <2>1. PICK s \in todo[p], row \in Row :
           /\ s \in Snapshot
           /\ rows[s.id] \in Row /\ Exists(s.id)
           /\ rows[s.id].next # None /\ rows[s.id].next <= at[p]
           /\ rows' = [rows EXCEPT ![s.id] = row]
           /\ row.next # None => row.next > at[p]
           /\ mark' = [mark EXCEPT ![s.id] = at[p]]
           /\ job' = [job EXCEPT ![p] = s]
    BY <1>3, ClaimEffect
  <2>2. /\ pc[p] = "pass" /\ pc' = [pc EXCEPT ![p] = "firing"]
        /\ UNCHANGED <<at, fires>>
    BY <1>3 DEF ClaimWon
  <2>3. s.id \in Ids /\ at[p] \in Time /\ at[p] \in Nat /\ rows[s.id].next \in Nat
    BY <2>1 DEF Snapshot, Row, Time
  <2>4. mark[s.id] # None => rows[s.id].next > mark[s.id]
    BY <2>1, <2>3 DEF ClaimInv, ArmedPastMark
  <2>5. mark[s.id] # None => mark[s.id] \in Nat /\ mark[s.id] < at[p]
    BY <2>1, <2>3, <2>4 DEF Time
  <2>6. <<s.id, at[p]>> \notin Leased
    <3> SUFFICES ASSUME NEW q \in Passes, pc[q] \in {"firing", "fired"},
                        job[q].id = s.id, at[q] = at[p]
                 PROVE  FALSE
      BY DEF Leased
    <3> QED
      BY <2>3, <2>5 DEF ClaimInv, LeaseInv
  <2>7. <<s.id, at[p]>> \notin Entered
    <3> SUFFICES ASSUME NEW f \in fires, f.by = "scheduler", f.id = s.id, f.at = at[p]
                 PROVE  FALSE
      BY DEF Entered
    <3> QED
      BY <2>3, <2>5 DEF ClaimInv, HistoryInv
  <2>8. /\ Armed[s.id] = rows[s.id].next
        /\ Armed'[s.id] = row.next
        /\ \A j \in Ids \ {s.id} : Armed'[j] = Armed[j]
    BY <2>1, <2>3 DEF Armed, Exists
  <2>9. Leased' = Leased \cup {<<s.id, at[p]>>}
    <3>1. \A q \in Passes \ {p} : pc'[q] = pc[q] /\ job'[q] = job[q]
      BY <2>1, <2>2
    <3>2. job'[p] = s /\ pc'[p] = "firing"
      BY <2>1, <2>2
    <3> QED
      BY <2>2, <3>1, <3>2 DEF Leased
  <2>10. Entered' = Entered
    BY <2>2 DEF Entered
  <2>11. Ledger!Claim(s.id, at[p])
    BY <2>1, <2>3, <2>4, <2>6, <2>7, <2>8, <2>9, <2>10 DEF Ledger!Claim, Ledger!PastMark
  <2> QED
    BY <2>3, <2>11 DEF Ledger!Next
<1>4. ASSUME NEW p \in Passes, ClaimLost(p) \/ EndPass(p)
      PROVE  UNCHANGED Ledger!vars
  BY <1>4, <1>1 DEF ClaimLost, EndPass
<1>5. ASSUME NEW p \in Callers, NEW id \in Ids, ReadActive(p, id)
      PROVE  UNCHANGED Ledger!vars
  BY <1>5, <1>1 DEF ReadActive
<1>6. ASSUME NEW p \in Procs, FireJob(p)
      PROVE  UNCHANGED Ledger!vars
  BY <1>6, <1>1 DEF FireJob
<1>7. ASSUME NEW p \in Passes, pc[p] \in {"firing", "fired"},
             pc'[p] \notin {"firing", "fired"},
             UNCHANGED <<rows, at, fires, mark>>,
             \A q \in Passes \ {p} : pc'[q] = pc[q] /\ job'[q] = job[q]
      PROVE  Ledger!Next
  <2> DEFINE lease == <<job[p].id, at[p]>>
  <2>1. lease \in Leased /\ Leased' = Leased \ {lease}
    BY <1>7, LeaseGivenUp
  <2>2. Armed' = Armed /\ Entered' = Entered
    BY <1>7 DEF Armed, Exists, Entered
  <2> HIDE DEF lease
  <2> QED
    BY <1>7, <2>1, <2>2 DEF Ledger!Next, Ledger!Lose
<1>8. ASSUME NEW p \in Procs,
             DispatchThrows(p) \/ RecordThrows(p) \/ FinalizeThrows(p) \/ Crash(p)
      PROVE  Ledger!Next \/ UNCHANGED Ledger!vars
  <2>1. /\ UNCHANGED <<rows, at, fires, mark>>
        /\ pc'[p] \notin {"firing", "fired"}
        /\ \A q \in Procs \ {p} : pc'[q] = pc[q] /\ job'[q] = job[q]
    BY <1>8 DEF DispatchThrows, RecordThrows, FinalizeThrows, Crash, Release, AfterFire
  <2>2. CASE p \in Passes /\ pc[p] \in {"firing", "fired"}
    BY <2>1, <2>2, <1>7
  <2>3. CASE ~(p \in Passes /\ pc[p] \in {"firing", "fired"})
    BY <2>1, <2>3, <1>1
  <2> QED
    BY <2>2, <2>3
<1>9. ASSUME NEW p \in Procs, Record(p)
      PROVE  Ledger!Next \/ UNCHANGED Ledger!vars
  <2>1. /\ UNCHANGED <<rows, at, job, mark>>
        /\ fires' = fires \cup {RecordedFire(p)}
        /\ pc[p] = "fired" /\ pc' = [pc EXCEPT ![p] = "recorded"]
    BY <1>9 DEF Record
  <2>2. CASE p \in Passes
    <3> DEFINE lease == <<job[p].id, at[p]>>
    <3>1. lease \in Leased /\ Leased' = Leased \ {lease}
      BY <2>1, <2>2, LeaseGivenUp
    <3>2. lease \notin Entered
      <4>1. \A f \in fires : ~(f.by = "scheduler" /\ f.id = job[p].id /\ f.at = at[p])
        BY <2>1, <2>2 DEF ClaimInv, OneFirePerClaim
      <4> QED
        BY <4>1 DEF Entered
    <3>3. Entered' = Entered \cup {lease}
      <4> DEFINE f == RecordedFire(p)
      <4>1. f.by = "scheduler" /\ f.id = job[p].id /\ f.at = at[p]
        BY <2>2 DEF RecordedFire, FiredAt
      <4>2. fires' = fires \cup {f}
        BY <2>1
      <4> HIDE DEF f
      <4> QED
        BY <4>1, <4>2 DEF Entered
    <3>4. Armed' = Armed
      BY <2>1 DEF Armed, Exists
    <3> HIDE DEF lease
    <3> QED
      BY <2>1, <3>1, <3>2, <3>3, <3>4 DEF Ledger!Next, Ledger!Enter
  <2>3. CASE p \in Callers
    <3>1. RecordedFire(p).by # "scheduler" /\ p \notin Passes
      BY <2>3 DEF RecordedFire
    <3>2. Entered' = Entered
      BY <2>1, <3>1 DEF Entered
    <3>3. Leased' = Leased
      BY <2>1, <3>1 DEF Leased
    <3>4. Armed' = Armed
      BY <2>1 DEF Armed, Exists
    <3> QED
      BY <2>1, <3>2, <3>3, <3>4 DEF Ledger!vars
  <2> QED
    BY <2>2, <2>3
<1>10. ASSUME NEW p \in Procs, Finalize(p)
       PROVE  Ledger!Next \/ UNCHANGED Ledger!vars
  <2>1. /\ UNCHANGED <<at, fires, mark>>
        /\ job[p] \in Snapshot /\ out[p] \in Outcome
        /\ pc[p] = "recorded" /\ pc'[p] \notin {"firing", "fired"}
        /\ \A q \in Procs \ {p} : pc'[q] = pc[q] /\ job'[q] = job[q]
    BY <1>10 DEF Finalize, Release, AfterFire
  <2>2. CASE UNCHANGED rows
    BY <2>1, <2>2, <1>1
  <2>3. ASSUME NEW row \in Row, rows' = [rows EXCEPT ![job[p].id] = row],
               row.next = None
        PROVE  Ledger!Next
    <3>1. job[p].id \in Ids
      BY <2>1 DEF Snapshot
    <3>2. Leased' = Leased
      BY <2>1 DEF Leased
    <3>3. Entered' = Entered
      BY <2>1 DEF Entered
    <3>4. \A j \in Ids \ {job[p].id} : rows'[j] = rows[j]
      BY <2>3
    <3>5. rows'[job[p].id].next = None
      BY <2>3, <3>1
    <3>6. Ledger!Rearm(job[p].id)
      BY <2>1, <3>1, <3>2, <3>3, <3>4, <3>5, RearmOrStutter
    <3> QED
      BY <3>1, <3>6 DEF Ledger!Next
  <2> QED
    BY <1>10, <2>1, <2>2, <2>3, FinalizeEffect
<1>11. ASSUME NEW id \in Ids, Operator(id)
       PROVE  Ledger!Next
  <2>1. /\ OperatorStep(id) /\ UNCHANGED <<pc, at, job, mark>>
        /\ fires' = {f \in fires : rows'[f.id] # Deleted}
    BY <1>11 DEF Operator, procVars, SurvivingFires
  <2>2. /\ \A j \in Ids \ {id} : rows'[j] = rows[j]
        /\ rows[id] # Deleted
        /\ rows'[id] # Unborn
    BY <2>1, OperatorEffect
  <2>3. Leased' = Leased
    BY <2>1 DEF Leased
  <2>4. \A f \in fires : f.id \in Ids /\ rows[f.id] \notin {Unborn, Deleted}
    BY DEF FinalInv, HistoryRowsInv, Exists, Fire
  <2>5. CASE rows'[id] = Deleted
    <3>1. Armed' = [j \in Ids |-> IF j \in {id} THEN None ELSE Armed[j]]
      BY <2>2, <2>5 DEF Armed, Exists
    <3>2. \A f \in fires : f \in fires' <=> f.id # id
      BY <2>1, <2>2, <2>4, <2>5
    <3>3. Entered' = {lease \in Entered : lease[1] \notin {id}}
      BY <2>1, <3>2 DEF Entered
    <3>4. Ledger!Forget({id})
      BY <2>1, <2>3, <3>1, <3>3 DEF Ledger!Forget
    <3> QED
      BY <3>4 DEF Ledger!Next
  <2>6. CASE rows'[id] # Deleted
    <3>1. fires' = fires
      BY <2>1, <2>2, <2>4, <2>6
    <3>2. Entered' = Entered
      BY <3>1 DEF Entered
    <3>3. Exists(id)' /\ rows'[id].next # None /\ mark[id] # None
             => rows'[id].next > mark[id]
      BY <2>1 DEF ClaimInv, ArmedPastMark
    <3>4. Ledger!Rearm(id)
      BY <2>1, <2>2, <2>3, <3>2, <3>3, RearmOrStutter
    <3> QED
      BY <3>4 DEF Ledger!Next
  <2> QED
    BY <2>5, <2>6
<1>12. ASSUME Tick \/ UNCHANGED vars
       PROVE  UNCHANGED Ledger!vars
  BY <1>12, <1>1 DEF Tick, ClockTick, procVars, vars
<1> QED
  BY <1>2, <1>3, <1>4, <1>5, <1>6, <1>8, <1>9, <1>10, <1>11, <1>12
     DEF Next, PassStep, CallerStep, FireStep, ExecuteNow, TriggerCronoton

\* Every behaviour of the tick, with any number of overlapping passes, crashes,
\* on-demand fires and operator calls, is a behaviour of the claim ledger.
THEOREM TickKeepsClaimLedger == Spec => KeepsClaimLedger
<1>1. Spec => []MapInv
  BY TypeCorrect, ClaimsAreOrdered, HistoryIsConsistent, PTL DEF MapInv
<1> QED
  BY <1>1, LedgerInit, LedgerStep, PTL DEF Spec, KeepsClaimLedger, Ledger!Spec

-----------------------------------------------------------------------------
(***************************************************************************)
(* One-time rows.  The timer takes such a row once: the claim leaves it    *)
(* unarmed with no instant of its schedule ahead, and only an edit to      *)
(* another schedule could arm it again.                                    *)
(***************************************************************************)

\* A one-time schedule names one instant (Schedule.tla's configs do: see
\* OneTimeNamesOneInstant of RootTickProofs).
OneInstant ==
    \A s \in OneTime : \A t, u \in Time :
        NextFire(s, t) # None /\ NextFire(s, u) # None => NextFire(s, t) = NextFire(s, u)

\* No edit carries a schedule: a one-time row edited to a later instant is meant
\* to fire again.
SchedulesAreKept == \A patch \in EditPatches : patch.sched = Keep

OneTimeRow(id) == Exists(id) /\ rows[id].sched \in OneTime

\* An armed row has not been claimed and waits for its instant.
ArmedOnceInv ==
    \A id \in Ids : OneTimeRow(id) /\ rows[id].next # None =>
        /\ mark[id] = None
        /\ \E t \in Time : rows[id].next = NextFire(rows[id].sched, t)

\* A claimed row has no instant left.
SpentInv ==
    \A id \in Ids : OneTimeRow(id) /\ mark[id] # None =>
        \A t \in Time : t >= mark[id] => NextFire(rows[id].sched, t) = None

UnclaimedInv == \A id \in Ids : rows[id] = Unborn => mark[id] = None

\* The timer's fires of one-time rows bear the row's claim.
OnceFiresInv ==
    \A f \in fires : f.once /\ f.by = "scheduler" =>
        rows[f.id].sched \in OneTime /\ f.at = mark[f.id]

\* The row a pass is firing bears that pass's claim.
OnceJobInv ==
    \A p \in Passes :
        pc[p] \in InFlight /\ job[p].row.sched \in OneTime /\ Exists(job[p].id) =>
            rows[job[p].id].sched \in OneTime /\ mark[job[p].id] = at[p]

\* The timer fires a one-time row once.
TimerFiresOnce ==
    \A f, g \in fires :
        f.once /\ g.once /\ f.by = "scheduler" /\ g.by = "scheduler" /\ f.id = g.id => f = g

OnceInv ==
    ArmedOnceInv /\ SpentInv /\ UnclaimedInv /\ OnceFiresInv /\ OnceJobInv /\ TimerFiresOnce

\* An operator's call keeps a row's schedule, and what it arms the row for is the
\* row's old instant or the schedule's next one.
LEMMA ScheduleKept ==
    ASSUME SchedulesAreKept, StoreTypeOK, NEW id \in Ids, OperatorStep(id), Exists(id)'
    PROVE  /\ Exists(id) => rows'[id].sched = rows[id].sched
           /\ ~Exists(id) => rows[id] = Unborn
           /\ rows'[id].next # None =>
                 \/ Exists(id) /\ rows'[id].next = rows[id].next
                 \/ rows'[id].next = NextFire(rows'[id].sched, now)
<1> USE StoreAssumption DEF StoreTypeOK, Exists
<1>1. ASSUME NEW input \in CommitInputs, Commit(id, input)
      PROVE  /\ rows[id] = Unborn
             /\ rows'[id].next # None => rows'[id].next = NextFire(rows'[id].sched, now)
  <2> DEFINE row == CommittedRow(input)
  <2>1. rows[id] = Unborn /\ rows'[id] = row
    BY <1>1 DEF Commit
  <2>2. row.sched = input.sched /\ row.next \in {None, NextFire(input.sched, now)}
    BY DEF CommittedRow
  <2> HIDE DEF row
  <2> QED
    BY <2>1, <2>2
<1>2. ASSUME NEW patch \in EditPatches, Edit(id, patch)
      PROVE  /\ Exists(id) /\ rows'[id].sched = rows[id].sched
             /\ rows'[id].next \in {None, rows[id].next, NextFire(rows[id].sched, now)}
  <2> DEFINE row == EditedRow(rows[id], patch)
  <2>1. Exists(id) /\ rows[id] \in Row /\ rows'[id] = row
    BY <1>2 DEF Edit
  <2>2. Patched(patch.sched, rows[id].sched) = rows[id].sched
    BY DEF SchedulesAreKept, Patched
  <2>3. row.sched = rows[id].sched /\ row.next = EditedNext(rows[id], patch)
    BY <2>1, <2>2 DEF EditedRow, Row
  <2>4. EditedNext(rows[id], patch) \in {None, rows[id].next, NextFire(rows[id].sched, now)}
    BY <2>2 DEF EditedNext
  <2> HIDE DEF row
  <2> QED
    BY <2>1, <2>3, <2>4
<1>3. ASSUME Pause(id)
      PROVE  Exists(id) /\ rows'[id].sched = rows[id].sched /\ rows'[id].next = rows[id].next
  <2>1. Exists(id) /\ rows[id] \in Row /\ rows'[id] = [rows[id] EXCEPT !.status = "paused"]
    BY <1>3 DEF Pause
  <2> QED
    BY <2>1 DEF Row
<1>4. ASSUME Resume(id)
      PROVE  /\ Exists(id) /\ rows'[id].sched = rows[id].sched
             /\ rows'[id].next \in {None, NextFire(rows[id].sched, now)}
  <2>1. /\ Exists(id) /\ rows[id] \in Row
        /\ rows'[id] = [rows[id] EXCEPT !.status = "active", !.next = ResumedNext(rows[id])]
    BY <1>4 DEF Resume, Row
  <2>2. ResumedNext(rows[id]) \in {None, NextFire(rows[id].sched, now)}
    BY DEF ResumedNext
  <2>3. rows'[id].sched = rows[id].sched /\ rows'[id].next = ResumedNext(rows[id])
    BY <2>1 DEF Row
  <2> QED
    BY <2>1, <2>2, <2>3
<1>5. ~Delete(id)
  BY DEF Delete
<1>6. CASE \E input \in CommitInputs : Commit(id, input)
  BY <1>1, <1>6
<1>7. CASE \E patch \in EditPatches : Edit(id, patch)
  BY <1>2, <1>7
<1>8. CASE Pause(id)
  BY <1>3, <1>8
<1>9. CASE Resume(id)
  BY <1>4, <1>9
<1> QED
  BY <1>5, <1>6, <1>7, <1>8, <1>9 DEF OperatorStep

\* No row, no claim, no fire.
LEMMA OnceInit == Init => OnceInv
  BY StoreAssumption, TickAssumption
     DEF Init, StoreInit, OnceInv, ArmedOnceInv, SpentInv, UnclaimedInv, OnceFiresInv,
         OnceJobInv, TimerFiresOnce, OneTimeRow, InFlight, Exists, Procs

\* What is already known of claims, snapshots and the history.
PriorInv == TypeInv /\ ClaimInv /\ SnapshotInv /\ FinalInv

\* A claim spends the row's instant; until an edit changes the schedule, resuming
\* the row finds no later one, so nothing arms it for a second claim.
LEMMA OnceStep ==
    ASSUME SchedulesAreKept, OneInstant
    PROVE  PriorInv /\ OnceInv /\ [Next]_vars => OnceInv'
<1> SUFFICES ASSUME PriorInv, OnceInv, [Next]_vars
             PROVE  OnceInv'
  OBVIOUS
<1> USE StoreAssumption, TickAssumption
<1> USE DEF PriorInv, TypeInv, TypeOK, StoreTypeOK, Time, JobInv, InFlight, Procs, OnceInv,
            OneTimeRow
<1>1. ASSUME UNCHANGED <<rows, fires, mark>>,
             \A q \in Passes : pc'[q] \in InFlight =>
                 pc[q] \in InFlight /\ job'[q] = job[q] /\ at'[q] = at[q]
      PROVE  OnceInv'
  <2>1. ArmedOnceInv' /\ SpentInv' /\ UnclaimedInv' /\ OnceFiresInv' /\ TimerFiresOnce'
    BY <1>1 DEF ArmedOnceInv, SpentInv, UnclaimedInv, OnceFiresInv, TimerFiresOnce, Exists
  <2>2. OnceJobInv'
    BY <1>1 DEF OnceJobInv, Exists
  <2> QED
    BY <2>1, <2>2
<1>2. ASSUME NEW p \in Passes, SelectDue(p)
      PROVE  OnceInv'
  BY <1>1, <1>2 DEF SelectDue
<1>3. ASSUME NEW p \in Passes, ClaimWon(p)
      PROVE  OnceInv'
  <2>1. PICK s \in todo[p], row \in Row :
           /\ s \in Snapshot
           /\ rows[s.id] \in Row /\ Exists(s.id)
           /\ rows[s.id].next # None /\ rows[s.id].next <= at[p]
           /\ rows' = [rows EXCEPT ![s.id] = row]
           /\ row.next = ClaimedNext(s.row, at[p])
           /\ row.sched = rows[s.id].sched
           /\ mark' = [mark EXCEPT ![s.id] = at[p]]
           /\ job' = [job EXCEPT ![p] = s]
    BY <1>3, ClaimEffect
  <2>2. /\ pc[p] = "pass" /\ pc' = [pc EXCEPT ![p] = "firing"]
        /\ UNCHANGED <<now, at, fires>>
    BY <1>3 DEF ClaimWon
  <2>3. /\ s.id \in Ids /\ at[p] \in Time /\ at[p] \in Nat /\ rows[s.id].next \in Nat
        /\ rows'[s.id] = row /\ mark'[s.id] = at[p] /\ at[p] # None
        /\ \A j \in Ids \ {s.id} : rows'[j] = rows[j] /\ mark'[j] = mark[j]
    BY <2>1 DEF Snapshot, Row
  <2>4. row.sched = s.row.sched
    BY <2>1 DEF SnapshotInv
  <2>5. row.sched \in OneTime => row.next = None /\ mark[s.id] = None
    BY <2>1, <2>3, <2>4 DEF ClaimedNext, ArmedOnceInv
  <2>6. ArmedOnceInv'
    <3> SUFFICES ASSUME NEW id \in Ids, OneTimeRow(id)', rows'[id].next # None
                 PROVE  /\ mark'[id] = None
                        /\ \E t \in Time : rows'[id].next = NextFire(rows'[id].sched, t)
      BY DEF ArmedOnceInv
    <3>1. id # s.id
      BY <2>3, <2>5
    <3> QED
      BY <2>3, <3>1 DEF ArmedOnceInv, Exists
  <2>7. SpentInv'
    <3> SUFFICES ASSUME NEW id \in Ids, OneTimeRow(id)', mark'[id] # None,
                        NEW t \in Time, t >= mark'[id]
                 PROVE  NextFire(rows'[id].sched, t) = None
      BY DEF SpentInv
    <3>1. CASE id = s.id
      <4> DEFINE sched == row.sched
      <4>1. sched \in OneTime /\ sched \in Schedules /\ t \in Nat /\ t >= at[p]
        BY <2>3, <3>1
      <4>2. PICK u \in Time : rows[s.id].next = NextFire(sched, u)
        BY <2>1, <2>3, <4>1 DEF ArmedOnceInv
      <4>3. NextFire(sched, t) # None => NextFire(sched, t) = NextFire(sched, u)
        BY <2>1, <4>1, <4>2 DEF OneInstant
      <4>4. NextFire(sched, t) # None => NextFire(sched, t) > t
        BY <4>1, NextFireAssumption
      <4>5. NextFire(sched, u) <= t /\ NextFire(sched, u) \in Nat
        BY <2>1, <2>3, <4>1, <4>2
      <4>6. NextFire(sched, t) = None
        <5> SUFFICES ASSUME NextFire(sched, t) # None PROVE FALSE
          OBVIOUS
        <5>1. NextFire(sched, u) > t
          BY <4>3, <4>4
        <5> HIDE DEF sched
        <5> QED
          BY <4>1, <4>5, <5>1
      <4> QED
        BY <2>3, <3>1, <4>6
    <3>2. CASE id # s.id
      BY <2>3, <3>2 DEF SpentInv, Exists
    <3> QED
      BY <3>1, <3>2
  <2>8. UnclaimedInv'
    BY <2>3 DEF UnclaimedInv
  <2>9. OnceFiresInv'
    <3> SUFFICES ASSUME NEW f \in fires, f.once, f.by = "scheduler"
                 PROVE  rows'[f.id].sched \in OneTime /\ f.at = mark'[f.id]
      BY <2>2 DEF OnceFiresInv
    <3>1. f.id \in Ids /\ rows[f.id].sched \in OneTime /\ f.at = mark[f.id] /\ mark[f.id] # None
      BY DEF OnceFiresInv, ClaimInv, HistoryInv, Fire
    <3>2. f.id # s.id
      BY <2>1, <2>5, <3>1
    <3> QED
      BY <2>3, <3>1, <3>2
  <2>10. OnceJobInv'
    <3> SUFFICES ASSUME NEW q \in Passes, pc'[q] \in InFlight,
                        job'[q].row.sched \in OneTime,
                        rows'[job'[q].id] \notin {Unborn, Deleted}
                 PROVE  rows'[job'[q].id].sched \in OneTime /\ mark'[job'[q].id] = at[q]
      BY <2>2 DEF OnceJobInv, Exists
    <3>1. CASE q = p
      <4>1. job'[q] = s
        BY <2>1, <3>1
      <4> QED
        BY <2>3, <2>4, <3>1, <4>1
    <3>2. CASE q # p
      <4>1. job'[q] = job[q] /\ pc[q] \in InFlight
        BY <2>1, <2>2, <3>2
      <4>2. job[q] \in Snapshot /\ job[q].id \in Ids /\ mark[job[q].id] # None
        BY <4>1 DEF Snapshot, ClaimInv, LeaseInv
      <4>3. CASE job[q].id = s.id
        <5>1. rows[s.id].sched \in OneTime
          BY <2>1, <4>1, <4>3 DEF OnceJobInv
        <5> QED
          BY <2>1, <2>5, <4>2, <4>3, <5>1
      <4>4. CASE job[q].id # s.id
        BY <2>3, <4>1, <4>2, <4>4 DEF OnceJobInv, Exists
      <4> QED
        BY <4>3, <4>4
    <3> QED
      BY <3>1, <3>2
  <2>11. TimerFiresOnce'
    BY <2>2 DEF TimerFiresOnce
  <2> QED
    BY <2>6, <2>7, <2>8, <2>9, <2>10, <2>11
<1>4. ASSUME NEW p \in Procs, ClaimLost(p) \/ EndPass(p) \/ Crash(p)
      PROVE  OnceInv'
  BY <1>1, <1>4 DEF ClaimLost, EndPass, Crash
<1>5. ASSUME NEW p \in Callers, NEW id \in Ids, ReadActive(p, id)
      PROVE  OnceInv'
  BY <1>1, <1>5 DEF ReadActive
<1>6. ASSUME NEW p \in Procs,
             FireJob(p) \/ DispatchThrows(p) \/ RecordThrows(p) \/ FinalizeThrows(p)
      PROVE  OnceInv'
  BY <1>1, <1>6 DEF FireJob, DispatchThrows, RecordThrows, FinalizeThrows, Release, AfterFire
<1>7. ASSUME NEW p \in Procs, Record(p)
      PROVE  OnceInv'
  <2> DEFINE f == RecordedFire(p)
  <2>1. /\ UNCHANGED <<rows, now, at, todo, job, mark>>
        /\ fires' = fires \cup {f}
        /\ pc[p] = "fired" /\ pc' = [pc EXCEPT ![p] = "recorded"]
        /\ Exists(job[p].id)
    BY <1>7 DEF Record
  <2>2. /\ f.id = job[p].id /\ f.at = FiredAt(p) /\ f.once = (job[p].row.sched \in OneTime)
        /\ f.by = IF p \in Passes THEN "scheduler" ELSE p
    BY DEF RecordedFire
  <2> HIDE DEF f
  <2>3. ArmedOnceInv' /\ SpentInv' /\ UnclaimedInv'
    BY <2>1 DEF ArmedOnceInv, SpentInv, UnclaimedInv, Exists
  <2>4. OnceJobInv'
    BY <2>1 DEF OnceJobInv, Exists
  <2>5. CASE ~f.once \/ p \notin Passes
    <3>1. ~f.once \/ f.by # "scheduler"
      BY <2>2, <2>5
    <3>2. OnceFiresInv' /\ TimerFiresOnce'
      BY <2>1, <3>1 DEF OnceFiresInv, TimerFiresOnce
    <3> QED
      BY <2>3, <2>4, <3>2
  <2>6. CASE f.once /\ p \in Passes
    <3>1. /\ f.by = "scheduler" /\ f.at = at[p] /\ f.id = job[p].id
          /\ rows[f.id].sched \in OneTime /\ mark[f.id] = at[p]
      BY <2>1, <2>2, <2>6 DEF OnceJobInv, FiredAt
    <3>2. \A g \in fires : ~(g.by = "scheduler" /\ g.id = f.id /\ g.at = at[p])
      BY <2>1, <2>6, <3>1 DEF ClaimInv, OneFirePerClaim
    <3>3. \A g \in fires : g.once /\ g.by = "scheduler" => g.id # f.id
      BY <3>1, <3>2 DEF OnceFiresInv
    <3>4. OnceFiresInv'
      BY <2>1, <3>1 DEF OnceFiresInv
    <3>5. TimerFiresOnce'
      BY <2>1, <3>3 DEF TimerFiresOnce
    <3> QED
      BY <2>3, <2>4, <3>4, <3>5
  <2> QED
    BY <2>2, <2>5, <2>6
<1>8. ASSUME NEW p \in Procs, Finalize(p)
      PROVE  OnceInv'
  <2>1. /\ UNCHANGED <<now, at, fires, mark>>
        /\ job[p] \in Snapshot /\ out[p] \in Outcome
        /\ \A q \in Passes : pc'[q] \in InFlight => pc[q] \in InFlight /\ job'[q] = job[q]
    BY <1>8 DEF Finalize, Release, AfterFire
  <2>2. CASE UNCHANGED rows
    BY <1>1, <2>1, <2>2
  <2>3. ASSUME NEW row \in Row, rows' = [rows EXCEPT ![job[p].id] = row],
               Exists(job[p].id), row.next = None, row.sched = rows[job[p].id].sched
        PROVE  OnceInv'
    <3>1. job[p].id \in Ids
      BY <2>1 DEF Snapshot
    <3>2. \A j \in Ids :
             /\ Exists(j)' => Exists(j) /\ rows'[j].sched = rows[j].sched
             /\ Exists(j) => rows'[j].sched = rows[j].sched
             /\ \/ rows'[j] = rows[j]
                \/ rows'[j].next = None /\ rows'[j] # Unborn
      BY <2>3, <3>1 DEF Exists
    <3>3. ArmedOnceInv' /\ SpentInv' /\ UnclaimedInv'
      BY <2>1, <3>2 DEF ArmedOnceInv, SpentInv, UnclaimedInv
    <3>4. OnceFiresInv' /\ TimerFiresOnce'
      <4>1. \A f \in fires : f.id \in Ids /\ Exists(f.id)
        BY DEF FinalInv, HistoryRowsInv, Fire
      <4> QED
        BY <2>1, <3>2, <4>1 DEF OnceFiresInv, TimerFiresOnce
    <3>5. OnceJobInv'
      <4>1. \A q \in Passes : pc[q] \in InFlight => job[q].id \in Ids
        BY DEF Snapshot
      <4> QED
        BY <2>1, <3>2, <4>1 DEF OnceJobInv
    <3> QED
      BY <3>3, <3>4, <3>5
  <2> QED
    BY <1>8, <2>1, <2>2, <2>3, FinalizeEffect
<1>9. ASSUME NEW id \in Ids, Operator(id)
      PROVE  OnceInv'
  <2>1. /\ OperatorStep(id) /\ UNCHANGED <<pc, at, job, mark>>
        /\ fires' = {f \in fires : rows'[f.id] # Deleted}
    BY <1>9 DEF Operator, procVars, SurvivingFires
  <2>2. /\ now' = now
        /\ \A j \in Ids \ {id} : rows'[j] = rows[j]
        /\ rows'[id] # Unborn
    BY <2>1, OperatorEffect
  <2>3. Exists(id)' =>
          /\ Exists(id) => rows'[id].sched = rows[id].sched
          /\ ~Exists(id) => rows[id] = Unborn
          /\ rows'[id].next # None =>
                \/ Exists(id) /\ rows'[id].next = rows[id].next
                \/ rows'[id].next = NextFire(rows'[id].sched, now)
    BY <2>1, ScheduleKept
  <2>4. ArmedOnceInv'
    <3> SUFFICES ASSUME NEW j \in Ids, OneTimeRow(j)', rows'[j].next # None
                 PROVE  /\ mark[j] = None
                        /\ \E t \in Time : rows'[j].next = NextFire(rows'[j].sched, t)
      BY <2>1 DEF ArmedOnceInv
    <3>1. CASE j # id
      BY <2>2, <3>1 DEF ArmedOnceInv, Exists
    <3>2. CASE j = id /\ Exists(id) /\ rows'[id].next = rows[id].next
      BY <2>3, <3>2 DEF ArmedOnceInv
    <3>3. CASE j = id /\ rows'[id].next = NextFire(rows'[id].sched, now)
      <4>1. mark[id] = None
        <5>1. CASE Exists(id)
          <6>1. mark[id] # None => mark[id] <= now
            BY DEF ClaimInv, PastInv
          <6>2. mark[id] # None => now >= mark[id]
            BY <6>1
          <6> QED
            BY <2>3, <3>3, <5>1, <6>2 DEF SpentInv
        <5>2. CASE ~Exists(id)
          BY <2>3, <3>3, <5>2 DEF UnclaimedInv
        <5> QED
          BY <5>1, <5>2
      <4> QED
        BY <3>3, <4>1
    <3> QED
      BY <2>3, <3>1, <3>2, <3>3
  <2>5. SpentInv'
    <3>1. \A j \in Ids : OneTimeRow(j)' /\ mark[j] # None =>
             OneTimeRow(j) /\ rows'[j].sched = rows[j].sched
      BY <2>2, <2>3 DEF UnclaimedInv, Exists
    <3> QED
      BY <2>1, <3>1 DEF SpentInv
  <2>6. UnclaimedInv'
    BY <2>1, <2>2 DEF UnclaimedInv
  <2>7. OnceFiresInv' /\ TimerFiresOnce'
    <3>1. \A f \in fires' : f \in fires /\ f.id \in Ids /\ Exists(f.id) /\ rows'[f.id] # Deleted
      BY <2>1 DEF FinalInv, HistoryRowsInv, Fire
    <3>2. \A f \in fires' : rows'[f.id].sched = rows[f.id].sched
      BY <2>2, <2>3, <3>1 DEF Exists
    <3> QED
      BY <2>1, <3>1, <3>2 DEF OnceFiresInv, TimerFiresOnce
  <2>8. OnceJobInv'
    <3> SUFFICES ASSUME NEW q \in Passes, pc[q] \in InFlight,
                        job[q].row.sched \in OneTime,
                        rows'[job[q].id] \notin {Unborn, Deleted}
                 PROVE  rows'[job[q].id].sched \in OneTime /\ mark[job[q].id] = at[q]
      BY <2>1 DEF OnceJobInv, Exists
    <3>1. job[q].id \in Ids /\ rows[job[q].id] # Unborn
      BY DEF FinalInv, BornInv, Snapshot
    <3>2. Exists(job[q].id) /\ rows'[job[q].id].sched = rows[job[q].id].sched
      BY <2>2, <2>3, <3>1 DEF Exists
    <3> QED
      BY <3>2 DEF OnceJobInv
  <2> QED
    BY <2>4, <2>5, <2>6, <2>7, <2>8
<1>10. ASSUME Tick \/ UNCHANGED vars
       PROVE  OnceInv'
  BY <1>1, <1>10 DEF Tick, ClockTick, procVars, vars
<1> QED
  BY <1>2, <1>3, <1>4, <1>5, <1>6, <1>7, <1>8, <1>9, <1>10
     DEF Next, PassStep, CallerStep, FireStep, ExecuteNow, TriggerCronoton

\* Overlapping passes, crashes, on-demand requests, pauses, resumes and edits of
\* other fields together never make the timer fire a one-time row twice.
THEOREM TheTimerFiresOneTimesOnce ==
    ASSUME SchedulesAreKept, OneInstant
    PROVE  Spec => []TimerFiresOnce
<1>1. Spec => []PriorInv
  BY TypeCorrect, ClaimsAreOrdered, SnapshotsAreCurrent, HistoryIsConsistent, PTL DEF PriorInv
<1>2. PriorInv /\ OnceInv /\ [Next]_vars => OnceInv'
  BY OnceStep
<1>3. OnceInv => TimerFiresOnce
  BY DEF OnceInv
<1> QED
  BY <1>1, <1>2, <1>3, OnceInit, PTL DEF Spec

\* Where nobody fires on demand, a one-time row has one fire in its history.
THEOREM OneTimesFireOnce ==
    ASSUME SchedulesAreKept, OneInstant, Callers = {}
    PROVE  Spec => []OneTimeFiresOnce
<1>1. TypeInv /\ TimerFiresOnce => OneTimeFiresOnce
  BY DEF TypeInv, TypeOK, Fire, TimerFiresOnce, OneTimeFiresOnce
<1> QED
  BY <1>1, TypeCorrect, TheTimerFiresOneTimesOnce, PTL
=============================================================================
