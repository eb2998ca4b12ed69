------------------------------ MODULE RootTick ------------------------------
(***************************************************************************)
(* The injectable engine of packages/khronoton-core/src/tick.ts: tickOnce  *)
(* over a host that keeps one next-fire instant per row, with the schedule *)
(* engine of module Schedule.  A tick enqueues a row's fire before the     *)
(* host persists its advance; either hook may throw and the process may    *)
(* die between the two, so a fire may be enqueued again, but is never      *)
(* dropped.                                                                *)
(*                                                                         *)
(* A tick is synchronous: the clock stands still while it runs.            *)
(***************************************************************************)
EXTENDS Schedule

CONSTANTS
    Ids,          \* the host's rows
    Plans,        \* how the host's rows may be scheduled
    Starts,       \* instants the host may be started at
    Delays,       \* how late after the earliest due instant a tick may come
    MaxBatch,     \* deps.maxBatch
    MaxFires,     \* bound on enqueued fires
    MaxFailures   \* bound on throwing hooks and crashes

Configs == {plan[id] : plan \in Plans, id \in Ids}

ASSUME RootTickAssumption ==
    /\ Null \notin Ids
    /\ Plans \subseteq [Ids -> Configs] /\ \A c \in Configs : IsConfig(c)
    /\ Starts \cup Delays \subseteq Nat
    /\ MaxBatch \in Nat \ {0}
    /\ {MaxFires, MaxFailures} \subseteq Nat

VARIABLES
    config,    \* each row's schedule
    next,      \* each row's next fire as the host keeps it, or Null
    since,     \* history: the instant that next was computed from
    now,       \* the host's clock
    pc,        \* between ticks, in one, or between its two hooks
    todo,      \* rows of the tick not reached yet
    row,       \* the row whose fire is enqueued and not persisted
    fired, skipped,  \* the tick's result so far
    enqueued,  \* fires handed to the host's queue: <<row, due instant>>
    failures

tickVars == <<pc, todo, row, fired, skipped>>
vars == <<config, next, since, now, pc, todo, row, fired, skipped, enqueued, failures>>

TypeOK ==
    /\ config \in [Ids -> Configs]
    /\ next \in [Ids -> Int \cup {Null}]
    /\ since \in [Ids -> Int] /\ now \in Int
    /\ pc \in {"idle", "tick", "enqueued", "answered"}
    /\ todo \subseteq Ids /\ fired \subseteq Ids /\ skipped \subseteq Ids
    /\ row \in Ids \cup {Null}
    /\ enqueued \subseteq Ids \X Int
    /\ failures \in 0..MaxFailures

\* The host stores a row with the next fire computed at its start; one without
\* a future fire is stored with none.
Init ==
    /\ now \in Starts
    /\ config \in Plans
    /\ since = [id \in Ids |-> now]
    /\ next = [id \in Ids |->
          LET n == computeNextFire(config[id], now)
          IN  IF n \in {Null, Thrown} THEN Null ELSE n]
    /\ pc = "idle"
    /\ todo = {} /\ row = Null
    /\ fired = {} /\ skipped = {}
    /\ enqueued = {}
    /\ failures = 0

Due == {id \in Ids : next[id] # Null /\ next[id] <= now}

\* loadDue in any order, cut to the cap.
Tick ==
    /\ pc = "idle"
    /\ Due # {}
    /\ \E due \in SUBSET Due :
          /\ Cardinality(due) =
                IF Cardinality(Due) < MaxBatch THEN Cardinality(Due) ELSE MaxBatch
          /\ todo' = due
    /\ pc' = "tick"
    /\ fired' = {} /\ skipped' = {}
    /\ UNCHANGED <<config, next, since, now, row, enqueued, failures>>

Following(id) == computeNextFire(config[id], now)

\* A spent one-time schedule, or a config the engine rejects.
Skip(id) ==
    /\ pc = "tick" /\ id \in todo
    /\ Following(id) \in {Null, Thrown}
    /\ todo' = todo \ {id}
    /\ skipped' = skipped \cup {id}
    /\ UNCHANGED <<config, next, since, now, pc, row, fired, enqueued, failures>>

Ready(id) == Following(id) \notin {Null, Thrown}

Enqueue(id) ==
    /\ pc = "tick" /\ id \in todo
    /\ Ready(id)
    /\ Cardinality(enqueued) < MaxFires
    /\ enqueued' = enqueued \cup {<<id, next[id]>>}
    /\ row' = id
    /\ todo' = todo \ {id}
    /\ pc' = "enqueued"
    /\ UNCHANGED <<config, next, since, now, fired, skipped, failures>>

Fails == failures < MaxFailures /\ failures' = failures + 1

\* Fault variant of AfterThrow: the advance is persisted although no fire was
\* enqueued.
AfterThrowAdvanced(id) == [next EXCEPT ![id] = Following(id)]

\* The host's row after its enqueue hook has thrown.
AfterThrow(id) == next

EnqueueThrows(id) ==
    /\ pc = "tick" /\ id \in todo
    /\ Ready(id)
    /\ Fails
    /\ next' = AfterThrow(id)
    /\ todo' = todo \ {id}
    /\ skipped' = skipped \cup {id}
    /\ UNCHANGED <<config, since, now, pc, row, fired, enqueued>>

Persist ==
    /\ pc = "enqueued"
    /\ next' = [next EXCEPT ![row] = Following(row)]
    /\ since' = [since EXCEPT ![row] = now]
    /\ fired' = fired \cup {row}
    /\ row' = Null
    /\ pc' = "tick"
    /\ UNCHANGED <<config, now, todo, skipped, enqueued, failures>>

PersistThrows ==
    /\ pc = "enqueued"
    /\ Fails
    /\ skipped' = skipped \cup {row}
    /\ row' = Null
    /\ pc' = "tick"
    /\ UNCHANGED <<config, next, since, now, todo, fired, enqueued>>

Answer ==
    /\ pc = "tick" /\ todo = {}
    /\ pc' = "answered"
    /\ UNCHANGED <<config, next, since, now, todo, row, fired, skipped, enqueued, failures>>

Crash ==
    /\ pc \in {"tick", "enqueued"}
    /\ Fails
    /\ pc' = "idle"
    /\ todo' = {} /\ row' = Null
    /\ fired' = {} /\ skipped' = {}
    /\ UNCHANGED <<config, next, since, now, enqueued>>

\* The host wakes up at, or some time after, the earliest instant still ahead.
Sleep ==
    /\ pc \in {"idle", "answered"}
    /\ pc' = "idle"
    /\ \E id \in Ids, d \in Delays :
          /\ next[id] # Null
          /\ next[id] + d > now
          /\ \A o \in Ids : next[o] # Null /\ next[o] > now => next[id] <= next[o]
          /\ now' = next[id] + d
    /\ UNCHANGED <<config, next, since, todo, row, fired, skipped, enqueued, failures>>

\* The host ticks again at once.
Again ==
    /\ pc = "answered"
    /\ pc' = "idle"
    /\ UNCHANGED <<config, next, since, now, todo, row, fired, skipped, enqueued, failures>>

TickStep ==
    \/ Tick \/ Persist \/ PersistThrows \/ Answer \/ Again
    \/ \E id \in Ids : Skip(id) \/ Enqueue(id) \/ EnqueueThrows(id)

Next == TickStep \/ Crash \/ Sleep

Spec == Init /\ [][Next]_vars

-----------------------------------------------------------------------------
(* Properties *)

\* The fire instants of a schedule on one day, as the table of modes in
\* packages/khronoton-core/README.md describes them: two restricted day fields of
\* a cron expression are alternatives, and one that is its full range is not.
Occurrences(c, day) ==
    CASE c.mode = "daily-at-utc" -> {At(day, h, c.minute) : h \in c.hours}
      [] c.mode = "several-times-per-day" -> {At(day, x.hour, x.minute) : x \in c.times}
      [] c.mode = "weekly" ->
            IF DayOfWeek(day) \in c.days THEN {At(day, c.hour, c.minute)} ELSE {}
      [] c.mode = "monthly" ->
            IF DayOfMonth(day) \in c.days THEN {At(day, c.hour, c.minute)} ELSE {}
      [] c.mode = "every-n-minutes" ->
            LET n == c.interval * Minute
                k == (day * Day - c.start) \div n
            IN  {t \in {c.start + j * n : j \in k..k + Day \div n + 1} :
                    t >= c.start /\ DayOf(t) = day}
      [] c.mode = "one-time" -> {t \in {c.fireAt} : DayOf(t) = day}
      [] c.mode = "cron-expression" ->
            LET p == ParsedCron(c.expression)
                dom == DayOfMonth(day) \in p.daysOfMonth
                dow == DayOfWeek(day) \in p.daysOfWeek
                either == ~(1..31 \subseteq p.daysOfMonth) /\ ~(0..6 \subseteq p.daysOfWeek)
            IN  IF Month(day) \in p.months /\ (IF either THEN dom \/ dow ELSE dom /\ dow)
                THEN {At(day, h, m) : h \in p.hours, m \in p.minutes}
                ELSE {}

\* The instant a row waits for is an occurrence of its schedule, and none lies
\* between the instant it was computed from and it: no fire is missed or
\* invented, over months, leap days and year ends.
NoOccurrenceMissed ==
    \A id \in Ids : next[id] # Null =>
        LET n == next[id] IN
        /\ n > since[id]
        /\ n \in Occurrences(config[id], DayOf(n))
        /\ \A day \in DayOf(since[id])..DayOf(n) :
              \A o \in Occurrences(config[id], day) : o <= since[id] \/ o >= n

\* No row is advanced past an instant whose fire the host's queue has not got,
\* whatever throws or dies.
AdvancedOnlyWhenEnqueued ==
    [][\A id \in Ids : next'[id] # next[id] => <<id, next[id]>> \in enqueued]_vars

\* Without a failing hook or a crash no fire is handed over twice.
OnceUnlessFailed ==
    [][\A id \in Ids :
          row' = id /\ row # id => failures > 0 \/ <<id, next[id]>> \notin enqueued]_vars

\* "Recurring modes always yield a future Date" (schedule.ts, TOTAL): no row of
\* a recurring mode is ever left without a following instant.
RecurringAlwaysFires ==
    \A id \in Ids : config[id].mode \in Recurring => Following(id) # Thrown
=============================================================================
