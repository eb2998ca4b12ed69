--------------------------- MODULE MCManualBatch ---------------------------
(***************************************************************************)
(* Instances of ManualBatch for TLC: the cronotons are event-driven (no    *)
(* next fire to vary), recurring or one-time, plain or resolver rows.      *)
(***************************************************************************)
EXTENDS ManualBatch, TLC

MCNextFire(s, t) ==
    IF s \in OneTime THEN IF t < MaxTime THEN t + 1 ELSE None ELSE t + 1

Plain(sched) == [sched |-> sched, resolver |-> None, ext |-> FALSE,
                 args |-> FALSE, eventDriven |-> TRUE, def |-> "d1"]

MCCommits ==
    {Plain(s) : s \in Schedules}
        \cup {[Plain("every1") EXCEPT !.resolver = r] : r \in Resolvers}

NoEdits == {}

MCSymmetry == Permutations(Workers) \cup Permutations(Batches)
=============================================================================
