---------------------------- MODULE MCServerTick ----------------------------
(***************************************************************************)
(* Instances of ServerTick for TLC.  Schedules over the small clock:       *)
(*   once     one-time, fireAt = 1                                         *)
(*   soon     one-time, one unit after the arming call (an operator that   *)
(*            picks a new date)                                            *)
(*   every1, every2   every-n-minutes from 0 with that interval            *)
(*   dying    recurring, with no further fire once it has fired at 1 (the  *)
(*            engine throws, or the stored config is corrupt)              *)
(***************************************************************************)
EXTENDS ServerTick, TLC

MCNextFire(s, t) ==
    CASE s = "once" -> IF t < 1 THEN 1 ELSE None
      [] s = "soon" -> IF t < MaxTime THEN t + 1 ELSE None
      [] s = "every1" -> t + 1
      [] s = "every2" -> 2 * ((t \div 2) + 1)
      [] s = "dying" -> IF t < 1 THEN 1 ELSE None

Plain == [sched |-> "every1", resolver |-> None, ext |-> FALSE, args |-> FALSE,
          eventDriven |-> FALSE, def |-> "d1"]

With(sched) == [Plain EXCEPT !.sched = sched]

NoPatch == [sched |-> Keep, resolver |-> Keep, eventDriven |-> FALSE, def |-> Keep]

\* Commits of one plain row per schedule.
PlainCommits == {With(s) : s \in Schedules}

\* Every combination of flags and resolvers, on one schedule.
FlagCommits ==
    {[Plain EXCEPT !.resolver = r, !.ext = e, !.args = a, !.eventDriven = v] :
        r \in Resolvers \cup {None}, e, a, v \in BOOLEAN}

NoEdits == {}

RepointEdits ==
    {[NoPatch EXCEPT !.resolver = r, !.sched = s, !.eventDriven = v] :
        r \in Resolvers \cup {None, Keep}, s \in Schedules \cup {Keep},
        v \in BOOLEAN}

ArgsCommits == {[Plain EXCEPT !.args = TRUE]}

OneTimeResolverCommits == {[With("once") EXCEPT !.resolver = r] : r \in Resolvers}

OnDemandCommits == PlainCommits \cup OneTimeResolverCommits \cup ArgsCommits

TickSymmetry == Permutations(Passes) \cup Permutations(Ids)
PassSymmetry == Permutations(Passes)
=============================================================================
