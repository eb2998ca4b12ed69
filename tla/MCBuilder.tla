----------------------------- MODULE MCBuilder -----------------------------
(***************************************************************************)
(* An instance of Builder for TLC: one code key, one payload beside the    *)
(* empty one, an incomplete schedule, an evented resolver the host's       *)
(* options do not mark, and a row on the timer beside one on an event.      *)
(***************************************************************************)
EXTENDS Builder, TLC

MCNextFire(s, t) == IF s = "blank" THEN None ELSE t + 1

MCEnvelope ==
    [code |-> "code", config |-> [auto |-> FALSE, limit |-> Typed],
     payload |-> "data", payer |-> [kind |-> "codex", key |-> "k"],
     signers |-> [j \in {"k"} |-> "scoped"]]

Timed ==
    [sched |-> "hourly", resolver |-> None, ext |-> FALSE, args |-> FALSE,
     eventDriven |-> FALSE, def |-> MCEnvelope]

AutoTimed == [Timed EXCEPT !.def.config.auto = TRUE, !.def.config.limit = Calibrated]

OnEvent ==
    [Timed EXCEPT !.resolver = "event", !.ext = TRUE, !.eventDriven = TRUE, !.sched = "blank"]

Earlier == {AutoTimed, OnEvent}

MCStart == ("a" :> AutoTimed) @@ ("b" :> OnEvent) @@ ("n" :> None)
=============================================================================
