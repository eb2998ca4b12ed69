---------------------------- MODULE MCDetailPage ----------------------------
(***************************************************************************)
(* An instance of DetailPage for TLC: a row of a multi-tx resolver and a   *)
(* one-time row with runtime args, and an operator who binds and unbinds.  *)
(***************************************************************************)
EXTENDS DetailPage, TLC

MCNextFire(s, t) == t + 1

System == [sched |-> "hourly", resolver |-> "multi", ext |-> FALSE, args |-> FALSE,
           eventDriven |-> FALSE, def |-> "def"]

Triggered == [System EXCEPT !.sched = "once", !.resolver = None, !.args = TRUE]

Bodies == {System, Triggered}

MCStart == ("a" :> System) @@ ("b" :> Triggered)

\* A page of each row; two more fires give the system row three.
Done(id, outcome) ==
    [of |-> id, status |-> outcome, recovered |-> FALSE, worker |-> FALSE, ends |-> 0]

MCPast == <<Done("b", "success"), Done("a", "failure")>>

Rebinds == {[sched |-> Keep, resolver |-> r, eventDriven |-> FALSE, def |-> Keep] :
               r \in {None, "multi"}}
=============================================================================
