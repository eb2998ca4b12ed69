---------------------------- MODULE FireContract ----------------------------
(***************************************************************************)
(* What a fire promises its caller.  It puts at most one transaction on    *)
(* the wire.  It reports success only when that transaction has succeeded  *)
(* on the chain.  Whatever it reports carries the transaction's request    *)
(* key if it sent one, so that a landing nobody observed can be reconciled *)
(* later; only of a command signed without a hash may a failure be         *)
(* reported without its key.  A failure may be reconciled afterwards: then *)
(* the report has the operator's word and key, and says that it has.       *)
(***************************************************************************)
CONSTANTS
    Fires, Keys, None,
    Hashed   \* the keys the fire can compute from the command itself

VARIABLES
    sent,    \* the request key each fire has put on the wire, or None
    fate,    \* what became of that transaction
    report   \* what the fire's record says, or None

Outcome == {"ok", "failed", "gone"}

Init ==
    /\ sent = [f \in Fires |-> None]
    /\ fate = [f \in Fires |-> "none"]
    /\ report = [f \in Fires |-> None]

Send(f) ==
    /\ sent[f] = None /\ report[f] = None
    /\ \E k \in Keys : sent' = [sent EXCEPT ![f] = k]
    /\ fate' = [fate EXCEPT ![f] = "out"]
    /\ UNCHANGED report

\* The network decides, also after the report.
Land(f) ==
    /\ fate[f] = "out"
    /\ \E o \in Outcome : fate' = [fate EXCEPT ![f] = o]
    /\ UNCHANGED <<sent, report>>

ReportSuccess(f) ==
    /\ report[f] = None
    /\ fate[f] = "ok"
    /\ report' = [report EXCEPT ![f] = [ok |-> TRUE, key |-> sent[f], recovered |-> FALSE]]
    /\ UNCHANGED <<sent, fate>>

ReportFailure(f) ==
    /\ report[f] = None
    /\ \E k \in {sent[f], None} :
          /\ k = sent[f] \/ sent[f] \notin Hashed
          /\ report' = [report EXCEPT ![f] = [ok |-> FALSE, key |-> k, recovered |-> FALSE]]
    /\ UNCHANGED <<sent, fate>>

\* The word of the operator, who is trusted with it.
Reconcile(f) ==
    /\ report[f] # None /\ ~report[f].ok
    /\ \E k \in Keys :
          report' = [report EXCEPT ![f] = [ok |-> TRUE, key |-> k, recovered |-> TRUE]]
    /\ UNCHANGED <<sent, fate>>

Next ==
    \E f \in Fires :
        Send(f) \/ Land(f) \/ ReportSuccess(f) \/ ReportFailure(f) \/ Reconcile(f)

Spec == Init /\ [][Next]_<<sent, fate, report>>
=============================================================================
