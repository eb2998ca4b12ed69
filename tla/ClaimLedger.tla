---------------------------- MODULE ClaimLedger ----------------------------
(***************************************************************************)
(* The promise behind "a due fire happens once and only once": a cronoton  *)
(* is armed for one instant at a time; a claim consumes that instant under *)
(* a stamp that is later than every stamp before it, and hands out a lease *)
(* for the pair; a lease is entered in the ledger at most once, by giving  *)
(* it up, or is lost.                                                      *)
(***************************************************************************)
EXTENDS Integers

CONSTANTS Ids, None, Time

VARIABLES
    armed,   \* the instant each cronoton is armed for, or None
    mark,    \* the stamp of its last claim, or None
    leased,  \* claims being fired: <<id, stamp>>
    ledger   \* claims recorded: <<id, stamp>>

vars == <<armed, mark, leased, ledger>>

Init ==
    /\ armed = [id \in Ids |-> None]
    /\ mark = [id \in Ids |-> None]
    /\ leased = {}
    /\ ledger = {}

PastMark(t, id) == mark[id] # None => t > mark[id]

\* An operator arms the cronoton for another instant, or disarms it.
Rearm(id) ==
    /\ \A j \in Ids \ {id} : armed'[j] = armed[j]
    /\ armed'[id] # None => PastMark(armed'[id], id)
    /\ UNCHANGED <<mark, leased, ledger>>

\* A claim: no earlier stamp, so no earlier claim of the same instant.
Claim(id, t) ==
    /\ armed[id] # None
    /\ PastMark(armed[id], id)
    /\ armed[id] <= t
    /\ <<id, t>> \notin leased \cup ledger
    /\ mark' = [mark EXCEPT ![id] = t]
    /\ \A j \in Ids \ {id} : armed'[j] = armed[j]
    /\ armed'[id] # None => armed'[id] > t
    /\ leased' = leased \cup {<<id, t>>}
    /\ UNCHANGED ledger

\* The fire is recorded and the lease given up.
Enter(lease) ==
    /\ lease \in leased
    /\ lease \notin ledger
    /\ leased' = leased \ {lease}
    /\ ledger' = ledger \cup {lease}
    /\ UNCHANGED <<armed, mark>>

\* The fire broke off: its lease is lost, not handed out again.
Lose(lease) ==
    /\ lease \in leased
    /\ leased' = leased \ {lease}
    /\ UNCHANGED <<armed, mark, ledger>>

\* Cronotons are deleted with their history.
Forget(gone) ==
    /\ armed' = [id \in Ids |-> IF id \in gone THEN None ELSE armed[id]]
    /\ ledger' = {lease \in ledger : lease[1] \notin gone}
    /\ UNCHANGED <<mark, leased>>

Next ==
    \/ \E id \in Ids : Rearm(id)
    \/ \E gone \in SUBSET Ids : Forget(gone)
    \/ \E id \in Ids, t \in Time : Claim(id, t)
    \/ \E lease \in leased : Enter(lease) \/ Lose(lease)

Spec == Init /\ [][Next]_vars
=============================================================================
