----------------------------- MODULE ChainFire -----------------------------
(***************************************************************************)
(* One fire, from the dispatcher (server/resolvers.ts) through the         *)
(* executor (server/executor.ts) to its row in codex_cronoton_fires and a  *)
(* later manual recovery, for any number of fires in flight at once.       *)
(*                                                                         *)
(* A transaction is named by its request key <<f, n>>, the n-th command    *)
(* fire f has signed: the key is the hash of the signed command.  The      *)
(* network may drop, delay or accept a command whatever the client sees.   *)
(* The rows of a resolver's plan are Items; settling is the host's.        *)
(***************************************************************************)
EXTENDS Integers, FiniteSets

CONSTANTS
    Fires,        \* fires, one shot each
    Definitions,  \* the definitions they may fire
    Items,        \* what a single-tx resolver plans and settles
    Hashed,       \* the commands whose signed form carries its own hash
    MaxCrashes,   \* bound on process crashes
    None

Definition == [resolver : {"none", "single", "multi", "unknown"},
               once : BOOLEAN, autoGas : BOOLEAN]

Keys == Fires \X {1, 2}

Result == [ok : BOOLEAN, key : Keys \cup {None},
           intent : {"completed", "error", None}]
\* recovered: the operator has set recovered_at.
FireRow == [ok : BOOLEAN, key : Keys \cup {None}, recovered : BOOLEAN]

ASSUME ChainAssumption ==
    /\ Definitions \subseteq Definition
    /\ Hashed \subseteq Keys
    /\ MaxCrashes \in Nat
    /\ None \notin Keys \cup Definition \cup FireRow \cup {"completed", "error"}

VARIABLES
    pc,        \* where each fire is
    def,       \* what it fires
    plan,      \* the items its payload carries
    signed,    \* how many commands it has signed; the last is submitted
    key,       \* the request key it listens under
    answer,    \* the FireResult it returns
    chain,     \* each command's place in the network
    record,    \* the fire's row in codex_cronoton_fires
    settled,   \* items a settlement has marked as paid
    crashes

vars == <<pc, def, plan, signed, key, answer, chain, record, settled, crashes>>

Final == {"recorded", "threw", "dead"}

TypeOK ==
    /\ pc \in [Fires -> {"idle", "resolving", "guarding", "running", "signing",
                          "preflight", "calibrating", "submitting", "awaiting",
                          "listening", "settling", "answered"} \cup Final]
    /\ def \in [Fires -> Definition \cup {None}]
    /\ plan \in [Fires -> SUBSET Items]
    /\ signed \in [Fires -> 0..2]
    /\ key \in [Fires -> Keys \cup {None}]
    /\ answer \in [Fires -> Result \cup {None}]
    /\ chain \in [Keys -> {"unsent", "wire", "pool", "ok", "failed", "gone"}]
    /\ record \in [Fires -> FireRow \cup {None}]
    /\ settled \subseteq Items
    /\ crashes \in 0..MaxCrashes

Init ==
    /\ pc = [f \in Fires |-> "idle"]
    /\ def = [f \in Fires |-> None]
    /\ plan = [f \in Fires |-> {}]
    /\ signed = [f \in Fires |-> 0]
    /\ key = [f \in Fires |-> None]
    /\ answer = [f \in Fires |-> None]
    /\ chain = [k \in Keys |-> "unsent"]
    /\ record = [f \in Fires |-> None]
    /\ settled = {}
    /\ crashes = 0

Goto(f, label) == pc' = [pc EXCEPT ![f] = label]

\* computeTerminalIntent in fire mode.
Intent(f, ok) ==
    IF def[f].once THEN IF ok THEN "completed" ELSE "error" ELSE None

\* The fire returns; its process has its row to record.
Return(f, result) ==
    /\ answer' = [answer EXCEPT ![f] = result]
    /\ Goto(f, "answered")

\* A structured failure, carrying the key of a command that may be out.
Failed(f, k) == [ok |-> FALSE, key |-> k, intent |-> Intent(f, FALSE)]

\* Fault variant of Postponed: the row ends in error.
PostponedIsFinal == [ok |-> FALSE, key |-> None, intent |-> "error"]

\* A failure that is no verdict on the row: no terminal intent.
Postponed == [ok |-> FALSE, key |-> None, intent |-> None]

-----------------------------------------------------------------------------
(* The dispatcher *)

Start(f) ==
    /\ pc[f] = "idle"
    /\ \E d \in Definitions :
          /\ d.resolver # "unknown"
          /\ def' = [def EXCEPT ![f] = d]
          /\ Goto(f, CASE d.resolver = "none" -> "signing"
                       [] d.resolver = "single" -> "resolving"
                       [] d.resolver = "multi" -> "running")
    /\ UNCHANGED <<plan, signed, key, answer, chain, record, settled, crashes>>

\* The row names a resolver nobody registered.
StartUnknown(f) ==
    /\ pc[f] = "idle"
    /\ \E d \in Definitions :
          /\ d.resolver = "unknown"
          /\ def' = [def EXCEPT ![f] = d]
    /\ Return(f, Postponed)
    /\ UNCHANGED <<plan, signed, key, chain, record, settled, crashes>>

\* The resolver reads its pending items; an empty plan is fired too.
Resolve(f) ==
    /\ pc[f] = "resolving"
    /\ plan' = [plan EXCEPT ![f] = Items \ settled]
    /\ Goto(f, "guarding")
    /\ UNCHANGED <<def, signed, key, answer, chain, record, settled, crashes>>

GuardPasses(f) ==
    /\ pc[f] = "guarding"
    /\ Goto(f, "signing")
    /\ UNCHANGED <<def, plan, signed, key, answer, chain, record, settled, crashes>>

\* The simulate fails on the chain, or its gas is over the single-tx guard.
GuardPostpones(f) ==
    /\ pc[f] = "guarding"
    /\ Return(f, Postponed)
    /\ UNCHANGED <<def, plan, signed, key, chain, record, settled, crashes>>

\* Neither the resolver's own throw nor simulate mode's (signers, keys, node)
\* is caught here.
DispatchThrows(f) ==
    /\ pc[f] \in {"resolving", "guarding"}
    /\ Goto(f, "threw")
    /\ UNCHANGED <<def, plan, signed, key, answer, chain, record, settled, crashes>>

\* The orchestrator completes, or its throw is caught.
RunMultiTx(f) ==
    /\ pc[f] = "running"
    /\ \E ok \in BOOLEAN : Return(f, [ok |-> ok, key |-> None, intent |-> None])
    /\ UNCHANGED <<def, plan, signed, key, chain, record, settled, crashes>>

-----------------------------------------------------------------------------
(* The executor's fire mode *)

\* Signers are reconciled with the gas payer, the command is built and signed.
Sign(f) ==
    /\ pc[f] = "signing"
    /\ signed' = [signed EXCEPT ![f] = 1]
    /\ Goto(f, "preflight")
    /\ UNCHANGED <<def, plan, key, answer, chain, record, settled, crashes>>

\* The dirty read passes; with auto gas and a positive reading the command is
\* to be built and signed once more, with the calibrated limit.
Preflight(f) ==
    /\ pc[f] = "preflight"
    /\ \/ Goto(f, "submitting")
       \/ def[f].autoGas /\ Goto(f, "calibrating")
    /\ UNCHANGED <<def, plan, signed, key, answer, chain, record, settled, crashes>>

Calibrate(f) ==
    /\ pc[f] = "calibrating"
    /\ signed' = [signed EXCEPT ![f] = 2]
    /\ Goto(f, "submitting")
    /\ UNCHANGED <<def, plan, key, answer, chain, record, settled, crashes>>

\* A signer contract violation, a key that does not decrypt, an incomplete
\* signature, a failed or unreachable dirty read.
FailBeforeSubmit(f) ==
    /\ pc[f] \in {"signing", "preflight", "calibrating"}
    /\ Return(f, Failed(f, None))
    /\ UNCHANGED <<def, plan, signed, key, chain, record, settled, crashes>>

\* The hash of the command that goes out.
Signed(f) == <<f, signed[f]>>

\* Fault variant of DerivedKey: derived before the calibrated command is signed.
DerivedKeyOfFirst(f) == <<f, 1>>

\* The key computed from the signed command, for a response that never comes.
DerivedKey(f) == Signed(f)

Submit(f) ==
    /\ pc[f] = "submitting"
    /\ chain' = [chain EXCEPT ![Signed(f)] = "wire"]
    /\ Goto(f, "awaiting")
    /\ UNCHANGED <<def, plan, signed, key, answer, record, settled, crashes>>

SubmitAnswered(f) ==
    /\ pc[f] = "awaiting"
    /\ chain[Signed(f)] \in {"pool", "ok", "failed"}
    /\ key' = [key EXCEPT ![f] = Signed(f)]
    /\ Goto(f, "listening")
    /\ UNCHANGED <<def, plan, signed, answer, chain, record, settled, crashes>>

\* The call fails, whether or not the node has the command: listen anyway,
\* under the hash of the signed command.
SubmitFails(f) ==
    /\ pc[f] = "awaiting"
    /\ Signed(f) \in Hashed
    /\ key' = [key EXCEPT ![f] = DerivedKey(f)]
    /\ Goto(f, "listening")
    /\ UNCHANGED <<def, plan, signed, answer, chain, record, settled, crashes>>

\* The call fails and no key can be derived: the fire fails without one.
SubmitIsLost(f) ==
    /\ pc[f] = "awaiting"
    /\ Signed(f) \notin Hashed
    /\ Return(f, Failed(f, None))
    /\ UNCHANGED <<def, plan, signed, key, chain, record, settled, crashes>>

\* Fault variant of Confirmed: a result is a success, whatever its status.
ConfirmedAnyway(f) == TRUE

Confirmed(f) == chain[key[f]] = "ok"

\* Fault variant of AfterListen: a failed transaction is settled too.
AfterListenAlways(f, ok) == IF def[f].resolver = "single" THEN "settling" ELSE "answered"

\* Only what has landed is settled.
AfterListen(f, ok) ==
    IF ok /\ def[f].resolver = "single" THEN "settling" ELSE "answered"

\* The chain answers the listen.
ListenReturns(f) ==
    /\ pc[f] = "listening"
    /\ chain[key[f]] \in {"ok", "failed"}
    /\ answer' = [answer EXCEPT ![f] =
          IF Confirmed(f)
          THEN [ok |-> TRUE, key |-> key[f], intent |-> Intent(f, TRUE)]
          ELSE Failed(f, key[f])]
    /\ Goto(f, AfterListen(f, Confirmed(f)))
    /\ UNCHANGED <<def, plan, signed, key, chain, record, settled, crashes>>

\* Fault variant of MayTimeOut: the listen is awaited without its timer.
MayTimeOutNever(f) == FALSE

MayTimeOut(f) == TRUE

\* The listen times out or fails; the command may still land.
ListenFails(f) ==
    /\ pc[f] = "listening"
    /\ MayTimeOut(f)
    /\ Return(f, Failed(f, key[f]))
    /\ UNCHANGED <<def, plan, signed, key, chain, record, settled, crashes>>

\* The host marks the plan as paid; its throw, wherever it stops, is swallowed.
Settle(f) ==
    /\ pc[f] = "settling"
    /\ \E done \in SUBSET plan[f] : settled' = settled \cup done
    /\ Goto(f, "answered")
    /\ UNCHANGED <<def, plan, signed, key, answer, chain, record, crashes>>

-----------------------------------------------------------------------------
(* The fire row *)

Record(f) ==
    /\ pc[f] = "answered"
    /\ record' = [record EXCEPT ![f] =
          [ok |-> answer[f].ok, key |-> answer[f].key, recovered |-> FALSE]]
    /\ Goto(f, "recorded")
    /\ UNCHANGED <<def, plan, signed, key, answer, chain, settled, crashes>>

Recoverable(f) == record[f] # None /\ ~record[f].ok

\* The operator attaches a key, any of the right shape: nothing asks the chain.
RecoverFire(f) ==
    /\ Recoverable(f)
    /\ \E k \in Keys :
          record' = [record EXCEPT ![f] = [ok |-> TRUE, key |-> k, recovered |-> TRUE]]
    /\ UNCHANGED <<pc, def, plan, signed, key, answer, chain, settled, crashes>>

FireStep(f) ==
    \/ Start(f) \/ StartUnknown(f) \/ Resolve(f) \/ GuardPasses(f)
    \/ GuardPostpones(f) \/ DispatchThrows(f) \/ RunMultiTx(f)
    \/ Sign(f) \/ Preflight(f) \/ Calibrate(f) \/ FailBeforeSubmit(f)
    \/ Submit(f) \/ SubmitAnswered(f) \/ SubmitFails(f)
    \/ SubmitIsLost(f) \/ ListenReturns(f) \/ ListenFails(f) \/ Settle(f) \/ Record(f)

-----------------------------------------------------------------------------
(* The network and the host process *)

\* A command on the wire reaches the node or is lost; one in the pool is mined,
\* with either result, or outlives its ttl.
Network(k) ==
    /\ \/ chain[k] = "wire" /\ \E s \in {"pool", "gone"} : chain' = [chain EXCEPT ![k] = s]
       \/ chain[k] = "pool" /\ \E s \in {"ok", "failed", "gone"} : chain' = [chain EXCEPT ![k] = s]
    /\ UNCHANGED <<pc, def, plan, signed, key, answer, record, settled, crashes>>

Crash(f) ==
    /\ crashes < MaxCrashes
    /\ pc[f] \notin Final \cup {"idle"}
    /\ crashes' = crashes + 1
    /\ Goto(f, "dead")
    /\ UNCHANGED <<def, plan, signed, key, answer, chain, record, settled>>

Next ==
    \/ \E f \in Fires : FireStep(f) \/ RecoverFire(f) \/ Crash(f)
    \/ \E k \in Keys : Network(k)

Spec == Init /\ [][Next]_vars

\* The listen is bounded by a timer (listenTimeoutMs); nothing else is.
FairSpec == Spec /\ \A f \in Fires : WF_vars(ListenFails(f))

-----------------------------------------------------------------------------
(* Properties *)

\* No command of a recorded fire is out in the network under a key its row does
\* not carry, also when the response was lost, the listen timed out, or the
\* command was signed twice.  Two rows are exempt: of a command signed without a
\* hash whose submit failed, the row has no key at all; and a row the operator
\* has recovered has the key he gave.
KeyIsKept ==
    \A f \in Fires : record[f] # None /\ ~record[f].recovered =>
        \A n \in {1, 2} : chain[<<f, n>>] # "unsent" =>
            \/ record[f].key = <<f, n>>
            \/ <<f, n>> \notin Hashed /\ record[f].key = None /\ ~record[f].ok

\* An item is settled only if a transaction that pays it has succeeded.
SettledIsPaid ==
    \A i \in settled :
        \E f \in Fires : i \in plan[f] /\ \E n \in {1, 2} : chain[<<f, n>>] = "ok"

\* What the tick relies on: only a single-tx resolver's fire throws, a plain
\* fire of a one-time row always ends the row, a multi-tx or unknown resolver's
\* never does.
AnswersFitTheTick ==
    \A f \in Fires :
        /\ pc[f] = "threw" => def[f].resolver = "single"
        /\ pc[f] \in {"answered", "recorded"} =>
              CASE def[f].resolver = "none" -> answer[f].intent = Intent(f, answer[f].ok)
                [] def[f].resolver = "single" ->
                      answer[f].intent \in {None, Intent(f, answer[f].ok)}
                [] OTHER -> answer[f].intent = None

\* A fire does not wait for a confirmation that never comes.
ListenEnds == \A f \in Fires : pc[f] = "listening" ~> pc[f] # "listening"

\* Every fire whose transaction the executor sends keeps the fire contract.
SentKeys(f) == {k \in {<<f, 1>>, <<f, 2>>} : chain[k] # "unsent"}
Sent == [f \in Fires |->
            IF SentKeys(f) = {} THEN None ELSE CHOOSE k \in SentKeys(f) : TRUE]
Fate == [f \in Fires |->
            IF Sent[f] = None THEN "none"
            ELSE IF chain[Sent[f]] \in {"wire", "pool"} THEN "out" ELSE chain[Sent[f]]]
Report == [f \in Fires |->
              IF record[f] = None \/ def[f].resolver = "multi" THEN None ELSE record[f]]

Contract == INSTANCE FireContract WITH sent <- Sent, fate <- Fate, report <- Report

\* The dispatcher, the executor and the recovery implement the fire contract.
KeepsFireContract == Contract!Spec
=============================================================================
