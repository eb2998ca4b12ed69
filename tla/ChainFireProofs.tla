-------------------------- MODULE ChainFireProofs --------------------------
(***************************************************************************)
(* Proofs about ChainFire, for any fires, definitions and items: its       *)
(* invariants, and that the dispatcher, the executor and the recovery      *)
(* implement FireContract.                                                 *)
(***************************************************************************)
EXTENDS ChainFire, TLAPS

(***************************************************************************)
(* What is true of one fire, by the stage it has reached.  Every part is   *)
(* about the fire's own variables and its own two request keys, so a step  *)
(* of another fire leaves it alone.                                        *)
(***************************************************************************)
Executing == {"signing", "preflight", "calibrating", "submitting", "awaiting", "listening"}
Answered == {"settling", "answered", "recorded"}

\* Its n-th command has left the client.
IsOut(f, n) == chain[<<f, n>>] # "unsent"

\* The stages belong to the kinds of definition the dispatcher sends there.
StageInv(f) ==
    /\ pc[f] # "idle" => def[f] \in Definition
    /\ pc[f] \in {"resolving", "guarding", "settling", "threw"} => def[f].resolver = "single"
    /\ pc[f] = "running" => def[f].resolver = "multi"
    /\ pc[f] \in Executing => def[f].resolver \in {"none", "single"}

\* Only the last command signed goes out, and the fire listens under its key.
KeyInv(f) ==
    /\ \A n \in {1, 2} : IsOut(f, n) =>
          /\ n = signed[f]
          /\ def[f].resolver \in {"none", "single"}
          /\ pc[f] \in {"awaiting", "listening", "dead"} \cup Answered
    /\ pc[f] \in Executing \ {"signing"} => signed[f] \in {1, 2}
    /\ pc[f] \in {"awaiting", "listening"} => IsOut(f, signed[f])
    /\ pc[f] = "listening" => key[f] = Signed(f)

\* A result carries the key of the command that is out, unless it is a failure and
\* the command has no hash, and is a success of the executor only if that command
\* has succeeded.
Truthful(f, result) ==
    /\ \A n \in {1, 2} : IsOut(f, n) =>
          \/ result.key = <<f, n>>
          \/ <<f, n>> \notin Hashed /\ result.key = None /\ ~result.ok
    /\ result.key # None => \E n \in {1, 2} : result.key = <<f, n>> /\ IsOut(f, n)
    /\ result.ok /\ def[f].resolver # "multi" =>
          \E n \in {1, 2} : result.key = <<f, n>> /\ chain[<<f, n>>] = "ok"

IntentInv(f) ==
    CASE pc[f] = "settling" -> answer[f].ok /\ answer[f].intent = Intent(f, TRUE)
      [] pc[f] # "settling" /\ def[f].resolver = "none" -> answer[f].intent = Intent(f, answer[f].ok)
      [] pc[f] # "settling" /\ def[f].resolver = "single" ->
            answer[f].intent \in {None, Intent(f, answer[f].ok)}
      [] OTHER -> answer[f].intent = None

FireInv(f) ==
    /\ StageInv(f) /\ KeyInv(f)
    /\ pc[f] \in Answered => answer[f] \in Result /\ Truthful(f, answer[f]) /\ IntentInv(f)
    /\ record[f] # None <=> pc[f] = "recorded"
    /\ record[f] # None /\ ~record[f].recovered => Truthful(f, record[f])

ChainInv == TypeOK /\ (\A f \in Fires : FireInv(f)) /\ SettledIsPaid

-----------------------------------------------------------------------------

\* Before the first fire nothing is signed, sent, recorded or settled.
LEMMA ChainInit == Init => ChainInv
<1> SUFFICES ASSUME Init
             PROVE  ChainInv
  OBVIOUS
<1>1. TypeOK /\ SettledIsPaid
  BY ChainAssumption DEF Init, TypeOK, SettledIsPaid
<1>2. \A f \in Fires : FireInv(f)
  BY ChainAssumption DEF Init, FireInv, StageInv, KeyInv, Executing, Answered, IsOut, Keys
<1> QED
  BY <1>1, <1>2 DEF ChainInv

\* What the step of one fire leaves alone: every other fire, and what a
\* settlement rests on.
OnlyOf(f) ==
    /\ \A g \in Fires \ {f} :
          /\ pc'[g] = pc[g] /\ def'[g] = def[g] /\ plan'[g] = plan[g]
          /\ signed'[g] = signed[g] /\ key'[g] = key[g]
          /\ answer'[g] = answer[g] /\ record'[g] = record[g]
          /\ \A n \in {1, 2} : chain'[<<g, n>>] = chain[<<g, n>>]
    /\ \A n \in {1, 2} : chain[<<f, n>>] = "ok" =>
          chain'[<<f, n>>] = "ok" /\ plan'[f] = plan[f]

\* Another fire's step.
LEMMA OtherFire ==
    ASSUME NEW f \in Fires, NEW g \in Fires \ {f}, OnlyOf(f), FireInv(g)
    PROVE  FireInv(g)'
<1> USE DEF OnlyOf
<1>1. \A n \in {1, 2} : IsOut(g, n)' = IsOut(g, n)
  BY DEF IsOut
<1>2. StageInv(g)' /\ KeyInv(g)'
  BY <1>1 DEF FireInv, StageInv, KeyInv, Executing, Signed
<1>3. ASSUME NEW r, Truthful(g, r)
      PROVE  Truthful(g, r)'
  BY <1>1, <1>3 DEF Truthful
<1>4. pc[g] \in Answered => Truthful(g, answer[g])'
  BY <1>3 DEF FireInv
<1>5. pc[g] \in Answered => IntentInv(g)'
  BY DEF FireInv, IntentInv, Intent
<1>6. record[g] # None /\ ~record[g].recovered => Truthful(g, record[g])'
  BY <1>3 DEF FireInv
<1> QED
  BY <1>2, <1>4, <1>5, <1>6 DEF FireInv

\* A definition's words for a final status.
LEMMA IntentType ==
    ASSUME NEW f \in Fires, NEW ok \in BOOLEAN
    PROVE  Intent(f, ok) \in {"completed", "error", None}
  BY DEF Intent

\* Before the submit nothing is out.
LEMMA NothingOut ==
    ASSUME NEW f \in Fires, FireInv(f),
           pc[f] \notin {"awaiting", "listening", "dead"} \cup Answered
    PROVE  \A n \in {1, 2} : chain[<<f, n>>] = "unsent"
  BY DEF FireInv, KeyInv, IsOut

\* The result fits the kind of definition.
Fits(f, result) ==
    /\ def[f].resolver = "none" => result.intent = Intent(f, result.ok)
    /\ def[f].resolver = "single" => result.intent \in {None, Intent(f, result.ok)}
    /\ def[f].resolver \notin {"none", "single"} => result.intent = None

\* A fire that returns a truthful and fitting result.
LEMMA Returning ==
    ASSUME ChainInv, NEW f \in Fires, NEW result \in Result,
           Return(f, result), UNCHANGED <<signed, chain, record, key>>,
           pc[f] # "recorded", def'[f] \in Definition,
           \A n \in {1, 2} : IsOut(f, n) =>
              n = signed[f] /\ def'[f].resolver \in {"none", "single"},
           Truthful(f, result)', Fits(f, result)'
    PROVE  FireInv(f)'
<1> USE DEF TypeOK, Return, Goto
<1>1. TypeOK /\ FireInv(f)
  BY DEF ChainInv
<1>2. pc'[f] = "answered" /\ answer'[f] = result
  BY <1>1
<1>3. StageInv(f)'
  BY <1>2 DEF StageInv, Executing
<1>4. KeyInv(f)'
  BY <1>2 DEF KeyInv, Executing, Answered, IsOut
<1>5. Truthful(f, answer[f])'
  BY <1>2 DEF Truthful
<1>6. IntentInv(f)'
  BY <1>2 DEF IntentInv, Fits, Intent
<1>7. record'[f] = None
  BY <1>1 DEF FireInv
<1> QED
  BY <1>2, <1>3, <1>4, <1>5, <1>6, <1>7 DEF FireInv

\* Every step of a fire keeps the types and its own invariant.
LEMMA OwnStep ==
    ASSUME ChainInv, NEW f \in Fires, FireStep(f)
    PROVE  TypeOK' /\ FireInv(f)' /\ OnlyOf(f)
<1> USE ChainAssumption DEF TypeOK, Goto, Final, OnlyOf, Keys
<1>0. TypeOK /\ FireInv(f)
  BY DEF ChainInv
<1>1. CASE Start(f)
  <2> PICK d \in Definitions :
         /\ d.resolver # "unknown"
         /\ def' = [def EXCEPT ![f] = d]
         /\ Goto(f, CASE d.resolver = "none" -> "signing"
                     [] d.resolver = "single" -> "resolving"
                     [] d.resolver = "multi" -> "running")
    BY <1>1 DEF Start
  <2>1. d \in Definition /\ d.resolver \in {"none", "single", "multi"}
    BY DEF Definition
  <2>2. PICK label \in {"signing", "resolving", "running"} :
           /\ pc' = [pc EXCEPT ![f] = label]
           /\ label = "signing" => d.resolver = "none"
           /\ label = "resolving" => d.resolver = "single"
           /\ label = "running" => d.resolver = "multi"
    BY <2>1
  <2>3. TypeOK' /\ OnlyOf(f)
    BY <1>0, <1>1, <2>1, <2>2 DEF Start, FireInv, KeyInv, IsOut
  <2> QED
    BY <1>0, <1>1, <2>1, <2>2, <2>3
       DEF Start, FireInv, StageInv, KeyInv, IsOut, Executing, Answered
<1>2. CASE StartUnknown(f)
  <2> PICK d \in Definitions : d.resolver = "unknown" /\ def' = [def EXCEPT ![f] = d]
    BY <1>2 DEF StartUnknown
  <2>1. Postponed \in Result /\ d \in Definition /\ def'[f] = d
    BY <1>0 DEF Postponed, Result
  <2>2. TypeOK' /\ OnlyOf(f)
    BY <1>0, <1>2, <2>1 DEF StartUnknown, Return
  <2>3. Truthful(f, Postponed)' /\ Fits(f, Postponed)'
    BY <1>0, <1>2, <2>1, NothingOut
       DEF StartUnknown, Truthful, Fits, Postponed, IsOut, Answered
  <2> QED
    BY <1>0, <1>2, <2>1, <2>2, <2>3, NothingOut, Returning
       DEF StartUnknown, IsOut, Answered
<1>3. CASE Resolve(f)
  <2>1. \A n \in {1, 2} : chain[<<f, n>>] = "unsent"
    BY <1>0, <1>3, NothingOut DEF Resolve, Answered
  <2>2. TypeOK' /\ OnlyOf(f)
    BY <1>0, <1>3, <2>1 DEF Resolve
  <2> QED
    BY <1>0, <1>3, <2>1, <2>2
       DEF Resolve, FireInv, StageInv, KeyInv, IsOut, Executing, Answered
<1>4. CASE GuardPasses(f)
  <2> QED
    BY <1>0, <1>4
       DEF GuardPasses, FireInv, StageInv, KeyInv, IsOut, Executing, Answered
<1>5. CASE GuardPostpones(f)
  <2>1. Postponed \in Result
    BY DEF Postponed, Result
  <2>2. TypeOK' /\ OnlyOf(f)
    BY <1>0, <1>5, <2>1 DEF GuardPostpones, Return
  <2>3. def[f] \in Definition /\ def[f].resolver = "single"
    BY <1>0, <1>5 DEF GuardPostpones, FireInv, StageInv
  <2>4. Truthful(f, Postponed)' /\ Fits(f, Postponed)'
    BY <1>0, <1>5, <2>3, NothingOut
       DEF GuardPostpones, Truthful, Fits, Postponed, IsOut, Answered
  <2> QED
    BY <1>0, <1>5, <2>1, <2>2, <2>3, <2>4, NothingOut, Returning
       DEF GuardPostpones, IsOut, Answered
<1>6. CASE DispatchThrows(f)
  BY <1>0, <1>6
     DEF DispatchThrows, FireInv, StageInv, KeyInv, IsOut, Executing, Answered
<1>7. CASE RunMultiTx(f)
  <2>1. PICK ok \in BOOLEAN : Return(f, [ok |-> ok, key |-> None, intent |-> None])
    BY <1>7 DEF RunMultiTx
  <2> DEFINE r == [ok |-> ok, key |-> None, intent |-> None]
  <2>2. r \in Result /\ r.key = None /\ r.intent = None
    BY DEF Result
  <2>a. Return(f, r)
    BY <2>1
  <2> HIDE DEF r
  <2>3. TypeOK' /\ OnlyOf(f)
    BY <1>0, <1>7, <2>2, <2>a DEF RunMultiTx, Return
  <2>4. def[f] \in Definition /\ def[f].resolver = "multi"
    BY <1>0, <1>7 DEF RunMultiTx, FireInv, StageInv
  <2>5. Truthful(f, r)' /\ Fits(f, r)'
    BY <1>0, <1>7, <2>2, <2>4, NothingOut
       DEF RunMultiTx, Truthful, Fits, IsOut, Answered
  <2> QED
    BY <1>0, <1>7, <2>2, <2>3, <2>4, <2>5, <2>a, NothingOut, Returning
       DEF RunMultiTx, IsOut, Answered
<1>8. CASE Sign(f)
  BY <1>0, <1>8 DEF Sign, FireInv, StageInv, KeyInv, IsOut, Executing, Answered
<1>9. CASE Preflight(f)
  BY <1>0, <1>9 DEF Preflight, FireInv, StageInv, KeyInv, IsOut, Executing, Answered
<1>10. CASE Calibrate(f)
  BY <1>0, <1>10 DEF Calibrate, FireInv, StageInv, KeyInv, IsOut, Executing, Answered
<1>11. CASE FailBeforeSubmit(f)
  <2>1. PICK r \in Result : r = Failed(f, None)
    BY IntentType DEF Failed, Result
  <2>2. Return(f, r)
    BY <1>11, <2>1 DEF FailBeforeSubmit
  <2>3. TypeOK' /\ OnlyOf(f)
    BY <1>0, <1>11, <2>2 DEF FailBeforeSubmit, Return
  <2>4. def[f] \in Definition /\ def[f].resolver \in {"none", "single"}
    BY <1>0, <1>11 DEF FailBeforeSubmit, FireInv, StageInv, Executing
  <2>5. Truthful(f, r)'
    BY <1>0, <1>11, <2>1, NothingOut
       DEF FailBeforeSubmit, Truthful, Failed, IsOut, Answered
  <2>6. Fits(f, r)'
    BY <1>11, <2>1, <2>4 DEF FailBeforeSubmit, Fits, Failed, Intent
  <2> QED
    BY <1>0, <1>11, <2>2, <2>3, <2>4, <2>5, <2>6, NothingOut, Returning
       DEF FailBeforeSubmit, IsOut, Answered
<1>12. CASE Submit(f)
  <2>1. /\ signed[f] \in {1, 2} /\ Signed(f) \in Keys
        /\ \A n \in {1, 2} : chain[<<f, n>>] = "unsent"
    BY <1>0, <1>12, NothingOut DEF Submit, FireInv, KeyInv, Executing, Answered, Signed
  <2>2. /\ chain' = [chain EXCEPT ![<<f, signed[f]>>] = "wire"]
        /\ pc' = [pc EXCEPT ![f] = "awaiting"]
    BY <1>12 DEF Submit, Signed
  <2>3. TypeOK' /\ OnlyOf(f)
    BY <1>0, <1>12, <2>1, <2>2 DEF Submit
  <2>4. \A n \in {1, 2} : chain'[<<f, n>>] = IF n = signed[f] THEN "wire" ELSE "unsent"
    BY <1>0, <2>1, <2>2
  <2>5. StageInv(f)' /\ KeyInv(f)'
    BY <1>0, <1>12, <2>1, <2>2, <2>4
       DEF Submit, FireInv, StageInv, KeyInv, IsOut, Executing, Answered
  <2>6. record'[f] = None /\ pc'[f] = "awaiting"
    BY <1>0, <1>12, <2>2 DEF Submit, FireInv
  <2> QED
    BY <2>3, <2>5, <2>6 DEF FireInv, Answered
<1>13. CASE SubmitAnswered(f) \/ SubmitFails(f)
  <2>1. /\ signed[f] \in {1, 2} /\ Signed(f) \in Keys
        /\ pc[f] = "awaiting"
        /\ key' = [key EXCEPT ![f] = Signed(f)] /\ pc' = [pc EXCEPT ![f] = "listening"]
        /\ UNCHANGED <<def, plan, signed, answer, chain, record, settled, crashes>>
    BY <1>0, <1>13
       DEF SubmitAnswered, SubmitFails, DerivedKey, FireInv, KeyInv, Executing, Signed
  <2>2. TypeOK' /\ OnlyOf(f)
    BY <1>0, <2>1
  <2>3. StageInv(f)' /\ KeyInv(f)'
    BY <1>0, <2>1 DEF FireInv, StageInv, KeyInv, IsOut, Executing, Answered, Signed
  <2> QED
    BY <1>0, <2>1, <2>2, <2>3 DEF FireInv, Answered
<1>14. CASE ListenReturns(f)
  <2>1. /\ key[f] = <<f, signed[f]>> /\ signed[f] \in {1, 2}
        /\ IsOut(f, signed[f]) /\ def[f] \in Definition
        /\ def[f].resolver \in {"none", "single"}
        /\ record[f] = None
    BY <1>0, <1>14
       DEF ListenReturns, FireInv, StageInv, KeyInv, Executing, Signed
  <2>a. /\ [ok |-> TRUE, key |-> key[f], intent |-> Intent(f, TRUE)] \in Result
        /\ Failed(f, key[f]) \in Result
    BY <1>0, IntentType DEF Failed, Result
  <2>2. PICK r \in Result :
           r = IF Confirmed(f) THEN [ok |-> TRUE, key |-> key[f], intent |-> Intent(f, TRUE)]
               ELSE Failed(f, key[f])
    BY <2>a
  <2>3. /\ answer' = [answer EXCEPT ![f] = r]
        /\ pc' = [pc EXCEPT ![f] = AfterListen(f, Confirmed(f))]
        /\ pc[f] = "listening"
        /\ AfterListen(f, Confirmed(f)) \in {"settling", "answered"}
        /\ UNCHANGED <<def, plan, signed, key, chain, record, settled, crashes>>
    BY <1>14, <2>2 DEF ListenReturns, AfterListen
  <2>4. TypeOK' /\ OnlyOf(f)
    BY <1>0, <2>3
  <2>5. pc'[f] = AfterListen(f, Confirmed(f)) /\ answer'[f] = r
    BY <1>0, <2>3
  <2>6. StageInv(f)' /\ KeyInv(f)'
    BY <1>0, <2>1, <2>3, <2>5
       DEF FireInv, StageInv, KeyInv, IsOut, Executing, Answered, AfterListen
  <2>7. Truthful(f, answer[f])'
    BY <1>0, <2>1, <2>2, <2>3, <2>5
       DEF FireInv, KeyInv, Truthful, IsOut, Failed, Confirmed
  <2>8. IntentInv(f)'
    BY <2>1, <2>2, <2>3, <2>5 DEF IntentInv, Failed, Intent, AfterListen
  <2> QED
    BY <2>1, <2>3, <2>4, <2>5, <2>6, <2>7, <2>8 DEF FireInv
<1>15. CASE ListenFails(f)
  <2>1. /\ key[f] = <<f, signed[f]>> /\ signed[f] \in {1, 2}
        /\ IsOut(f, signed[f]) /\ def[f] \in Definition
        /\ def[f].resolver \in {"none", "single"}
    BY <1>0, <1>15
       DEF ListenFails, FireInv, StageInv, KeyInv, Executing, Signed
  <2>2. PICK r \in Result : r = Failed(f, key[f])
    BY <1>0, IntentType DEF Failed, Result
  <2>3. Return(f, r) /\ pc[f] = "listening"
        /\ UNCHANGED <<def, plan, signed, key, chain, record, settled, crashes>>
    BY <1>15, <2>2 DEF ListenFails
  <2>4. TypeOK' /\ OnlyOf(f)
    BY <1>0, <2>3 DEF Return
  <2>5. \A n \in {1, 2} : IsOut(f, n) => n = signed[f]
    BY <1>0 DEF FireInv, KeyInv
  <2>6. Truthful(f, r)'
    BY <2>1, <2>2, <2>3, <2>5 DEF Truthful, IsOut, Failed
  <2>7. Fits(f, r)'
    BY <2>1, <2>2, <2>3 DEF Fits, Failed, Intent
  <2> QED
    BY <2>1, <2>3, <2>4, <2>5, <2>6, <2>7, Returning
<1>18. CASE SubmitIsLost(f)
  <2>1. /\ pc[f] = "awaiting" /\ signed[f] \in {1, 2}
        /\ def[f] \in Definition /\ def[f].resolver \in {"none", "single"}
        /\ <<f, signed[f]>> \notin Hashed
    BY <1>0, <1>18
       DEF SubmitIsLost, FireInv, StageInv, KeyInv, Executing, Signed
  <2>2. PICK r \in Result : r = Failed(f, None)
    BY IntentType DEF Failed, Result
  <2>3. Return(f, r) /\ UNCHANGED <<def, plan, signed, key, chain, record, settled, crashes>>
    BY <1>18, <2>2 DEF SubmitIsLost
  <2>4. TypeOK' /\ OnlyOf(f)
    BY <1>0, <2>3 DEF Return
  <2>5. \A n \in {1, 2} : IsOut(f, n) => n = signed[f]
    BY <1>0 DEF FireInv, KeyInv
  <2>6. Truthful(f, r)'
    BY <2>1, <2>2, <2>3, <2>5 DEF Truthful, IsOut, Failed
  <2>7. Fits(f, r)'
    BY <2>1, <2>2, <2>3 DEF Fits, Failed, Intent
  <2> QED
    BY <2>1, <2>3, <2>4, <2>5, <2>6, <2>7, Returning
<1>16. CASE Settle(f)
  <2>1. /\ pc[f] = "settling" /\ def[f].resolver = "single"
        /\ pc' = [pc EXCEPT ![f] = "answered"]
        /\ UNCHANGED <<def, plan, signed, key, answer, chain, record, crashes>>
        /\ \E done \in SUBSET plan[f] : settled' = settled \cup done
    BY <1>0, <1>16 DEF Settle, FireInv, StageInv
  <2>2. TypeOK' /\ OnlyOf(f)
    BY <1>0, <2>1
  <2>3. StageInv(f)' /\ KeyInv(f)'
    BY <1>0, <2>1
       DEF FireInv, StageInv, KeyInv, IsOut, Executing, Answered
  <2>4. Truthful(f, answer[f])'
    BY <1>0, <2>1 DEF FireInv, Truthful, IsOut, Answered
  <2>5. IntentInv(f)'
    BY <1>0, <2>1 DEF FireInv, IntentInv, Intent, Answered
  <2> QED
    BY <1>0, <2>1, <2>2, <2>3, <2>4, <2>5 DEF FireInv, Answered
<1>17. CASE Record(f)
  <2>1. /\ pc[f] = "answered"
        /\ record' = [record EXCEPT ![f] =
              [ok |-> answer[f].ok, key |-> answer[f].key, recovered |-> FALSE]]
        /\ pc' = [pc EXCEPT ![f] = "recorded"]
        /\ UNCHANGED <<def, plan, signed, key, answer, chain, settled, crashes>>
    BY <1>17 DEF Record
  <2>2. /\ answer[f] \in Result
        /\ record'[f] = [ok |-> answer[f].ok, key |-> answer[f].key, recovered |-> FALSE]
        /\ record'[f] \in FireRow
    BY <1>0, <2>1 DEF FireInv, Answered, Result, FireRow
  <2>3. TypeOK' /\ OnlyOf(f)
    BY <1>0, <2>1, <2>2
  <2>4. StageInv(f)' /\ KeyInv(f)'
    BY <1>0, <2>1 DEF FireInv, StageInv, KeyInv, IsOut, Executing, Answered
  <2>5. Truthful(f, answer[f])'
    BY <1>0, <2>1 DEF FireInv, Truthful, IsOut, Answered
  <2>6. Truthful(f, record[f])'
    BY <2>1, <2>2, <2>5 DEF Truthful
  <2>7. IntentInv(f)'
    <3>1. IntentInv(f)
      BY <1>0, <2>1 DEF FireInv, Answered
    <3>2. pc'[f] = "recorded"
      BY <1>0, <2>1
    <3> QED
      BY <2>1, <3>1, <3>2 DEF IntentInv, Intent
  <2>8. record'[f] # None /\ pc'[f] = "recorded" /\ answer'[f] = answer[f]
    BY <1>0, <2>1, <2>2
  <2>9. pc'[f] \in Answered => answer'[f] \in Result
    BY <2>2, <2>8
  <2>10. FireInv(f)'
    BY <2>4, <2>5, <2>6, <2>7, <2>8, <2>9 DEF FireInv
  <2> QED
    BY <2>3, <2>10
<1> QED
  BY <1>1, <1>2, <1>3, <1>4, <1>5, <1>6, <1>7, <1>8, <1>9, <1>10, <1>11, <1>12, <1>13,
     <1>14, <1>15, <1>16, <1>17, <1>18 DEF FireStep

\* A landed transaction stays landed and the plans that rest on one stay, so a
\* settlement stays paid.
LEMMA PaidStays ==
    ASSUME ChainInv, NEW f \in Fires, OnlyOf(f)
    PROVE  settled' = settled => SettledIsPaid'
<1> SUFFICES ASSUME settled' = settled, NEW i \in settled
             PROVE  \E g \in Fires : i \in plan'[g] /\ \E n \in {1, 2} : chain'[<<g, n>>] = "ok"
  BY DEF SettledIsPaid
<1>1. PICK g \in Fires, n \in {1, 2} : i \in plan[g] /\ chain[<<g, n>>] = "ok"
  BY DEF ChainInv, SettledIsPaid
<1> QED
  BY <1>1 DEF OnlyOf

\* A fire settles items of its own plan, after its transaction has succeeded.
LEMMA PaidByFire ==
    ASSUME ChainInv, NEW f \in Fires, FireStep(f), OnlyOf(f)
    PROVE  SettledIsPaid'
<1>1. CASE Settle(f)
  <2>1. PICK done \in SUBSET plan[f] :
           settled' = settled \cup done /\ plan' = plan /\ chain' = chain
    BY <1>1 DEF Settle
  <2>2. pc[f] = "settling" /\ FireInv(f)
    BY <1>1 DEF Settle, ChainInv
  <2>3. \E n \in {1, 2} : chain[<<f, n>>] = "ok"
    BY <2>2 DEF FireInv, StageInv, IntentInv, Truthful, Answered
  <2> QED
    BY <2>1, <2>3 DEF ChainInv, SettledIsPaid
<1>2. CASE ~Settle(f)
  <2>1. settled' = settled
    BY <1>2 DEF FireStep, Start, StartUnknown, Resolve, GuardPasses, GuardPostpones,
                DispatchThrows, RunMultiTx, Sign, Preflight, Calibrate, FailBeforeSubmit,
                Submit, SubmitAnswered, SubmitFails, SubmitIsLost, ListenReturns, ListenFails, Record
  <2> QED
    BY <2>1, PaidStays
<1> QED
  BY <1>1, <1>2

\* The operator's key goes into a failed row of this fire, and marks it.
LEMMA RecoverStep ==
    ASSUME ChainInv, NEW f \in Fires, RecoverFire(f)
    PROVE  TypeOK' /\ FireInv(f)' /\ OnlyOf(f)
<1> USE ChainAssumption DEF TypeOK, OnlyOf
<1>1. TypeOK /\ FireInv(f)
  BY DEF ChainInv
<1>a. PICK k \in Keys :
         record' = [record EXCEPT ![f] = [ok |-> TRUE, key |-> k, recovered |-> TRUE]]
  BY DEF RecoverFire
<1> DEFINE row == [ok |-> TRUE, key |-> k, recovered |-> TRUE]
<1>2. row \in FireRow /\ row.recovered /\ record' = [record EXCEPT ![f] = row]
  BY <1>a DEF FireRow
<1> HIDE DEF row
<1>3. /\ UNCHANGED <<pc, def, plan, signed, key, answer, chain, settled, crashes>>
      /\ record[f] # None
  BY DEF RecoverFire, Recoverable
<1>4. record'[f] = row /\ row # None
  BY <1>1, <1>2
<1>5. TypeOK' /\ OnlyOf(f)
  BY <1>1, <1>2, <1>3
<1>6. StageInv(f)' /\ KeyInv(f)'
  BY <1>1, <1>3 DEF FireInv, StageInv, KeyInv, IsOut, Signed
<1>7. pc[f] \in Answered => Truthful(f, answer[f])' /\ IntentInv(f)'
  BY <1>1, <1>3 DEF FireInv, Truthful, IsOut, IntentInv, Intent
<1>8. FireInv(f)'
  BY <1>1, <1>2, <1>3, <1>4, <1>6, <1>7 DEF FireInv
<1> QED
  BY <1>5, <1>8

\* A crash ends a fire without a record; what it has sent stays out.
LEMMA CrashStep ==
    ASSUME ChainInv, NEW f \in Fires, Crash(f)
    PROVE  TypeOK' /\ FireInv(f)' /\ OnlyOf(f)
<1>1. TypeOK /\ FireInv(f)
  BY DEF ChainInv
<1>2. /\ pc' = [pc EXCEPT ![f] = "dead"] /\ pc[f] \notin Final \cup {"idle"}
      /\ crashes' = crashes + 1 /\ crashes < MaxCrashes
      /\ UNCHANGED <<def, plan, signed, key, answer, chain, record, settled>>
  BY DEF Crash, Goto
<1>3. TypeOK' /\ OnlyOf(f)
  BY <1>1, <1>2, ChainAssumption DEF TypeOK, Final, OnlyOf
<1>4. pc'[f] = "dead" /\ record'[f] = None
  BY <1>1, <1>2 DEF TypeOK, Final, FireInv
<1>5. StageInv(f)' /\ KeyInv(f)'
  BY <1>1, <1>2, <1>4 DEF FireInv, StageInv, KeyInv, IsOut, Executing
<1> QED
  BY <1>3, <1>4, <1>5 DEF FireInv, Answered

\* The network moves one command of one fire, and never away from success.
LEMMA NetworkStep ==
    ASSUME ChainInv, NEW k \in Keys, Network(k)
    PROVE  \E f \in Fires : TypeOK' /\ FireInv(f)' /\ OnlyOf(f)
<1> USE DEF TypeOK, Keys
<1>1. PICK f \in Fires, n \in {1, 2} : k = <<f, n>>
  OBVIOUS
<1>2. PICK s \in {"pool", "ok", "failed", "gone"} :
         /\ chain' = [chain EXCEPT ![k] = s]
         /\ chain[k] \in {"wire", "pool"}
         /\ UNCHANGED <<pc, def, plan, signed, key, answer, record, settled, crashes>>
  BY DEF Network
<1>3. TypeOK /\ FireInv(f)
  BY DEF ChainInv
<1>4. TypeOK' /\ OnlyOf(f)
  BY <1>1, <1>2, <1>3 DEF OnlyOf
<1>5. \A m \in {1, 2} :
         /\ IsOut(f, m)' <=> IsOut(f, m)
         /\ chain[<<f, m>>] = "ok" => chain'[<<f, m>>] = "ok"
  BY <1>1, <1>2, <1>3 DEF IsOut
<1>6. StageInv(f)' /\ KeyInv(f)'
  BY <1>2, <1>3, <1>5 DEF FireInv, StageInv, KeyInv, Executing, Signed
<1>7. ASSUME NEW r, Truthful(f, r)
      PROVE  Truthful(f, r)'
  BY <1>2, <1>5, <1>7 DEF Truthful
<1>8. FireInv(f)'
  BY <1>2, <1>3, <1>6, <1>7 DEF FireInv, IntentInv, Intent
<1> QED
  BY <1>4, <1>8

\* Every step keeps the invariant.
LEMMA ChainStep == ChainInv /\ [Next]_vars => ChainInv'
<1> SUFFICES ASSUME ChainInv, [Next]_vars
             PROVE  ChainInv'
  OBVIOUS
<1>1. ASSUME NEW f \in Fires, OnlyOf(f), TypeOK', FireInv(f)', SettledIsPaid'
      PROVE  ChainInv'
  BY <1>1, OtherFire DEF ChainInv
<1>2. ASSUME NEW f \in Fires, FireStep(f)
      PROVE  ChainInv'
  BY <1>1, <1>2, OwnStep, PaidByFire
<1>3. ASSUME NEW f \in Fires, RecoverFire(f) \/ Crash(f)
      PROVE  ChainInv'
  BY <1>1, <1>3, RecoverStep, CrashStep, PaidStays DEF RecoverFire, Crash
<1>4. ASSUME NEW k \in Keys, Network(k)
      PROVE  ChainInv'
  BY <1>1, <1>4, NetworkStep, PaidStays DEF Network
<1>5. CASE UNCHANGED vars
  <2>1. UNCHANGED <<pc, def, plan, signed, key, answer, chain, record, settled, crashes>>
    BY <1>5 DEF vars
  <2>2. TypeOK' /\ SettledIsPaid'
    BY <2>1 DEF ChainInv, TypeOK, SettledIsPaid
  <2>3. ASSUME NEW f \in Fires
        PROVE  FireInv(f)'
    <3>1. FireInv(f) /\ StageInv(f)' = StageInv(f) /\ KeyInv(f)' = KeyInv(f)
      BY <2>1 DEF ChainInv, StageInv, KeyInv, IsOut, Signed
    <3>2. Truthful(f, answer[f])' = Truthful(f, answer[f])
          /\ Truthful(f, record[f])' = Truthful(f, record[f])
      BY <2>1 DEF Truthful, IsOut
    <3>3. IntentInv(f)' = IntentInv(f)
      BY <2>1 DEF IntentInv, Intent
    <3> QED
      BY <2>1, <3>1, <3>2, <3>3 DEF FireInv
  <2> QED
    BY <2>2, <2>3 DEF ChainInv
<1> QED
  BY <1>2, <1>3, <1>4, <1>5 DEF Next

\* At every stage of a fire, its command, result, record and settlement agree,
\* whatever the node answers and wherever the process dies.
THEOREM ChainIsConsistent == Spec => []ChainInv
  BY ChainInit, ChainStep, PTL DEF Spec

\* The variables of a fire keep their types (TypeOK).
THEOREM ChainTypes == Spec => []TypeOK
<1>1. ChainInv => TypeOK
  BY DEF ChainInv
<1> QED
  BY <1>1, ChainIsConsistent, PTL

\* No command of a recorded fire is out under a key its row does not carry,
\* whatever response was lost, listen timed out or command was signed twice
\* (executor.ts, KeyIsKept).  Exempt are a failure without a key, of a command
\* signed without a hash, and a row the operator has recovered.
THEOREM KeysAreKept == Spec => []KeyIsKept
<1>1. ChainInv => KeyIsKept
  BY DEF ChainInv, FireInv, Truthful, IsOut, KeyIsKept
<1> QED
  BY <1>1, ChainIsConsistent, PTL

\* An item is settled only if a transaction that pays it has succeeded
\* (resolvers.ts, SettledIsPaid).
THEOREM SettledItemsArePaid == Spec => []SettledIsPaid
<1>1. ChainInv => SettledIsPaid
  BY DEF ChainInv
<1> QED
  BY <1>1, ChainIsConsistent, PTL

\* A fire answers its caller as the server tick expects (resolvers.ts,
\* AnswersFitTheTick): the results of one fire are those ServerTick gives it.
THEOREM AnswersFit == Spec => []AnswersFitTheTick
<1>1. ChainInv => AnswersFitTheTick
  BY DEF ChainInv, FireInv, StageInv, IntentInv, Answered, AnswersFitTheTick
<1> QED
  BY <1>1, ChainIsConsistent, PTL

-----------------------------------------------------------------------------
(* The refinement of FireContract *)

\* What the contract sees of a fire: the one command that is out, if any.
View ==
    \A f \in Fires :
        /\ (\A n \in {1, 2} : ~IsOut(f, n)) => Sent[f] = None /\ Fate[f] = "none"
        /\ \A n \in {1, 2} : IsOut(f, n) =>
              /\ Sent[f] = <<f, n>>
              /\ Fate[f] = IF chain[<<f, n>>] \in {"wire", "pool"}
                           THEN "out" ELSE chain[<<f, n>>]

\* At most one command of a fire is out, so the contract sees that one.
LEMMA ViewHolds == ChainInv => View
<1> SUFFICES ASSUME ChainInv, NEW f \in Fires
             PROVE  /\ (\A n \in {1, 2} : ~IsOut(f, n)) => Sent[f] = None /\ Fate[f] = "none"
                    /\ \A n \in {1, 2} : IsOut(f, n) =>
                          /\ Sent[f] = <<f, n>>
                          /\ Fate[f] = IF chain[<<f, n>>] \in {"wire", "pool"}
                                       THEN "out" ELSE chain[<<f, n>>]
  BY DEF View
<1>1. CASE \A n \in {1, 2} : ~IsOut(f, n)
  BY <1>1 DEF IsOut, SentKeys, Sent, Fate
<1>2. ASSUME NEW n \in {1, 2}, IsOut(f, n)
      PROVE  Sent[f] = <<f, n>> /\ Fate[f] = IF chain[<<f, n>>] \in {"wire", "pool"}
                                             THEN "out" ELSE chain[<<f, n>>]
  <2>1. \A m \in {1, 2} : IsOut(f, m) => m = n
    BY <1>2 DEF ChainInv, FireInv, KeyInv
  <2>2. SentKeys(f) = {<<f, n>>}
    BY <1>2, <2>1 DEF SentKeys, IsOut
  <2>3. Sent[f] = <<f, n>>
    BY <2>2 DEF Sent
  <2>4. <<f, n>> # None
    BY ChainAssumption DEF Keys
  <2> QED
    BY <2>3, <2>4 DEF Fate
<1> QED
  BY <1>1, <1>2

\* The same in the state after a step.
LEMMA ViewHoldsNext == ChainInv' => View'
  BY ViewHolds, PTL

\* No fire has sent or reported anything at first.
LEMMA ContractInit == Init => Contract!Init
<1> SUFFICES ASSUME Init
             PROVE  Contract!Init
  OBVIOUS
<1>1. \A f \in Fires : SentKeys(f) = {}
  BY DEF Init, SentKeys, Keys
<1>2. Sent = [f \in Fires |-> None]
  BY <1>1 DEF Sent
<1>3. Fate = [f \in Fires |-> "none"]
  BY <1>2 DEF Fate
<1>4. Report = [f \in Fires |-> None]
  BY DEF Init, Report
<1> QED
  BY <1>2, <1>3, <1>4 DEF Contract!Init

\* A step of one fire shows nothing of the others.
OthersSame(f) ==
    \A g \in Fires \ {f} :
        Sent'[g] = Sent[g] /\ Fate'[g] = Fate[g] /\ Report'[g] = Report[g]

\* A step that changes one fire's variables only leaves the other fires' view.
LEMMA OthersShowNothing ==
    ASSUME NEW f \in Fires, OnlyOf(f)
    PROVE  OthersSame(f)
<1> SUFFICES ASSUME NEW g \in Fires \ {f}
             PROVE  Sent'[g] = Sent[g] /\ Fate'[g] = Fate[g] /\ Report'[g] = Report[g]
  BY DEF OthersSame
<1>1. \A n \in {1, 2} : chain'[<<g, n>>] = chain[<<g, n>>]
  BY DEF OnlyOf
<1>2. SentKeys(g)' = SentKeys(g)
  BY <1>1 DEF SentKeys
<1>3. Sent'[g] = Sent[g]
  BY <1>2 DEF Sent
<1>4. Sent[g] \in {None, <<g, 1>>, <<g, 2>>}
  <2>1. CASE SentKeys(g) = {}
    BY <2>1 DEF Sent
  <2>2. CASE SentKeys(g) # {}
    BY <2>2 DEF Sent, SentKeys
  <2> QED
    BY <2>1, <2>2
<1>5. Fate'[g] = Fate[g]
  BY <1>1, <1>3, <1>4 DEF Fate
<1>6. Report'[g] = Report[g]
  BY DEF OnlyOf, Report
<1> QED
  BY <1>3, <1>5, <1>6

\* A function that differs at one point only.
LEMMA OnePoint ==
    ASSUME NEW S, NEW x \in S, NEW F, NEW G,
           F = [y \in S |-> F[y]], G = [y \in S |-> G[y]],
           \A y \in S \ {x} : G[y] = F[y]
    PROVE  G = [F EXCEPT ![x] = G[x]] /\ (G[x] = F[x] => G = F)
  OBVIOUS

\* Then each of the contract's variables changes at that fire, or not at all.
LEMMA Shows ==
    ASSUME NEW f \in Fires, OthersSame(f)
    PROVE  /\ Sent' = [Sent EXCEPT ![f] = Sent'[f]] /\ (Sent'[f] = Sent[f] => Sent' = Sent)
           /\ Fate' = [Fate EXCEPT ![f] = Fate'[f]] /\ (Fate'[f] = Fate[f] => Fate' = Fate)
           /\ Report' = [Report EXCEPT ![f] = Report'[f]]
           /\ (Report'[f] = Report[f] => Report' = Report)
<1>1. Sent = [g \in Fires |-> Sent[g]] /\ Sent' = [g \in Fires |-> Sent'[g]]
  BY DEF Sent
<1>2. Fate = [g \in Fires |-> Fate[g]] /\ Fate' = [g \in Fires |-> Fate'[g]]
  BY DEF Fate
<1>3. Report = [g \in Fires |-> Report[g]] /\ Report' = [g \in Fires |-> Report'[g]]
  BY DEF Report
<1> QED
  BY <1>1, <1>2, <1>3, OnePoint DEF OthersSame

\* A fire that shows the same as before.
LEMMA Stutters ==
    ASSUME NEW f \in Fires, OthersSame(f),
           Sent'[f] = Sent[f], Fate'[f] = Fate[f], Report'[f] = Report[f]
    PROVE  UNCHANGED <<Sent, Fate, Report>>
  BY Shows

\* A stage of the dispatcher or the executor sends, reports or shows nothing.
LEMMA StageSteps ==
    ASSUME ChainInv, ChainInv', NEW f \in Fires, FireStep(f), OnlyOf(f)
    PROVE  Contract!Next \/ UNCHANGED <<Sent, Fate, Report>>
<1> USE ChainAssumption
<1>0. /\ TypeOK /\ FireInv(f) /\ TypeOK' /\ FireInv(f)' /\ OthersSame(f)
      /\ View /\ View'
  BY OthersShowNothing, ViewHolds, ViewHoldsNext DEF ChainInv
<1>1. CASE Submit(f)
  <2>1. /\ pc[f] = "submitting" /\ signed[f] \in {1, 2}
        /\ chain' = [chain EXCEPT ![<<f, signed[f]>>] = "wire"]
        /\ UNCHANGED <<def, record>>
        /\ record[f] = None
    BY <1>0, <1>1 DEF Submit, Signed, FireInv, KeyInv, Executing
  <2>2. \A n \in {1, 2} : chain[<<f, n>>] = "unsent"
    BY <1>0, <2>1, NothingOut DEF Answered
  <2>3. Sent[f] = None /\ Fate[f] = "none"
    BY <1>0, <2>2 DEF View, IsOut
  <2>4. <<f, signed[f]>> \in Keys /\ chain'[<<f, signed[f]>>] = "wire"
    BY <1>0, <2>1 DEF TypeOK, Keys
  <2>5. Sent'[f] = <<f, signed[f]>> /\ Fate'[f] = "out"
    <3> PICK n \in {1, 2} : n = signed[f]
      BY <2>1
    <3> QED
      BY <1>0, <2>4 DEF View, IsOut
  <2>6. Report[f] = None /\ Report'[f] = None
    BY <2>1 DEF Report
  <2>7. UNCHANGED Report
    <3>1. Report' = [Report EXCEPT ![f] = None] /\ Report = [Report EXCEPT ![f] = None]
      BY <1>0, <2>6, Shows DEF Report
    <3> QED
      BY <3>1
  <2>8. /\ Sent' = [Sent EXCEPT ![f] = <<f, signed[f]>>]
        /\ Fate' = [Fate EXCEPT ![f] = "out"]
    BY <1>0, <2>5, Shows
  <2>9. Contract!Send(f)
    BY <2>3, <2>4, <2>6, <2>7, <2>8 DEF Contract!Send
  <2> QED
    BY <2>9 DEF Contract!Next
<1>2. ASSUME UNCHANGED chain
      PROVE  Sent'[f] = Sent[f] /\ Fate'[f] = Fate[f] /\ UNCHANGED <<Sent, Fate>>
  BY <1>2 DEF SentKeys, Sent, Fate
<1>3. CASE Record(f)
  <2> DEFINE row == [ok |-> answer[f].ok, key |-> answer[f].key, recovered |-> FALSE]
  <2>1. /\ pc[f] = "answered" /\ record[f] = None /\ answer[f] \in Result
        /\ record' = [record EXCEPT ![f] = row]
        /\ row.ok = answer[f].ok /\ row.key = answer[f].key /\ row.recovered = FALSE
        /\ UNCHANGED <<def, chain>>
        /\ Truthful(f, answer[f])
    BY <1>0, <1>3 DEF Record, FireInv, Answered
  <2>a. row \in FireRow
    BY <2>1 DEF FireRow, Result
  <2> HIDE DEF row
  <2>2. record'[f] = row /\ record'[f] # None
    BY <1>0, <2>1, <2>a DEF TypeOK
  <2>3. Report[f] = None
    BY <2>1 DEF Report
  <2>4. CASE def[f].resolver = "multi"
    <3>1. Report'[f] = None
      BY <2>1, <2>4 DEF Report
    <3> QED
      BY <1>0, <1>2, <2>1, <2>3, <3>1, Stutters
  <2>5. CASE def[f].resolver # "multi"
    <3>1. Report'[f] = row
      BY <2>1, <2>2, <2>5 DEF Report
    <3>2. answer[f].key # None => answer[f].key = Sent[f]
      BY <1>0, <2>1 DEF Truthful, View
    <3>3. answer[f].key = None => answer[f].ok = FALSE /\ Sent[f] \notin Hashed
      <4>1. CASE \A n \in {1, 2} : ~IsOut(f, n)
        BY <1>0, <2>1, <2>5, <4>1, ChainAssumption DEF Truthful, View, Keys, Result
      <4>2. CASE \E n \in {1, 2} : IsOut(f, n)
        BY <1>0, <2>1, <4>2, ChainAssumption DEF Truthful, View, Keys, Result
      <4> QED
        BY <4>1, <4>2
    <3>4. answer[f].ok => Fate[f] = "ok"
      BY <1>0, <2>1, <2>5 DEF Truthful, View, IsOut
    <3>5. Report' = [Report EXCEPT ![f] = row] /\ UNCHANGED <<Sent, Fate>>
      BY <1>0, <1>2, <2>1, <3>1, Shows
    <3>6. CASE answer[f].ok
      <4>1. row = [ok |-> TRUE, key |-> Sent[f], recovered |-> FALSE]
        BY <3>2, <3>3, <3>6, <2>1 DEF Result, row
      <4>2. Contract!ReportSuccess(f)
        BY <2>3, <3>4, <3>5, <3>6, <4>1 DEF Contract!ReportSuccess
      <4> QED
        BY <4>2 DEF Contract!Next
    <3>7. CASE ~answer[f].ok
      <4>1. PICK k \in {Sent[f], None} :
               /\ k = Sent[f] \/ Sent[f] \notin Hashed
               /\ row = [ok |-> FALSE, key |-> k, recovered |-> FALSE]
        BY <3>2, <3>3, <3>7, <2>1 DEF Result, row
      <4>2. Contract!ReportFailure(f)
        BY <2>3, <3>5, <4>1 DEF Contract!ReportFailure
      <4> QED
        BY <4>2 DEF Contract!Next
    <3> QED
      BY <3>6, <3>7
  <2> QED
    BY <2>4, <2>5
<1>4. CASE ~Submit(f) /\ ~Record(f)
  <2>1. UNCHANGED <<chain, record>>
    BY <1>4 DEF FireStep, Start, StartUnknown, Resolve, GuardPasses, GuardPostpones,
                DispatchThrows, RunMultiTx, Sign, Preflight, Calibrate, FailBeforeSubmit,
                SubmitAnswered, SubmitFails, SubmitIsLost, ListenReturns, ListenFails, Settle
  <2>2. CASE record[f] = None
    BY <1>0, <1>2, <2>1, <2>2, Stutters DEF Report
  <2>3. CASE record[f] # None
    <3>1. pc[f] = "recorded"
      BY <1>0, <2>3 DEF FireInv
    <3> QED
      BY <1>4, <3>1 DEF FireStep, Start, StartUnknown, Resolve, GuardPasses, GuardPostpones,
                DispatchThrows, RunMultiTx, Sign, Preflight, Calibrate, FailBeforeSubmit,
                SubmitAnswered, SubmitFails, SubmitIsLost, ListenReturns, ListenFails, Settle
  <2> QED
    BY <2>2, <2>3
<1> QED
  BY <1>1, <1>3, <1>4

\* The recovery of a failed row is the operator's word, in the row he recovers;
\* the contract does not see the rows of a background job.
LEMMA RecoverySteps ==
    ASSUME ChainInv, NEW f \in Fires, RecoverFire(f), OnlyOf(f)
    PROVE  Contract!Next \/ UNCHANGED <<Sent, Fate, Report>>
<1> USE ChainAssumption
<1>0. TypeOK /\ OthersSame(f)
  BY OthersShowNothing DEF ChainInv
<1>1. PICK k \in Keys :
         record' = [record EXCEPT ![f] = [ok |-> TRUE, key |-> k, recovered |-> TRUE]]
  BY DEF RecoverFire
<1> DEFINE row == [ok |-> TRUE, key |-> k, recovered |-> TRUE]
<1>a. row \in FireRow
  BY DEF FireRow
<1> HIDE DEF row
<1>b. record' = [record EXCEPT ![f] = row]
  BY <1>1 DEF row
<1>2. record[f] # None /\ ~record[f].ok /\ UNCHANGED <<def, chain>>
  BY DEF RecoverFire, Recoverable
<1>3. record'[f] = row /\ row # None
  BY <1>0, <1>a, <1>b DEF TypeOK
<1>4. UNCHANGED <<Sent, Fate>>
  BY <1>2 DEF SentKeys, Sent, Fate
<1>5. CASE def[f].resolver = "multi"
  <2>1. Report'[f] = Report[f]
    BY <1>2, <1>5 DEF Report
  <2> QED
    BY <1>0, <1>4, <2>1, Shows
<1>6. CASE def[f].resolver # "multi"
  <2>1. Report[f] = record[f] /\ Report'[f] = row
    BY <1>2, <1>3, <1>6 DEF Report
  <2>2. Report' = [Report EXCEPT ![f] = row]
    BY <1>0, <2>1, Shows
  <2>3. Contract!Reconcile(f)
    BY <1>2, <1>4, <2>1, <2>2 DEF Contract!Reconcile, row
  <2> QED
    BY <2>3 DEF Contract!Next
<1> QED
  BY <1>5, <1>6

\* The node decides the fate of a command that is out.
LEMMA NetworkSteps ==
    ASSUME ChainInv, ChainInv', NEW k \in Keys, Network(k)
    PROVE  Contract!Next \/ UNCHANGED <<Sent, Fate, Report>>
<1> USE ChainAssumption
<1>1. PICK f \in Fires, n \in {1, 2} : k = <<f, n>>
  BY DEF Keys
<1>2. TypeOK /\ FireInv(f) /\ View /\ View'
  BY ViewHolds, ViewHoldsNext DEF ChainInv
<1>3. PICK s \in {"pool", "ok", "failed", "gone"} :
         /\ chain' = [chain EXCEPT ![k] = s]
         /\ chain[k] \in {"wire", "pool"}
         /\ UNCHANGED <<pc, def, plan, signed, key, answer, record, settled, crashes>>
  BY DEF Network
<1>4. OthersSame(f)
  <2>1. OnlyOf(f)
    BY <1>1, <1>2, <1>3 DEF OnlyOf, TypeOK, Keys
  <2> QED
    BY <2>1, OthersShowNothing
<1>5. chain'[k] = s /\ IsOut(f, n) /\ IsOut(f, n)'
  BY <1>1, <1>2, <1>3 DEF TypeOK, IsOut
<1>6. /\ Sent[f] = k /\ Sent'[f] = k /\ Fate[f] = "out"
      /\ Fate'[f] = IF s = "pool" THEN "out" ELSE s
  <2>1. Sent[f] = k /\ Fate[f] = "out"
    BY <1>1, <1>2, <1>3, <1>5 DEF View
  <2>2. /\ Sent'[f] = k
        /\ Fate'[f] = IF chain'[k] \in {"wire", "pool"} THEN "out" ELSE chain'[k]
    BY <1>1, <1>2, <1>5 DEF View
  <2> QED
    BY <1>3, <1>5, <2>1, <2>2
<1>7. Report' = Report
  BY <1>3 DEF Report
<1>8. CASE s = "pool"
  BY <1>4, <1>6, <1>7, <1>8, Stutters
<1>9. CASE s # "pool"
  <2>1. Fate' = [Fate EXCEPT ![f] = s] /\ Sent' = [Sent EXCEPT ![f] = k]
    BY <1>4, <1>6, <1>9, Shows
  <2>2. Sent' = Sent
    BY <1>6, <2>1 DEF Sent
  <2>3. Contract!Land(f)
    BY <1>6, <1>7, <1>9, <2>1, <2>2 DEF Contract!Land, Contract!Outcome
  <2> QED
    BY <2>3 DEF Contract!Next
<1> QED
  BY <1>8, <1>9

\* Every step of a fire is one step of the contract, or none.
LEMMA ContractStep ==
    ChainInv /\ ChainInv' /\ [Next]_vars => [Contract!Next]_<<Sent, Fate, Report>>
<1> SUFFICES ASSUME ChainInv, ChainInv', [Next]_vars
             PROVE  Contract!Next \/ UNCHANGED <<Sent, Fate, Report>>
  OBVIOUS
<1>1. ASSUME NEW f \in Fires, FireStep(f)
      PROVE  Contract!Next \/ UNCHANGED <<Sent, Fate, Report>>
  BY <1>1, OwnStep, StageSteps
<1>2. ASSUME NEW f \in Fires, RecoverFire(f)
      PROVE  Contract!Next \/ UNCHANGED <<Sent, Fate, Report>>
  BY <1>2, RecoverStep, RecoverySteps
<1>3. ASSUME NEW k \in Keys, Network(k)
      PROVE  Contract!Next \/ UNCHANGED <<Sent, Fate, Report>>
  BY <1>3, NetworkSteps
<1>4. ASSUME UNCHANGED <<def, chain, record>>
      PROVE  UNCHANGED <<Sent, Fate, Report>>
  BY <1>4 DEF SentKeys, Sent, Fate, Report
<1>5. ASSUME NEW f \in Fires, Crash(f)
      PROVE  UNCHANGED <<Sent, Fate, Report>>
  BY <1>4, <1>5 DEF Crash
<1>6. CASE UNCHANGED vars
  BY <1>4, <1>6 DEF vars
<1> QED
  BY <1>1, <1>2, <1>3, <1>5, <1>6 DEF Next

\* A fire puts at most one transaction on the wire and reports success of its own
\* only if that one has succeeded; its report carries the key of what it has sent,
\* except a failure of a command signed without a hash; a report it did not make
\* itself is the operator's and marked so (KeepsFireContract).
THEOREM FiresKeepTheContract == Spec => KeepsFireContract
  BY ContractInit, ContractStep, ChainIsConsistent, PTL DEF Spec, KeepsFireContract, Contract!Spec
=============================================================================
