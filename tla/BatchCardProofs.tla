-------------------------- MODULE BatchCardProofs --------------------------
(***************************************************************************)
(* Proofs about BatchCard, for any cronotons and any number of reads,      *)
(* changes of page, clicks and failures.                                   *)
(***************************************************************************)
EXTENDS BatchCard, TLAPS

Stages == {"out", "expired", "ok", "refused", "failed"}

LEMMA Bounds ==
    MaxCalls \in Nat \ {0} /\ MaxMoves \in Nat /\ MaxClicks \in Nat /\ MaxFailures \in Nat
  BY CardAssumption

\* What a request to send does to the reads, whichever slot it takes.
LEMMA SendEffect ==
    ASSUME calls \in [Slots -> Call \cup {None}], NEW kind, NEW id, NEW run,
           Send(kind, id, run)
    PROVE  /\ calls' \in [Slots -> Call \cup {None, Read(kind, id, run)}]
           /\ \A s \in Slots : calls'[s] = calls[s] \/ calls'[s] = Read(kind, id, run)
  BY DEF Send

\* An action keeps its type, its cronoton and its count through a change of stage.
StageOf(a, s) == [a EXCEPT !.stage = s]
Served(a) == [a EXCEPT !.stage = "ok", !.made = @ + 1]
Retried(a) == [a EXCEPT !.stage = "out", !.tries = @ + 1]

LEMMA StageFields ==
    ASSUME NEW a \in Act, NEW s \in Stages
    PROVE  /\ StageOf(a, s) \in Act
           /\ StageOf(a, s).id = a.id /\ StageOf(a, s).made = a.made
           /\ StageOf(a, s).stage = s
  BY DEF StageOf, Act, Stages

LEMMA ServedFields ==
    ASSUME NEW a \in Act
    PROVE  /\ Served(a) \in Act
           /\ Served(a).id = a.id /\ Served(a).made = a.made + 1 /\ Served(a).stage = "ok"
<1>1. a.made + 1 \in Nat
  BY DEF Act
<1> QED
  BY <1>1 DEF Served, Act

LEMMA RetriedFields ==
    ASSUME NEW a \in Act, a.tries = 1
    PROVE  /\ Retried(a) \in Act
           /\ Retried(a).id = a.id /\ Retried(a).made = a.made /\ Retried(a).stage = "out"
<1>1. a.tries + 1 \in 1..2
  OBVIOUS
<1> QED
  BY <1>1 DEF Retried, Act

\* The steps on an action as updates of one value.
LEMMA ActionUpdates ==
    /\ \A k, s : To(k, s) <=> acts' = [acts EXCEPT ![k] = StageOf(acts[k], s)]
    /\ HandleStart /\ acts["start"].id \notin running
         => acts' = [acts EXCEPT !["start"] = Served(acts["start"])]
    /\ Reconfirm => acts' = [acts EXCEPT !["start"] = Retried(acts["start"])]
  BY DEF To, StageOf, HandleStart, Served, Reconfirm, Retried

-----------------------------------------------------------------------------
(* Types *)

LEMMA TypeInit == Init => TypeOK
<1> SUFFICES ASSUME Init PROVE TypeOK
  OBVIOUS
<1>1. Read("load", First, 0) \in Call
  BY Bounds, CardAssumption DEF Read, Call
<1>2. calls \in [Slots -> Call \cup {None}]
  BY <1>1 DEF Init
<1>3. page \in Ids /\ moves \in 0..MaxMoves /\ clicks \in 0..MaxClicks
      /\ failures \in 0..MaxFailures
  BY Bounds, CardAssumption DEF Init
<1> QED
  BY <1>2, <1>3 DEF Init, TypeOK

LEMMA TypeNext == TypeOK /\ [Next]_vars => TypeOK'
<1> SUFFICES ASSUME TypeOK, [Next]_vars PROVE TypeOK'
  OBVIOUS
<1> USE DEF TypeOK, reads
<1>1. CASE UNCHANGED vars
  BY <1>1 DEF vars
<1>2. \A kind \in {"load", "refetch", "poll"}, id \in Ids, run \in 0..MaxMoves :
         Read(kind, id, run) \in Call
  BY DEF Read, Call
<1>3. \A kind \in {"load", "refetch", "poll"}, id \in Ids, run \in 0..MaxMoves :
         Send(kind, id, run) => calls' \in [Slots -> Call \cup {None}]
  BY <1>2, SendEffect
<1>4. \A k \in {"start", "cancel"} : acts[k] # None => acts[k] \in Act
  OBVIOUS
<1>5. \A k \in {"start", "cancel"}, a \in Act \cup {None} :
         acts' = [acts EXCEPT ![k] = a] => acts' \in [{"start", "cancel"} -> Act \cup {None}]
  OBVIOUS
<1>6. ASSUME NEW k \in {"start", "cancel"}, NEW s \in Stages, acts[k] # None, To(k, s)
      PROVE  acts' \in [{"start", "cancel"} -> Act \cup {None}]
  <2>1. StageOf(acts[k], s) \in Act
    BY <1>4, <1>6, StageFields
  <2>2. acts' = [acts EXCEPT ![k] = StageOf(acts[k], s)]
    BY <1>6, ActionUpdates
  <2> QED
    BY <1>5, <2>1, <2>2
<1>f. failures < MaxFailures /\ failures' = failures + 1 => failures' \in 0..MaxFailures
  BY Bounds
<1>7. CASE Unmount
  BY <1>7 DEF Unmount
<1>8. CASE Poll
  <2>1. calls' \in [Slots -> Call \cup {None}]
    BY <1>3, <1>8, Bounds DEF Poll
  <2> QED
    BY <1>8, <2>1 DEF Poll
<1>9. ASSUME NEW id \in Ids, Move(id) PROVE TypeOK'
  <2>1. moves' \in 0..MaxMoves /\ moves' = moves + 1
    BY <1>9, Bounds DEF Move
  <2>2. calls' \in [Slots -> Call \cup {None}]
    BY <1>3, <1>9, <2>1 DEF Move
  <2> QED
    BY <1>9, <2>1, <2>2 DEF Move
<1>10. ASSUME NEW id \in Ids, BatchEnds(id) PROVE TypeOK'
  BY <1>10 DEF BatchEnds
<1>11. ASSUME NEW s \in Slots, Answer(s) PROVE TypeOK'
  <2>1. calls[s] \in Call /\ calls[s].id \in Ids
    BY <1>11 DEF Answer, Call
  <2> DEFINE c == [calls[s] EXCEPT !.answered = TRUE,
                                   !.batch = IF calls[s].id \in running THEN calls[s].id ELSE None]
  <2>2. c \in Call
    BY <2>1 DEF Call
  <2>3. calls' = [calls EXCEPT ![s] = c]
    BY <1>11 DEF Answer
  <2> HIDE DEF c
  <2> QED
    BY <1>11, <2>2, <2>3 DEF Answer
<1>12. ASSUME NEW s \in Slots, Resolve(s) PROVE TypeOK'
  <2>1. calls[s].batch \in Ids \cup {None}
    BY <1>12 DEF Resolve, Call
  <2>2. {fresh', error', loading'} \subseteq BOOLEAN /\ shown' \in Ids \cup {None}
    BY <1>12, <2>1 DEF Resolve
  <2> QED
    BY <1>12, <2>2 DEF Resolve
<1>13. ASSUME NEW s \in Slots, Reject(s) PROVE TypeOK'
  <2>1. {error', loading'} \subseteq BOOLEAN /\ failures' \in 0..MaxFailures
    BY <1>f, <1>13 DEF Reject
  <2> QED
    BY <1>13, <2>1 DEF Reject
<1>14. ASSUME NEW k \in {"start", "cancel"}, Click(k) PROVE TypeOK'
  <2>1. [id |-> page, tries |-> 1, made |-> 0, stage |-> "out"] \in Act
    BY DEF Act
  <2>2. acts' \in [{"start", "cancel"} -> Act \cup {None}] /\ clicks' \in 0..MaxClicks
    BY <1>14, <2>1, Bounds DEF Click
  <2> QED
    BY <1>14, <2>2 DEF Click
<1>15. ASSUME NEW k \in {"start", "cancel"}, ActionFails(k) PROVE TypeOK'
  <2>1. acts' \in [{"start", "cancel"} -> Act \cup {None}] /\ failures' \in 0..MaxFailures
    BY <1>6, <1>f, <1>15 DEF ActionFails, Stages
  <2> QED
    BY <1>15, <2>1 DEF ActionFails
<1>16. ASSUME NEW k \in {"start", "cancel"}, ActionEnds(k) PROVE TypeOK'
  <2>1. acts[k].id \in Ids
    BY <1>4, <1>16 DEF ActionEnds, Act
  <2>2. acts' \in [{"start", "cancel"} -> Act \cup {None}]
    BY <1>5, <1>16 DEF ActionEnds
  <2>3. calls' \in [Slots -> Call \cup {None}] /\ loading' \in BOOLEAN
    <3>1. CASE mounted
      BY <1>3, <1>16, <2>1, <3>1, Bounds DEF ActionEnds
    <3>2. CASE ~mounted
      BY <1>16, <3>2 DEF ActionEnds
    <3> QED
      BY <3>1, <3>2
  <2> QED
    BY <1>16, <2>2, <2>3 DEF ActionEnds
<1>17. CASE GateRefuses
  <2>1. acts' \in [{"start", "cancel"} -> Act \cup {None}]
    BY <1>6, <1>17 DEF GateRefuses, At, Stages
  <2> QED
    BY <1>17, <2>1 DEF GateRefuses
<1>18. CASE HandleStart
  <2>1. acts["start"] \in Act
    BY <1>4, <1>18 DEF HandleStart, At
  <2>n. acts["start"] # None
    BY <1>18 DEF HandleStart, At
  <2>2. acts' \in [{"start", "cancel"} -> Act \cup {None}]
    <3>1. CASE acts["start"].id \in running
      <4>1. To("start", "refused")
        BY <1>18, <3>1 DEF HandleStart
      <4> QED
        BY <1>6, <2>1, <4>1, <2>n DEF Stages
    <3>2. CASE acts["start"].id \notin running
      <4>1. acts' = [acts EXCEPT !["start"] = Served(acts["start"])]
        BY <1>18, <3>2, ActionUpdates
      <4> QED
        BY <1>5, <2>1, <4>1, ServedFields
    <3> QED
      BY <3>1, <3>2
  <2>3. running' \subseteq Ids
    BY <1>18, <2>1 DEF HandleStart, Act
  <2> QED
    BY <1>18, <2>2, <2>3 DEF HandleStart
<1>19. CASE HandleCancel
  <2>1. acts' \in [{"start", "cancel"} -> Act \cup {None}]
    BY <1>6, <1>19 DEF HandleCancel, At, Stages
  <2> QED
    BY <1>19, <2>1 DEF HandleCancel
<1>20. CASE Reconfirm
  <2>1. acts["start"] \in Act /\ acts["start"].tries = 1
    BY <1>4, <1>20 DEF Reconfirm, Retries
  <2>2. acts' \in [{"start", "cancel"} -> Act \cup {None}]
    BY <1>5, <1>20, <2>1, ActionUpdates, RetriedFields
  <2> QED
    BY <1>20, <2>2 DEF Reconfirm
<1> QED
  BY <1>1, <1>7, <1>8, <1>9, <1>10, <1>11, <1>12, <1>13, <1>14, <1>15, <1>16, <1>17, <1>18,
     <1>19, <1>20 DEF Next

\* The card, its reads, its actions and the running batches keep their type.
THEOREM CardTypes == Spec => []TypeOK
<1> QED
  BY TypeInit, TypeNext, PTL DEF Spec

-----------------------------------------------------------------------------
(* One click, one batch *)

\* A start that may still reach the handler has made nothing yet.
MadeInv ==
    acts["start"] # None =>
        /\ acts["start"].made <= 1
        /\ acts["start"].stage \in {"out", "expired"} => acts["start"].made = 0

LEMMA MadeNext == TypeOK /\ MadeInv /\ [Next]_vars => MadeInv'
<1> SUFFICES ASSUME TypeOK, MadeInv, [Next]_vars PROVE MadeInv'
  OBVIOUS
<1> DEFINE a == acts["start"]
           b == acts'["start"]
           Fine(x) == x.made <= 1 /\ (x.stage \in {"out", "expired"} => x.made = 0)
<1>1. MadeInv <=> (a = None \/ Fine(a))
  BY DEF MadeInv
<1>2. MadeInv' <=> (b = None \/ Fine(b))
  BY DEF MadeInv
<1>3. a # None => a \in Act
  BY DEF TypeOK
<1>4. DOMAIN acts = {"start", "cancel"}
  BY DEF TypeOK
<1>5. CASE b = a
  BY <1>1, <1>2, <1>5
<1>6. ASSUME NEW s \in Stages, a # None, To("start", s), s # "expired" \/ a.stage = "out", s # "out"
      PROVE  MadeInv'
  <2>1. b = StageOf(a, s)
    BY <1>4, <1>6, ActionUpdates
  <2>2. b.made = a.made /\ b.stage = s
    BY <1>3, <1>6, <2>1, StageFields
  <2> QED
    BY <1>1, <1>2, <1>6, <2>2
<1>7. ASSUME NEW k \in {"start", "cancel"}, Click(k) PROVE MadeInv'
  <2>1. CASE k = "start"
    BY <1>2, <1>4, <1>7, <2>1 DEF Click
  <2>2. CASE k # "start"
    BY <1>4, <1>5, <1>7, <2>2 DEF Click
  <2> QED
    BY <2>1, <2>2
<1>8. ASSUME NEW k \in {"start", "cancel"}, ActionFails(k) PROVE MadeInv'
  <2>1. CASE k = "start"
    BY <1>6, <1>8, <2>1 DEF ActionFails, Stages
  <2>2. CASE k # "start"
    BY <1>4, <1>5, <1>8, <2>2, ActionUpdates DEF ActionFails
  <2> QED
    BY <2>1, <2>2
<1>9. ASSUME NEW k \in {"start", "cancel"}, ActionEnds(k) PROVE MadeInv'
  BY <1>1, <1>2, <1>4, <1>9 DEF ActionEnds
<1>10. CASE GateRefuses
  BY <1>6, <1>10 DEF GateRefuses, At, Stages
<1>11. CASE HandleStart
  <2>1. a # None /\ a.stage = "out" /\ a.made = 0
    BY <1>1, <1>11 DEF HandleStart, At
  <2>2. CASE a.id \in running
    BY <1>6, <1>11, <2>1, <2>2 DEF HandleStart, Stages
  <2>3. CASE a.id \notin running
    <3>1. b = Served(a)
      BY <1>4, <1>11, <2>3, ActionUpdates
    <3>2. b.made = 1 /\ b.stage = "ok"
      BY <1>3, <2>1, <3>1, ServedFields
    <3> QED
      BY <1>2, <3>2
  <2> QED
    BY <2>2, <2>3
<1>12. CASE HandleCancel
  BY <1>4, <1>5, <1>12, ActionUpdates DEF HandleCancel
<1>13. CASE Reconfirm
  <2>1. a # None /\ a.tries = 1 /\ a.made = 0 /\ a.made <= 1
    BY <1>1, <1>13 DEF Reconfirm, Retries
  <2>2. b = Retried(a)
    BY <1>4, <1>13, ActionUpdates
  <2>3. b.made = 0
    BY <1>3, <2>1, <2>2, RetriedFields
  <2> QED
    BY <1>2, <2>3
<1>14. CASE UNCHANGED acts
  BY <1>5, <1>14
<1> QED
  BY <1>7, <1>8, <1>9, <1>10, <1>11, <1>12, <1>13, <1>14
     DEF Next, vars, Unmount, Poll, Move, BatchEnds, Answer, Resolve, Reject

\* One click starts at most one batch, whatever the confirm, the network and the
\* batches in between do.
THEOREM OneBatch == Spec => []OneBatchPerClick
<1>1. Init => MadeInv
  BY DEF Init, MadeInv
<1>2. MadeInv => OneBatchPerClick
  BY DEF MadeInv, OneBatchPerClick
<1> QED
  BY <1>1, <1>2, MadeNext, CardTypes, PTL DEF Spec

-----------------------------------------------------------------------------
(* What a loaded card shows *)

\* Only the load effect's last run has its number, and it reads for the page; while
\* nothing was under way at a change of page, everything else is for it as well.
PageInv ==
    /\ \A s \in Slots : calls[s] # None =>
           /\ calls[s].run <= moves
           /\ calls[s].kind = "load" /\ calls[s].run = moves => calls[s].id = page
           /\ ~crossed /\ mounted /\ calls[s].kind # "load" => calls[s].id = page
    /\ ~crossed /\ mounted =>
           \A k \in {"start", "cancel"} : acts[k] # None => acts[k].id = page
    /\ ~crossed /\ mounted => loading \/ error \/ fresh

CallFits(c) ==
    /\ c.run <= moves
    /\ c.kind = "load" /\ c.run = moves => c.id = page
    /\ ~crossed /\ mounted /\ c.kind # "load" => c.id = page

\* The reads and the actions a step leaves in place, while the page stays.
LEMMA PageFrame ==
    ASSUME TypeOK, PageInv, UNCHANGED <<page, moves, crossed>>, mounted' => mounted,
           \A s \in Slots : calls'[s] = calls[s] \/ calls'[s] = None
                            \/ CallFits(calls'[s]),
           \A k \in {"start", "cancel"} : acts'[k] = None \/ acts'[k].id = page
                            \/ (acts[k] # None /\ acts'[k].id = acts[k].id),
           ~crossed /\ mounted' => loading' \/ error' \/ fresh'
    PROVE  PageInv'
<1>1. ASSUME NEW s \in Slots, calls'[s] # None PROVE CallFits(calls[s])'
  <2>1. CallFits(calls'[s])
    BY <1>1 DEF PageInv, CallFits
  <2> DEFINE c == calls'[s]
  <2>2. c.run <= moves /\ (c.kind = "load" /\ c.run = moves => c.id = page)
    BY <2>1 DEF CallFits
  <2>3. ~crossed /\ mounted' /\ c.kind # "load" => c.id = page
    BY <2>1 DEF CallFits
  <2> HIDE DEF c
  <2>4. c.run <= moves' /\ (c.kind = "load" /\ c.run = moves' => c.id = page')
        /\ (~crossed' /\ mounted' /\ c.kind # "load" => c.id = page')
    BY <2>2, <2>3
  <2> QED
    BY <2>4 DEF CallFits, c
<1>2. ASSUME NEW k \in {"start", "cancel"}, acts'[k] # None, ~crossed', mounted'
      PROVE  acts'[k].id = page'
  BY <1>2 DEF PageInv
<1> QED
  BY <1>1, <1>2 DEF PageInv, CallFits

\* What a card asks for fits its page when it is for the page, and is no load.
LEMMA SentFits ==
    ASSUME TypeOK, NEW kind \in {"refetch", "poll"}, NEW id,
           ~crossed /\ mounted => id = page, Send(kind, id, 0)
    PROVE  \A s \in Slots : calls'[s] = calls[s] \/ CallFits(calls'[s])
<1>1. CallFits(Read(kind, id, 0))
  BY Bounds DEF CallFits, Read, TypeOK
<1>2. \A s \in Slots : calls'[s] = calls[s] \/ calls'[s] = Read(kind, id, 0)
  BY SendEffect DEF TypeOK
<1> QED
  BY <1>1, <1>2

LEMMA PageMove ==
    ASSUME TypeOK, PageInv, NEW id \in Ids, Move(id)
    PROVE  PageInv'
<1>1. moves \in Nat /\ moves' = moves + 1 /\ page' = id /\ UNCHANGED <<acts, mounted>>
  BY Bounds DEF Move, TypeOK
<1>2. crossed' = (crossed \/ (\E s \in Slots : calls[s] # None /\ calls[s].kind # "load")
                          \/ (\E k \in DOMAIN acts : acts[k] # None))
  BY DEF Move
<1>3. ~crossed' => /\ \A s \in Slots : calls[s] = None \/ calls[s].kind = "load"
                   /\ \A k \in {"start", "cancel"} : acts[k] = None
  BY <1>2 DEF TypeOK
<1>4. \A s \in Slots : calls'[s] = calls[s] \/ calls'[s] = Read("load", id, moves + 1)
  BY SendEffect DEF TypeOK, Move
<1>5. Read("load", id, moves + 1).run = moves' /\ Read("load", id, moves + 1).id = page'
      /\ Read("load", id, moves + 1).kind = "load"
  BY <1>1 DEF Read
<1>6. ASSUME NEW s \in Slots, calls'[s] # None PROVE CallFits(calls[s])'
  <2>1. CASE calls'[s] = Read("load", id, moves + 1)
    BY <1>1, <1>5, <2>1 DEF CallFits
  <2>2. CASE calls'[s] = calls[s]
    <3>1. calls[s].run \in Nat /\ calls[s].run <= moves
      BY <1>6, <2>2, Bounds DEF TypeOK, Call, PageInv
    <3> DEFINE c == calls'[s]
    <3>2. c.run <= moves' /\ c.run # moves' /\ (~crossed' => c.kind = "load")
      BY <1>1, <1>3, <1>6, <2>2, <3>1
    <3> HIDE DEF c
    <3>3. c.run <= moves' /\ (c.kind = "load" /\ c.run = moves' => c.id = page')
          /\ (~crossed' /\ mounted' /\ c.kind # "load" => c.id = page')
      BY <3>2
    <3> QED
      BY <3>3 DEF CallFits, c
  <2> QED
    BY <1>4, <2>1, <2>2
<1>7. ~crossed' => \A k \in {"start", "cancel"} : acts'[k] = None
  BY <1>1, <1>3
<1>8. loading'
  BY DEF Move
<1> QED
  BY <1>6, <1>7, <1>8 DEF PageInv, CallFits

LEMMA PageNext == TypeOK /\ PageInv /\ [Next]_vars => PageInv'
<1> SUFFICES ASSUME TypeOK, PageInv, [Next]_vars PROVE PageInv'
  OBVIOUS
<1>l. ~crossed /\ mounted => loading \/ error \/ fresh
  BY DEF PageInv
<1>k. DOMAIN acts = {"start", "cancel"} /\ DOMAIN calls = Slots
  BY DEF TypeOK
<1>1. CASE UNCHANGED vars
  BY <1>1 DEF vars, PageInv
<1>2. CASE Unmount
  BY <1>2, PageFrame DEF Unmount
<1>3. CASE Poll
  <2>1. \A s \in Slots : calls'[s] = calls[s] \/ CallFits(calls'[s])
    BY <1>3, SentFits DEF Poll
  <2> QED
    BY <1>3, <1>l, <2>1, PageFrame DEF Poll, reads
<1>4. ASSUME NEW id \in Ids, Move(id) PROVE PageInv'
  BY <1>4, PageMove
<1>5. ASSUME NEW id \in Ids, BatchEnds(id) PROVE PageInv'
  BY <1>5, <1>l, PageFrame DEF BatchEnds, reads
<1>6. ASSUME NEW s \in Slots, Answer(s) PROVE PageInv'
  <2> DEFINE c == [calls[s] EXCEPT !.answered = TRUE,
                                   !.batch = IF calls[s].id \in running THEN calls[s].id ELSE None]
  <2>1. calls[s] \in Call /\ CallFits(calls[s])
    BY <1>6 DEF Answer, TypeOK, PageInv, CallFits
  <2>2. c.run = calls[s].run /\ c.id = calls[s].id /\ c.kind = calls[s].kind
    BY <2>1 DEF Call
  <2>3. calls' = [calls EXCEPT ![s] = c]
    BY <1>6 DEF Answer
  <2> HIDE DEF c
  <2>4. CallFits(c)
    BY <2>1, <2>2 DEF CallFits
  <2>5. \A t \in Slots : calls'[t] = calls[t] \/ CallFits(calls'[t])
    BY <1>k, <2>3, <2>4
  <2> QED
    BY <1>6, <1>l, <2>5, PageFrame DEF Answer, reads
<1>7. ASSUME NEW s \in Slots, Resolve(s) PROVE PageInv'
  <2>1. \A t \in Slots : calls'[t] = calls[t] \/ calls'[t] = None
    BY <1>k, <1>7 DEF Resolve
  <2>2. ~crossed /\ mounted => loading' \/ error' \/ fresh'
    <3>1. CallFits(calls[s])
      BY <1>7 DEF Resolve, PageInv, CallFits
    <3>2. CASE IsActive(calls[s])
      BY <1>7, <3>1, <3>2 DEF Resolve, IsActive, CallFits
    <3>3. CASE ~IsActive(calls[s])
      BY <1>7, <1>l, <3>3 DEF Resolve, EndsLoading
    <3> QED
      BY <3>2, <3>3
  <2> QED
    BY <1>7, <2>1, <2>2, PageFrame DEF Resolve, reads
<1>8. ASSUME NEW s \in Slots, Reject(s) PROVE PageInv'
  <2>1. \A t \in Slots : calls'[t] = calls[t] \/ calls'[t] = None
    BY <1>k, <1>8 DEF Reject
  <2>2. ~crossed /\ mounted => loading' \/ error' \/ fresh'
    BY <1>8, <1>l DEF Reject, EndsLoading
  <2> QED
    BY <1>8, <2>1, <2>2, PageFrame DEF Reject, reads
<1>9. ASSUME NEW k \in {"start", "cancel"}, Click(k) PROVE PageInv'
  <2>1. \A j \in {"start", "cancel"} : acts'[j] = acts[j] \/ acts'[j].id = page
    BY <1>k, <1>9 DEF Click
  <2> QED
    BY <1>9, <1>l, <2>1, PageFrame DEF Click, reads
<1>10. ASSUME NEW k \in {"start", "cancel"}, NEW s \in Stages, To(k, s), acts[k] # None,
              UNCHANGED <<reads, fresh, loading, error, calls>>
       PROVE  PageInv'
  <2>1. acts' = [acts EXCEPT ![k] = StageOf(acts[k], s)] /\ StageOf(acts[k], s).id = acts[k].id
    BY <1>10, ActionUpdates, StageFields DEF TypeOK
  <2>2. \A j \in {"start", "cancel"} :
           acts'[j] = acts[j] \/ (acts[j] # None /\ acts'[j].id = acts[j].id)
    BY <1>k, <1>10, <2>1
  <2> QED
    BY <1>10, <1>l, <2>2, PageFrame DEF reads
<1>11. ASSUME NEW k \in {"start", "cancel"}, ActionFails(k) PROVE PageInv'
  BY <1>10, <1>11 DEF ActionFails, Stages
<1>12. ASSUME NEW k \in {"start", "cancel"}, ActionEnds(k) PROVE PageInv'
  <2>1. \A j \in {"start", "cancel"} : acts'[j] = acts[j] \/ acts'[j] = None
    BY <1>k, <1>12 DEF ActionEnds
  <2>2. \A s \in Slots : calls'[s] = calls[s] \/ CallFits(calls'[s])
    <3>1. CASE mounted
      <4>1. ~crossed => acts[k].id = page
        BY <1>12, <3>1 DEF ActionEnds, PageInv
      <4> QED
        BY <1>12, <3>1, <4>1, SentFits DEF ActionEnds
    <3>2. CASE ~mounted
      BY <1>12, <3>2 DEF ActionEnds
    <3> QED
      BY <3>1, <3>2
  <2>3. ~crossed /\ mounted => loading'
    BY <1>12 DEF ActionEnds
  <2> QED
    BY <1>12, <2>1, <2>2, <2>3, PageFrame DEF ActionEnds, reads
<1>13. CASE GateRefuses
  BY <1>10, <1>13 DEF GateRefuses, At, Stages
<1>14. CASE HandleStart
  <2>1. CASE acts["start"].id \in running
    BY <1>10, <1>14, <2>1 DEF HandleStart, At, Stages
  <2>2. CASE acts["start"].id \notin running
    <3>1. acts["start"] \in Act /\ acts["start"] # None
      BY <1>14 DEF HandleStart, At, TypeOK
    <3>2. acts' = [acts EXCEPT !["start"] = Served(acts["start"])]
      BY <1>14, <2>2, ActionUpdates
    <3>3. \A j \in {"start", "cancel"} :
             acts'[j] = acts[j] \/ (acts[j] # None /\ acts'[j].id = acts[j].id)
      BY <1>k, <3>1, <3>2, ServedFields
    <3> QED
      BY <1>14, <1>l, <3>3, PageFrame DEF HandleStart, reads
  <2> QED
    BY <2>1, <2>2
<1>15. CASE HandleCancel
  BY <1>10, <1>15 DEF HandleCancel, At, Stages
<1>16. CASE Reconfirm
  <2>1. acts["start"] \in Act /\ acts["start"] # None /\ acts["start"].tries = 1
    BY <1>16 DEF Reconfirm, Retries, TypeOK
  <2>2. acts' = [acts EXCEPT !["start"] = Retried(acts["start"])]
    BY <1>16, ActionUpdates
  <2>3. \A j \in {"start", "cancel"} :
           acts'[j] = acts[j] \/ (acts[j] # None /\ acts'[j].id = acts[j].id)
    BY <1>k, <2>1, <2>2, RetriedFields
  <2> QED
    BY <1>16, <1>l, <2>3, PageFrame DEF Reconfirm, reads
<1> QED
  BY <1>1, <1>2, <1>3, <1>4, <1>5, <1>6, <1>7, <1>8, <1>9, <1>11, <1>12, <1>13, <1>14, <1>15,
     <1>16 DEF Next

\* While nothing but loads is under way at a change of page, a loaded card shows an
\* answer of its own cronoton.
THEOREM LoadedCards == Spec => []LoadedIsOfPage
<1>1. Init => PageInv
  <2> SUFFICES ASSUME Init PROVE PageInv
    OBVIOUS
  <2>1. \A s \in Slots : calls[s] # None => calls[s] = Read("load", First, 0)
    BY DEF Init
  <2>2. CallFits(Read("load", First, 0))
    BY DEF Init, CallFits, Read
  <2> QED
    BY <2>1, <2>2 DEF Init, PageInv, CallFits
<1>2. PageInv => LoadedIsOfPage
  BY DEF PageInv, LoadedIsOfPage
<1> QED
  BY <1>1, <1>2, PageNext, CardTypes, PTL DEF Spec
=============================================================================
