--------------------------- MODULE BuilderProofs ---------------------------
(***************************************************************************)
(* Proofs about Builder, for any codes, payloads, keys, resolvers, rows    *)
(* and schedules: that the form, the patch and the row stay together.      *)
(***************************************************************************)
EXTENDS Builder, CronotonStoreProofs

-----------------------------------------------------------------------------
(* Types of the form model *)

\* No signer is a choice of signers.
LEMMA NoSigners == [k \in {} |-> "pure"] \in Signers
<1>1. [k \in {} |-> "pure"] \in [{} -> Mode]
  OBVIOUS
<1> QED
  BY <1>1 DEF Signers

LEMMA EmptyFormType == EmptyForm \in Form
<1>1. /\ [auto |-> FALSE, limit |-> Typed] \in Config
      /\ [kind |-> "gas-station", key |-> None] \in Payer
      /\ [raw |-> FALSE, json |-> NoData, typed |-> NoData] \in Editor
  BY BuilderAssumption DEF Config, Payer, Editor
<1> QED
  BY <1>1, NoSigners, BuilderAssumption DEF EmptyForm, Form

\* Every control of the tabs leaves a form.
LEMMA EditedForms ==
    ASSUME NEW f \in Form
    PROVE  /\ \A c \in Codes : [f EXCEPT !.code = c] \in Form
           /\ \A r \in Resolvers \cup {None} : [f EXCEPT !.resolver = r] \in Form
           /\ [f EXCEPT !.ext = ~@] \in Form
           /\ [f EXCEPT !.args = ~@] \in Form
           /\ [f EXCEPT !.config.auto = ~@] \in Form
           /\ \A n \in {OutOfRange, Typed} : [f EXCEPT !.config.limit = n] \in Form
           /\ [f EXCEPT !.config.auto = TRUE, !.config.limit = Calibrated] \in Form
           /\ [f EXCEPT !.payload.raw = ~@] \in Form
           /\ \A p \in Payloads \cup {Malformed} : [f EXCEPT !.payload.json = p] \in Form
           /\ \A p \in Payloads \cup {Malformed} : [f EXCEPT !.payload.typed = p] \in Form
           /\ \A kind \in {"gas-station", "codex"} :
                 [f EXCEPT !.payer = [kind |-> kind, key |-> None]] \in Form
           /\ \A k \in Keys \cup {None} : [f EXCEPT !.payer.key = k] \in Form
           /\ \A s \in Schedules : [f EXCEPT !.sched = s] \in Form
<1>1. f.config \in Config /\ f.payload \in Editor /\ f.payer \in Payer
  BY DEF Form
<1>2. \A c \in Config : [f EXCEPT !.config = c] \in Form
  BY DEF Form
<1>3. \A e \in Editor : [f EXCEPT !.payload = e] \in Form
  BY DEF Form
<1>4. \A p \in Payer : [f EXCEPT !.payer = p] \in Form
  BY DEF Form
<1>5. /\ \A c \in Codes : [f EXCEPT !.code = c] \in Form
      /\ \A r \in Resolvers \cup {None} : [f EXCEPT !.resolver = r] \in Form
      /\ [f EXCEPT !.ext = ~@] \in Form
      /\ [f EXCEPT !.args = ~@] \in Form
      /\ \A s \in Schedules : [f EXCEPT !.sched = s] \in Form
  BY DEF Form
<1>6. /\ [f.config EXCEPT !.auto = ~@] \in Config
      /\ \A n \in {OutOfRange, Typed} : [f.config EXCEPT !.limit = n] \in Config
      /\ [f.config EXCEPT !.auto = TRUE, !.limit = Calibrated] \in Config
  BY <1>1 DEF Config
<1>7. /\ [f.payload EXCEPT !.raw = ~@] \in Editor
      /\ \A p \in Payloads \cup {Malformed} : [f.payload EXCEPT !.json = p] \in Editor
      /\ \A p \in Payloads \cup {Malformed} : [f.payload EXCEPT !.typed = p] \in Editor
  BY <1>1 DEF Editor
<1>8. /\ \A kind \in {"gas-station", "codex"} : [kind |-> kind, key |-> None] \in Payer
      /\ \A k \in Keys \cup {None} : [f.payer EXCEPT !.key = k] \in Payer
  BY <1>1 DEF Payer
<1>9. /\ [f EXCEPT !.config.auto = ~@] \in Form
      /\ \A n \in {OutOfRange, Typed} : [f EXCEPT !.config.limit = n] \in Form
  BY <1>2, <1>6 DEF Form
<1>10. [f EXCEPT !.config.auto = TRUE, !.config.limit = Calibrated] \in Form
  BY <1>2, <1>6 DEF Form
<1>11. /\ [f EXCEPT !.payload.raw = ~@] \in Form
       /\ \A p \in Payloads \cup {Malformed} : [f EXCEPT !.payload.json = p] \in Form
       /\ \A p \in Payloads \cup {Malformed} : [f EXCEPT !.payload.typed = p] \in Form
  BY <1>3, <1>7 DEF Form
<1>12. /\ \A kind \in {"gas-station", "codex"} :
             [f EXCEPT !.payer = [kind |-> kind, key |-> None]] \in Form
       /\ \A k \in Keys \cup {None} : [f EXCEPT !.payer.key = k] \in Form
  BY <1>4, <1>8 DEF Form
<1> QED
  BY <1>5, <1>9, <1>10, <1>11, <1>12

\* So do the signer controls.
LEMMA EditedSigners ==
    ASSUME NEW f \in Form
    PROVE  /\ \A k \in Keys :
                 [f EXCEPT !.signers = [j \in DOMAIN @ \cup {k} |->
                                           IF j = k THEN "pure" ELSE @[j]]] \in Form
           /\ \A k \in Keys :
                 [f EXCEPT !.signers = [j \in DOMAIN @ \ {k} |-> @[j]]] \in Form
           /\ \A k \in DOMAIN f.signers, m \in Mode : [f EXCEPT !.signers[k] = m] \in Form
<1>1. PICK S \in SUBSET Keys : f.signers \in [S -> Mode]
  BY DEF Form, Signers
<1>2. \A T \in SUBSET Keys : \A s \in [T -> Mode] : [f EXCEPT !.signers = s] \in Form
  BY DEF Form, Signers
<1>3. ASSUME NEW k \in Keys
      PROVE  [f EXCEPT !.signers = [j \in DOMAIN @ \cup {k} |->
                                       IF j = k THEN "pure" ELSE @[j]]] \in Form
  <2>1. [j \in S \cup {k} |-> IF j = k THEN "pure" ELSE f.signers[j]] \in [S \cup {k} -> Mode]
    BY <1>1 DEF Mode
  <2> QED
    BY <1>1, <1>2, <2>1
<1>4. ASSUME NEW k \in Keys
      PROVE  [f EXCEPT !.signers = [j \in DOMAIN @ \ {k} |-> @[j]]] \in Form
  <2>1. [j \in S \ {k} |-> f.signers[j]] \in [S \ {k} -> Mode]
    BY <1>1
  <2> QED
    BY <1>1, <1>2, <2>1
<1>5. ASSUME NEW k \in DOMAIN f.signers, NEW m \in Mode
      PROVE  [f EXCEPT !.signers[k] = m] \in Form
  <2>1. [f.signers EXCEPT ![k] = m] \in [S -> Mode]
    BY <1>1
  <2> QED
    BY <1>2, <2>1
<1> QED
  BY <1>3, <1>4, <1>5

\* A row that is loaded makes a form.
LEMMA RehydratedType ==
    ASSUME NEW row \in Row
    PROVE  Rehydrated(row) \in Form
<1>1. /\ row.def \in Envelope /\ row.sched \in Schedules
      /\ row.resolver \in Resolvers \cup {None}
  BY BuilderAssumption DEF Row
<1>2. /\ row.def.code \in Codes /\ row.def.config \in Config
      /\ row.def.payload \in Payloads /\ row.def.payer \in Payer
      /\ row.def.signers \in Signers
  BY <1>1 DEF Envelope
<1>3. [raw |-> TRUE, json |-> row.def.payload, typed |-> NoData] \in Editor
  BY <1>2, BuilderAssumption DEF Editor
<1> QED
  BY <1>1, <1>2, <1>3, EmptyFormType DEF Rehydrated, Form

\* What a form sends: a definition of the store, and a resolver that is none of
\* the store's marks.
LEMMA CommitBodyType ==
    ASSUME NEW f \in Form, NEW e \in BOOLEAN
    PROVE  /\ BuildPayload(f.payload) \in Payloads
           /\ CommitBody(f, e).def \in Defs
           /\ ToCommitInput(CommitBody(f, e)) \in CommitInput
           /\ ToEditPatch(CommitBody(f, e)) \in EditPatch
<1>1. /\ f.code \in Codes /\ f.config \in Config /\ f.payload \in Editor /\ f.payer \in Payer
      /\ f.signers \in Signers /\ f.sched \in Schedules
      /\ f.resolver \in Resolvers \cup {None} /\ f.ext \in BOOLEAN /\ f.args \in BOOLEAN
  BY DEF Form
<1>2. BuildPayload(f.payload) \in Payloads
  BY <1>1, BuilderAssumption DEF BuildPayload, Editor
<1> DEFINE def == [code |-> f.code, config |-> f.config, payload |-> BuildPayload(f.payload),
                   payer |-> f.payer, signers |-> f.signers]
           resolver == IF f.resolver = None THEN Keep ELSE f.resolver
<1>3. def \in Defs
  BY <1>1, <1>2, BuilderAssumption DEF Envelope
<1>4. CommitBody(f, e) = [def |-> def, sched |-> f.sched, resolver |-> resolver,
                          ext |-> f.ext \/ e, args |-> f.args, eventDriven |-> e]
  BY DEF CommitBody
<1>5. /\ resolver \in Resolvers \cup {None, Keep}
      /\ (IF resolver = Keep THEN None ELSE resolver) \in Resolvers \cup {None}
  BY <1>1
<1> HIDE DEF def, resolver
<1>6. ToCommitInput(CommitBody(f, e)) =
         [def |-> def, sched |-> f.sched,
          resolver |-> IF resolver = Keep THEN None ELSE resolver,
          ext |-> f.ext \/ e, args |-> f.args, eventDriven |-> e]
  BY <1>4 DEF ToCommitInput
<1>7. ToCommitInput(CommitBody(f, e)) \in CommitInput
  BY <1>1, <1>3, <1>5, <1>6 DEF CommitInput
<1>8. ToEditPatch(CommitBody(f, e)) \in EditPatch
  BY <1>1, <1>3, <1>4, <1>5 DEF ToEditPatch, EditPatch
<1> QED
  BY <1>2, <1>3, <1>4, <1>7, <1>8

-----------------------------------------------------------------------------
(* Types of the rows it makes *)

\* A create or a save writes one row, a well-formed one.
LEMMA SaveTypes ==
    ASSUME StoreTypeOK, NEW id \in Ids, NEW f \in Form, NEW e \in BOOLEAN
    PROVE  /\ Commit(id, ToCommitInput(CommitBody(f, e))) => StoreTypeOK'
           /\ Edit(id, ToEditPatch(CommitBody(f, e))) => StoreTypeOK'
<1>1. \A row \in Row : rows' = [rows EXCEPT ![id] = row] /\ now' = now => StoreTypeOK'
  BY DEF StoreTypeOK
<1>2. now \in Time
  BY DEF StoreTypeOK
<1>3. CommittedRow(ToCommitInput(CommitBody(f, e))) \in Row
  BY <1>2, CommitBodyType, CommittedType
<1>4. Exists(id) => rows[id] \in Row
  BY DEF Exists, StoreTypeOK
<1>5. Exists(id) => EditedRow(rows[id], ToEditPatch(CommitBody(f, e))) \in Row
  BY <1>2, <1>4, CommitBodyType, EditedFields
<1> QED
  BY <1>1, <1>3, <1>5 DEF Commit, Edit

-----------------------------------------------------------------------------
(* Type correctness *)

\* Whatever control is used, one form replaces another.
LEMMA EditIsChange ==
    ASSUME form \in Form, EditForm
    PROVE  \E f \in Form : Changes(f)
<1>1. CASE EditCode
  BY <1>1, EditedForms DEF EditCode
<1>2. CASE EditHeader
  BY <1>2, EditedForms DEF EditHeader
<1>3. CASE EditConfig
  BY <1>3, EditedForms DEF EditConfig
<1>4. CASE SwitchPayload
  BY <1>4, EditedForms DEF SwitchPayload
<1>5. CASE EditRawPayload
  BY <1>5, EditedForms DEF EditRawPayload
<1>6. CASE EditTypedPayload
  BY <1>6, EditedForms DEF EditTypedPayload
<1>7. CASE PickPayer
  BY <1>7, EditedForms DEF PickPayer
<1>8. CASE AddSigner
  BY <1>8, EditedSigners DEF AddSigner
<1>9. CASE RemoveSigner
  <2>1. DOMAIN form.signers \subseteq Keys
    BY DEF Form, Signers
  <2> QED
    BY <1>9, <2>1, EditedSigners DEF RemoveSigner
<1>10. CASE UpdateSigner
  BY <1>10, EditedSigners DEF UpdateSigner
<1>11. CASE EditSchedule
  BY <1>11, EditedForms DEF EditSchedule
<1> QED
  BY <1>1, <1>2, <1>3, <1>4, <1>5, <1>6, <1>7, <1>8, <1>9, <1>10, <1>11 DEF EditForm

LEMMA Bounds == MaxEdits \in Nat /\ MaxClicks \in Nat /\ MaxTurns \in Nat
  BY BuilderAssumption

\* An effect starts at most one load, of the row it is given.
LEMMA StartLoadType ==
    ASSUME NEW id \in Ids \cup {None}
    PROVE  StartLoad(id) \subseteq Load
<1>1. CASE id = None
  BY <1>1 DEF StartLoad
<1>2. CASE id # None
  <2>1. [id |-> id, active |-> TRUE] \in Load
    BY <1>2 DEF Load
  <2> QED
    BY <1>2, <2>1 DEF StartLoad
<1> QED
  BY <1>1, <1>2

LEMMA TypeInit == Init => TypeOK
<1> SUFFICES ASSUME Init PROVE TypeOK
  OBVIOUS
<1>1. StoreTypeOK
  <2>1. now \in Time
    BY StoreAssumption DEF Init, Time
  <2>2. ASSUME NEW id \in Ids, Start[id] # None
        PROVE  CommittedRow(Start[id]) \in Row
    <3>1. Start[id] \in CommitInput
      BY <2>2, BuilderAssumption, StoreAssumption
    <3> QED
      BY <2>1, <3>1, CommittedType
  <2>3. rows = [id \in Ids |-> IF Start[id] = None THEN Unborn ELSE CommittedRow(Start[id])]
    BY DEF Init
  <2> QED
    BY <2>1, <2>2, <2>3 DEF StoreTypeOK
<1>2. editId \in Ids \cup {None} /\ loads = StartLoad(editId)
  BY DEF Init
<1>3. loads \subseteq Load
  BY <1>2, StartLoadType
<1>4. edits \in 0..MaxEdits /\ clicks \in 0..MaxClicks /\ turns \in 0..MaxTurns
  BY Bounds DEF Init
<1>5. /\ {mounted, evented, calibrated, dirty, lost, overSim, revisited, failed} \subseteq BOOLEAN
      /\ {loadedEditId, origin} \subseteq Ids \cup {None}
      /\ form \in Form /\ sim \in Snapshot \cup {None} /\ commit \in Request \cup {None}
  BY EmptyFormType DEF Init
<1> QED
  BY <1>1, <1>2, <1>3, <1>4, <1>5 DEF TypeOK

LEMMA TypeNext == TypeOK /\ [Next]_vars => TypeOK'
<1> SUFFICES ASSUME TypeOK, [Next]_vars PROVE TypeOK'
  OBVIOUS
<1> USE DEF TypeOK, history, counters, store, page
<1>0. CASE UNCHANGED vars
  BY <1>0 DEF vars, StoreTypeOK
<1>1. ASSUME UNCHANGED store PROVE StoreTypeOK'
  BY <1>1 DEF StoreTypeOK
<1>t. Turn => turns' \in 0..MaxTurns
  BY Bounds DEF Turn
<1>c. clicks < MaxClicks /\ clicks' = clicks + 1 => clicks' \in 0..MaxClicks
  BY Bounds
<1>2. /\ \A c \in Request, s \in {"out", "expired", "ok", "refused", "failed"} :
            [c EXCEPT !.stage = s] \in Request
      /\ \A c \in Request : [c EXCEPT !.stage = "ok", !.made = @ + 1] \in Request
      /\ \A c \in Request : c.tries = 1 => [c EXCEPT !.stage = "out", !.tries = @ + 1] \in Request
  <2>1. ASSUME NEW c \in Request, NEW s \in {"out", "expired", "ok", "refused", "failed"}
        PROVE  [c EXCEPT !.stage = s] \in Request
    BY DEF Request
  <2>2. ASSUME NEW c \in Request
        PROVE  [c EXCEPT !.stage = "ok", !.made = @ + 1] \in Request
    <3>1. c.made + 1 \in Nat
      BY DEF Request
    <3> QED
      BY <3>1 DEF Request
  <2>3. ASSUME NEW c \in Request, c.tries = 1
        PROVE  [c EXCEPT !.stage = "out", !.tries = @ + 1] \in Request
    <3>1. c.tries + 1 \in 1..2
      BY <2>3
    <3> QED
      BY <3>1 DEF Request
  <2> QED
    BY <2>1, <2>2, <2>3
<1>3. ASSUME NEW id \in Ids \cup {None}, Route(id) PROVE TypeOK'
  <2>1. \A l \in loads : [l EXCEPT !.active = FALSE] \in Load
    BY DEF Load
  <2>2. StartLoad(id) \subseteq Load
    BY StartLoadType
  <2>3. loads' \subseteq Load
    BY <1>3, <2>1, <2>2 DEF Route
  <2> QED
    BY <1>1, <1>t, <1>3, <2>3 DEF Route
<1>4. CASE Unmount
  BY <1>1, <1>4, EmptyFormType DEF Unmount
<1>5. ASSUME NEW l \in loads, LoadArrives(l) PROVE TypeOK'
  <2>1. l.id \in Ids
    BY DEF Load
  <2>2. rows[l.id] \in Row
    BY <1>5, <2>1 DEF LoadArrives, Exists, StoreTypeOK
  <2>3. Rehydrated(rows[l.id]) \in Form
    BY <2>2, RehydratedType
  <2>4. loads' \subseteq Load /\ form' \in Form /\ lost' \in BOOLEAN
        /\ {loadedEditId', origin'} \subseteq Ids \cup {None}
    BY <1>5, <2>1, <2>3 DEF LoadArrives
  <2> QED
    BY <1>1, <1>5, <2>4 DEF LoadArrives
<1>6. ASSUME NEW l \in loads, LoadFails(l) PROVE TypeOK'
  <2>1. turns' \in 0..MaxTurns /\ l.active \in BOOLEAN
    BY <1>6, <1>t DEF LoadFails, Load
  <2> QED
    BY <1>1, <1>6, <2>1 DEF LoadFails
<1>7. CASE ResolversArrive
  BY <1>1, <1>7 DEF ResolversArrive
<1>8. CASE EditForm
  <2>1. PICK f \in Form : Changes(f)
    BY <1>8, EditIsChange
  <2> QED
    BY <1>1, <2>1, Bounds DEF Changes
<1>9. CASE SimulateClick
  <2>1. sim' \in Snapshot
    BY <1>9 DEF SimulateClick, Snapshot
  <2> QED
    BY <1>1, <1>c, <1>9, <2>1 DEF SimulateClick
<1>10. CASE SimulateAnswers
  <2>1. sim.form \in Form /\ sim.origin \in Ids \cup {None}
    BY <1>10 DEF SimulateAnswers, Snapshot
  <2>2. [sim.form EXCEPT !.config.auto = TRUE, !.config.limit = Calibrated] \in Form
    BY <2>1, EditedForms
  <2>3. WriteBack => form' \in Form /\ origin' \in Ids \cup {None} /\ lost' \in BOOLEAN
    BY <2>1, <2>2 DEF WriteBack
  <2>4. calibrated' \in BOOLEAN /\ form' \in Form /\ origin' \in Ids \cup {None}
        /\ lost' \in BOOLEAN
    BY <1>10, <2>3 DEF SimulateAnswers
  <2> QED
    BY <1>1, <1>10, <2>4 DEF SimulateAnswers
<1>11. CASE SimulateFails
  BY <1>1, <1>t, <1>11 DEF SimulateFails
<1>12. CASE CommitClick
  <2>1. EventDrivenResolver(form.resolver) \in BOOLEAN
    BY DEF EventDrivenResolver
  <2>2. commit' \in Request
    BY <1>12, <2>1 DEF CommitClick, Request
  <2> QED
    BY <1>1, <1>c, <1>12, <2>2 DEF CommitClick
<1>13. CASE GateRefuses
  BY <1>1, <1>2, <1>t, <1>13 DEF GateRefuses, At, To
<1>14. CASE HandleCreate
  <2>1. commit \in Request /\ commit.form \in Form /\ commit.eventDriven \in BOOLEAN
    BY <1>14 DEF HandleCreate, At, Request
  <2>2. StoreTypeOK'
    BY <1>1, <1>14, <2>1, SaveTypes DEF HandleCreate
  <2>3. commit' \in Request
    BY <1>2, <1>14, <2>1 DEF HandleCreate, To, Served
  <2> QED
    BY <1>14, <2>2, <2>3 DEF HandleCreate
<1>15. CASE HandleEdit
  <2>1. /\ commit \in Request /\ commit.form \in Form /\ commit.eventDriven \in BOOLEAN
        /\ commit.target \in Ids
    BY <1>15 DEF HandleEdit, At, Request
  <2>2. StoreTypeOK'
    BY <1>1, <1>15, <2>1, SaveTypes DEF HandleEdit
  <2>3. commit' \in Request
    BY <1>2, <1>15, <2>1 DEF HandleEdit, To, Served
  <2> QED
    BY <1>15, <2>2, <2>3 DEF HandleEdit
<1>16. CASE CommitFails
  BY <1>1, <1>2, <1>t, <1>16 DEF CommitFails, To
<1>17. CASE Reconfirm
  BY <1>1, <1>2, <1>17 DEF Reconfirm, Retries
<1>18. CASE CommitEnds
  BY <1>1, <1>18 DEF CommitEnds
<1>19. ASSUME NEW id \in Ids, OtherDeletes(id) PROVE TypeOK'
  <2>1. StoreTypeOK'
    BY <1>19 DEF OtherDeletes, Delete, StoreTypeOK
  <2> QED
    BY <1>19, <1>t, <2>1 DEF OtherDeletes
<1> QED
  BY <1>0, <1>3, <1>4, <1>5, <1>6, <1>7, <1>8, <1>9, <1>10, <1>11, <1>12, <1>13, <1>14,
     <1>15, <1>16, <1>17, <1>18, <1>19 DEF Next

\* Every reachable state is well typed: the form keeps its shape through every
\* load, control and write-back, and what it sends is what the store takes.
THEOREM TypeCorrect == Spec => []TypeOK
<1> QED
  BY TypeInit, TypeNext, PTL DEF Spec

-----------------------------------------------------------------------------
(* Which row the form is of *)

\* The one load that counts is that of the edited row.
LoadInv == \A l \in loads : l.active => mounted /\ l.id = editId

\* The form is of the row that was rehydrated last, and so is the form of a
\* Simulate in flight, unless the user or the host has moved on under it.
OriginInv ==
    /\ ~overSim => loadedEditId = origin
    /\ sim # None /\ ~overSim =>
          /\ sim.origin = origin
          /\ editId # None => loadedEditId = editId

\* While a load counts, the form is closed, and so not edited, unless the host
\* came back to its row.
ClosedInv ==
    (\E l \in loads : l.active) =>
        /\ loadedEditId = editId => revisited
        /\ dirty => overSim \/ revisited

\* Nothing touches the form under a Simulate but what the history notes.
SnapshotInv == sim # None /\ ~overSim /\ ~revisited => form = sim.form

PageInv == LoadInv /\ OriginInv /\ ClosedInv /\ SnapshotInv /\ EditsKept

\* The form a row waits for is on its way, or open, or was not to be had.
OpensInv ==
    mounted /\ editId # None /\ ~failed =>
        EditReady \/ \E l \in loads : l.active /\ l.id = editId

\* A click that is not served has written nothing, and none is served twice.
MadeInv ==
    commit # None =>
        /\ commit.made \in {0, 1}
        /\ commit.stage \in {"out", "expired"} => commit.made = 0

LEMMA PageInit == Init => PageInv /\ OpensInv /\ MadeInv /\ PatchFitsItsRow
<1> SUFFICES ASSUME Init PROVE PageInv /\ OpensInv /\ MadeInv /\ PatchFitsItsRow
  OBVIOUS
<1>1. /\ mounted = TRUE /\ loads = StartLoad(editId) /\ editId \in Ids \cup {None}
      /\ loadedEditId = None /\ origin = None /\ sim = None /\ commit = None
      /\ dirty = FALSE /\ lost = FALSE
  BY DEF Init
<1>2. \A l \in loads : l.id = editId /\ editId # None
  BY <1>1 DEF StartLoad
<1>3. editId # None => \E l \in loads : l.active /\ l.id = editId
  BY <1>1 DEF StartLoad
<1> QED
  BY <1>1, <1>2, <1>3
     DEF PageInv, LoadInv, OriginInv, ClosedInv, SnapshotInv, EditsKept, OpensInv, MadeInv,
         PatchFitsItsRow, EditReady

\* A load that counts is the only one.
LEMMA OneLoad ==
    ASSUME TypeOK, LoadInv, NEW l \in loads, NEW k \in loads, l.active, k.active
    PROVE  k = l
<1>1. l \in Load /\ k \in Load /\ l.id = k.id
  BY DEF TypeOK, LoadInv
<1>2. l.active = TRUE /\ k.active = TRUE
  BY <1>1 DEF Load
<1> QED
  BY <1>1, <1>2 DEF Load

\* The steps that leave the page alone.
formVars == <<mounted, editId, loads, form, loadedEditId, sim, history>>

LEMMA PageKept ==
    ASSUME PageInv, OpensInv, UNCHANGED formVars
    PROVE  PageInv' /\ OpensInv'
BY DEF formVars, history, PageInv, LoadInv, OriginInv, ClosedInv, SnapshotInv, EditsKept,
       OpensInv, EditReady

LEMMA PageNext == TypeOK /\ PageInv /\ OpensInv /\ [Next]_vars => PageInv' /\ OpensInv'
<1> SUFFICES ASSUME TypeOK, PageInv, OpensInv, [Next]_vars PROVE PageInv' /\ OpensInv'
  OBVIOUS
<1> USE DEF history, counters, store
<1> DEFINE Parts == LoadInv /\ OriginInv /\ ClosedInv /\ SnapshotInv /\ EditsKept /\ OpensInv
<1>1. ASSUME Parts' PROVE PageInv' /\ OpensInv'
  BY <1>1 DEF PageInv
<1>2. Parts /\ loads \subseteq Load /\ None \notin Ids /\ {editId, loadedEditId} \subseteq Ids \cup {None}
  BY BuilderAssumption DEF PageInv, TypeOK
<1>3. CASE UNCHANGED formVars
  BY <1>3, PageKept
<1>4. ASSUME NEW id \in Ids \cup {None}, Route(id) PROVE Parts'
  <2> DEFINE old == {[l EXCEPT !.active = FALSE] : l \in loads}
  <2>1. /\ mounted /\ mounted' /\ editId' = id /\ dirty' = FALSE
        /\ loads' = old \cup StartLoad(id)
        /\ overSim' = (overSim \/ sim # None)
        /\ revisited' = (revisited \/ (id # None /\ id = loadedEditId))
        /\ UNCHANGED <<form, loadedEditId, sim, origin, lost>>
    BY <1>4 DEF Route
  <2>2. \A l \in old : ~l.active
    BY <1>2 DEF Load
  <2>3. \A l \in StartLoad(id) : l.id = id /\ id # None
    BY DEF StartLoad
  <2>4. id # None => \E l \in StartLoad(id) : l.active /\ l.id = id
    BY DEF StartLoad
  <2> HIDE DEF old
  <2>5. LoadInv'
    BY <2>1, <2>2, <2>3 DEF LoadInv
  <2>6. OriginInv' /\ SnapshotInv' /\ EditsKept'
    BY <1>2, <2>1 DEF OriginInv, SnapshotInv, EditsKept
  <2>7. ClosedInv'
    BY <2>1, <2>2, <2>3 DEF ClosedInv
  <2>8. OpensInv'
    BY <2>1, <2>4 DEF OpensInv
  <2> QED
    BY <2>5, <2>6, <2>7, <2>8
<1>5. CASE Unmount
  BY <1>1, <1>2, <1>5
     DEF Unmount, LoadInv, OriginInv, ClosedInv, SnapshotInv, EditsKept, OpensInv
<1>6. ASSUME NEW l \in loads, LoadArrives(l) PROVE Parts'
  <2>1. /\ loads' = loads \ {l}
        /\ UNCHANGED <<mounted, editId, sim, dirty, overSim, revisited, failed>>
    BY <1>6 DEF LoadArrives
  <2>2. CASE ~l.active
    <3>1. UNCHANGED <<form, loadedEditId, origin, lost>>
      BY <1>6, <2>2 DEF LoadArrives, IsActive
    <3>2. \A k \in loads : k.active => k \in loads'
      BY <2>1, <2>2
    <3>3. LoadInv' /\ OriginInv' /\ ClosedInv' /\ SnapshotInv' /\ EditsKept'
      BY <1>2, <2>1, <3>1 DEF LoadInv, OriginInv, ClosedInv, SnapshotInv, EditsKept
    <3>4. OpensInv'
      BY <1>2, <2>1, <3>1, <3>2 DEF OpensInv, EditReady
    <3> QED
      BY <3>3, <3>4
  <2>3. CASE l.active
    <3>1. loadedEditId' = l.id /\ origin' = l.id /\ lost' = (lost \/ dirty)
      BY <1>6, <2>3 DEF LoadArrives, IsActive
    <3>2. l.id = editId /\ editId # None
      BY <1>2, <2>3 DEF LoadInv, Load
    <3>3. \A k \in loads' : ~k.active
      BY <1>2, <2>1, <2>3, OneLoad
    <3>4. LoadInv' /\ ClosedInv' /\ OpensInv'
      BY <2>1, <3>1, <3>2, <3>3 DEF LoadInv, ClosedInv, OpensInv, EditReady
    <3>5. sim # None /\ ~overSim => loadedEditId = editId /\ sim.origin = l.id /\ revisited
      BY <1>2, <2>3, <3>2 DEF OriginInv, ClosedInv
    <3>6. OriginInv' /\ SnapshotInv'
      BY <2>1, <3>1, <3>2, <3>5 DEF OriginInv, SnapshotInv
    <3>7. EditsKept'
      BY <1>2, <2>1, <2>3, <3>1 DEF ClosedInv, EditsKept
    <3> QED
      BY <3>4, <3>6, <3>7
  <2> QED
    BY <2>2, <2>3
<1>7. ASSUME NEW l \in loads, LoadFails(l) PROVE Parts'
  <2>1. /\ loads' = loads \ {l} /\ failed' = (failed \/ l.active)
        /\ UNCHANGED <<mounted, editId, form, loadedEditId, sim, origin, dirty, lost,
                       overSim, revisited>>
    BY <1>7 DEF LoadFails
  <2>2. LoadInv' /\ OriginInv' /\ ClosedInv' /\ SnapshotInv' /\ EditsKept'
    BY <1>2, <2>1 DEF LoadInv, OriginInv, ClosedInv, SnapshotInv, EditsKept
  <2>3. OpensInv'
    BY <1>2, <2>1 DEF OpensInv, EditReady
  <2> QED
    BY <2>2, <2>3
<1>8. CASE ResolversArrive
  BY <1>1, <1>2, <1>8
     DEF ResolversArrive, LoadInv, OriginInv, ClosedInv, SnapshotInv, EditsKept, OpensInv,
         EditReady
<1>9. CASE EditForm
  <2>1. PICK f \in Form : Changes(f)
    BY <1>9, EditIsChange DEF TypeOK
  <2>2. /\ EditReady /\ dirty' = TRUE /\ overSim' = (overSim \/ sim # None)
        /\ UNCHANGED <<mounted, editId, loads, loadedEditId, sim, origin, lost, revisited,
                       failed>>
    BY <2>1 DEF Changes
  <2>3. (\E l \in loads : l.active) => revisited
    BY <1>2, <2>2 DEF EditReady, LoadInv, ClosedInv, Load
  <2>4. LoadInv' /\ OriginInv' /\ ClosedInv' /\ SnapshotInv' /\ EditsKept' /\ OpensInv'
    BY <1>2, <2>2, <2>3
       DEF LoadInv, OriginInv, ClosedInv, SnapshotInv, EditsKept, OpensInv, EditReady
  <2> QED
    BY <1>1, <2>4
<1>10. CASE SimulateClick
  <2>1. /\ EditReady /\ sim' = [form |-> form, origin |-> origin]
        /\ UNCHANGED <<mounted, editId, loads, form, loadedEditId, origin, dirty, lost,
                       overSim, revisited, failed>>
    BY <1>10 DEF SimulateClick
  <2>2. sim'.form = form /\ sim'.origin = origin
    BY <2>1
  <2>3. LoadInv' /\ OriginInv' /\ ClosedInv' /\ SnapshotInv' /\ EditsKept' /\ OpensInv'
    BY <1>2, <2>1, <2>2
       DEF LoadInv, OriginInv, ClosedInv, SnapshotInv, EditsKept, OpensInv, EditReady
  <2> QED
    BY <1>1, <2>3
<1>11. CASE SimulateAnswers
  <2>1. /\ sim # None /\ sim' = None
        /\ UNCHANGED <<mounted, editId, loads, loadedEditId, dirty, overSim, revisited,
                       failed>>
        /\ WriteBack \/ UNCHANGED <<form, origin, lost>>
    BY <1>11 DEF SimulateAnswers
  <2>2. LoadInv' /\ ClosedInv' /\ SnapshotInv' /\ OpensInv'
    BY <1>2, <2>1 DEF LoadInv, ClosedInv, SnapshotInv, OpensInv, EditReady
  <2>3. OriginInv'
    BY <1>2, <2>1 DEF OriginInv, WriteBack
  <2>4. EditsKept'
    BY <1>2, <2>1 DEF EditsKept, SnapshotInv, WriteBack
  <2> QED
    BY <1>1, <2>2, <2>3, <2>4
<1>12. CASE SimulateFails
  BY <1>1, <1>2, <1>12
     DEF SimulateFails, LoadInv, OriginInv, ClosedInv, SnapshotInv, EditsKept, OpensInv,
         EditReady
<1>13. CASE CommitClick
  BY <1>13, <1>3 DEF CommitClick, formVars
<1>14. CASE GateRefuses \/ HandleCreate \/ HandleEdit \/ CommitFails \/ Reconfirm \/ CommitEnds
  BY <1>14, <1>3 DEF GateRefuses, HandleCreate, HandleEdit, CommitFails, Reconfirm, CommitEnds,
                       page, formVars
<1>15. ASSUME NEW id \in Ids, OtherDeletes(id) PROVE PageInv' /\ OpensInv'
  BY <1>15, <1>3 DEF OtherDeletes, formVars
<1>16. CASE UNCHANGED vars
  BY <1>16, <1>3 DEF vars, formVars
<1> QED
  BY <1>1, <1>3, <1>4, <1>5, <1>6, <1>7, <1>8, <1>9, <1>10, <1>11, <1>12, <1>13, <1>14,
     <1>15, <1>16 DEF Next

\* The steps that touch a commit, the steps that touch the table; the history of
\* an overtaken Simulate only grows.
LEMMA Frames ==
    ASSUME TypeOK, [Next]_vars
    PROVE  /\ \/ UNCHANGED commit
              \/ CommitClick \/ GateRefuses \/ HandleCreate \/ HandleEdit
              \/ CommitFails \/ Reconfirm \/ CommitEnds
           /\ \/ UNCHANGED store
              \/ HandleCreate \/ HandleEdit \/ \E id \in Ids : OtherDeletes(id)
           /\ overSim => overSim'
<1> DEFINE Goal == /\ UNCHANGED <<store, commit>>
                   /\ overSim => overSim'
<1> USE DEF history, counters, store, page
<1>1. ASSUME NEW id \in Ids \cup {None}, Route(id) PROVE Goal
  BY <1>1 DEF Route
<1>2. ASSUME NEW l \in loads, LoadArrives(l) \/ LoadFails(l) PROVE Goal
  BY <1>2 DEF LoadArrives, LoadFails
<1>3. ASSUME EditForm PROVE Goal
  <2>1. PICK f \in Form : Changes(f)
    BY <1>3, EditIsChange DEF TypeOK
  <2> QED
    BY <2>1 DEF Changes
<1>4. ASSUME Unmount \/ ResolversArrive \/ SimulateClick \/ SimulateAnswers \/ SimulateFails
      PROVE  Goal
  BY <1>4 DEF Unmount, ResolversArrive, SimulateClick, SimulateAnswers, SimulateFails
<1>5. ASSUME UNCHANGED vars PROVE Goal
  BY <1>5 DEF vars
<1>6. CASE CommitClick \/ GateRefuses \/ HandleCreate \/ HandleEdit \/ CommitFails \/ Reconfirm
           \/ CommitEnds
  BY <1>6 DEF CommitClick, GateRefuses, HandleCreate, HandleEdit, CommitFails, Reconfirm,
              CommitEnds
<1>7. ASSUME NEW id \in Ids, OtherDeletes(id) PROVE UNCHANGED commit /\ (overSim => overSim')
  BY <1>7 DEF OtherDeletes
<1> QED
  BY <1>1, <1>2, <1>3, <1>4, <1>5, <1>6, <1>7 DEF Next

\* A commit is clicked on an open form, so it goes to the row the form is of.
LEMMA PatchNext == TypeOK /\ PageInv /\ PatchFitsItsRow /\ [Next]_vars => PatchFitsItsRow'
<1> SUFFICES ASSUME TypeOK, PageInv, PatchFitsItsRow, [Next]_vars PROVE PatchFitsItsRow'
  OBVIOUS
<1>1. overSim => overSim'
  BY Frames
<1>2. CASE UNCHANGED commit
  BY <1>1, <1>2 DEF PatchFitsItsRow
<1>3. CASE CommitClick
  <2>1. /\ EditReady /\ UNCHANGED overSim
        /\ commit'.target = editId /\ commit'.origin = origin
    BY <1>3 DEF CommitClick, history
  <2> QED
    BY <2>1 DEF EditReady, PageInv, OriginInv, PatchFitsItsRow
<1>4. CASE GateRefuses \/ HandleCreate \/ HandleEdit \/ CommitFails \/ Reconfirm
  <2> USE <1>4 DEF GateRefuses, HandleCreate, HandleEdit, CommitFails, Reconfirm, At, To, Served
  <2>1. commit \in Request
    BY DEF TypeOK
  <2>2. \/ \E s : commit' = [commit EXCEPT !.stage = s]
        \/ commit' = [commit EXCEPT !.stage = "ok", !.made = @ + 1]
        \/ commit' = [commit EXCEPT !.stage = "out", !.tries = @ + 1]
    OBVIOUS
  <2>3. commit'.target = commit.target /\ commit'.origin = commit.origin /\ commit # None
    BY <2>1, <2>2 DEF Request
  <2> QED
    BY <1>1, <2>3 DEF PatchFitsItsRow
<1>5. CASE CommitEnds
  BY <1>5 DEF CommitEnds, PatchFitsItsRow
<1> QED
  BY <1>2, <1>3, <1>4, <1>5, Frames

\* Every PATCH carries the row it goes to.
THEOREM PatchesFit == Spec => []PatchFitsItsRow
<1>1. Init => TypeOK /\ PageInv /\ OpensInv /\ PatchFitsItsRow
  BY TypeInit, PageInit
<1>2. TypeOK /\ PageInv /\ OpensInv /\ PatchFitsItsRow /\ [Next]_vars
      => (TypeOK /\ PageInv /\ OpensInv /\ PatchFitsItsRow)'
  BY TypeNext, PageNext, PatchNext
<1> QED
  BY <1>1, <1>2, PTL DEF Spec

\* No load overwrites an edit but that of a row the host came back to.
THEOREM EditsAreKept == Spec => []EditsKept
<1>1. Init => TypeOK /\ PageInv /\ OpensInv
  BY TypeInit, PageInit
<1>2. TypeOK /\ PageInv /\ OpensInv /\ [Next]_vars => (TypeOK /\ PageInv /\ OpensInv)'
  BY TypeNext, PageNext
<1>3. PageInv => EditsKept
  BY DEF PageInv
<1> QED
  BY <1>1, <1>2, <1>3, PTL DEF Spec

\* A form that is not open waits for a load that is on its way.
THEOREM FormsOpen == Spec => []FormOpens
<1>1. Init => TypeOK /\ PageInv /\ OpensInv
  BY TypeInit, PageInit
<1>2. TypeOK /\ PageInv /\ OpensInv /\ [Next]_vars => (TypeOK /\ PageInv /\ OpensInv)'
  BY TypeNext, PageNext
<1>3. OpensInv => FormOpens
  BY DEF OpensInv, FormOpens
<1> QED
  BY <1>1, <1>2, <1>3, PTL DEF Spec

\* A request that is out has written nothing, so a second try is the first save.
LEMMA MadeNext == TypeOK /\ MadeInv /\ [Next]_vars => MadeInv'
<1> SUFFICES ASSUME TypeOK, MadeInv, [Next]_vars PROVE MadeInv'
  OBVIOUS
<1>1. CASE UNCHANGED commit
  BY <1>1 DEF MadeInv
<1>2. commit # None => commit \in Request
  BY DEF TypeOK
<1>3. CASE CommitClick
  BY <1>3 DEF CommitClick, MadeInv
<1>4. CASE GateRefuses \/ CommitFails
  BY <1>2, <1>4 DEF GateRefuses, CommitFails, At, To, MadeInv, Request
<1>5. CASE HandleCreate \/ HandleEdit
  <2>1. commit \in Request /\ commit.stage = "out" /\ commit.made = 0
    BY <1>2, <1>5 DEF HandleCreate, HandleEdit, At, MadeInv
  <2>2. CASE To("refused")
    BY <2>1, <2>2 DEF To, MadeInv, Request
  <2>3. CASE Served
    <3>1. commit'.made = 1 /\ commit'.stage = "ok"
      BY <2>1, <2>3 DEF Served, Request
    <3> QED
      BY <3>1 DEF MadeInv
  <2> QED
    BY <1>5, <2>2, <2>3 DEF HandleCreate, HandleEdit
<1>6. CASE Reconfirm
  <2>1. commit \in Request /\ commit.made = 0
    BY <1>2, <1>6 DEF Reconfirm, Retries, MadeInv
  <2>2. commit'.made = 0
    BY <1>6, <2>1 DEF Reconfirm, Request
  <2> QED
    BY <2>2 DEF MadeInv
<1>7. CASE CommitEnds
  BY <1>7 DEF CommitEnds, MadeInv
<1> QED
  BY <1>1, <1>3, <1>4, <1>5, <1>6, <1>7, Frames

\* One click saves once, although an expired confirm makes it ask twice.
THEOREM OneSave == Spec => []OneSavePerClick
<1>1. Init => TypeOK /\ MadeInv
  BY TypeInit, PageInit
<1>2. TypeOK /\ MadeInv /\ [Next]_vars => (TypeOK /\ MadeInv)'
  BY TypeNext, MadeNext
<1>3. MadeInv => OneSavePerClick
  BY DEF MadeInv, OneSavePerClick
<1> QED
  BY <1>1, <1>2, <1>3, PTL DEF Spec

-----------------------------------------------------------------------------
(* What a save stores *)

\* What was clicked: a body that may commit, and an event only for a resolver
\* that has one.
ClickedInv ==
    commit # None =>
        /\ PayloadOk(commit.form)
        /\ commit.eventDriven => commit.form.resolver \in Evented \cup ConfigEvented

\* A row of an evented resolver is fired from outside.
ForcedInv == \A id \in Ids : Exists(id) /\ rows[id].resolver \in Evented => rows[id].ext

LEMMA ClickedNext == TypeOK /\ ClickedInv /\ [Next]_vars => ClickedInv'
<1> SUFFICES ASSUME TypeOK, ClickedInv, [Next]_vars PROVE ClickedInv'
  OBVIOUS
<1>1. CASE UNCHANGED commit
  BY <1>1 DEF ClickedInv, PayloadOk
<1>2. CASE CommitClick
  <2>1. /\ CanCommit(form) /\ commit'.form = form
        /\ commit'.eventDriven = EventDrivenResolver(form.resolver)
    BY <1>2 DEF CommitClick
  <2> QED
    BY <2>1 DEF ClickedInv, CanCommit, EventDrivenResolver, PayloadOk
<1>3. CASE GateRefuses \/ HandleCreate \/ HandleEdit \/ CommitFails \/ Reconfirm
  <2> USE <1>3 DEF GateRefuses, HandleCreate, HandleEdit, CommitFails, Reconfirm, At, To, Served
  <2>1. commit \in Request
    BY DEF TypeOK
  <2>2. \/ \E s : commit' = [commit EXCEPT !.stage = s]
        \/ commit' = [commit EXCEPT !.stage = "ok", !.made = @ + 1]
        \/ commit' = [commit EXCEPT !.stage = "out", !.tries = @ + 1]
    OBVIOUS
  <2>3. commit'.form = commit.form /\ commit'.eventDriven = commit.eventDriven /\ commit # None
    BY <2>1, <2>2 DEF Request
  <2> QED
    BY <2>3 DEF ClickedInv, PayloadOk
<1>4. CASE CommitEnds
  BY <1>4 DEF CommitEnds, ClickedInv
<1> QED
  BY <1>1, <1>2, <1>3, <1>4, Frames

\* What a form sends, to create a row and to save one.
Sent(f) == [code |-> f.code, config |-> f.config, payload |-> BuildPayload(f.payload),
            payer |-> f.payer, signers |-> f.signers]

SentResolver(f) == IF f.resolver = None THEN Keep ELSE f.resolver

LEMMA BodyFields ==
    ASSUME NEW f \in Form, NEW e \in BOOLEAN
    PROVE  /\ ToCommitInput(CommitBody(f, e)) =
                 [def |-> Sent(f), sched |-> f.sched, resolver |-> f.resolver,
                  ext |-> f.ext \/ e, args |-> f.args, eventDriven |-> e]
           /\ ToEditPatch(CommitBody(f, e)) =
                 [sched |-> f.sched, resolver |-> SentResolver(f), eventDriven |-> e,
                  def |-> Sent(f)]
<1>1. CommitBody(f, e) = [def |-> Sent(f), sched |-> f.sched, resolver |-> SentResolver(f),
                          ext |-> f.ext \/ e, args |-> f.args, eventDriven |-> e]
  BY DEF CommitBody, Sent, SentResolver
<1>2. (IF SentResolver(f) = Keep THEN None ELSE SentResolver(f)) = f.resolver
  BY StoreAssumption DEF Form, SentResolver
<1> QED
  BY <1>1, <1>2 DEF ToCommitInput, ToEditPatch

\* The row that a create inserts.
LEMMA CreateEffect ==
    ASSUME TypeOK, ClickedInv, HandleCreate, ~UNCHANGED store
    PROVE  LET f == commit.form
               e == commit.eventDriven
           IN  /\ commit # None /\ commit.target = None /\ commit \in Request
               /\ now' = now
               /\ \E id \in Ids, row \in Row :
                     /\ rows[id] = Unborn
                     /\ rows' = [rows EXCEPT ![id] = row]
                     /\ row = CommittedRow(ToCommitInput(CommitBody(f, e)))
                     /\ row.next = None => row.ext \/ row.args \/ e
<1>1. /\ commit # None /\ commit \in Request /\ commit.target = None
      /\ commit.form \in Form /\ commit.eventDriven \in BOOLEAN
  BY DEF HandleCreate, At, TypeOK, Request
<1> DEFINE input == ToCommitInput(CommitBody(commit.form, commit.eventDriven))
<1>2. PICK id \in Ids : Commit(id, input)
  BY DEF HandleCreate
<1>3. input \in CommitInput
  BY <1>1, CommitBodyType
<1>a. input.args = commit.form.args /\ input.eventDriven = commit.eventDriven
  BY <1>1, BodyFields
<1> HIDE DEF input
<1>4. CommittedRow(input) \in Row
  BY <1>3, CommittedType DEF TypeOK, StoreTypeOK
<1>5. CommittedRow(input).args = input.args
  BY DEF CommittedRow
<1>6. /\ rows[id] = Unborn /\ now' = now
      /\ rows' = [rows EXCEPT ![id] = CommittedRow(input)]
      /\ CommittedRow(input).next = None
            => CommittedRow(input).ext \/ CommittedRow(input).args \/ commit.eventDriven
  BY <1>2, <1>a, <1>5 DEF Commit
<1> QED
  BY <1>1, <1>4, <1>6 DEF input

\* The row that a save writes.
LEMMA EditEffect ==
    ASSUME TypeOK, ClickedInv, HandleEdit, ~UNCHANGED store
    PROVE  LET f == commit.form
               e == commit.eventDriven
               id == commit.target
               patch == ToEditPatch(CommitBody(f, e))
           IN  /\ commit # None /\ commit \in Request
               /\ id \in Ids /\ Exists(id) /\ rows[id] \in Row
               /\ now' = now
               /\ patch \in EditPatch
               /\ rows' = [rows EXCEPT ![id] = EditedRow(rows[id], patch)]
               /\ EditedRow(rows[id], patch) \in Row
               /\ Rearms(rows[id], patch) => EditedNext(rows[id], patch) # None
<1>1. /\ commit # None /\ commit \in Request /\ commit.target \in Ids
      /\ commit.form \in Form /\ commit.eventDriven \in BOOLEAN
  BY DEF HandleEdit, At, TypeOK, Request
<1>2. Edit(commit.target, ToEditPatch(CommitBody(commit.form, commit.eventDriven)))
  BY DEF HandleEdit
<1>3. rows[commit.target] \in Row
  BY <1>1, <1>2 DEF Edit, Exists, TypeOK, StoreTypeOK
<1>4. ToEditPatch(CommitBody(commit.form, commit.eventDriven)) \in EditPatch
  BY <1>1, CommitBodyType
<1>5. EditedRow(rows[commit.target], ToEditPatch(CommitBody(commit.form, commit.eventDriven))) \in Row
  BY <1>3, <1>4, EditedFields DEF TypeOK, StoreTypeOK
<1> QED
  BY <1>1, <1>2, <1>3, <1>4, <1>5 DEF Edit

\* An event-driven save leaves its row with the form's resolver, a save that
\* stays off the timer finds its row as one that something fires.
LEMMA RowsNext ==
    TypeOK /\ ClickedInv /\ ForcedInv /\ EveryRowFires /\ [Next]_vars
        => ForcedInv' /\ EveryRowFires'
<1> SUFFICES ASSUME TypeOK, ClickedInv, ForcedInv, EveryRowFires, [Next]_vars
             PROVE  ForcedInv' /\ EveryRowFires'
  OBVIOUS
<1> DEFINE Fired(row) ==
               /\ row.resolver \in Evented => row.ext
               /\ row.next = None =>
                     row.ext \/ row.args \/ row.resolver \in Evented \cup ConfigEvented
<1>1. \A row \in Row \cup {Deleted}, id \in Ids :
         (row = Deleted \/ Fired(row)) /\ rows' = [rows EXCEPT ![id] = row]
         => ForcedInv' /\ EveryRowFires'
  BY DEF ForcedInv, EveryRowFires, Exists, TypeOK, StoreTypeOK
<1>2. CASE UNCHANGED store
  BY <1>2 DEF store, ForcedInv, EveryRowFires, Exists
<1>3. CASE HandleCreate /\ ~UNCHANGED store
  <2> DEFINE f == commit.form
             e == commit.eventDriven
             input == ToCommitInput(CommitBody(f, e))
  <2>1. commit # None /\ commit \in Request /\ f \in Form /\ e \in BOOLEAN
    BY <1>3, CreateEffect DEF Request
  <2>2. PICK id \in Ids, row \in Row :
           /\ rows' = [rows EXCEPT ![id] = row]
           /\ row = CommittedRow(input)
           /\ row.next = None => row.ext \/ row.args \/ e
    BY <1>3, CreateEffect
  <2>3. input.resolver = f.resolver /\ input.ext = (f.ext \/ e)
    BY <2>1, BodyFields
  <2> HIDE DEF input
  <2>4. row.resolver = f.resolver /\ row.ext = (f.ext \/ e \/ f.resolver \in Evented)
    BY <2>2, <2>3 DEF CommittedRow
  <2>5. Fired(row)
    BY <2>1, <2>2, <2>4
  <2> QED
    BY <1>1, <2>2, <2>5
<1>4. CASE HandleEdit /\ ~UNCHANGED store
  <2> DEFINE f == commit.form
             e == commit.eventDriven
             id == commit.target
             old == rows[id]
             patch == ToEditPatch(CommitBody(f, e))
             row == EditedRow(old, patch)
             resolver == Patched(patch.resolver, old.resolver)
  <2>1. /\ commit # None /\ commit \in Request /\ id \in Ids /\ Exists(id) /\ old \in Row
        /\ patch \in EditPatch /\ rows' = [rows EXCEPT ![id] = row] /\ row \in Row
        /\ Rearms(old, patch) => EditedNext(old, patch) # None
    BY <1>4, EditEffect
  <2>2. f \in Form /\ e \in BOOLEAN
    BY <2>1 DEF Request
  <2>3. /\ patch.sched = f.sched /\ patch.eventDriven = e
        /\ patch.resolver = SentResolver(f)
    BY <2>2, BodyFields
  <2> HIDE DEF patch
  <2>4. /\ row.next = EditedNext(old, patch) /\ row.resolver = resolver /\ row.args = old.args
        /\ row.ext = (resolver \in Evented \/ GenuineExternalFireable(old))
    BY <2>1, EditedFields DEF TypeOK, StoreTypeOK
  <2>5. patch.sched # Keep
    BY <2>2, <2>3, StoreAssumption DEF Form
  <2>6. ASSUME e PROVE Fired(row)
    <3>1. f.resolver \in Evented \cup ConfigEvented
      BY <2>1, <2>6 DEF ClickedInv
    <3>2. resolver = f.resolver
      BY <2>3, <3>1, StoreAssumption, BuilderAssumption DEF Patched, SentResolver
    <3> QED
      BY <2>4, <3>1, <3>2
  <2>7. ASSUME ~e PROVE Fired(row)
    <3>1. CASE resolver \in Evented
      BY <2>4, <3>1
    <3>2. CASE resolver \notin Evented /\ Rearms(old, patch)
      BY <2>1, <2>4, <3>2
    <3>3. CASE resolver \notin Evented /\ ~Rearms(old, patch)
      <4>1. SchedulerOffAfterEdit(old, resolver)
        BY <2>3, <2>5, <2>7, <3>3 DEF Rearms
      <4>2. old.args \/ GenuineExternalFireable(old)
        BY <3>3, <4>1 DEF SchedulerOffAfterEdit
      <4> QED
        BY <2>4, <3>3, <4>2
    <3> QED
      BY <3>1, <3>2, <3>3
  <2>8. Fired(row)
    BY <2>2, <2>6, <2>7
  <2> QED
    BY <1>1, <2>1, <2>8
<1>5. ASSUME NEW id \in Ids, OtherDeletes(id) PROVE ForcedInv' /\ EveryRowFires'
  BY <1>1, <1>5 DEF OtherDeletes, Delete
<1> QED
  BY <1>2, <1>3, <1>4, <1>5, Frames

LEMMA RowsInit == Init => ForcedInv /\ EveryRowFires /\ ClickedInv
<1> SUFFICES ASSUME Init PROVE ForcedInv /\ EveryRowFires /\ ClickedInv
  OBVIOUS
<1>1. ASSUME NEW id \in Ids, Exists(id)
      PROVE  /\ Start[id] # None
             /\ rows[id] = CommittedRow(Start[id])
  BY <1>1 DEF Init, Exists
<1>2. now = 0 /\ commit = None
  BY DEF Init
<1>3. ASSUME NEW id \in Ids, Exists(id)
      PROVE  /\ rows[id].resolver \in Evented => rows[id].ext
             /\ rows[id].next = None => rows[id].ext \/ rows[id].args
  <2>1. /\ rows[id].resolver = Start[id].resolver /\ rows[id].args = Start[id].args
        /\ rows[id].ext = (Start[id].ext \/ Start[id].resolver \in Evented)
        /\ rows[id].next = IF rows[id].ext \/ Start[id].args \/ Start[id].eventDriven
                           THEN None ELSE NextFire(Start[id].sched, 0)
    <3>1. rows[id] = CommittedRow(Start[id]) /\ now = 0
      BY <1>1, <1>2, <1>3
    <3>2. ASSUME NEW input
          PROVE  LET row == CommittedRow(input)
                 IN  /\ row.resolver = input.resolver /\ row.args = input.args
                     /\ row.ext = (input.ext \/ input.resolver \in Evented)
                     /\ row.next = IF row.ext \/ input.args \/ input.eventDriven
                                   THEN None ELSE NextFire(input.sched, now)
      BY DEF CommittedRow
    <3> QED
      BY <3>1, <3>2
  <2> QED
    BY <1>1, <1>3, <2>1, StartAssumption
<1> QED
  BY <1>2, <1>3 DEF ForcedInv, EveryRowFires, ClickedInv

\* No row is left without a timer and without anything that fires it, by any
\* sequence of creates, saves and deletes.
THEOREM RowsFire == Spec => []EveryRowFires
<1>1. Init => TypeOK /\ ClickedInv /\ ForcedInv /\ EveryRowFires
  BY TypeInit, RowsInit
<1>2. TypeOK /\ ClickedInv /\ ForcedInv /\ EveryRowFires /\ [Next]_vars
      => (TypeOK /\ ClickedInv /\ ForcedInv /\ EveryRowFires)'
  BY TypeNext, ClickedNext, RowsNext
<1> QED
  BY <1>1, <1>2, PTL DEF Spec

\* The body carries the open side of the payload editor.
LEMMA SentShows ==
    ASSUME NEW f \in Form, PayloadOk(f), NEW row \in Row,
           row.def = Sent(f), row.sched = f.sched, f.resolver # None => row.resolver = f.resolver
    PROVE  Shows(f, row)
<1>1. BuildPayload(f.payload) = IF f.payload.raw THEN f.payload.json ELSE f.payload.typed
  BY DEF BuildPayload, PayloadOk
<1> QED
  BY <1>1 DEF Shows, Sent

LEMMA SavesForm == TypeOK /\ ClickedInv /\ [Next]_vars => SavedAsShown
<1> SUFFICES ASSUME TypeOK, ClickedInv, [Next]_vars PROVE SavedAsShown
  OBVIOUS
<1> DEFINE f == commit.form
           e == commit.eventDriven
<1>1. CASE UNCHANGED store
  BY <1>1 DEF store, SavedAsShown
<1>2. CASE HandleCreate /\ ~UNCHANGED store
  <2> DEFINE input == ToCommitInput(CommitBody(f, e))
  <2>1. commit # None /\ commit \in Request /\ f \in Form /\ e \in BOOLEAN
    BY <1>2, CreateEffect DEF Request
  <2>2. PICK id \in Ids, row \in Row :
           rows' = [rows EXCEPT ![id] = row] /\ row = CommittedRow(input)
    BY <1>2, CreateEffect
  <2>3. /\ input.def = Sent(f) /\ input.sched = f.sched /\ input.resolver = f.resolver
        /\ input.args = f.args /\ input.ext = (f.ext \/ e)
    BY <2>1, BodyFields
  <2> HIDE DEF input
  <2>4. /\ row.def = Sent(f) /\ row.sched = f.sched /\ row.resolver = f.resolver
        /\ row.args = f.args /\ (f.ext => row.ext)
    BY <2>2, <2>3 DEF CommittedRow
  <2>5. Shows(f, row)
    BY <2>1, <2>4, SentShows DEF ClickedInv
  <2>6. \A j \in Ids : rows'[j] = IF j = id THEN row ELSE rows[j]
    BY <2>2 DEF TypeOK, StoreTypeOK
  <2> QED
    BY <2>4, <2>5, <2>6 DEF SavedAsShown
<1>3. CASE HandleEdit /\ ~UNCHANGED store
  <2> DEFINE id == commit.target
             old == rows[id]
             patch == ToEditPatch(CommitBody(f, e))
             row == EditedRow(old, patch)
  <2>1. /\ commit # None /\ commit \in Request /\ id \in Ids /\ old \in Row
        /\ patch \in EditPatch /\ rows' = [rows EXCEPT ![id] = row] /\ row \in Row
    BY <1>3, EditEffect
  <2>2. f \in Form /\ e \in BOOLEAN
    BY <2>1 DEF Request
  <2>3. patch.sched = f.sched /\ patch.def = Sent(f) /\ patch.resolver = SentResolver(f)
    BY <2>2, BodyFields
  <2>4. patch.sched # Keep /\ patch.def # Keep /\ (f.resolver # None => patch.resolver # Keep)
    <3>1. Sent(f) \in Defs
      BY <2>2, CommitBodyType, BodyFields DEF CommitBody, Sent
    <3> QED
      BY <2>2, <2>3, <3>1, StoreAssumption DEF Form, SentResolver
  <2> HIDE DEF patch
  <2>5. /\ row.sched = Patched(patch.sched, old.sched)
        /\ row.def = Patched(patch.def, old.def)
        /\ row.resolver = Patched(patch.resolver, old.resolver)
    BY <2>1, EditedFields DEF TypeOK, StoreTypeOK
  <2>6. /\ row.def = Sent(f) /\ row.sched = f.sched
        /\ f.resolver # None => row.resolver = f.resolver
    BY <2>3, <2>4, <2>5 DEF Patched, SentResolver
  <2> HIDE DEF row
  <2>7. Shows(f, row)
    BY <2>1, <2>2, <2>6, SentShows DEF ClickedInv
  <2>8. \A j \in Ids : rows'[j] = IF j = id THEN row ELSE rows[j]
    BY <2>1 DEF TypeOK, StoreTypeOK
  <2>9. commit.target # None
    BY <2>1, BuilderAssumption
  <2> QED
    BY <2>7, <2>8, <2>9 DEF SavedAsShown
<1>4. ASSUME NEW id \in Ids, OtherDeletes(id) PROVE SavedAsShown
  <2>1. \A j \in Ids : rows'[j] = IF j = id THEN Deleted ELSE rows[j]
    BY <1>4 DEF OtherDeletes, Delete, TypeOK, StoreTypeOK
  <2> QED
    BY <2>1 DEF SavedAsShown
<1> QED
  BY <1>1, <1>2, <1>3, <1>4, Frames

\* What is saved is what the form showed.
THEOREM SavesKeepForms == Spec => SaveKeepsForm
<1>1. Init => TypeOK /\ ClickedInv
  BY TypeInit, RowsInit
<1>2. TypeOK /\ ClickedInv /\ [Next]_vars => (TypeOK /\ ClickedInv)'
  BY TypeNext, ClickedNext
<1>3. TypeOK /\ ClickedInv /\ [Next]_vars => [SavedAsShown]_vars
  BY SavesForm
<1> QED
  BY <1>1, <1>2, <1>3, PTL DEF Spec, SaveKeepsForm

\* A form as it was loaded sends the row's own definition, schedule and resolver.
LEMMA LoadedSends ==
    ASSUME NEW row \in Row, NEW f \in Form, AsLoaded(f, row)
    PROVE  /\ Sent(f) = row.def /\ f.sched = row.sched /\ f.resolver = row.resolver
<1> DEFINE g == Rehydrated(row)
<1>1. /\ g \in Form /\ g.code = row.def.code /\ g.config = row.def.config
      /\ g.payload = [raw |-> TRUE, json |-> row.def.payload, typed |-> NoData]
      /\ g.payer = row.def.payer /\ g.signers = row.def.signers
      /\ g.sched = row.sched /\ g.resolver = row.resolver
  <2>1. /\ g.code = row.def.code /\ g.config = row.def.config
        /\ g.payload = [raw |-> TRUE, json |-> row.def.payload, typed |-> NoData]
        /\ g.payer = row.def.payer /\ g.signers = row.def.signers
        /\ g.sched = row.sched /\ g.resolver = row.resolver
    BY DEF Rehydrated, EmptyForm
  <2> QED
    BY <2>1, RehydratedType
<1>2. f = [g EXCEPT !.payload = [g.payload EXCEPT !.typed = f.payload.typed]]
  BY DEF AsLoaded
<1> HIDE DEF g
<1>3. /\ f.code = g.code /\ f.config = g.config /\ f.payer = g.payer /\ f.signers = g.signers
      /\ f.sched = g.sched /\ f.resolver = g.resolver
      /\ f.payload = [g.payload EXCEPT !.typed = f.payload.typed]
  BY <1>1, <1>2 DEF Form
<1>4. f.payload.raw = TRUE /\ f.payload.json = row.def.payload
  BY <1>1, <1>3
<1>5. row.def \in Envelope
  BY BuilderAssumption DEF Row
<1>6. BuildPayload(f.payload) = row.def.payload
  BY <1>4, <1>5, BuilderAssumption DEF BuildPayload, Envelope
<1>7. Sent(f) = row.def
  BY <1>1, <1>3, <1>5, <1>6 DEF Sent, Envelope
<1> QED
  BY <1>1, <1>3, <1>7

LEMMA SavesUnchanged == TypeOK /\ ClickedInv /\ ForcedInv /\ [Next]_vars => SavedUnchanged
<1> SUFFICES ASSUME TypeOK, ClickedInv, ForcedInv, [Next]_vars,
                    NEW id \in Ids, Exists(id), commit # None, commit.target = id,
                    AsLoaded(commit.form, rows[id])
             PROVE  rows'[id] = Deleted \/ rows'[id] = [rows[id] EXCEPT !.next = rows'[id].next]
  BY DEF SavedUnchanged
<1> DEFINE old == rows[id]
           f == commit.form
           e == commit.eventDriven
           patch == ToEditPatch(CommitBody(f, e))
           row == EditedRow(old, patch)
<1>1. old \in Row /\ commit \in Request /\ f \in Form /\ e \in BOOLEAN
  BY DEF TypeOK, StoreTypeOK, Exists, Request
<1>2. CASE rows'[id] = rows[id]
  BY <1>1, <1>2 DEF Row
<1>3. CASE HandleEdit /\ ~UNCHANGED store
  <2>1. patch \in EditPatch /\ rows' = [rows EXCEPT ![id] = row]
    BY <1>3, EditEffect
  <2>2. /\ patch.sched = f.sched /\ patch.def = Sent(f) /\ patch.resolver = SentResolver(f)
    BY <1>1, BodyFields
  <2>3. Sent(f) = old.def /\ f.sched = old.sched /\ f.resolver = old.resolver
    BY <1>1, LoadedSends
  <2> HIDE DEF patch
  <2>4. /\ Patched(patch.sched, old.sched) = old.sched
        /\ Patched(patch.def, old.def) = old.def
        /\ Patched(patch.resolver, old.resolver) = old.resolver
    BY <2>2, <2>3 DEF Patched, SentResolver
  <2>5. (old.resolver \in Evented \/ GenuineExternalFireable(old)) = old.ext
    <3>1. old.ext \in BOOLEAN /\ (old.resolver \in Evented => old.ext)
      BY <1>1 DEF Row, ForcedInv
    <3> QED
      BY <3>1 DEF GenuineExternalFireable
  <2>6. row = [status |-> old.status, next |-> EditedNext(old, patch), sched |-> old.sched,
               resolver |-> old.resolver, ext |-> old.ext, args |-> old.args, def |-> old.def]
    BY <1>1, <2>1, <2>4, <2>5, EditedFields DEF TypeOK, StoreTypeOK
  <2> HIDE DEF row
  <2>7. row = [old EXCEPT !.next = row.next]
    BY <1>1, <2>6 DEF Row
  <2>8. rows'[id] = row
    BY <2>1 DEF TypeOK, StoreTypeOK
  <2> QED
    BY <2>7, <2>8
<1>4. ASSUME NEW j \in Ids, OtherDeletes(j)
      PROVE  rows'[id] = Deleted \/ rows'[id] = rows[id]
  BY <1>4 DEF OtherDeletes, Delete, TypeOK, StoreTypeOK
<1>5. CASE HandleCreate
  <2>1. commit.target = None
    BY <1>5 DEF HandleCreate
  <2> QED
    BY <2>1, BuilderAssumption
<1>6. CASE UNCHANGED store
  BY <1>2, <1>6 DEF store
<1> QED
  BY <1>2, <1>3, <1>4, <1>5, <1>6, Frames

\* A row that is opened and saved keeps every column but the next fire.
THEOREM SavesAreNeutral == Spec => UnchangedSaveIsNeutral
<1>1. Init => TypeOK /\ ClickedInv /\ ForcedInv /\ EveryRowFires
  BY TypeInit, RowsInit
<1>2. TypeOK /\ ClickedInv /\ ForcedInv /\ EveryRowFires /\ [Next]_vars
      => (TypeOK /\ ClickedInv /\ ForcedInv /\ EveryRowFires)'
  BY TypeNext, ClickedNext, RowsNext
<1>3. TypeOK /\ ClickedInv /\ ForcedInv /\ EveryRowFires /\ [Next]_vars => [SavedUnchanged]_vars
  BY SavesUnchanged
<1> QED
  BY <1>1, <1>2, <1>3, PTL DEF Spec, UnchangedSaveIsNeutral
=============================================================================
