------------------------------ MODULE Builder ------------------------------
(***************************************************************************)
(* The create/edit form of an admin (ui/builder/Builder.tsx and its tabs)  *)
(* over the pure form model (ui/builder-state.ts): the load of an edited   *)
(* row, the tabs' edits, Simulate with its calibration write-back, and     *)
(* Commit through the confirm gate (provider/runGated.ts) to the handlers  *)
(* (handlers/cronoton.ts) and the store (module CronotonStore).            *)
(*                                                                         *)
(* The form is a record with one field per control that a property tells   *)
(* apart; text is a member of a small set.  The name, the description and  *)
(* the chain id are left out, and so are the tabs: each is always a click  *)
(* away and none holds state.  A load reads the row when it arrives: an    *)
(* older answer is the same as a newer one followed by another operator's  *)
(* step.  The numbers of the Config tab are one limit, in or out of range. *)
(***************************************************************************)
EXTENDS CronotonStore, FiniteSets

CONSTANTS
    Codes,            \* Pact code texts
    Payloads,         \* env-data objects
    NoData,           \* the empty one
    Malformed,        \* editor text that is no object, or an incomplete keyset
    Clashing,         \* payloads with a key that is also a runtime-arg key
    Keys,             \* the codex keys the pickers offer
    ConfigEvented,    \* resolvers whose host option says eventDriven
    Start,            \* the commit that each existing row was made by, or None
    DefaultCode, DefaultSchedule,
    MaxEdits, MaxClicks,  \* bounds
    MaxTurns              \* bound on routes, failures, refusals and deletes together

OutOfRange == 0  \* a gas limit, a gas price or a TTL that is refused
Typed == 1       \* a limit the user typed
Calibrated == 2  \* one a Simulate returned

Mode == {"pure", "scoped"}
Config == [auto : BOOLEAN, limit : {OutOfRange, Typed, Calibrated}]
Payer == [kind : {"gas-station", "codex"}, key : Keys \cup {None}]
Signers == UNION {[S -> Mode] : S \in SUBSET Keys}

\* What fires: the envelope of a commit body, the definition columns of a row.
Envelope == [code : Codes, config : Config, payload : Payloads, payer : Payer,
             signers : Signers]

Editor == [raw : BOOLEAN, json : Payloads \cup {Malformed},
           typed : Payloads \cup {Malformed}]

Form == [code : Codes, config : Config, payload : Editor, payer : Payer,
         signers : Signers, sched : Schedules, resolver : Resolvers \cup {None},
         ext : BOOLEAN, args : BOOLEAN]

ASSUME BuilderAssumption ==
    /\ NoData \in Payloads /\ Malformed \notin Payloads /\ Clashing \subseteq Payloads
    /\ DefaultCode \in Codes /\ DefaultSchedule \in Schedules
    /\ ConfigEvented \subseteq Resolvers
    /\ None \notin Keys \cup Ids
    /\ {MaxEdits, MaxClicks, MaxTurns} \subseteq Nat
    /\ Defs = Envelope
    /\ Start \in [Ids -> CommitInputs \cup {None}]

\* The existing rows were made by this form, from bodies that were accepted.
ASSUME StartAssumption ==
    \A id \in Ids : Start[id] # None =>
        /\ Start[id].eventDriven => Start[id].ext
        /\ \/ Start[id].ext \/ Start[id].args \/ Start[id].resolver \in Evented
           \/ NextFire(Start[id].sched, 0) # None

VARIABLES
    mounted,
    editId,       \* the prop: the row to edit, or None to create one
    loads,        \* loads in flight: the row and the effect's `active` flag
    form,         \* BuilderState
    loadedEditId, \* the row that was rehydrated into the form last
    evented,      \* GET /resolvers has been answered
    sim,          \* the Simulate in flight: the form and origin of its click
    calibrated,   \* sim.result holds a calibrated gas limit
    commit,       \* the Commit in flight
    origin,       \* history: whose row the form was made from, None a new one
    dirty,        \* history: the user has edited since the last mount or route
    lost,         \* history: such an edit was overwritten
    overSim,      \* history: an edit or a route met a Simulate in flight
    revisited,    \* history: the host came back to the row loaded last
    failed,       \* history: a load has failed
    edits, clicks, turns

history == <<origin, dirty, lost, overSim, revisited, failed>>
counters == <<edits, clicks, turns>>
store == <<rows, now>>
vars == <<store, mounted, editId, loads, form, loadedEditId, evented, sim,
          calibrated, commit, history, counters>>

Load == [id : Ids, active : BOOLEAN]
Snapshot == [form : Form, origin : Ids \cup {None}]
Request == [target : Ids \cup {None}, form : Form, eventDriven : BOOLEAN,
            origin : Ids \cup {None}, tries : 1..2, made : Nat,
            stage : {"out", "expired", "ok", "refused", "failed"}]

TypeOK ==
    /\ StoreTypeOK
    /\ {mounted, evented, calibrated, dirty, lost, overSim, revisited, failed} \subseteq BOOLEAN
    /\ {editId, loadedEditId, origin} \subseteq Ids \cup {None}
    /\ loads \subseteq Load
    /\ form \in Form
    /\ sim \in Snapshot \cup {None}
    /\ commit \in Request \cup {None}
    /\ edits \in 0..MaxEdits /\ clicks \in 0..MaxClicks /\ turns \in 0..MaxTurns

-----------------------------------------------------------------------------
(* The pure form model *)

\* makeEmptyBuilderState: nothing signs or pays yet.
EmptyForm ==
    [code |-> DefaultCode,
     config |-> [auto |-> FALSE, limit |-> Typed],
     payload |-> [raw |-> FALSE, json |-> NoData, typed |-> NoData],
     payer |-> [kind |-> "gas-station", key |-> None], signers |-> [k \in {} |-> "pure"],
     sched |-> DefaultSchedule, resolver |-> None, ext |-> FALSE, args |-> FALSE]

\* The side of the editor that is open; text that is no object counts as {}.
BuildPayload(editor) ==
    LET text == IF editor.raw THEN editor.json ELSE editor.typed
    IN  IF text = Malformed THEN NoData ELSE text

\* Fault variant of EventDrivenResolver: any resolver counts.
EventDrivenIfAny(resolver) == resolver # None

\* The Builder's eventDrivenResolver: by the registry once it is loaded, and by
\* the host's options.
EventDrivenResolver(resolver) ==
    resolver \in (IF evented THEN Evented ELSE {}) \cup ConfigEvented

\* The scheduler is off: the Execute tab shows a notice instead of the schedule.
SchedulerOff(f) == f.args \/ f.ext \/ EventDrivenResolver(f.resolver)

\* Fault variant of CommitBody: the manual signers are left to the gas payer.
CommitBodyUnsigned(f, eventDriven) ==
    [def |-> [code |-> f.code, config |-> f.config, payload |-> BuildPayload(f.payload),
              payer |-> f.payer, signers |-> [k \in {} |-> "pure"]],
     sched |-> f.sched, resolver |-> IF f.resolver = None THEN Keep ELSE f.resolver,
     ext |-> f.ext \/ eventDriven, args |-> f.args, eventDriven |-> eventDriven]

\* builderToCommit, and the external flag handleCommit sets for an event-driven
\* resolver.  A form without resolver leaves the field out of the body.
CommitBody(f, eventDriven) ==
    [def |-> [code |-> f.code, config |-> f.config, payload |-> BuildPayload(f.payload),
              payer |-> f.payer, signers |-> f.signers],
     sched |-> f.sched, resolver |-> IF f.resolver = None THEN Keep ELSE f.resolver,
     ext |-> f.ext \/ eventDriven, args |-> f.args, eventDriven |-> eventDriven]

\* The blocking reasons of the gas settings; AUTO wants a calibration unless the
\* payload is only known at the fire.
ConfigOk(f) ==
    /\ f.config.limit # OutOfRange
    /\ f.config.auto => calibrated \/ f.resolver # None \/ f.args

\* Each card's picker must have a key: it is the first signer.
GasPayerOk(f) == f.payer.key # None

PayloadOk(f) ==
    IF f.payload.raw THEN f.payload.json # Malformed ELSE f.payload.typed # Malformed

EffectiveSigners(f) == DOMAIN f.signers \cup ({f.payer.key} \ {None})

CanCommit(f) ==
    ConfigOk(f) /\ GasPayerOk(f) /\ PayloadOk(f) /\ EffectiveSigners(f) # {}

\* Fault variant of Rehydrated: the payload opens in the typed editor.
RehydratedTyped(row) ==
    [EmptyForm EXCEPT !.code = row.def.code, !.config = row.def.config,
                      !.payload = [raw |-> FALSE, json |-> row.def.payload, typed |-> NoData],
                      !.payer = row.def.payer, !.signers = row.def.signers,
                      !.sched = row.sched, !.resolver = row.resolver]

\* detailToBuilderState: the payload opens raw, the create-only half stays blank.
Rehydrated(row) ==
    [EmptyForm EXCEPT !.code = row.def.code, !.config = row.def.config,
                      !.payload = [raw |-> TRUE, json |-> row.def.payload, typed |-> NoData],
                      !.payer = row.def.payer, !.signers = row.def.signers,
                      !.sched = row.sched, !.resolver = row.resolver]

-----------------------------------------------------------------------------
(* Mount, route, load *)

Turn == turns < MaxTurns /\ turns' = turns + 1

StartLoad(id) == IF id = None THEN {} ELSE {[id |-> id, active |-> TRUE]}

\* The table as earlier commits left it, and the mount of the form.
Init ==
    /\ now = 0
    /\ rows = [id \in Ids |-> IF Start[id] = None THEN Unborn ELSE CommittedRow(Start[id])]
    /\ editId \in {id \in Ids : Exists(id)} \cup {None}
    /\ mounted = TRUE
    /\ loads = StartLoad(editId)
    /\ form = EmptyForm /\ loadedEditId = None
    /\ evented = FALSE
    /\ sim = None /\ calibrated = FALSE /\ commit = None
    /\ origin = None /\ dirty = FALSE /\ lost = FALSE
    /\ overSim = FALSE /\ revisited = FALSE /\ failed = FALSE
    /\ edits = 0 /\ clicks = 0 /\ turns = 0

\* The host changes the prop of the mounted form, to a row it lists or to none;
\* the form itself stays.
Route(id) ==
    /\ mounted /\ id # editId
    /\ id # None => Exists(id)
    /\ Turn
    /\ editId' = id
    /\ loads' = {[l EXCEPT !.active = FALSE] : l \in loads} \cup StartLoad(id)
    /\ dirty' = FALSE
    /\ overSim' = (overSim \/ sim # None)
    /\ failed' = FALSE
    /\ revisited' = (revisited \/ (id # None /\ id = loadedEditId))
    /\ UNCHANGED <<store, mounted, form, loadedEditId, evented, sim, calibrated, commit,
                   origin, lost, edits, clicks>>

\* React drops the component's state; its loads and its Simulate answer nobody.
Unmount ==
    /\ mounted
    /\ mounted' = FALSE
    /\ editId' = None /\ loads' = {} /\ form' = EmptyForm /\ loadedEditId' = None
    /\ evented' = FALSE /\ sim' = None /\ calibrated' = FALSE
    /\ origin' = None /\ dirty' = FALSE
    /\ UNCHANGED <<store, commit, lost, overSim, revisited, failed, counters>>

\* Fault variant of IsActive: only an unmount supersedes a load.
IsActiveWhileMounted(l) == TRUE

\* The load effect's token: its cleanup supersedes it.
IsActive(l) == l.active

\* The row arrives: the whole form is rehydrated from it.
LoadArrives(l) ==
    /\ Exists(l.id)
    /\ loads' = loads \ {l}
    /\ IF IsActive(l)
       THEN /\ form' = Rehydrated(rows[l.id])
            /\ loadedEditId' = l.id
            /\ origin' = l.id
            /\ lost' = (lost \/ dirty)
       ELSE UNCHANGED <<form, loadedEditId, origin, lost>>
    /\ UNCHANGED <<store, mounted, editId, evented, sim, calibrated, commit,
                   dirty, overSim, revisited, failed, counters>>

\* A load that fails is swallowed; a row that is gone answers 404.
LoadFails(l) ==
    /\ \/ ~Exists(l.id) /\ UNCHANGED turns
       \/ Turn
    /\ loads' = loads \ {l}
    /\ failed' = (failed \/ l.active)
    /\ UNCHANGED <<store, mounted, editId, form, loadedEditId, evented, sim, calibrated,
                   commit, origin, dirty, lost, overSim, revisited, edits, clicks>>

\* GET /resolvers; without an answer the list stays empty.
ResolversArrive ==
    /\ mounted /\ ~evented
    /\ evented' = TRUE
    /\ UNCHANGED <<store, mounted, editId, loads, form, loadedEditId, sim,
                   calibrated, commit, history, counters>>

-----------------------------------------------------------------------------
(* The tabs *)

\* Fault variant of EditReady: the form is open while its row is loading.
EditReadyAlways == TRUE

\* Fault variant of EditReady: any row that was rehydrated opens the form.
EditReadyOnce == editId = None \/ loadedEditId # None

\* An edited form is shown once its row has been rehydrated.
EditReady == editId = None \/ loadedEditId = editId

\* Some control of the form is changed.
Changes(f) ==
    /\ mounted /\ EditReady
    /\ edits < MaxEdits
    /\ f # form
    /\ form' = f
    /\ edits' = edits + 1
    /\ dirty' = TRUE
    /\ overSim' = (overSim \/ sim # None)
    /\ UNCHANGED <<store, mounted, editId, loads, loadedEditId, evented, sim,
                   calibrated, commit, origin, lost, revisited, failed, clicks, turns>>

EditCode == \E c \in Codes : Changes([form EXCEPT !.code = c])

\* The header: the resolver, and for a new row the external flag and the
\* runtime-arg keys.
EditHeader ==
    \/ \E r \in Resolvers \cup {None} : Changes([form EXCEPT !.resolver = r])
    \/ editId = None /\ Changes([form EXCEPT !.ext = ~@])
    \/ editId = None /\ Changes([form EXCEPT !.args = ~@])

\* The gas limit is read-only under AUTO.
EditConfig ==
    \/ Changes([form EXCEPT !.config.auto = ~@])
    \/ ~form.config.auto /\ \E n \in {OutOfRange, Typed} : Changes([form EXCEPT !.config.limit = n])

\* The toggle carries nothing from one side of the editor to the other.
SwitchPayload == Changes([form EXCEPT !.payload.raw = ~@])

EditRawPayload ==
    /\ form.payload.raw
    /\ \E p \in Payloads \cup {Malformed} : Changes([form EXCEPT !.payload.json = p])

EditTypedPayload ==
    /\ ~form.payload.raw
    /\ \E p \in Payloads \cup {Malformed} : Changes([form EXCEPT !.payload.typed = p])

\* A card click forgets the other card's key.
PickPayer ==
    \/ \E kind \in {"gas-station", "codex"} \ {form.payer.kind} :
          Changes([form EXCEPT !.payer = [kind |-> kind, key |-> None]])
    \/ \E k \in Keys \cup {None} : Changes([form EXCEPT !.payer.key = k])

\* A key that pays, or that was added, is not offered.
AddSigner ==
    \E k \in Keys \ EffectiveSigners(form) :
        Changes([form EXCEPT !.signers = [j \in DOMAIN @ \cup {k} |->
                                             IF j = k THEN "pure" ELSE @[j]]])

RemoveSigner ==
    \E k \in DOMAIN form.signers :
        Changes([form EXCEPT !.signers = [j \in DOMAIN @ \ {k} |-> @[j]]])

UpdateSigner ==
    \E k \in DOMAIN form.signers, m \in Mode : Changes([form EXCEPT !.signers[k] = m])

\* A mode's default may be incomplete, and nothing checks it before the store.
EditSchedule ==
    /\ ~SchedulerOff(form)
    /\ \E s \in Schedules : Changes([form EXCEPT !.sched = s])

EditForm ==
    \/ EditCode \/ EditHeader \/ EditConfig \/ SwitchPayload \/ EditRawPayload
    \/ EditTypedPayload \/ PickPayer \/ AddSigner \/ RemoveSigner \/ UpdateSigner
    \/ EditSchedule

-----------------------------------------------------------------------------
(* Simulate *)

\* The button is disabled while one is pending; the last result is dropped.
SimulateClick ==
    /\ mounted /\ EditReady
    /\ sim = None
    /\ clicks < MaxClicks
    /\ clicks' = clicks + 1
    /\ sim' = [form |-> form, origin |-> origin]
    /\ calibrated' = FALSE
    /\ UNCHANGED <<store, mounted, editId, loads, form, loadedEditId, evented,
                   commit, history, edits, turns>>

\* The calibration is written into the form of the click, which replaces the
\* form of the moment.
WriteBack ==
    /\ form' = [sim.form EXCEPT !.config.auto = TRUE, !.config.limit = Calibrated]
    /\ origin' = sim.origin
    /\ lost' = (lost \/ form # sim.form)

\* The server calibrates an AUTO envelope; it postpones a resolver's empty plan.
SimulateAnswers ==
    /\ sim # None
    /\ sim' = None
    /\ \E limit, postponed \in BOOLEAN :
          /\ limit => sim.form.config.auto
          /\ postponed => sim.form.resolver # None
          /\ calibrated' = limit
          /\ IF limit /\ ~postponed
             THEN WriteBack
             ELSE UNCHANGED <<form, origin, lost>>
    /\ UNCHANGED <<store, mounted, editId, loads, loadedEditId, evented, commit,
                   dirty, overSim, revisited, failed, counters>>

\* The confirm is declined, or the request or its response is lost.
SimulateFails ==
    /\ sim # None
    /\ Turn
    /\ sim' = None
    /\ UNCHANGED <<store, mounted, editId, loads, form, loadedEditId, evented,
                   calibrated, commit, history, edits, clicks>>

-----------------------------------------------------------------------------
(* Commit *)

\* Create or edit, by the id and the form of the render that was clicked.  Ids
\* bounds the rows that can be created.
CommitClick ==
    /\ mounted /\ EditReady
    /\ CanCommit(form)
    /\ commit = None
    /\ editId = None => \E id \in Ids : rows[id] = Unborn
    /\ clicks < MaxClicks
    /\ clicks' = clicks + 1
    /\ commit' = [target |-> editId, form |-> form,
                  eventDriven |-> EventDrivenResolver(form.resolver), origin |-> origin,
                  tries |-> 1, made |-> 0, stage |-> "out"]
    /\ UNCHANGED <<store, mounted, editId, loads, form, loadedEditId, evented,
                   sim, calibrated, history, edits, turns>>

page == <<mounted, editId, loads, form, loadedEditId, evented, sim, calibrated,
          history, edits, clicks>>

At(stage) == commit # None /\ commit.stage = stage
To(stage) == commit' = [commit EXCEPT !.stage = stage]
Served == commit' = [commit EXCEPT !.stage = "ok", !.made = @ + 1]

\* A fresh confirm is demanded before the body is looked at.
GateRefuses ==
    /\ At("out")
    /\ Turn
    /\ To("expired")
    /\ UNCHANGED <<store, page>>

\* A payload key may not also be a runtime-arg key.
Clash(args, def) == args /\ def.payload \in Clashing

\* AUTO gas comes with a positive limit.
GasRefused(def) == def.config.auto /\ def.config.limit = OutOfRange

\* toCommitInput: an absent resolver is none.
ToCommitInput(body) == [body EXCEPT !.resolver = IF @ = Keep THEN None ELSE @]

CommitRefused(input) ==
    LET row == CommittedRow(input)
    IN  \/ GasRefused(input.def) \/ Clash(input.args, input.def)
        \/ input.resolver # None /\ (input.args \/ BoundResolver(input.resolver))
        \/ row.next = None /\ ~(row.ext \/ row.args \/ input.eventDriven)

HandleCreate ==
    /\ At("out") /\ commit.target = None
    /\ LET input == ToCommitInput(CommitBody(commit.form, commit.eventDriven))
       IN  IF CommitRefused(input)
           THEN To("refused") /\ UNCHANGED store
           ELSE Served /\ \E id \in Ids : Commit(id, input)
    /\ UNCHANGED <<page, turns>>

\* toEditPatch: the whole body but the create-only half; an absent resolver is
\* left alone.
ToEditPatch(body) ==
    [sched |-> body.sched, resolver |-> body.resolver,
     eventDriven |-> body.eventDriven, def |-> body.def]

EditRefused(id, patch) ==
    \/ ~Exists(id)
    \/ GasRefused(patch.def) \/ Clash(rows[id].args, patch.def)
    \/ Rearms(rows[id], patch) /\ EditedNext(rows[id], patch) = None

HandleEdit ==
    /\ At("out") /\ commit.target # None
    /\ LET patch == ToEditPatch(CommitBody(commit.form, commit.eventDriven))
       IN  IF EditRefused(commit.target, patch)
           THEN To("refused") /\ UNCHANGED store
           ELSE Served /\ Edit(commit.target, patch)
    /\ UNCHANGED <<page, turns>>

\* The request or its response is lost.
CommitFails ==
    /\ commit # None /\ commit.stage # "failed"
    /\ Turn
    /\ To("failed")
    /\ UNCHANGED <<store, page>>

\* Fault variant of Retries: on every failure.
RetriesOnFailure(c) == c.stage \in {"expired", "failed"} /\ c.tries = 1

\* runGated: an expired confirm is asked for and tried once more.
Retries(c) == c.stage = "expired" /\ c.tries = 1

Reconfirm ==
    /\ commit # None /\ Retries(commit)
    /\ commit' = [commit EXCEPT !.stage = "out", !.tries = @ + 1]
    /\ UNCHANGED <<store, page, turns>>

\* A failed envelope is alerted, a good one calls the host's onDone, which may
\* unmount or route the form; committing ends either way.
CommitEnds ==
    /\ commit # None /\ commit.stage # "out"
    /\ commit' = None
    /\ UNCHANGED <<store, page, turns>>

-----------------------------------------------------------------------------

\* Another operator deletes a row.
OtherDeletes(id) ==
    /\ Turn
    /\ Delete(id)
    /\ UNCHANGED <<mounted, editId, loads, form, loadedEditId, evented, sim,
                   calibrated, commit, history, edits, clicks>>

Next ==
    \/ \E id \in Ids \cup {None} : Route(id)
    \/ Unmount
    \/ \E l \in loads : LoadArrives(l) \/ LoadFails(l)
    \/ ResolversArrive
    \/ EditForm
    \/ SimulateClick \/ SimulateAnswers \/ SimulateFails
    \/ CommitClick \/ GateRefuses \/ HandleCreate \/ HandleEdit \/ CommitFails
    \/ Reconfirm \/ CommitEnds
    \/ \E id \in Ids : OtherDeletes(id)

Spec == Init /\ [][Next]_vars

-----------------------------------------------------------------------------
(* Properties *)

\* A PATCH carries a form that was made from the row it goes to, whichever load
\* was slow, as long as no Simulate was in flight at an edit or a route.
PatchFitsItsRow ==
    commit # None /\ commit.target # None /\ ~overSim => commit.origin = commit.target

\* No edit of the user is overwritten by a load, except when the host comes back
\* to the row it loaded last, or by a Simulate, except for edits made meanwhile.
EditsKept == lost => overSim \/ revisited

\* What the tabs show of a row that the form is about to become.
Shows(f, row) ==
    /\ row.def.code = f.code /\ row.def.config = f.config
    /\ row.def.payload = IF f.payload.raw THEN f.payload.json ELSE f.payload.typed
    /\ row.def.payer = f.payer /\ row.def.signers = f.signers
    /\ row.sched = f.sched
    /\ f.resolver # None => row.resolver = f.resolver

SavedAsShown ==
    \A id \in Ids : rows'[id] # rows[id] /\ rows'[id] # Deleted =>
        /\ Shows(commit.form, rows'[id])
        /\ commit.target = None =>
              /\ rows'[id].resolver = commit.form.resolver
              /\ rows'[id].args = commit.form.args
              /\ commit.form.ext => rows'[id].ext

\* A row that is created or saved holds every field its form showed at the click,
\* through the body, the patch and the store; a cleared resolver of a saved row
\* is the exception, the external flag of a new one may only be added to.
SaveKeepsForm == [][SavedAsShown]_vars

\* The form as the row's load makes it, whatever its unused editor holds.
AsLoaded(f, row) == f = [Rehydrated(row) EXCEPT !.payload.typed = f.payload.typed]

SavedUnchanged ==
    \A id \in Ids :
        Exists(id) /\ commit # None /\ commit.target = id /\ AsLoaded(commit.form, rows[id])
        => rows'[id] = Deleted \/ rows'[id] = [rows[id] EXCEPT !.next = rows'[id].next]

\* Saving a form as it was loaded changes nothing but the next fire of a row on
\* the timer, which is computed afresh.
UnchangedSaveIsNeutral == [][SavedUnchanged]_vars

\* An active row has a timer, or something that fires it: a trigger, the
\* external endpoint, or the host's event.
EveryRowFires ==
    \A id \in Ids : Exists(id) /\ rows[id].status = "active" /\ rows[id].next = None =>
        rows[id].ext \/ rows[id].args \/ rows[id].resolver \in Evented \cup ConfigEvented

\* One click creates at most one row, and patches at most once.
OneSavePerClick == commit # None => commit.made <= 1

\* The form of a row opens with its load, whatever older load is late: it waits
\* only for a load that is still to come, or for one that has failed.
FormOpens ==
    mounted /\ editId # None /\ Exists(editId) /\ ~failed =>
        EditReady \/ \E l \in loads : l.active /\ l.id = editId
=============================================================================
