----------------------------- MODULE DetailPage -----------------------------
(***************************************************************************)
(* What an operator sees of the committed rows and does to them: the list  *)
(* screen (ui/CronotonList.tsx over useCronotons), the detail screen       *)
(* (ui/Detail.tsx over useCronoton and useCronotonActions) with its fire   *)
(* history (ui/FireHistory.tsx over useCronotonFires) and trigger card,    *)
(* against the lifecycle, execute and recover handlers, other operators'   *)
(* edits, and a host's worker for the multi-tx rows.                       *)
(*                                                                         *)
(* A host shows one screen at a time and may change the detail's id while  *)
(* it is mounted.  A read of the history is answered by the server at one  *)
(* moment and arrives at a later one, so that answers for one row come in  *)
(* any order.  A read of the list or of the row is answered when it        *)
(* arrives: its lateness shows as a step of another actor just after, but  *)
(* two answers for one row never come in reverse.  A fire is one step of   *)
(* the server (module ServerTick has what happens inside it), and so is an *)
(* action with its confirm retry (module Builder).  Names, loading flags   *)
(* and result lines are left out, and so is the batch card (module         *)
(* BatchCard), which may also disable Execute.                             *)
(***************************************************************************)
EXTENDS FireRecords

CONSTANTS
    MultiTx,   \* resolvers whose row a host's worker fires
    Start,     \* the commit that each row was made by
    Past,      \* the fires recorded before
    PageSize,  \* of the history
    MaxTurns   \* bound on clicks, route changes, failures, edits and worker steps

Shown == [id : Ids, row : Row]

ASSUME DetailAssumption ==
    /\ MultiTx \subseteq Resolvers
    /\ Start \in [Ids -> CommitInputs]
    /\ Past \in Seq(Fire) /\ Len(Past) <= MaxFires
    /\ \A f \in DOMAIN Past : ~Past[f].recovered /\ ~Past[f].worker
    /\ PageSize \in Nat \ {0} /\ MaxTurns \in Nat
    /\ None \notin Ids /\ None \notin Shown

VARIABLES
    tier,     \* the viewer's access
    page,     \* the detail's id prop, or None for the list screen
    listed,   \* the list's rows
    listing,  \* a read of the list is in flight
    shown,    \* the row the detail shows, or None: an error, not found, loading
    gets,     \* reads of it in flight
    hist,     \* the history of the shown row
    reads,    \* reads of it in flight
    acts,     \* actions from their click to their answer
    queued,   \* multi-tx rows a worker is to fire
    strayRow, \* history: a refetch of another id has been shown
    stray,    \* history: a history read of another id was shown, or a load failed
    kept,     \* history: the page was chosen for another row
    older,    \* history: the fires are of an answer given before the page was chosen
    turns

detail == <<shown, gets, hist, reads, strayRow, stray, kept, older>>
list == <<listed, listing>>
server == <<rows, now, fires, queued>>
vars == <<server, tier, page, list, detail, acts, turns>>

Tier == {"admin", "non-admin", "logged-out"}
Kind == {"effect", "superseded", "refetch"}
Get == [id : Ids, kind : Kind]
FirePage == [fires : SUBSET [id : 1..MaxFires, status : Outcome \cup {"running"}],
             total : Nat]
Read == [id : Ids, page : Nat,
         kind : Kind \cup {"late"},     \* late, history: answered before the page was chosen
         answer : FirePage \cup {None}]
History == [of : Ids \cup {None}, page : Nat, total : Nat,
            fires : SUBSET [id : 1..MaxFires, status : Outcome \cup {"running"}]]
Verb == {"pause", "resume", "delete", "execute", "trigger", "recover"}
Act == [do : Verb, target : Ids, named : Ids, page : Ids \cup {None},
        force : BOOLEAN, fire : 0..MaxFires, at : Nat, crossed : BOOLEAN,
        live : BOOLEAN, cards : BOOLEAN, stage : {"out", "ok", "not ok", "failed"}]

TypeOK ==
    /\ StoreTypeOK /\ FiresTypeOK
    /\ queued \subseteq Ids
    /\ tier \in Tier
    /\ page \in Ids \cup {None}
    /\ listed \in [Ids -> Row \cup {Unborn, Deleted}]
    /\ {listing, strayRow, stray, kept, older} \subseteq BOOLEAN
    /\ shown \in Shown \cup {None}
    /\ gets \subseteq Get
    /\ hist \in History
    /\ \A r \in reads : r \in Read
    /\ \A a \in acts : a \in Act
    /\ turns \in 0..MaxTurns

Turn == turns < MaxTurns /\ turns' = turns + 1

Nothing == [id \in Ids |-> Unborn]
NoHistory == [of |-> None, page |-> 0, total |-> 0, fires |-> {}]

-----------------------------------------------------------------------------
(* The screens *)

\* Fault variant of Superseded: the effect's cleanup is forgotten.
NotSuperseded(inFlight) == inFlight

\* The effect's cleanup: its token drops the answer of its load.
Superseded(inFlight) ==
    {[r EXCEPT !.kind = IF @ = "effect" THEN "superseded" ELSE @] : r \in inFlight}

\* A screen, or the cards below the row, unmounts: late answers find nobody.
Dead(as) == {[a EXCEPT !.live = FALSE, !.cards = FALSE] : a \in as}
CardsGone(as) == {[a EXCEPT !.cards = FALSE] : a \in as}

\* The list mounts: an empty table and its load.
MountList == listed' = Nothing /\ listing' = TRUE

UnmountDetail ==
    /\ shown' = None /\ gets' = {} /\ hist' = NoHistory /\ reads' = {}
    /\ strayRow' = FALSE /\ stray' = FALSE /\ kept' = FALSE /\ older' = FALSE

Init ==
    /\ now = 0
    /\ rows = [id \in Ids |-> CommittedRow(Start[id])]
    /\ fires = Past /\ queued = {}
    /\ tier \in Tier
    /\ page = None /\ listed = Nothing /\ listing = TRUE
    /\ shown = None /\ gets = {} /\ hist = NoHistory /\ reads = {}
    /\ strayRow = FALSE /\ stray = FALSE /\ kept = FALSE /\ older = FALSE
    /\ acts = {} /\ turns = 0

\* The list's name link.
Open(id) ==
    /\ page = None /\ listed[id] \notin {Unborn, Deleted}
    /\ Turn
    /\ page' = id
    /\ listed' = Nothing /\ listing' = FALSE
    /\ gets' = {[id |-> id, kind |-> "effect"]}
    /\ acts' = Dead(acts)
    /\ UNCHANGED <<server, tier, shown, hist, reads, strayRow, stray, kept, older>>

Back ==
    /\ page # None
    /\ Turn
    /\ page' = None
    /\ MountList /\ UnmountDetail
    /\ acts' = Dead(acts)
    /\ UNCHANGED <<server, tier>>

\* The host gives the mounted detail another id.
Route(id) ==
    /\ page \notin {None, id} /\ Exists(id)
    /\ Turn
    /\ page' = id
    /\ gets' = Superseded(gets) \cup {[id |-> id, kind |-> "effect"]}
    /\ UNCHANGED <<server, tier, list, shown, hist, reads, strayRow, stray, kept, older,
                   acts>>

ListArrives ==
    /\ listing
    /\ listed' = rows /\ listing' = FALSE
    /\ UNCHANGED <<server, tier, page, detail, acts, turns>>

\* The table stays as it was.
ListFails ==
    /\ listing /\ Turn
    /\ listing' = FALSE
    /\ UNCHANGED <<server, tier, page, listed, detail, acts>>

-----------------------------------------------------------------------------
(* The row and its history *)

IsActive(r) == r.kind # "superseded"

HistoryRead(id, n, kind) == [id |-> id, page |-> n, kind |-> kind, answer |-> None]

HistoryLoad(id, n) == {HistoryRead(id, n, "effect")}

\* The row's component appears with an empty history, or keeps its state when
\* another row is shown in it; a new id reloads the history at the page it was.
ShowRow(id) ==
    /\ shown' = [id |-> id, row |-> rows[id]]
    /\ IF shown # None /\ shown.id = id
       THEN UNCHANGED <<hist, reads, stray, kept, older>>
       ELSE /\ reads' = Superseded(reads) \cup HistoryLoad(id, hist.page)
            /\ kept' = (kept \/ hist.page > 0)
            /\ UNCHANGED <<hist, stray, older>>
    /\ UNCHANGED acts

\* The error card replaces the row and drops its history.
ShowError ==
    /\ shown' = None /\ hist' = NoHistory /\ reads' = {}
    /\ stray' = FALSE /\ kept' = FALSE /\ older' = FALSE
    /\ acts' = CardsGone(acts)

RowArrives(g) ==
    /\ gets' = gets \ {g}
    /\ IF ~IsActive(g)
       THEN UNCHANGED <<shown, hist, reads, stray, kept, older, strayRow, acts>>
       ELSE /\ IF Exists(g.id) THEN ShowRow(g.id) ELSE ShowError
            /\ strayRow' = (g.kind = "refetch" /\ g.id # page)
    /\ UNCHANGED <<server, tier, page, list, turns>>

RowFails(g) ==
    /\ Turn
    /\ gets' = gets \ {g}
    /\ IF IsActive(g)
       THEN ShowError
       ELSE UNCHANGED <<shown, hist, reads, stray, kept, older, acts>>
    /\ UNCHANGED <<server, tier, page, list, strayRow>>

\* The server answers from the table of the moment.
HistoryServed(r) ==
    /\ IsActive(r) /\ r.answer = None
    /\ LET answer == ListFires(r.id, PageSize, r.page * PageSize)
       IN  reads' = (reads \ {r}) \cup {[r EXCEPT !.answer = answer]}
    /\ UNCHANGED <<server, tier, page, list, shown, gets, hist, strayRow, stray, kept, older,
                   acts, turns>>

\* Only a load is dropped when it is superseded; a poll or a refetch sets what it
\* was answered whenever it comes.
HistoryArrives(r) ==
    /\ reads' = reads \ {r}
    /\ IF IsActive(r)
       THEN /\ r.answer # None
            /\ hist' = [hist EXCEPT !.of = r.id, !.fires = r.answer.fires,
                                    !.total = r.answer.total]
            /\ stray' = (r.kind # "effect" /\ r.id # shown.id)
            /\ older' = (r.kind = "late")
       ELSE UNCHANGED <<hist, stray, older>>
    /\ UNCHANGED <<server, tier, page, list, shown, gets, strayRow, kept, acts, turns>>

\* The failure of a load is kept and not shown, a poll's is swallowed.
HistoryFails(r) ==
    /\ Turn
    /\ reads' = reads \ {r}
    /\ stray' = (stray \/ r.kind = "effect")
    /\ UNCHANGED <<server, tier, page, list, shown, gets, hist, strayRow, kept, older, acts>>

\* Poller: while a fire on the page is running.
Poll ==
    /\ shown # None
    /\ \E f \in hist.fires : f.status = "running"
    /\ reads' = reads \cup {HistoryRead(shown.id, hist.page, "refetch")}
    /\ UNCHANGED <<server, tier, page, list, shown, gets, hist, strayRow, stray, kept, older,
                   acts, turns>>

PageCount == (hist.total + PageSize - 1) \div PageSize

\* Fault variant of Clamped: a page past the end is taken as it is.
ClampedBelow(n) == IF n < 0 THEN 0 ELSE n

Clamped(n) ==
    CASE n < 0 \/ PageCount = 0 -> 0
      [] n \in 0..(PageCount - 1) -> n
      [] OTHER -> PageCount - 1

\* History only: the polls and refetches that the server has answered by now.
Late(inFlight) ==
    {[r EXCEPT !.kind = IF @ = "refetch" /\ r.answer # None THEN "late" ELSE @] : r \in inFlight}

\* The pager's buttons, or a host's own control of the hook: clamped to the total.
SetPage(n) ==
    /\ shown # None
    /\ Clamped(n) # hist.page
    /\ Turn
    /\ hist' = [hist EXCEPT !.page = Clamped(n)]
    /\ reads' = Superseded(Late(reads)) \cup HistoryLoad(shown.id, Clamped(n))
    /\ kept' = (hist.of # shown.id) /\ older' = FALSE
    /\ UNCHANGED <<server, tier, page, list, shown, gets, strayRow, stray, acts>>

-----------------------------------------------------------------------------
(* The clicks *)

CanMutate == tier = "admin"

\* An action of the screen is pending: of the list's row, or of the detail.
Working(id) == \E a \in acts : a.live /\ a.do \notin {"trigger", "recover"}
                               /\ (page = None => a.target = id)

Pending(do) == \E a \in acts : a.cards /\ a.do = do

\* The disable rules of ui/access.ts, for the row as it is shown.
Enabled(do, id, row) ==
    /\ CanMutate
    /\ do \in {"pause", "resume", "execute", "trigger"} => row.status \notin Terminal
    /\ do = "resume" => row.status = "paused"
    /\ do = "pause" => row.status # "paused"
    /\ IF do = "trigger" THEN row.args /\ row.status = "active" /\ ~Pending(do)
                         ELSE ~Working(id)

\* What a confirmed click sends; a delete is forced by the resolver that is shown.
Click(do, id, row, target, crossed) ==
    /\ Enabled(do, id, row)
    /\ Turn
    /\ acts' = acts \cup {[do |-> do, target |-> target, named |-> id, page |-> page,
                           force |-> do = "delete" /\ row.resolver # None, fire |-> 0,
                           at |-> 0, crossed |-> crossed, live |-> TRUE, cards |-> TRUE,
                           stage |-> "out"]}
    /\ UNCHANGED <<server, tier, page, list, detail>>

\* A row of the list is bound to its own id.
ListClick(do, id) ==
    /\ page = None /\ listed[id] \notin {Unborn, Deleted}
    /\ do \in {"pause", "resume", "delete", "execute"}
    /\ Click(do, id, listed[id], id, FALSE)

\* The detail's lifecycle actions are bound to the id prop, its fires to the row.
DetailTarget(do) == IF do \in {"execute", "trigger"} THEN shown.id ELSE page

\* The row on the screen may be another than the id's.
Crossed == strayRow \/ \E g \in gets : g.kind = "effect"

DetailClick(do) ==
    /\ page # None /\ shown # None
    /\ do # "recover"
    /\ Click(do, shown.id, shown.row, DetailTarget(do), Crossed)

\* The recover button of a failed fire; the key is prompted for.
RecoverClick ==
    /\ CanMutate /\ shown # None /\ ~Pending("recover")
    /\ Turn
    /\ \E f \in hist.fires :
          /\ f.status = "failure"
          /\ acts' = acts \cup {[do |-> "recover", target |-> shown.id, named |-> shown.id,
                                 page |-> page, force |-> FALSE, fire |-> f.id,
                                 at |-> hist.page, crossed |-> FALSE, live |-> TRUE,
                                 cards |-> TRUE, stage |-> "out"]}
    /\ UNCHANGED <<server, tier, page, list, detail>>

-----------------------------------------------------------------------------
(* The handlers *)

Ends(a, stage) == acts' = (acts \ {a}) \cup {[a EXCEPT !.stage = stage]}

ToggleRefused(do, id) ==
    \/ ~Exists(id) \/ ~NotTerminal(rows[id])
    \/ do = "resume" /\ rows[id].next # None /\ ResumedNext(rows[id]) = None

HandleToggle(a) ==
    /\ a.do \in {"pause", "resume"}
    /\ IF ToggleRefused(a.do, a.target)
       THEN Ends(a, "failed") /\ UNCHANGED <<rows, now>>
       ELSE /\ Ends(a, "ok")
            /\ IF a.do = "pause" THEN Pause(a.target) ELSE Resume(a.target)
    /\ UNCHANGED <<fires, queued>>

\* Fault variant of DeleteLocked: no row is.
NeverLocked(id, force) == FALSE

\* A row bound to a resolver is deleted by force only.
DeleteLocked(id, force) == rows[id].resolver # None /\ ~force

HandleDelete(a) ==
    /\ a.do = "delete"
    /\ IF Exists(a.target) /\ ~DeleteLocked(a.target, a.force)
       THEN Delete(a.target) /\ Ends(a, "ok")
       ELSE Ends(a, "failed") /\ UNCHANGED <<rows, now>>
    /\ UNCHANGED <<fires, queued>>

\* fireAndRecord: one record, and the end of a one-time row.
FireAndRecord(id, ok) ==
    /\ RecordFire(id, ok)
    /\ ApplyTerminal(id, TerminalIntent(rows[id].sched, ok))

\* The fire tier answers with the outcome; a multi-tx row is queued.
HandleFire(a) ==
    /\ a.do \in {"execute", "trigger"}
    /\ LET row == rows[a.target]
       IN  IF ~Exists(a.target) \/ row.status # "active" \/ (a.do = "trigger" /\ ~row.args)
           THEN Ends(a, "failed") /\ UNCHANGED <<rows, fires, queued>>
           ELSE IF a.do = "execute" /\ row.resolver \in MultiTx
           THEN /\ queued' = queued \cup {a.target}
                /\ Ends(a, "ok")
                /\ UNCHANGED <<rows, fires>>
           ELSE /\ \E ok \in BOOLEAN :
                      FireAndRecord(a.target, ok) /\ Ends(a, IF ok THEN "ok" ELSE "not ok")
                /\ UNCHANGED queued
    /\ UNCHANGED now

HandleRecover(a) ==
    /\ a.do = "recover"
    /\ IF Recoverable(a.fire)
       THEN RecoverFire(a.fire) /\ Ends(a, "ok")
       ELSE Ends(a, "failed") /\ UNCHANGED fires
    /\ UNCHANGED <<rows, now, queued>>

Handle(a) ==
    /\ a.stage = "out"
    /\ HandleToggle(a) \/ HandleDelete(a) \/ HandleFire(a) \/ HandleRecover(a)
    /\ UNCHANGED <<tier, page, list, detail, turns>>

\* The request or its answer is lost, or the confirm is declined.
ActFails(a) ==
    /\ a.stage # "failed"
    /\ Turn
    /\ Ends(a, "failed")
    /\ UNCHANGED <<server, tier, page, list, detail>>

\* The outcomes after which the detail re-reads its row.
RereadsRow(a) ==
    \/ a.do \in {"pause", "resume"} /\ a.stage = "ok"
    \/ a.do = "execute" /\ a.stage # "failed"
    \/ a.do = "trigger" /\ a.stage = "ok"

\* What a settled action makes its screen do: the list re-reads itself, after an
\* execute whatever came of it; the detail re-reads the row of the click's
\* render, the history the page of it.
Rereads(a) ==
    /\ listing' = (listing \/ (a.live /\ a.page = None /\ (a.stage = "ok" \/ a.do = "execute")))
    /\ gets' = IF a.live /\ a.page # None /\ RereadsRow(a)
               THEN gets \cup {[id |-> a.page, kind |-> "refetch"]} ELSE gets
    /\ reads' = IF a.cards /\ a.do = "recover" /\ a.stage = "ok"
                THEN reads \cup {HistoryRead(a.target, a.at, "refetch")}
                ELSE reads
    /\ UNCHANGED <<page, listed, shown, hist, strayRow, stray, kept, older>>

\* A delete from the detail leaves for the list, wherever the host is by now.
Answer(a) ==
    /\ a.stage # "out"
    /\ IF a.do = "delete" /\ a.stage = "ok" /\ a.page # None
       THEN page' = None /\ MountList /\ UnmountDetail /\ acts' = Dead(acts \ {a})
       ELSE Rereads(a) /\ acts' = acts \ {a}
    /\ UNCHANGED <<server, tier, turns>>

-----------------------------------------------------------------------------
(* Other actors *)

\* Another operator's edit, or a delete under the handler's lock, or a recover
\* through the API, where no page says which fires have failed.
Other(id) ==
    /\ Turn
    /\ \/ (\E patch \in EditPatches : Edit(id, patch)) /\ UNCHANGED fires
       \/ Exists(id) /\ ~DeleteLocked(id, FALSE) /\ Delete(id) /\ UNCHANGED fires
       \/ /\ \E f \in FireIds : fires[f].of = id /\ Recoverable(f) /\ RecoverFire(f)
          /\ UNCHANGED <<rows, now>>
    /\ UNCHANGED <<queued, tier, page, list, detail, acts>>

\* The host's worker takes a queued fire, and finalizes it; a resumed one
\* finalizes it again.
WorkerStarts(id) ==
    /\ id \in queued
    /\ queued' = queued \ {id}
    /\ IF Exists(id) THEN CreateRunningFire(id) ELSE UNCHANGED fires
    /\ UNCHANGED <<rows, now, tier, page, list, detail, acts, turns>>

WorkerEnds(f) ==
    /\ fires[f].worker /\ fires[f].ends < MaxEnds
    /\ Turn
    /\ \E outcome \in Outcome : FinalizeFire(f, outcome)
    /\ UNCHANGED <<rows, now, queued, tier, page, list, detail, acts>>

Next ==
    \/ \E id \in Ids : Open(id) \/ Route(id)
    \/ Back \/ ListArrives \/ ListFails
    \/ \E g \in gets : RowArrives(g) \/ RowFails(g)
    \/ \E r \in reads : HistoryServed(r) \/ HistoryArrives(r) \/ HistoryFails(r)
    \/ Poll
    \/ \E n \in 0..MaxFires : SetPage(n)
    \/ \E do \in Verb, id \in Ids : ListClick(do, id)
    \/ \E do \in Verb : DetailClick(do)
    \/ RecoverClick
    \/ \E a \in acts : Handle(a) \/ ActFails(a) \/ Answer(a)
    \/ \E id \in Ids : Other(id) \/ WorkerStarts(id)
    \/ \E f \in FireIds : WorkerEnds(f)

Spec == Init /\ [][Next]_vars

-----------------------------------------------------------------------------
(* Properties *)

\* The row on the screen is the one of the id, unless the id's own row is still
\* loading or a refetch of the last id came late.
ShownIsOfPage ==
    page # None /\ shown # None => shown.id = page \/ Crossed

\* A row that goes by a click is the one the click was confirmed for, and if it is a
\* system row by then it was announced as one, however it was bound or freed between
\* the screen's read and the handler.  Not so for a crossed click, made while the row
\* on the screen may be another than the id's: TargetIsNamed has that case.
DeletesWhatWasConfirmed ==
    [][\A id \in Ids : Exists(id) /\ rows'[id] = Deleted =>
          \/ \E a \in acts : /\ a.do = "delete" /\ a.target = id
                             /\ a.crossed \/ a.named = id
                             /\ rows[id].resolver # None => a.force
          \/ UNCHANGED acts /\ rows[id].resolver = None]_vars

\* The fires below the row are its own, unless its load is on the way or has
\* failed, or a poll or a refetch of another row came late.
HistoryIsOfRow ==
    shown # None /\ hist.of \notin {None, shown.id} =>
        stray \/ \E r \in reads : r.kind = "effect"

\* The page that is open is one of the history's, though answers come in any order.
\* Not so if it was kept from another row or clamped by another row's total, and not
\* if a poll or a refetch answered before the page was chosen came after.
PageInRange ==
    shown # None /\ hist.total > 0 /\ hist.of = shown.id /\ ~kept /\ ~older
        => hist.page < PageCount

-----------------------------------------------------------------------------
(* What comments and documents say of the program and the code does not do *)

\* The confirm of a delete (ui/confirm-flows.ts) names the row that goes, that of an
\* execute the row that is fired; a pause or a resume names none.
TargetIsNamed == \A a \in acts : a.do \in {"delete", "execute"} => a.target = a.named
=============================================================================
