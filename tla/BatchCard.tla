------------------------------ MODULE BatchCard ------------------------------
(***************************************************************************)
(* The "Execute multiple times" card of an admin's detail page             *)
(* (ui/ManualBatchCard.tsx): the read hook and its poller                  *)
(* (hooks/useManualBatch.ts), the start and cancel actions                 *)
(* (hooks/useExecuteActions.ts) behind the confirm gate and its single     *)
(* retry (provider/runGated.ts, handlers/context.ts), and the handlers     *)
(* they reach (handlers/batch.ts).                                         *)
(*                                                                         *)
(* A read is answered when the server handles it and applied when its      *)
(* promise resolves, in any order.  getBatch answers with the active batch *)
(* of a cronoton or with null, so an answer is a cronoton or None.         *)
(***************************************************************************)
EXTENDS Integers, FiniteSetsExt

CONSTANTS
    Ids,          \* cronotons the page may show
    First,        \* the one it opens with
    MaxCalls,     \* bound on reads in flight
    MaxMoves,     \* bound on changes of the page's cronoton
    MaxClicks,    \* bound on clicks of start and cancel
    MaxFailures,  \* bound on requests that fail on the network
    None

ASSUME CardAssumption ==
    /\ MaxCalls \in Nat \ {0}
    /\ {MaxMoves, MaxClicks, MaxFailures} \subseteq Nat
    /\ First \in Ids /\ None \notin Ids

VARIABLES
    page,      \* the card's cronoton
    mounted,
    moves,     \* how often the page has changed: the run of the load effect
    shown,     \* the batch state: whose active batch, or None
    fresh,     \* history: the answer applied last was one for the page
    crossed,   \* history: a change of page has met a poll, a refetch or an action
    loading, error,
    calls,     \* reads in flight
    acts,      \* the start and the cancel action, if pending
    running,   \* the server's active batches
    clicks, failures

reads == <<page, mounted, moves, crossed>>
vars == <<page, mounted, moves, shown, fresh, crossed, loading, error, calls, acts,
          running, clicks, failures>>

Call == [kind : {"load", "refetch", "poll"}, id : Ids, run : 0..MaxMoves,
         answered : BOOLEAN, batch : Ids \cup {None}]
Act == [id : Ids, tries : 1..2, made : Nat,
        stage : {"out", "expired", "ok", "refused", "failed"}]

Slots == 1..MaxCalls

TypeOK ==
    /\ page \in Ids /\ mounted \in BOOLEAN /\ moves \in 0..MaxMoves
    /\ shown \in Ids \cup {None}
    /\ {fresh, crossed, loading, error} \subseteq BOOLEAN
    /\ calls \in [Slots -> Call \cup {None}]
    /\ acts \in [{"start", "cancel"} -> Act \cup {None}]
    /\ running \subseteq Ids
    /\ clicks \in 0..MaxClicks /\ failures \in 0..MaxFailures

-----------------------------------------------------------------------------
(* Reads *)

Free == {s \in Slots : calls[s] = None}

Read(kind, id, run) ==
    [kind |-> kind, id |-> id, run |-> run, answered |-> FALSE, batch |-> None]

\* adapter.getBatch is called.
Send(kind, id, run) ==
    /\ Free # {}
    /\ calls' = [calls EXCEPT ![Min(Free)] = Read(kind, id, run)]

\* The mount: the load effect runs.
Init ==
    /\ page = First
    /\ mounted = TRUE /\ moves = 0
    /\ shown = None /\ fresh = FALSE /\ crossed = FALSE
    /\ loading = TRUE /\ error = FALSE
    /\ calls = [s \in Slots |-> IF s = 1 THEN Read("load", First, 0) ELSE None]
    /\ acts = [k \in {"start", "cancel"} |-> None]
    /\ running \in SUBSET Ids
    /\ clicks = 0 /\ failures = 0

\* The page shows another cronoton: the load effect is cleaned up and run again;
\* the batch shown stays until an answer replaces it.
Move(id) ==
    /\ mounted /\ id # page
    /\ moves < MaxMoves
    /\ page' = id
    /\ moves' = moves + 1
    /\ loading' = TRUE
    /\ Send("load", id, moves + 1)
    /\ crossed' = (crossed \/ (\E s \in Slots : calls[s] # None /\ calls[s].kind # "load")
                           \/ (\E k \in DOMAIN acts : acts[k] # None))
    /\ fresh' = FALSE
    /\ UNCHANGED <<mounted, shown, error, acts, running, clicks, failures>>

\* The card's state is gone; its reads and actions are not.
Unmount ==
    /\ mounted
    /\ mounted' = FALSE
    /\ shown' = None /\ fresh' = FALSE
    /\ loading' = FALSE /\ error' = FALSE
    /\ UNCHANGED <<page, moves, crossed, calls, acts, running, clicks, failures>>

\* Fault variant of Polls: the interval is torn down by a failed read.
PollsUnlessError == mounted /\ shown # None /\ ~error

\* The interval runs while the batch shown is active.
Polls == mounted /\ shown # None

Poll ==
    /\ Polls
    /\ Send("poll", page, 0)
    /\ UNCHANGED <<reads, shown, fresh, loading, error, acts, running, clicks, failures>>

\* getExecuteBatch: the active batch, or null.
Answer(s) ==
    /\ calls[s] # None /\ ~calls[s].answered
    /\ calls' = [calls EXCEPT ![s].answered = TRUE,
                              ![s].batch = IF calls[s].id \in running THEN calls[s].id ELSE None]
    /\ UNCHANGED <<reads, shown, fresh, loading, error, acts, running, clicks, failures>>

\* Fault variant of IsActive: only an unmount supersedes a load.
IsActiveWhileMounted(c) == mounted

\* The load effect's token; a refetch and a poll have the mounted flag alone.
IsActive(c) == mounted /\ (c.kind = "load" => c.run = moves)

EndsLoading(c) == IsActive(c) /\ c.kind # "poll"

\* The read's promise resolves.
Resolve(s) ==
    /\ calls[s] # None /\ calls[s].answered
    /\ calls' = [calls EXCEPT ![s] = None]
    /\ IF IsActive(calls[s])
       THEN /\ shown' = calls[s].batch
            /\ fresh' = (calls[s].id = page)
            /\ error' = (error /\ calls[s].kind = "poll")
       ELSE UNCHANGED <<shown, fresh, error>>
    /\ loading' = (loading /\ ~EndsLoading(calls[s]))
    /\ UNCHANGED <<reads, acts, running, clicks, failures>>

\* The read's promise is rejected; a poll swallows it.
Reject(s) ==
    /\ calls[s] # None
    /\ failures < MaxFailures
    /\ failures' = failures + 1
    /\ calls' = [calls EXCEPT ![s] = None]
    /\ error' = (error \/ (IsActive(calls[s]) /\ calls[s].kind # "poll"))
    /\ loading' = (loading /\ ~EndsLoading(calls[s]))
    /\ UNCHANGED <<reads, shown, fresh, acts, running, clicks>>

-----------------------------------------------------------------------------
(* The start and the cancel *)

\* The form is there while no batch is shown, the cancel button while one is;
\* each is disabled while its own action is pending.
Click(k) ==
    /\ mounted
    /\ acts[k] = None
    /\ (k = "start") = (shown = None)
    /\ clicks < MaxClicks
    /\ clicks' = clicks + 1
    /\ acts' = [acts EXCEPT ![k] = [id |-> page, tries |-> 1, made |-> 0, stage |-> "out"]]
    /\ UNCHANGED <<reads, shown, fresh, loading, error, calls, running, failures>>

To(k, stage) == acts' = [acts EXCEPT ![k].stage = stage]
At(k, stage) == acts[k] # None /\ acts[k].stage = stage

\* The host's confirm gate finds the confirm expired: 401, before the body runs.
\* Only the start has that gate.
GateRefuses ==
    /\ At("start", "out")
    /\ To("start", "expired")
    /\ UNCHANGED <<reads, shown, fresh, loading, error, calls, running, clicks, failures>>

\* startExecuteBatch, past its gate: one active batch per cronoton.
HandleStart ==
    /\ At("start", "out")
    /\ LET id == acts["start"].id
       IN  IF id \in running
           THEN To("start", "refused") /\ UNCHANGED running
           ELSE /\ running' = running \cup {id}
                /\ acts' = [acts EXCEPT !["start"].stage = "ok", !["start"].made = @ + 1]
    /\ UNCHANGED <<reads, shown, fresh, loading, error, calls, clicks, failures>>

\* cancelExecuteBatch, idempotent.
HandleCancel ==
    /\ At("cancel", "out")
    /\ running' = running \ {acts["cancel"].id}
    /\ To("cancel", "ok")
    /\ UNCHANGED <<reads, shown, fresh, loading, error, calls, clicks, failures>>

\* The request or its response is lost.
ActionFails(k) ==
    /\ acts[k] # None /\ acts[k].stage # "failed"
    /\ failures < MaxFailures
    /\ failures' = failures + 1
    /\ To(k, "failed")
    /\ UNCHANGED <<reads, shown, fresh, loading, error, calls, running, clicks>>

\* Fault variant of Retries: on every failure.
RetriesOnFailure(a) == a.stage \in {"expired", "failed"} /\ a.tries = 1

\* runGated: an expired confirm is asked for and tried once more.
Retries(a) == a.stage = "expired" /\ a.tries = 1

\* The host asks for the confirm again and gets it.
Reconfirm ==
    /\ acts["start"] # None /\ Retries(acts["start"])
    /\ acts' = [acts EXCEPT !["start"].stage = "out", !["start"].tries = @ + 1]
    /\ UNCHANGED <<reads, shown, fresh, loading, error, calls, running, clicks, failures>>

\* run resolves, with the body or, for a declined or second expiry and any other
\* failure, with undefined: withConfirm refreshes in either case, by the refetch
\* of the render that was clicked.
ActionEnds(k) ==
    /\ acts[k] # None /\ acts[k].stage # "out"
    /\ acts' = [acts EXCEPT ![k] = None]
    /\ IF mounted
       THEN Send("refetch", acts[k].id, 0) /\ loading' = TRUE
       ELSE UNCHANGED <<calls, loading>>
    /\ UNCHANGED <<reads, shown, fresh, error, running, clicks, failures>>

-----------------------------------------------------------------------------

\* The tick fires a batch's last entry, or its row ends.
BatchEnds(id) ==
    /\ id \in running
    /\ running' = running \ {id}
    /\ UNCHANGED <<reads, shown, fresh, loading, error, calls, acts, clicks, failures>>

Next ==
    \/ Unmount \/ Poll
    \/ \E id \in Ids : Move(id) \/ BatchEnds(id)
    \/ \E s \in Slots : Answer(s) \/ Resolve(s) \/ Reject(s)
    \/ \E k \in {"start", "cancel"} : Click(k) \/ ActionFails(k) \/ ActionEnds(k)
    \/ GateRefuses \/ HandleStart \/ HandleCancel \/ Reconfirm

Spec == Init /\ [][Next]_vars

\* The interval keeps firing, and a request ends: it is answered and its promise
\* resolves, but for MaxFailures of them, which are rejected.
FairSpec ==
    /\ Spec
    /\ WF_vars(Poll)
    /\ \A s \in Slots : WF_vars(Answer(s)) /\ WF_vars(Resolve(s))

-----------------------------------------------------------------------------
(* Properties *)

\* One click starts at most one batch, however often the confirm has expired, the
\* response is lost or the batch has ended in the meantime.
OneBatchPerClick == acts["start"] # None => acts["start"].made <= 1

\* While no poll, refetch or action is under way at a change of page, a card that
\* has loaded shows an answer of its own cronoton, whatever load was slow.
LoadedIsOfPage ==
    mounted /\ ~crossed /\ ~loading /\ ~error => fresh

\* A batch that has ended, or that another page's answer has left on the card,
\* disappears from it without a reload.
EndedBatchLeavesCard ==
    mounted /\ shown # None /\ page \notin running
        ~> ~mounted \/ shown = None \/ page \in running
=============================================================================
