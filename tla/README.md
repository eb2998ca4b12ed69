# Khronoton: a verification project

TLA+ models, model-checking runs and machine-checked proofs for
`packages/khronoton-core`, an engine that stores *cronotons* (scheduled Pact
transactions), fires them on a timer, on demand or in batches, and keeps the
history of their fires. Paths below are relative to `packages/khronoton-core/src`
unless they say otherwise.

Contents: [inventory](#inventory), [modules](#modules), [runs](#runs),
[fairness](#fairness), [proofs](#proofs), [divergences](#divergences),
[what is not modelled](#what-is-not-modelled), [plan](#plan).

## Inventory

### Components

| component | state | operations | hard behaviour | what makes it correct |
|---|---|---|---|---|
| cronoton store (`server/store/cronoton.ts`) | table `codex_cronotons` | commit, edit, pause, resume, delete | any sequence of legal calls, interleaved with a tick | rows fired by an operator, a trigger or an event are never on the timer; `completed` and `error` leave it for good |
| claim (`server/store/claim.ts`) | `next_fire_at`, `last_fire_at`, `status` | due selection, conditional claim, terminal write | overlapping passes, stale snapshots | a due instant is claimed once, and by a pass that has read the current schedule |
| server tick (`server/tick.ts`) | the pass's snapshot, its `now`, the job in flight | one pass over the due rows; one pass over the due batches | passes that overlap, die, or race an operator | one fire per claim, one record per fire, terminal statuses that have their fire |
| execute handlers (`handlers/execute.ts`) | the row a request has read | executeNow, triggerCronoton, recoverFire, simulate | a request fires without a claim | no final status without its fire |
| manual batches (`server/store/manual-batch.ts`, `handlers/batch.ts`) | table `codex_cronoton_manual_batches` | start, claim a slot, stop | a stop or a second pass between read and claim | exactly `total` slots, an interval apart, one batch per cronoton |
| fire records (`server/store/fires.ts`) | table `codex_cronoton_fires` | record, running/append/finalize, recover | late confirmations | a success is on the chain, a sent transaction keeps its key |
| executor (`server/executor.ts`) | the signed command of a fire | build, sign, preflight, submit, listen | lost responses, timeouts, late landings | never throws, never loses a request key |
| resolver dispatcher (`server/resolvers.ts`) | the resolver registry | resolve, guard, fire, settle | failure of one of several steps | settle only what landed |
| schedule engine (`schedule.ts`) | none (pure) | computeNextFire for seven modes | calendar boundaries | the least matching instant after `now` |
| reference tick (`tick.ts`) | the tick's result | tickOnce over host hooks | a hook that throws, a crash between two hooks | a row is advanced only past an instant that was enqueued |
| loop driver (`server/loop.ts`) | timer handle, running flag | start, stop, run | a pass slower than the interval | passes of one loop never overlap |
| handlers' gates (`handlers/context.ts`, `handlers/http.ts`) | none | read and confirm gates, error mapping | a throw after the write | no write behind a refused gate; each error has one status |
| provider (`provider/`) | pending confirmation | gated calls | a retry of what was already done | one effect per click |
| hooks (`hooks/`) | what the page shows | polling, paging, actions | answers that arrive out of order | what is shown belongs to the page |
| builder (`ui/builder-state.ts`, `ui/builder/`) | the form, its load, a simulation and a commit in flight | load, edits of each tab, simulate, commit | a change of the row under the form, slow loads, a calibration that writes back | a form goes to the row it was made from; what it showed is what is stored |
| list and detail screens (`ui/CronotonList.tsx`, `ui/Detail.tsx`, `ui/FireHistory.tsx`) | the row and the page of fires on the screen, actions in flight | navigation, lifecycle actions, execute, trigger, recover, pager | answers for another row, another operator, a second finalize | an action hits the row that was confirmed; the history is the row's |
| batch card (`ui/ManualBatchCard.tsx`) | the batch on the card | start, stop, poll | late answers | see hooks |
| presentation (the rest of `ui/`) | none beyond the above | rendering | | |
| chain runtime (`blockchain/stoachain.ts`) | none | adapter onto the chain client | | |

### Interactions

```
 page (ui)  --> hooks --> provider: runGated, adapter --HTTP--> handlers (gates)
                                                                  |        \
                                                            store |         \ executeNow,
                                                                  v          \ triggerCronoton
  loop --> tick pass --due, claim--> codex_cronotons               v         v
             |  \--due, claim slot--> manual_batches          dispatcher (resolvers.ts)
             |                                                      |
             +-------------------- fire --------------------------->|--> executor --> chain
             |                                                      |      sign, preflight,
             +--record, terminal write--> codex_cronoton_fires      |      submit, listen
                                                                    +--> settle (host)
```

* The **store** is synchronous (better-sqlite3): every store call is atomic
  against every other. What interleaves are the `await`s between calls: a pass
  awaits one fire after another, minutes each, while operators, requests, a
  second pass and the clock move on.
* The **tick** reads the due rows once and works from that snapshot. What
  protects a row is the conditional update of the claim alone.
* **Requests** (executeNow, triggerCronoton) read a row and fire it without a
  claim. **Batches** have a claim of their own, on their own table.
* The **dispatcher** and the **executor** turn every failure into a result,
  except two of a single-tx resolver, which throw to the caller.
* The **page** sees all this through reads that may be answered and delivered
  in any order.

## Modules

| module | models | role |
|---|---|---|
| `CronotonStore` | `server/store/cronoton.ts`, `server/store/claim.ts` | the table and its operations, used by the two ticks |
| `CronotonStoreProofs` | | the lemma about the operators' calls that the proofs about both ticks share |
| `ServerTick` | `server/tick.ts` (cronotons), `handlers/execute.ts`, `server/store/fires.ts` (recordFire) | extends `CronotonStore`: overlapping passes, requests, operators, crashes |
| `ClaimLedger` | | abstract specification of claims, implemented by `ServerTick` and by `ManualBatch` |
| `ServerTickProofs` | | theorems about `ServerTick`, and its refinement of `ClaimLedger` |
| `ManualBatch` | `server/store/manual-batch.ts`, `handlers/batch.ts`, `server/tick.ts` (batches) | extends `CronotonStore`: batches and the worker passes over them |
| `ManualBatchProofs` | | theorems about `ManualBatch`, and its refinement of `ClaimLedger` |
| `ChainFire` | `server/resolvers.ts`, `server/executor.ts`, `server/store/fires.ts` (recovery) | one fire inside: the part that `ServerTick` sees as one result |
| `FireContract` | | abstract specification of a fire, implemented by `ChainFire` |
| `ChainFireProofs` | | theorems about `ChainFire`, and its refinement of `FireContract` |
| `Schedule` | `schedule.ts` | computeNextFire as operators |
| `RootTick` | `tick.ts` | extends `Schedule`: tickOnce over a host that may fail |
| `RootTickProofs` | | theorems about `Schedule` and `RootTick` |
| `BatchCard` | `hooks/useManualBatch.ts`, `hooks/useExecuteActions.ts`, `provider/runGated.ts`, `ui/ManualBatchCard.tsx` | the batch card against the handlers |
| `BatchCardProofs` | | theorems about `BatchCard` |
| `Builder` | `ui/builder-state.ts`, `ui/builder/*.tsx`, `hooks/useServerResolvers.ts`, the create and edit of `handlers/cronoton.ts` | extends `CronotonStore`: the form of an admin, from the load of a row to what the store holds after Commit |
| `BuilderProofs` | | theorems about `Builder` |
| `FireRecords` | `server/store/fires.ts` | extends `CronotonStore`: the table of fires with running records, finalize, recovery and the paged listing |
| `DetailPage` | `ui/CronotonList.tsx`, `ui/Detail.tsx`, `ui/FireHistory.tsx`, `ui/RuntimeArgTriggerCard.tsx`, `ui/access.ts`, `ui/confirm-flows.ts`, the hooks below them, the lifecycle, execute and recover handlers | extends `FireRecords`: what an operator sees and does, beside other operators and a host's worker |
| `DetailPageProofs` | | theorems about `DetailPage` and `FireRecords` |
| `MCServerTick`, `MCManualBatch`, `MCChainFire`, `MCRootTick`, `MCBuilder`, `MCDetailPage` | | small instances for TLC |

How they compose: `ServerTick` and `ManualBatch` are two machines over the one
table of `CronotonStore`. Both see a schedule as an abstract value and
`NextFire` as a constant operator of which they assume (`NextFireAssumption`)
only that a next fire, if there is one, lies after the instant it was computed
at; `Schedule` is that operator in full, and the theorem `NextFiresAreAhead` of
`RootTickProofs` shows it of every mode. Both see a
fire as one step with a set of results; `ChainFire` is that step in full, and
its invariant `AnswersFitTheTick` checks that the results are those. `Builder` and
`DetailPage` are two more machines over the same table, driven from the other
end: by the screens. In them a fire, an action with its confirm retry and another
operator's edit are single steps, because `ServerTick`, `ChainFire` and `Builder`
itself (`Retries`) have what happens inside.

### CronotonStore

`rows` maps an id to its row, or to `Unborn` or `Deleted`; ids are random UUIDs
and never come back. A row has the columns that decide something: `status`,
`next` (`next_fire_at`), `sched` (mode and config), `resolver`, `ext`
(`external_fireable`), `args` (has runtime args) and `def`, which stands for
name, code, gas and signers. One action per call: `Commit`, `Edit`, `Pause`,
`Resume`, `Delete`, guarded by the checks that make the call fail; a rejected
call changes nothing and is no action. `EditedRow` is the edit's merge, with the
three-way decision about `next_fire_at` in `EditedNext`. `ClaimWins`,
`ClaimRow` and `ApplyTerminal` are the conditional updates of `claim.ts`, used
by the ticks.

### ServerTick

A process is a pass or a request. `pc` says where it is, `at` is the `now` a
pass was started with, `todo` the rows it read and has not reached, `job` the row
it is firing, `out` the result. `fires` is the history table, `mark` remembers
the last claim of each row (no such column exists; only properties read it).

| action | code |
|---|---|
| `SelectDue` | the query at the start of codexCronotonTickOnce |
| `ClaimWon`, `ClaimLost` | claimDueCodexCronoton, and the `continue` after a lost one |
| `FireJob`, `DispatchThrows` | fireByServerResolver and the catch around it |
| `Record`, `RecordThrows` | recordFire; it throws if the row is gone (foreign key) or if the resolveFireMode hook or the database fails over an existing row |
| `Finalize`, `FinalizeThrows` | applyTerminalIntent, and its write failing |
| `ExecuteNow`, `TriggerCronoton` | the handlers, up to the read of an active row |
| `Crash` | the process dies; tables stay |
| `Operator` | a store call; deleting a row deletes its fires (ON DELETE CASCADE) |

Claim, record and terminal write are separate steps because an `await`, or at
least a possible death of the process, lies between them. `Fault` counts crashes
and failing writes together, up to `MaxFaults`; a record refused for a deleted row
is no fault.

### ManualBatch

`batches` is the table; the worker's variables are those of a pass. `StopBatch`
is the cancel of a batch whose parent is no longer active, `ClaimSlot` the
conditional update that also ends the batch with its last slot, `LoseSlot` the
lost one. `stamps` remembers the claims of a batch for the properties.
`StartExecuteBatch` does the checks and the insert in one step: the code has a
SELECT and then an INSERT without a transaction (`server/store/manual-batch.ts:98-121`),
with no `await` between them, so they are atomic within one process. The model
assumes that one process serves the requests, as the whole store does; the worker
passes may be in any number of processes, since each of their writes is one
conditional update.

### ChainFire

A fire goes through `pc`: dispatcher (`resolving`, `guarding`, `running`),
executor (`signing`, `preflight`, `calibrating`, `submitting`, `awaiting`,
`listening`), `settling`, `answered`, `recorded`. A command is identified by its
request key `<<f, n>>`; `chain` says how far each has got in the network, and
moves on its own (`Network`). So a command can be accepted while the submit
fails (`SubmitFails`), and land before, during or after the listen that gave up
on it (`ListenFails`). `Hashed` are the commands from which the executor can derive
the key itself; for another a failing submit is rethrown (`server/executor.ts:312`)
and the fire is reported failed without a key, though the command may be out
(`SubmitIsLost`). `RecoverFire` is the operator's later repair, with any key: no
handler asks the chain (`handlers/execute.ts:252-273`, `server/store/fires.ts:274-286`).

### Schedule and RootTick

Time is a count of half minutes since the epoch, so that `now` can lie between
two whole minutes; the calendar is computed from the day number. Each mode is
one operator that says which candidate instants the code probes; the code's
ascending loop with an early return is the minimum of those after `now`. `Null`
is the spent one-time schedule, `Thrown` the InvalidScheduleConfigError, for a
bad config and for a sweep that finds nothing. `RootTick` keeps one next fire
per row as its host does; `Enqueue` and `Persist` are separate steps, either can
throw, and the process can die in between.

### BatchCard

`calls` are the reads in flight (load, refetch, poll): `Answer` is the moment
the server handles one, `Resolve` and `Reject` the moment its promise settles.
`acts` are the start and the cancel action with their stage and number of tries.
`running` is the server's side. `IsActive` is the code's guard on applying an
answer: the load effect has a token for its run, the refetch and the poll only
the mounted flag.

### Builder

The form (`Form`) has a field per control that a property tells apart; `loads`
are the reads of edited rows in flight, `sim` and `commit` the one simulation and
the one commit. `EditForm` is Builder.tsx's `setForm` with the tabs' edits below
it (`EditCode`, `EditSchedule`, `EditConfig`, `PickPayer`, `AddSigner`,
`EditRawPayload`, ...); `LoadArrives` rehydrates, `SimulateAnswers` writes the
calibrated config into the form *of the click* and sets it, `CommitClick` takes the
body, `HandleCreate` and `HandleEdit` are the handlers with their conversions
(`CommitBody`, `ToCommitInput`, `ToEditPatch`) and their refusals, `Reconfirm`
and the lost answers those of runGated. Variables that only properties read:
`origin` (whose form it is), `dirty`, `lost`, `overSim` (the form or the page
changed while a simulation was in flight), `revisited`.

### FireRecords and DetailPage

`fires` is the table in the order of `fired_at`; a fire disappears with its row
(`Recorded`). `page` is the host's id prop, `shown` and `hist` what is on the
screen, `gets` and `reads` the requests for them, `acts` the actions from click to
answer. A read carries its `kind`: a load of an effect has a token and can be
`superseded`, a poll or a refetch is only dropped when the screen has gone. A read
of the history has two steps, the server's answer (`HistoryServed`, kept in
`answer`) and its arrival (`HistoryArrives`), so that answers about one row may come
in the reverse of the order in which they were given. `Late` marks the polls and
refetches that the server had answered when another page was chosen; `older`, which
only properties read, says that the fires shown are of such an answer. The reads of
the list and of the row are answered at arrival: any order of different ids is
covered, two answers about one id in reverse are not.

| action | code |
|---|---|
| `Open`, `Back`, `Route` | the list's link, the back button, another id from the host |
| `ListArrives`, `RowArrives`, `HistoryServed` with `HistoryArrives`, and the failures | the `then` and `catch` of the three read hooks |
| `Poll`, `SetPage` | the interval of useCronotonFires, its clamped pager |
| `ListClick`, `DetailClick`, `RecoverClick` | a confirmed click under the disable rules of `ui/access.ts` |
| `Handle` | the handler: pause, resume, delete under its lock, execute, trigger, recover |
| `ActFails`, `Answer` | a lost request or answer; what the screen re-reads afterwards |
| `Other`, `WorkerStarts`, `WorkerEnds` | another operator; the host's worker of multi-tx rows, which may finalize twice |

## Runs

All runs complete; every action of every module fires in some run. The machines
are bounded by the constants of the configuration alone: `MaxTime` (clock),
`MaxFaults`, `MaxCrashes`, `MaxFailures`, `MaxFires`, `MaxEnds`, `MaxCalls`, `MaxMoves`,
`MaxClicks`, `MaxEdits`, `MaxTurns`.

| run | instance | question |
|---|---|---|
| `TickOverlap` | 2 rows, 2 passes, one-time and recurring schedules, clock to 2, limit 1, 1 crash or failing write | do overlapping and dying passes claim, fire, record and finalize each due instant at most once, the oldest first? |
| `EditRaces` | 1 row, 2 passes, schedules that are due soon, recur, or die out; edits of schedule and resolver; evented and plain resolver | can an edit, at any moment of a pass, arm a row that must not be on the timer, or be claimed under a schedule the pass has not read? |
| `OnDemand` | 2 rows, 1 pass, limit 1, 1 request, plain, single-tx and multi-tx rows, 1 crash or failing write, with fairness | what do unclaimed fires and faults do to final statuses; does a pass get to each due row, and does a one-time row end? |
| `BatchOverlap` | 1 row, 2 batches of 2 or 3 slots, 2 workers, 1 crash | does a batch fire as often as it says, at its cadence, one at a time, also while it is being stopped? |
| `ChainFire` | 2 fires of five kinds of definition, one of them without hashes, 2 plan items, 1 crash, recoveries with any key | is a sent transaction ever lost from the record, an unpaid item settled, a listen endless? |
| `RootTick` | a row of each of 14 schedules beside a daily row, started at a year's end, the end of January, and before a leap and a plain 1 March; ticks on time, half a minute late, or three days late; one failure | does each schedule yield exactly its occurrences, and does tickOnce keep them whatever throws? |
| `BatchCard` | 2 cronotons, 2 reads in flight, 1 change of page, 2 clicks, 1 failure, with fairness | does the card show its own cronoton, let go of an ended batch, and start one batch per click? |
| `Builder` | 2 stored rows (timed; bound to an event) and a new one, 2 edits, 2 clicks, 2 turns of host, network or another operator | does what the form showed reach the row it was made from, all of it and nothing else, and once? |
| `DetailPage` | a system row and a one-time row with runtime args, 2 fires recorded and 2 to come, pages of 1, 4 turns, history answers in any order, a worker that finalizes twice | is what is shown of its row, does a delete hit the row that was confirmed, does a recovery stay? |
| `DocOneTimeOnce`, `DocMonthly`, `DocWrongTarget` | | a statement of the repository the program does not keep: see [divergences](#divergences) |

### What the properties say

* `OneFirePerClaim`, `ArmedPastMark` (ServerTick): two passes in flight on one
  row hold different claims, a claim is in the history at most once, and no row
  is ever armed for an instant at or before its last claim.
* `FinalStatusHasItsFire`: a crash or a race never leaves `completed` or `error`
  without the fire that says so. `FinalStatusStays`: such a row gives no further
  claim and no operator call changes its status. It is not final in every sense: the
  terminal write is by id alone (`server/store/claim.ts:39`), so the verdict of
  another fire recorded meanwhile, a request next to a pass, may still turn
  `completed` into `error` or back. That write alone is exempt, and it leaves the row
  in one of the two.
* `OneTimeFiresOnce`: holds of passes alone (`TickOverlap`), fails once a
  request can fire the same row (`DocOneTimeOnce`).
* `SchedulerOffNeverArmed`, `ClaimIsOfCurrentSchedule`: the two hazards of edits.
* `KeepsClaimLedger`, `KeepsSlotLedger`: ServerTick and ManualBatch implement
  `ClaimLedger`, where a claim is later than every claim before it, hands out a
  lease, and the lease is entered once or lost.
* `OldestIsServed`: a pass takes no row while another, due by its clock, is armed for
  an earlier slot, whatever is claimed, edited, paused and resumed between its
  selection and its claims. With `ArmedPastMark` this is why the limit starves no
  row: another row gets ahead of a waiting one only with slots older than its own,
  and each claim uses one up.
* `DueIsServed`: lost claims, throws and slow fires hold no pass up for ever. The
  clock of the run stops, so it says nothing of rows that keep becoming due.
* `OneTimeRowEnds`: the fire of a one-time row without a resolver ends it although
  an operator pauses it meanwhile, unless a fault hits its record or its terminal
  write: then the row stays active and spent (see [divergences](#divergences)).
* `RunsToItsTotal`, `SlotsAreSpaced`, `OneBatchPerCronoton`, `EndedBatchesStay`:
  what a batch promises its operator.
* `KeyIsKept`, `SettledIsPaid`, `AnswersFitTheTick`, `ListenEnds`,
  `KeepsFireContract`: what a fire promises; in `FireContract` a report of a
  fire carries the key of the one transaction it has sent, and success is
  reported only of one that has succeeded. Two reports are exempt, by name: the
  failure of a command without a hash, which may have no key, and a recovery, which
  says what the operator says.
* `NoOccurrenceMissed`: the instant a row waits for is an occurrence of its
  schedule, as the README's table of modes describes it, and none lies between.
  The occurrences are defined day by day, independently of the code's sweeps.
* `AdvancedOnlyWhenEnqueued`, `OnceUnlessFailed`: tickOnce never drops a fire and
  repeats one only after a failure.
* `OneBatchPerClick`, `LoadedIsOfPage`, `EndedBatchLeavesCard`: the card.
* `PatchFitsItsRow`, `EditsKept`, `FormOpens`: whose row the form is of, and that
  loads neither overwrite edits nor keep it closed. Each names the cases in which
  the code does overwrite (see [divergences](#divergences)).
* `SaveKeepsForm`, `UnchangedSaveIsNeutral`: the conversion form -> body -> patch
  -> store -> form, in both directions: nothing shown is lost, nothing else moves.
* `EveryRowFires`: no row committed by the form, in any order of registry answers
  and edits, is active with nothing that could ever fire it.
* `OneSavePerClick`: retries and lost answers do not create a second row.
* `ShownIsOfPage`, `HistoryIsOfRow`: what the detail screen shows is of its row.
  `PageInRange`: the open page exists, though the history's answers come in any
  order. Exempt are a page kept from another row or clamped by its total (`kept`)
  and a poll or refetch that was answered before the page was chosen and comes
  after (`older`); in both the code does show a page past the end.
* `DeletesWhatWasConfirmed`: between the confirm and the handler the row may be
  rebound: a system row goes only if it was announced as one, and the row that goes
  is the one that was confirmed, except by a `crossed` click, made while the screen may
  still show another row than the id's. `DocWrongTarget` shows that exception.
* `RecoveryStays`: a recovered fire stays a success, unless a worker finalizes it a
  second time.

### Why the bounds are enough

* A lost claim needs two passes and one row; a row left behind by the limit
  needs two rows and a limit of 1; both are in `TickOverlap`. A third pass or row
  adds no relation between claims, which the theorems confirm for any number.
* The clock needs three values: the slot, the claim and the next slot; `every1`
  is due again at once, `soon` in the middle of a pass, `once` at the start,
  `dying` has no further fire after its first.
* One crash, or one failing write: the tables keep what was written, so a second
  fault starts from a state that the first could have left.
* A batch of 3 slots has a first, a middle and a last one; a second batch is
  needed to start again after a stop.
* Two fires of `ChainFire` share only the items of a plan; one signs commands with a
  hash, the other without. Two items are the least with which a plan can be settled
  in part.
* `RootTick` takes the days on which the calendar is irregular; its clock jumps
  to the instants that matter, so a run covers weeks of time in a few steps.
* `Builder`: one edit before and one after a load, a simulation or a route; two
  clicks are a simulation and a commit, or a commit and its repetition; two turns
  are a route away and back, or a route and a lost answer.
* `DetailPage`: two rows are the one on the screen and another; pages of 1 make
  each fire a boundary, and one fire recorded of each row with two to come gives up to
  three pages; four turns are a click on the list, a change of the id, an action and
  another operator's step before its handler. A late answer past the end needs less:
  two polls, a fire between them and a choice of page; the run reaches both
  exemptions of `PageInRange`. A worker that may finalize twice is the least
  that finalizes after a recovery.
* `BatchCard`: one change of page gives a stale and a fresh read of each kind;
  two reads in flight are the least that can be delivered out of order.

`CHECK_DEADLOCK FALSE` is set where the modelled system may stop: all fires
ended (`ChainFire`), the bound on fires reached or a spent schedule
(`RootTick`, `DocMonthly`), the page closed (`BatchCard`, `Builder`), all turns
taken and all answers in (`DetailPage`, `DocWrongTarget`).

## Fairness

* `ServerTick`: `WF_vars(PassStep(p))` for each pass. A pass that has begun runs
  to its end, since every error inside it is caught (`server/tick.ts`), and the
  loop starts the next one at its next interval (`server/loop.ts:46-75`). It
  rests on the fire of a row coming to an end; of the executor's calls only the
  listen has a timer, which is a hazard of its own in `PROJECT.json`. Nothing is
  assumed of operators, requests, crashes or the clock.
* `ChainFire`: `WF_vars(ListenFails(f))`, the timer of the listen
  (`server/executor.ts:169-197`). Nothing is assumed of the network, nor of any
  other call.
* `BatchCard`: the interval keeps firing and a request is answered and its
  promise settles, but for `MaxFailures` of them. Nothing is assumed of clicks,
  page changes, the gate or the actions.

The two abstract specifications, `RootTick`, `ManualBatch`, `Builder` and
`DetailPage` have safety only: a screen promises nothing unless its user acts.

## Proofs

Theorems about the tick, the batch worker, a fire, the schedule engine with the
reference tick, and the three screens, for every value of the constants that the named assumptions allow: any rows, schedules,
resolvers, inputs, passes, requests, batches, totals, fires, plan items, forms and
page sizes, every limit, and every bound on clock, crashes, clicks and failures.

| theorem | states |
|---|---|
| `ServerTickProofs!TypesHold` | `TypeOK` |
| `SchedulerOffIsNeverArmed` | no sequence of commits, edits, pauses, resumes and claims arms a row that an operator, a trigger or an event fires |
| `SlotsAreNotReused` | a row is armed only for instants after its last claim |
| `ClaimsFireOnce` | a claim has one firing pass and at most one fire row |
| `ClaimsAreOfCurrentSchedules` | a claim succeeds only on the schedule the pass has read |
| `TheTimerFiresOneTimesOnce` | where no edit changes a schedule, the timer fires a one-time row at most once |
| `OneTimesFireOnce` | `OneTimeFiresOnce`, where moreover nobody fires on demand |
| `OldestRowsAreServed` | no pass takes a row before one that is due for an earlier slot |
| `FinalStatusesStay` | a `completed` or `error` row gives no claim and obeys no operator; only a late verdict may turn one into the other |
| `FinalStatusesHaveTheirFire` | a final status has a fire of that result |
| `TickKeepsClaimLedger` | ServerTick implements `ClaimLedger` |
| `ManualBatchProofs!BatchTypes` | `TypeOK` |
| `BatchesRunToTheirTotal` | a batch is due exactly while it runs, and completes with its last slot |
| `OneBatchRuns` | a cronoton runs one batch at a time, where one process serves the starts |
| `SlotsKeepTheirDistance` | claims are counted right and lie an interval apart |
| `EndedBatchesAreFinal` | an ended batch is not claimed, stopped or started again |
| `BatchesKeepTheSlotLedger` | ManualBatch implements `ClaimLedger` |
| `ChainFireProofs!ChainTypes` | `TypeOK` |
| `KeysAreKept` | a result carries the key of the command that is out, if the command has a hash and nobody has recovered the fire |
| `SettledItemsArePaid` | an item is settled only by a fire that has succeeded |
| `AnswersFit` | the results are those that `ServerTick` reckons with |
| `FiresKeepTheContract` | ChainFire implements `FireContract`, keyless failures and recoveries being steps of the contract |
| `RootTickProofs!NextFireIsNextOccurrence` | every mode's next fire is none or the first occurrence of the schedule after `now` |
| `NextFiresAreAhead`, `NextFiresAreMonotonic` | it lies after `now`, and moves forward with `now` |
| `OneTimeNamesOneInstant` | a one-time config has one instant, and none from then on |
| `RecurringModesAreTotal` | daily, several-times, interval and weekly configs that pass their checks always have a next fire |
| `MonthlyIsTotalUpTo28` | a monthly one always has, exactly if one of its days is at most 28 |
| `CronIsTotalInCommonYears` | a cron expression always has, exactly if it restricts the weekday or has a date that is in a common year |
| `CronSearchesAYear` | a cron expression without an answer has no occurrence within 366 days |
| `NoOccurrenceIsMissed` | `NoOccurrenceMissed` |
| `RootTypes` | `TypeOK` |
| `NoFireIsLost` | `AdvancedOnlyWhenEnqueued` |
| `FiresOnceUnlessFailed` | `OnceUnlessFailed` |
| `BatchCardProofs!CardTypes` | `TypeOK` |
| `OneBatch` | one click starts at most one batch |
| `LoadedCards` | a loaded card is of its page |
| `BuilderProofs!TypeCorrect` | `TypeOK` |
| `PatchesFit` | a patch goes to the row its form was made from |
| `EditsAreKept` | no load overwrites an edit, but for the named cases |
| `FormsOpen` | a form waits only for a load that will come |
| `OneSave` | one click saves once |
| `RowsFire` | an active row has something that fires it |
| `SavesKeepForms`, `SavesAreNeutral` | what is stored is what was shown, and nothing else changes |
| `DetailPageProofs!ScreenTypesHold` | `TypeOK` |
| `ShownRows`, `HistoriesAreOfRows` | row and history are of the id |
| `PagesAreInRange` | the open page exists, but for `kept` and `older`, for any order of the history's answers |
| `DeletesAreConfirmed` | a row that goes by an uncrossed click is the one that was confirmed; by any click, a system row was announced as one |
| `RecoveriesStay` | a recovered fire stays a success, unless it is finalized a second time |

**Assumptions.** `StoreAssumption` and `TickAssumption` say that the constants are
of the right kind: markers are not values, evented and multi-tx resolvers are
resolvers, requests are not passes. `NextFireAssumption` is the only one about the
program: a next fire is nothing or lies after the instant it is computed at,
the MONOTONIC clause of `schedule.ts`, proved of `Schedule` as
`NextFiresAreAhead`. `RootTickAssumption` says that rows have configs of the
types of `ScheduleConfig` (`IsConfig`): a text that does not parse is `Null`, and
numbers may be out of range. `BatchAssumption`, `ChainAssumption`, `CardAssumption`, `BuilderAssumption`,
`FiresAssumption` and `DetailAssumption` likewise say that totals, page sizes,
intervals and bounds are numbers and that `None` and the markers are not rows or
keys. TLC evaluates each of them in the runs of the module it belongs to.

**The tick.** None of the invariants is inductive alone; four inductive
invariants build on one another, and two more stand beside them:

1. `TypeInv` = `TypeOK`, `JobInv` and `SchedulerOffNeverArmed`. A process in
   flight holds a row and, once fired, a result. The scheduler-off invariant is
   in it because an edit that keeps `next_fire_at` is harmless only if the row
   was not armed wrongly before.
2. `ClaimInv` orders times: passes and stamps are in the past (`PastInv`), rows
   are armed after their last stamp (`ArmedPastMark`), and every claim in flight
   (`LeaseInv`) or in the history (`HistoryInv`) bears its row's last stamp or an
   earlier one. A new claim takes a slot that is later than the last stamp and
   no later than the pass's `now`, so its stamp is later than all of them, and
   `OneFirePerClaim` follows. It needs no argument about how many passes there
   are or which of them have died.
3. `SnapshotInv`: if a row a pass has read is still armed for an instant that
   the pass may claim, its schedule is the one that was read. Every change of a
   schedule arms the row after the clock, hence after the pass's `now`, or
   disarms it.
4. `FinalInv`: a process that has recorded its fire finds the fire in the
   history as long as the row exists (`RecordedInv`), and the intent it carries
   agrees with the result (`OutcomeInv`); since ids are never reused (`BornInv`)
   a late terminal write hits the row it belongs to or none.

`FinalStatusStays` is about steps and needs of them only `TypeInv` and what the
store's calls do: an operator's call or a claim that writes a status or arms a row asks for
one that is active or paused. For `OldestIsServed`, `OrderInv` says that a row due by a pass's
clock for an earlier slot than one the pass has yet to take is itself on the pass's list, for
that slot or an older one. What arms a row in between arms it past a clock at or after the
pass's own, or past the slot it had, so nothing becomes older than what was read; and the
pass takes its oldest row first.

Another, `OnceInv`, is for one-time rows and rests on two hypotheses about the
constants. `OneInstant`: a schedule of mode one-time names one instant, which
`OneTimeNamesOneInstant` shows of `Schedule`. `SchedulesAreKept`: no edit carries a
schedule, for a one-time row moved to a later instant is meant to fire again;
edits of the resolver, the definition or the event flag stay. An armed one-time
row was never claimed (`ArmedOnceInv`); a claim at or after its instant leaves no
later one for a resume or an edit to compute (`SpentInv`); the pass in flight and
every fire of the timer bear that one claim (`OnceJobInv`, `OnceFiresInv`). So two
fires of the timer would bear one claim, which `OneFirePerClaim` excludes. An
on-demand fire has no claim, so `OneTimeFiresOnce` itself needs that there is no
request; `DocOneTimeOnce` shows that it does.

The lemmas `OperatorEffect` (in `CronotonStoreProofs`), `ClaimEffect` and
`FinalizeEffect` say what a store call does to the table, so that the invariants'
steps need not open the store's definitions. The refinement adds one lemma per
kind of step: a claim claims, a record enters, a crash or a throw loses, an
operator's call rearms or forgets, everything else stutters.

**The batch worker.** `StepKinds` sorts every step into a claim (`SlotClaimed`),
a start (`Started`) or neither (`QuietStep`: each batch stays, is stopped or goes
with its cronoton), and one lemma each carries `BatchInv` over. The part that is
not among the properties is `StampInv`: the next slot of a running batch lies an
interval after every claim made so far. A claim asserts that the slot is due by
the pass's own clock, so its stamp is new and an interval after the others,
however late or early that clock is; counting the stamps with
`FS_AddElement` gives `completed`. For the refinement, `SlotInv` adds that a lease
in flight or in the history is a stamp of its batch, and held once.

**A fire.** `ChainInv` is one invariant per fire (`FireInv`) and `SettledIsPaid`.
`FireInv` goes by stages: which kinds of definition reach a stage (`StageInv`);
only the command signed last is ever out, and the listen has its key (`KeyInv`); a
result carries that key, and is a success only if the command has succeeded
(`Truthful`); the terminal intent fits the result (`IntentInv`). All of it is about
the fire's own variables and its own two keys, so the frame condition `OnlyOf`
disposes of the other fires, and only the settlement relates two of them. The
network may move between any two steps: `Truthful` is stable because the fate of
a command never turns back. For the refinement, `View` computes the contract's
variables from `ChainInv`.

**The batch card.** `MadeInv`: a try that has been answered or lost has started at
most the one batch, and one that waits for its confirm has started none.
`PageInv` says of each call in flight whose answer it will be, and whether it may
still be applied.

**The builder.** One invariant, `PageInv`, carries both `PatchFitsItsRow` and
`EditsKept`. Only one load counts, that of the edited row (`LoadInv`); a form is of
the row that was rehydrated last, and so is a simulation in flight (`OriginInv`);
while a load counts the form is closed and so has no edits to lose (`ClosedInv`);
and a simulation's form is the form of the moment unless the history says
otherwise (`SnapshotInv`). `OpensInv` and `MadeInv` stand for `FormOpens` and
`OneSavePerClick`. `EveryRowFires` needs what was true at the click (`ClickedInv`:
the body may commit, and was sent as event-driven only for a resolver of that kind)
and what the store forces (`ForcedInv`). The two action properties follow from the
conversions, each a lemma about one record, and `OperatorEffect` of the store.

**The detail screen.** `HandleEffect`, `OtherEffect` and `WorkerEffect` say what any
step may do to the two tables: a row is written, or deleted by one of two actors
(`RowsStep`, `Deletes`); a record is appended, finalized or recovered
(`FiresStep`). On these rest the inductive invariants, one per question:
`Steady` (types, and that no scheduler-off row is armed, without which an edit's
row would have no type); `LoadsInv` (the effect's load is of the id); `ConfirmInv`
(a delete carries the id whose name was confirmed, or was sent while the screen
was crossed); `HistoryInv` (the load that counts is of the shown row);
`RecoveryInv` (a worker's record is running until it is first finalized, so a
recovery comes after that); `PagesInv`. The last needs the server: a page chosen by
the total of one answer stays a page of every later answer, because the fires of a
row that exists never get fewer (`TotalsGrow`, with the cardinality theorems), and
`Ceiling` is the arithmetic of the page count. Since answers arrive in any order,
`AnswersInv` says it of each answer under way: one that is not late and is about the
shown row was given since the page was chosen, and so has the page. The server may be ahead
of it, never behind.

**The schedule engine.** Its reference definition is `Occurrences(c, day)`, the
instants of one day; it knows no sweep, no window and no `now`. `IsFirstAfter`
says that an instant is an occurrence after `now` with none between.
`NextFireIsNextOccurrence` goes mode by mode. A sweep takes the least of the
candidates after `now` (`LeastOf`, by well-foundedness of the natural numbers);
since a later day's instants are later, nothing before the window's end is left out
(`SweepFindsFirst`), whatever the calendar says of the days. An interval uses
`(x \div n + 1) * n > x` (`Division`) and that multiples are ordered (`Multiples`).
The cron search takes the first matching day and the least of its minutes
(`CronFinds`); a field whose values are its whole range counts as `*`
(`FullField`), also in `Occurrences`, as the parser cannot tell the two apart.

Totality is where the calendar counts. Eight days hold every weekday
(`WeekDayComes`). For the month, `NextDay` proves from the era arithmetic that the
day of month goes up by one or starts again at 1 after at least 28 days, so 33 days
hold each of 1..28 (`MonthDayComes`, from `CountComes`: a count that goes up by one and
begins again only after `top` reaches every value up to `top` in one turn); 31 January 2023 shows that
they need not hold any other (`JanuaryEnd2023`). `MonthlyIsTotalUpTo28` is the exact
condition under which the totality contract of `schedule.ts:12-14` holds for the
monthly mode, and so the exact extent of the divergence `DocMonthly`. For cron
expressions the same count is over the days of a year from 1 March (`NextYearDay`),
which puts 29 February last: every other date comes within 366 days, and at the very
edge of the search's window, 366 days to the minute, it is still found
(`YearDayInWindow`); each month has seven days in a row ahead within 365 days, so
every weekday comes in every month (`WeekDayInMonth`). `CronIsTotalInCommonYears` says
that nothing else fails.

**The reference tick.** On the schedule engine rests the invariant of the
tick: between the hooks the row is due, its instant has been handed over and its
following one is ahead of the clock (`RowIsHandedOver`); rows still to do are due
(`TodoIsDue`); and without a failure an instant that was handed over is the one
between the hooks or lies before the row's next (`NotAgain`), which `Persist` keeps
because it advances past the clock, and so past the due instant. `Computed` says
that a row waits for what computeNextFire gave at `since`; with
`NextFireIsNextOccurrence` it is `NoOccurrenceMissed`.

**Checked by TLC only:** the liveness properties (`DueIsServed`, `OneTimeRowEnds`,
`ListenEnds`, `EndedBatchLeavesCard`), since `ENABLED` and fairness are beyond the
provers. Every safety property of a passing run is a theorem. `TypeOK` of
`ServerTick`, `ManualBatch`, `ChainFire`, `RootTick`, `BatchCard` and `Builder` is
proved and not run.

## Divergences

Three statements of the repository that a run refutes:

| run | the repository says | the code does |
|---|---|---|
| `DocOneTimeOnce` | a one-time cronoton fires "Exactly once, then terminal" (`packages/khronoton-core/README.md:50`); a lost claim means that another tick or "a manual Execute-Now already claimed the row" (`server/store/claim.ts:91-92`) | executeNow fires the row it has read without a claim (`handlers/execute.ts:205`), so tick and request fire it once each |
| `DocMonthly` | "33 days covers the worst case" (`schedule.ts:372`), "Recurring modes always yield a future Date" (`schedule.ts:12-14`) | from 31 January no 31st lies within 33 days; the sweep throws, the claim takes it for a corrupt config and clears `next_fire_at`: the active row never fires again |
| `DocWrongTarget` | "Confirm to delete codex cronoton …" (`ui/confirm-flows.ts:41-42`), on a detail view that "can switch rows live" (`hooks/useCronoton.ts:4-5`) | after a change of id the old row stays on the screen until the new one has loaded, while the actions are bound to the new id at once (`ui/Detail.tsx:125`): the confirm of a delete names one row, the request goes to the other (pause and resume go astray likewise, but their confirm names no row) |

Others, seen while modelling and reproduced by the models as they are:

* An edit during a pass is not seen by the fire that follows: the pass fires
  the row it read (`server/tick.ts:138`), although `server/store/cronoton.ts:275`
  calls an edit "Apply-at-next-fire".
* A one-time row whose fire is postponed, or whose resolver throws, has spent its
  slot and stays active without a next fire (`server/resolvers.ts:193`), although
  `server/tick.ts:25-26` has a terminal status follow the fire. The same is left of any
  one-time row whose record or terminal write fails after the fire
  (`server/tick.ts:193-201`); the id is skipped and nothing takes it up again.
* A final status may still change: a request that has read the row before a pass
  completed it writes its own verdict by id (`server/store/claim.ts:39`), so a row
  with a successful fire may end as `error`.
* A submit that fails for a command without a readable hash is rethrown
  (`server/executor.ts:312`): the fire is failed without a key, though the command may
  be out. With a hash the key is kept, as `server/executor.ts:308-311` says.
* A recovery takes any well-formed key and does not ask the chain
  (`handlers/execute.ts:252-273`, `server/store/fires.ts:274-286`): success is then the
  operator's word.
* An older answer about the history that comes after a newer one is set all the same
  (`hooks/useCronotonFires.ts:116-141` asks only whether the hook is mounted): the
  total falls back, and the page chosen in between may be past the end.
* The cron search ends after 366 days, so an expression for 29 February finds
  nothing for three years in four (`schedule.ts:520`): the same clause as
  `DocMonthly`. By `CronIsTotalInCommonYears` it is the only date to which that happens,
  beside those that never come, such as 31 April.
* tickOnce never enqueues a due one-time row, because a due one has no following
  fire (`tick.ts:94`); `packages/khronoton-core/README.md:50` says it fires.
* An execute action that fails resolves with undefined
  (`hooks/useExecuteActions.ts:90-95`), so withConfirm refreshes and shows no
  alert (`ui/confirm-flows.ts:133-134`).
* "A server_resolver may bind AT MOST one cronoton" (`server/store/cronoton.ts:128`):
  commit looks for another row, an edit that repoints a row does not (`:344`).
* Simulate overwrites the whole form with the click's snapshot
  (`ui/builder/ExecuteTab.tsx:229-263`): what was edited meanwhile is lost, and
  after a change of row the old row's form goes to the new row's PATCH, against
  `ui/builder/Builder.tsx:135-139`. `PatchFitsItsRow` and `EditsKept` except it
  (`overSim`).
* The form of a row that the host leaves and comes back to before another has
  loaded is editable at once, and its own re-fetch overwrites the edits
  (`ui/builder/Builder.tsx:142-145`, `:189-206`); a load that has failed keeps the
  form closed for good.
* An edit cannot unbind a resolver or clear a description: a cleared field is left
  out of the patch (`ui/builder-state.ts:292-293`), and an absent field is kept.
* The payload tab's raw and typed editors are not synchronised: switching to the
  typed one and committing stores its, possibly empty, payload.
* A PATCH always carries the schedule, so any save computes the next fire afresh,
  also that of a row that is due.
* The forced and the operator's own external flag share a column
  (`server/store/cronoton.ts:371`): a row created on a resolver that only the
  host's options call event-driven stays off the timer when it is repointed.
* After a change of row the history keeps its page number: the table is empty and
  its pager hidden, and until the new load has arrived the pager clamps by the old
  row's total (`hooks/useCronotonFires.ts:66-72`); a load that has failed leaves the old
  row's fires on the screen, and a late poll of the old row overwrites the new one's
  (`:97-105`, `:116-141`). `hooks/useManualBatch.ts:90-118` has the same reads,
  though its comment (`:18-21`) says that a slow one is dropped.
* finalizeFire updates by id whatever the status (`server/store/fires.ts:187`), so a
  resumed worker overwrites a recovery and leaves its `recovered_at`.
* Execute and trigger are said to refetch the history
  (`ui/RuntimeArgTriggerCard.tsx:8-11`); they re-read the row only.
* A confirm gate that throws NeedsConfirmError, as `handlers/context.ts:74-76`
  invites, is awaited outside the `try` that would turn it into 401
  (`handlers/context.ts:175`).

## What is not modelled

* Names, descriptions, Pact code, gas numbers, signer lists: one abstract value
  `def`. Validation that rejects a bad body before anything is written is the
  absence of that input.
* Audit calls and `batchIndex`: no state depends on them.
* `last_fire_at` in `ManualBatch`: nothing reads it.
* The executor's simulate mode, signer reconciliation and payload building: the
  outcomes they have, not how.
* Runtime-arg values and the definition fingerprint: pure data checks.
* appendFireTxKeys and setFireJobId of `server/store/fires.ts`: no state but
  their own column depends on them. The host's worker that calls them is external;
  `DetailPage` has it as two actions.
* Audit, and which status code an error gets: a refusal is a refusal.
* Two processes that serve requests to one database: the store's checks and writes
  are separate statements, atomic within one process. Passes of other processes are
  modelled.
* What a host could do to the pages beyond changing an id and unmounting.
* The registry's registration calls: constant while a host runs.
* Rendering, formatting (`summariseSchedule`, explorer links, relative times),
  syntax highlighting, theming; the chain client adapter; scripts.
* The worker passes' sharing of one loop with the cronoton pass: each has its own
  module, since they share only rows they both read.

## Plan

Done, in this order: `CronotonStore` and `ServerTick` (the core: a due fire
happens once); `ManualBatch`; `ChainFire`; the theorems and refinements of the
three; `Schedule` and `RootTick`; `BatchCard`; `Builder`; `FireRecords` and
`DetailPage`; the theorems of the three screens.

To extend, most important first:

1. The multi-tx worker's key list (appendFireTxKeys) joined to `ChainFire`: a resumed
   worker and its keys.
2. `KhronotonLoop`: start, stop and the non-overlap guard; the abstract promise
   that passes of one loop do not overlap, and its use by the tick's fairness.
3. Audit and error mapping around the handlers: the answer tells what was written.

To prove: that a one-time row whose schedule is edited fires
once per schedule; the page's polling promises as a refinement of a card that reads
the table at once.

Hazards that no property covers, with the reason, are in `PROJECT.json`. Besides
these: a crash between submit and record leaves a transaction without a row
(`server/executor.ts:307`); a multi-tx orchestrator that throws after a batch has
been sent is recorded as postponed (`server/resolvers.ts:270`); a fire whose listen
timed out is not settled, so the next one pays the same items while the first may
still land (`server/resolvers.ts:312`).
