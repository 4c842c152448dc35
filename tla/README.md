# Formal models of the NOVA signal router

The NOVA signal router takes TradingView alerts, fans them out to the
subscribers of a strategy and trades NIFTY options for each of them, on paper
or through Dhan. This directory holds TLA+ models of the parts of its backend
(`backend/app`) where concurrency and failure decide whether money is handled
correctly, the TLC configurations that check them on small instances, and
machine-checked proofs (TLAPS) of the main results for every instance.

All source paths below are relative to `backend/app` unless they start with
another directory.

## 1. Inventory

Two kinds of process run the backend: an HTTP intake process and an engine
process (the same code, split by configuration). They share a PostgreSQL
database. The engine process also keeps small JSON files per user and runs a
handful of daemon threads. One process-wide lock (`services/state_store.py`,
`_LOCK`) guards each read and each write of a file; some updates hold it from
the read to the write, others, such as `update_app_state`, do not.

| # | Component | State it keeps | Operations | Hard behaviour |
|---|---|---|---|---|
| 1 | Broadcast strategy pipeline: `routers/strategies.py`, `services/strategy_fanout.py`, `workers/strategy_job_worker.py`, `services/webhook_replay_store.py` | rows `webhook_events`, `strategy_signals`, `strategy_execution_jobs`; per-user locks in memory | claim an alert, fan out, claim jobs, execute, recover stale jobs, summarise, close the event | repeated deliveries, engine crashes, recovery of jobs that may already have traded, pool threads that overwrite each other's summary |
| 2 | Signal routing and exit ownership (paper account): `services/execution_router.py`, `services/state_store.py`, `services/option_position_monitor.py`, `routers/orders.py`, `api/ws.py` | `paper_position.json` | entry, reversal, exit (claim, sell, complete or release), add lots, partial exit, edit SL/TP, arm S/R levels | six kinds of caller without a common lock, compare-and-set next to plain writes |
| 3 | Paper ledger: `services/paper_portfolio.py`, `services/paper_broker.py` | `paper_portfolio.json` | entry fill, exit fill, addition, partial exit | must agree with component 2 although no step writes both files |
| 4 | Order intents: `services/order_idempotency.py`, `_place_order` in `services/execution_router.py`, `services/dhan_client.py`, `_run_manual_operation` in `routers/orders.py` | rows `live_order_intents` | look up, claim, mark, send, recover, poll, complete; replay | two claims around one order, answers of the broker that are lost, a second attempt under the same correlation id, a death at any point |
| 5 | Durable position shadow: `services/position_store.py`, `position_operations.py`, `position_read_shadow.py` | rows of position slots and events; breaker, in-flight permits | guarded write, typed operations, parity read | breaker states, abandoned transactions that commit late, two writers of a slot whose transactions pass each other |
| 6 | Reconcilers: `services/position_reconciler.py`, `startup_reconciler.py`, `workers/ghost_position_watcher.py` | none of their own | compare with the broker, clear or adopt a position | full writes after slow broker calls |
| 7 | Runtime lifecycle: `services/runtime_reliability.py`, `engine_start_operations.py`, `routers/engine.py`, `services/state_store.py` | `app_state.json`, runtime settings, `engine_start_operations` | start, stop, square-off, mode switch, snapshot | a file that every thread reads and writes back whole; starts, stops and routes that overlap |
| 8 | Risk: `services/strategy_risk.py`, `risk_configuration.py`, `risk_manager.py`, `setup_configuration.py` | daily counters, configuration revisions | reserve an order, record a result, change configuration | counters updated by concurrent transactions |
| 9 | Private instance webhook: `services/private_webhook_service.py`, `private_webhook_execution.py` | the rows of component 1, verification evidence | authenticate, claim, persist, heal a crashed delivery; execute under the row of the instance | a retry must persist exactly once; the instance changes between acceptance and execution |
| 10 | Legacy webhook: `routers/webhook.py` | in-memory strategy locks | route one payload synchronously | lock per strategy, not per user |
| 11 | Strategy instances, catalog, TradingView setup | instance and version rows | create, verify, activate, archive | lifecycle races with the fan-out's eligibility check |
| 12 | Payments and entitlements: `services/razorpay_webhooks.py`, `entitlements.py`, `routers/payments.py`, `routers/admin.py` | rows `payment_events`, `user_entitlements` | apply a provider event, grant or revoke a pilot, evaluate | repeated and reordered events, transactions that read one row of several plans |
| 13 | Pine conversion: `services/pine_conversion_service.py`, `workers/pine_conversion_worker.py`, `services/personal_pine_service.py` | rows `pine_conversion_requests`, strategy versions, validation reports | create, claim, convert, cancel, retry, accept, reject, recover; upload, validate, submit, review | worker results racing a cancellation, crashes with requests in processing, candidates shared by several requests |
| 14 | Market data | caches, websocket | quotes, candles | stale quotes |
| 15 | Dhan client and rate limiter | request window | HTTP calls | 429 cool-down |
| 16 | Database engine, backoff, models, migrations | connection failures | sessions | outage |
| 17 | Credentials, authentication, sessions | encrypted secrets, cookies | vault, login | rotation |
| 18 | End-of-day square-off: `workers/eod_squareoff.py` | last fired date | exit every account | once per day and account |
| 19 | Egress nodes | address assignment | assign, verify | none |
| 20 | Read models and dashboards | none | read | none |
| 21 | Chat and event publishing | event log | publish | best effort |
| 22 | Frontend, deployment, scripts, tests | none | | |

How they interact: 1 calls 8 to reserve an order and then 2, which books fills
in 3 (paper) or sends orders through 4 and 15 (live). 2 mirrors its changes in
5. 6, 7, 18, the manual panel and the monitor call the exit path of 2 from
their own threads. 9 feeds the job queue of 1. 12 decides whether 1 and 7 let
a user trade. 13 produces the strategy versions 11 manages.

What makes each correct: 1 gives every subscriber of an accepted alert one
verdict and at most one order; 2 and 3 tell the same story, one position is
sold once; 4 never sends twice for one key; 5 never blocks or outlives the
authoritative state; 6 never overwrites newer state; 7 reports STOPPED only
when flat; 8 never admits more than its limits; 9 like 1, and a crashed
delivery heals; 12 applies an event once and a lapse takes away only what the
plan granted; 13 respects its limits and a cancelled request stays cancelled.

## 2. Modules

| Module | What it is |
|---|---|
| `OncePerSubscriber` | the abstract promise of component 1: an alert is fanned out at most once, each subscriber's job is executed at most once and, once resolved, stays resolved |
| `StrategyPipeline` | component 1: intake handlers, polling thread, pool threads, crashes; refines `OncePerSubscriber` |
| `StrategyPipelineProofs` | its inductive invariant, safety theorems and the refinement |
| `PaperPosition` | components 2 and 3 in paper mode, with the locks of 1 and 10 |
| `PaperPositionProofs`, `PaperOwnershipProofs` | its theorems: types, limits and no recreation; ownership, conservation, agreement of the two files |
| `PineConversion` | component 13 |
| `PineConversionProofs` | its theorems |
| `Payments` | component 12 |
| `PaymentsProofs` | its theorems |
| `PositionShadow` | component 5: rows, event log, breaker, permits, watchdog |
| `PositionShadowProofs` | its theorems |
| `OrderIntent` | component 4, with the live order it protects |
| `OrderIntentProofs` | its theorems |
| `EngineRuntime` | component 7, the lifecycle of the selected instance (11), and the routing of a signal as far as it reads or writes the engine's state (2, live and paper) |
| `PrivateAlerts` | component 9: intake and worker, on top of `EngineRuntime` (EXTENDS) |
| `PrivateAlertsProofs` | theorems about the two together |
| `MCStrategyPipeline`, `MCPaperPosition`, `MCPineConversion`, `MCPayments`, `MCPositionShadow`, `MCOrderIntent`, `MCPrivateAlerts` | instances for TLC: the constant functions the `.cfg` files name |

`PrivateAlerts` composes two components. The other models are separate because
the code couples them through one call each: `dispatch_signal_job` of 1 and 9
ends in `route_signal` of 2, whose live order goes through 4, whose position is
mirrored by 5; 12 tells 1 whether a user may trade, and 13 gives 11 the versions
it manages. A per-user lock of the worker (1) appears in `PaperPosition` as a
member of `Locks`, because the order in which two signals of one user enter
component 2 depends on it.

An operator marked "mutant" is a faulty variant of the definition after it. It
is used by no action; it serves to confirm that the properties notice the fault.

### StrategyPipeline

State: the rows of three tables (`event`, `eventBody`, `nonces`; `signal`,
`arrival`; `jobStatus`, `jobMode`, `attempts`, `lockStale`), the number of
`orders` sent for a job, the program point of each intake handler (`phase`) and
of each engine thread (`at`), and the engine's memory (`outcome`, `view`,
`holder`, `batch`, `raised`, `pending`, `current`).

| Actions | Code |
|---|---|
| `ClaimNonce`, `ClaimEvent` | `claim_webhook_event`, once for the nonce in production and once for the event: the unique constraint decides between new, duplicate and tampered |
| `Enqueue`, `EnqueueDuplicate` | `enqueue_strategy_signal`: one transaction inserts the signal and a job per subscriber |
| `MarkQueued`, `MarkRejected` | the last event update of the handler |
| `LoseDelivery` | the handler dies or its next call raises |
| `RecoverStaleJobs` | pruning of events and `recover_stale_jobs`, once per start of the loop |
| `ClaimJobs`, `JoinBatch`, `NextRefresh` | `_claim_jobs`, the executor, the final refresh of the batch |
| `RefuseRetry`, `LockUser`, `DispatchOrder`, `DispatchNothing`, `FinishJob` | `_execute_job`: a second attempt in a money mode is refused; the user's lock; the dispatch with or without an order; the completion |
| `RefreshRead`, `RefreshWrite`, `CloseEvent` | `_refresh_signal_summary`: the unlocked read, the write, the closing of the event |
| `DbRaises`, `Crash`, `LockGoesStale` | a database call raises; the engine dies; time passes |

Abstracted: what `dispatch_signal_job` decides inside (risk, contract choice,
broker answer) is the choice between an order and none; a job "completed" with
an error summary is the status "error". The secret and freshness checks before
the claim change no state. A claim updates each row in one transaction that no
other claimer contends for, because one engine process runs one polling thread.

### PaperPosition

State: the two files (`position`, `trade`, with what each entry `bought` and
`sold` according to the ledger), and for each thread its program point `at`,
the position it has read (`seen`), the lots it has decided to sell (`lots`) and
the locks (`holder`). One step is one acquisition of `state_store._LOCK`, which
both files share; between two steps every other thread may act.

| Actions | Code |
|---|---|
| `StartEntry`, `RouteEntry`, `EvaluateEntry`, `Buy`, `EntryRefused`, `OpenPosition` | `route_entry_signal`, `evaluate_entry`, `PaperBroker` with `apply_paper_entry`, `set_open_position` |
| `EvaluateReversal`, `DecideReversal`, `ReversalSell`, `ReversalClear` | `route_reversal_signal`: it sells and clears without claiming the exit, then goes on as an entry |
| `StartExit`, `MarkAttempt`, `EvaluateExit`, `Identify`, `Claim`, `Sell`, `SellRefused`, `Release`, `Complete` | `route_exit_signal` with `claim_exit_operation`, `release_exit_operation`, `complete_exit_operation`; `MarkAttempt` is the monitor's patch, which does not bump the version |
| `StartAdjust`, `CheckLedger`, `PatchPosition`, `BookAdjust` | `_apply_paper_position_adjustment`: add lots (at most 20), partial exit, SL/TP edit |
| `ReadSuggestion`, `ArmSuggestion` | `_apply_sr_suggestion`: reads the position and writes all of it back |
| `Interrupt` | a thread raises or its process is killed between two steps |

Who holds what: the strategy worker routes under the user's lock, the legacy
webhook under a lock per strategy; the panel, the monitor, the end-of-day worker
and the square-off take none. `LockOf` says so for each signal. A side-filter
exit is an exit routed under its entry's lock. A refused request that changes
nothing is the same as one that is not made and is left out. Paper fills are
never partial. Prices, quotes, and live profit are left out: they decide when
an exit is triggered, which the model leaves open.

### PineConversion

State: the request rows (`status`, `tries`, `candidate`, `expired`), the
versions (`vstatus`, `method`, `reported`, `checking`, `rejecting`), the worker processes
(`loop`, `found`, `at`, `verdict`).

| Actions | Code |
|---|---|
| `Create`, `Retry`, `Cancel`, `Accept` | the user's operations in `pine_conversion_service` |
| `Reject` (`ReadCandidate`, `WriteRejected`) | `reject`: the version is read without a lock and archived at the commit |
| `Upload`, `Check`, `Checked`, `Submit`, `Review` | `create_version`, the two transactions of `validate_version`, `submit_version`, `_review_transition` |
| `FindStale`, `RecoverStale` | `recover_stale_requests`: unlocked read, write |
| `Claim` | `_claim`: under the advisory lock, up to the free slots; rows locked by others are skipped, hence any subset |
| `Return`, `Convert`, `Store`, `Validate`, `ReportCandidate`, `Finish` | the transactions of `process_claim` |
| `ReadFailed`, `WriteFailed` | `_fail`: unlocked read, write |
| `Crash`, `Restart`, `Expire` | the process is killed and started; a lease runs out |

A transaction is one step, except the three that read without a lock and write
later. A lease expires only when no thread works on its request: the provider's
timeout (120 s) is far below the lease (300 s). Left out: the daily limit,
prompts, qualification packages, the sources, archiving of strategies, and the
graceful stop of a worker (a crash covers what it leaves behind). An exception
in the recovery at the start of the loop is a `Crash`.

### Payments

State: a `clock` that moves with every arrival, the entitlement `rows` of one
user, the record of each event (`events`), where each server process is (`at`)
and what it holds (`job`), the events the provider has an answer for (`acked`)
and, as history, the order in which effects were committed (`log`).

| Actions | Code |
|---|---|
| `Deliver`, `Repeat` | a webhook arrives, first or again, and `_get_payment_event` looks for it |
| `Insert` | the transaction of `_process_with_session` up to its commit: the insert that waits for a concurrent one and fails on the unique key (`_handle_duplicate_after_race`), the decision, and the row to be changed, as read |
| `Commit` | the changed columns are written over the row as it is now, which another transaction may have changed; the answer is given or lost |
| `Lose` | a statement raises or the process dies: rollback |
| `GrantPilot`, `RevokePilot`, `Tick` | the administrator's rows; time passes |

The webhook route is asynchronous and calls the synchronous processing, so one
server process handles one webhook at a time; `Servers` counts the processes.
`deploy/layman-nova-signal-router.service` starts one, and
`validate_background_worker_runner_configuration` (`main.py`) permits more that
serve the API only. An event in `Lookups` names neither owner nor plan; when the
provider cannot be asked it is stored for good and never applied, since a
repetition is a duplicate. The three flags of the monthly bundle are one column
`live`: the premium plan sets and clears them together. Left out: the split
monthly plans, `starts_at` in the future, the signature, the payload hash and
the metadata.

A period of the provider ends on a whole second (`_datetime_from_epoch`), while
an event arrives at a microsecond of the server's clock. The model keeps the two
apart: `Ends` are odd and the `Instants` of arrivals even, so they can be
compared and never coincide (`PaymentsAssumption`). `RevocationHolds` rests on it:
were a period to end at the very instant a revocation arrives, a renewal that
had read the row before would write nothing into the column that the revocation
changed, because the value it writes is the one it has read.

### PositionShadow

State: whether this process makes typed writes (`typed`), the JSON `position`
of each slot (the authority), its latest `row` and its event `log`, the
`breaker`, where each caller is in the envelope (`call`), the transaction each
permit was taken for (`worker`), and, as history, the slots with a write that
was reported as skipped, failed or abandoned (`missed`) and those where the
transaction of one router committed before that of an earlier write of another
(`crossed`).

| Actions | Code |
|---|---|
| `Decide`, `GiveUp` | a router looks at the position, and later finds its order blocked or failed; no lock is held from the look to the write |
| `Enter`, `FillSynced`, `PartialExit`, `Close`, `MarkReversal`, `ExitPending`, `Reconcile` | a JSON write of `state_store` followed by the operation of `position_operations` or the generic mirror, whatever the position has become since the look; a compare-and-set finds the entry it has read (`Same`) and mirrors while it holds `_LOCK` (`LockFree`) |
| `Skip`, `Submit`, `Saturated`, `Abandon`, `Record` | `run_guarded_slot_operation`: the breaker refuses; a permit is taken; none is free; the watchdog gives up; the outcome is recorded |
| `Run`, `Break` | the transaction under the slot's advisory lock, which may outlive its caller; a database error or a lock timeout |
| `Restart`, `Import` | the process restarts, perhaps with the other kind of write; an operator imports the JSON position |

`TypedWrite` and `MirrorWrite` say what the two kinds of transaction do to the
row, with `Allowed` the transition table of `domain/position_transitions.py`.
The callers of a slot are `Routers`, any number of them, and the monitor. The
job worker routes under the user's execution lock; the panel
(`routers/orders.py:195`), the exits of the option monitor
(`option_position_monitor.py:793`), the square-offs and the reconcilers do not,
so no two routers are kept apart: each may look, place its order, write JSON and
call the database while another is anywhere on the same way, and the mirror
that follows a JSON write outside `_LOCK` (`state_store.py:400`) may
come after the mirror of a later one.

### OrderIntent

State: the rows of `live_order_intents` (`intent`), what the broker knows of
each `order`, where each request is (`at`) with the exit management it has read
(`seen`), the number of its `attempt`, its `reply` and what its caller was told
(`answer`). Requests of one operation are the repetitions of it.

| Actions | Code |
|---|---|
| `Begin`, `BeginFails`, `Return`, `PersistenceFails` | `_run_manual_operation`: the outer claim of a panel request, the replay, the stored result |
| `Lookup`, `LookupFails`, `Check` | the early look for an intent and the risk checks of `route_signal` |
| `ClaimIntent`, `ClaimFails`, `MarkSubmitted`, `Complete` | `claim_live_order_intent`, `mark_order_intent_submitted`, `complete_order_intent` |
| `Post`, `Hear`, `TimeOut`, `Breaks`, `Recover`, `Poll` | `_place_order` and `dhan_client`: the request, its answer, the search of the order book by correlation id, the poll; a super order refused for its levels gets a second attempt. Any answer but a success is told as REJECTED, an error of the gateway too (a fault of `Hear`, whatever the order does); the id names signal and action, so the search may find the order of a repetition placed the other way |
| `Broker` | the broker refuses, accepts, trades or kills an order in its own time (external) |
| `Die`, `Switch` | the process dies; the user changes the exit management |

The setting is production: live mode, an authenticated user, an Idempotency-Key
on each panel request. Hashes of payloads are nondeterministic (two computations
of one request may differ), so every comparison may turn out either way.

### EngineRuntime and PrivateAlerts

State of `EngineRuntime`: `file` (`app_state.json`), the `copy` each thread has
read and not yet written back, the place of each thread (`at`), the panel's
`request`s, the owner's lock (`owner`), the starts (`starter`, `starts`), the
`position` flag of each account, the row of the instance (`inst`) and whether the
worker holds it (`locked`), the worker's `job`, and, as history, how many
`entries` went to each account. `PrivateAlerts` adds `event`, `row`, and for each
delivery its `body`, place (`doing`), mode read (`auth`) and `answer`.

| Actions | Code |
|---|---|
| `Read`, `Write` | `update_app_state`: the two halves, with nothing held in between |
| `Begin`, `Enter`, `Check`, `Configure`, `SetMode`, `Activate`, `SetAgain`, `Launch` | `runtime_start_selected` with its durable operation |
| `Stop`, `Select`, `Pause` | `stop_engine` and `_pause_selected_personal` |
| `Block`, `Look`, `RequestExit`, `Conclude`, `Tell` | `square_off` |
| `Switch` | `switch_mode` |
| `SetStatus`, `StartVerification`, `CompleteVerification` in `Manage` | the owner's operations on the instance, each a transaction that has the row for update |
| `UpdateState`, `Evaluate`, `Reverse`, `Order`, `Record`, `Raise` | `route_signal`: every place that reads the engine's mode or writes the file again |
| `Authenticate`, `Claim`, `Store`, `BreakOff` | `authenticate_credential`, `claim_webhook_event`, `_persist_hold` and `_persist_execution_job`, a delivery that dies |
| `StartJob`, `Revalidate`, `Enrich`, `CompleteJob` | the worker: `execute_private_job`, which keeps the row of the instance for update until the job is dispatched |

The life of a job in the queue (attempts, recovery after a crash) is that of
`StrategyPipeline` and is not repeated here.

## 3. Runs

Times are for two TLC workers.

| Run | Instance | Question |
|---|---|---|
| `pipeline_crash` | 1 alert delivered twice, 2 subscribers in signal-only or paper mode, 2 pool threads, 2 engine crashes, database calls that raise; 1.5 million states, about 70 s | can a repeated delivery, a crash at any point, pruning or recovery give a subscriber a second order, an attempt too many, a verdict that changes, or an untruthful summary? |
| `pipeline_liveness` | 1 production alert, 2 subscribers, 2 pool threads, no faults; 105 000 states | is every signal settled for good although refreshes overwrite each other? |
| `paper_exits` | 1 entry of 2 lots, 2 exits (one of the monitor, one under the entry's lock), 2 additions and a partial exit at once, 1 dying thread; 605 000 states | is a position sold once, by the owner of its exit, with the ledger in agreement? |
| `paper_flips` | a call and a put entry, 2 exits, an SL/TP edit, a late suggestion; 337 000 states | is every claim of a thread that lives resolved, when reversals and unguarded writes interfere? |
| `pine_faults` | 3 requests of one user, the third with other options and the same result, 1 worker, 1 crash, 1 failure, 1 cancellation, an uploaded version; 1.0 million states | can a late thread or a recovery take back a result, a claim exceed the attempts, a version reach the reviewers without consent or be taken from them? |
| `pine_liveness` | 2 requests of two users, 2 workers, a failure, a cancellation; 30 000 states | do two workers keep the global limit, and does every conversion end? |
| `payments_race` | 2 purchases of the bundle, its cancellation and a paper purchase, 2 server processes, 1 occurrence of any kind (lost answer, repetition, rollback, pilot row, passage of time); 169 000 states | is an event applied once, is access paid for, do two transactions on one row leave each other's effect alone, and is every event answered? |
| `shadow_faults` | 1 slot, 2 routers and the monitor, 2 permits, 3 operations, 1 failure or restart, a breaker that opens after a failure; 599 000 states, about 1 minute | does the event log follow the rows, does a divergence of row and position exist that was neither reported nor an overtaking of two routers, is a half-open breaker tried once? |
| `intent_faults` | 2 requests of 1 operation (panel or signal, entry or exit, plain or super order), 3 faults, 1 switch of the exit management; 581 000 states | does the broker accept one order, are all callers told one result, is the rejection of a named order final? |
| `intent_retry` | 1 request, 2 faults | is a rejection final for the second attempt of a super order? No |
| `alerts_panel` | 1 alert in 2 deliveries, each an entry or a hold, of which 1 breaks off; a start for real orders, a square-off or a mode switch, 1 operation on the instance; 2.1 million states, about 2 minutes | is what was accepted stored, and is an entry sent only as the instance allows at that moment? |
| `stop_lost` | 1 alert, 1 stop | does a stopped engine stay stopped? No |

Why the bounds suffice: a second delivery, a second thread, a second crash are the
first that can interact; with `MaxAttempts = 2` two crashes, or in the conversions
a failure and a crash, reach the limit and would pass it if recovery let them. Two
exits contend for a claim, two additions for the limit of 3 lots that stands for
20. Two transactions are the first that can lose an update; `payments_race` was
also run once with two occurrences (2 million states, no error) and keeps one to
stay short. In `shadow_faults` three operations are an entry, a close and the next
entry by either router, or the one that trips the breaker and two that would probe
it. A fill that passes a close and the next entry takes four, and a breaker that
counts two failures; a search with these found no error in its first 6 million
states, and the theorems have no bound. Two repetitions and three faults let one
request die, the other lose its answer, and something else fail. One operation on
the instance and two panel requests against one worker are the first that can
change both what the worker has checked and what it reads later; one alert
suffices since jobs run one after the other. `alerts_panel` with exits as well was
run once (3.7 million states, no error). Deadlock is not checked: every system
here may stop when no further request arrives. `pipeline_crash`, `intent_faults`
and `alerts_panel` use symmetry of users, repetitions or deliveries that are
alike, `shadow_faults` that of permits and of routers; they check no liveness. The
theorems below cover all sizes for the safety properties they name.

## 4. Fairness

Weak fairness is given to code that is running: the polling thread, each pool
thread, the steps of a request thread, a worker's loop, the restart by the
supervisor (`Restart`), the passing of time (`Expire`). In `Payments` the provider
delivers what is not answered (that is what makes it resend), and a server process
takes its next step. `LockUser` has strong fairness: a user's lock is released
infinitely often and a thread that waits for it is among finitely many, each using
it once; CPython's lock is not starved by threads that take it once each.
`PositionShadow`, `OrderIntent` and `PrivateAlerts` check safety only and state no
fairness. Users are never fair: nobody has to send an alert, cancel or accept. The
liveness runs exclude faults, because the code does not recover from them before a
restart that may never come (section 6); `payments_race` includes them, since the
next delivery repairs a lost one.

## 5. Proofs

| Theorem (module) | Says | Assumes |
|---|---|---|
| `Inductive`, `TypeCorrect` (`StrategyPipelineProofs`) | the invariant below; types | - |
| `OrderedAtMostOnce` | at most one order per subscriber and alert | - |
| `RecoveryBounded` | no attempt beyond `max_attempts` | - |
| `SettledTruthful`, `EventsTruthful`, `VerdictsStable` | a settled signal has no open job; a closed event tells the outcome; a job's verdict is final | - |
| `Refinement` | `StrategyPipeline` implements `OncePerSubscriber` | - |
| `TypeCorrect`, `AddsBounded`, `NoRecreation` (`PaperPositionProofs`) | types; the lot limit under racing additions; a closed position stays closed | `Compared`: nobody arms suggestions |
| `ClaimsHold`, `SalesOwned` (`PaperOwnershipProofs`) | a claimed position is changed by its claimant only; only it sells | `Serialized`: `Compared`, entries under one lock and on one side |
| `LotsKept` | lots are conserved | `Serialized`, no dying thread |
| `LedgerKept` | whenever every thread has returned, position and ledger agree and no exit is left claimed; any thread may die | `Serialized`, `Undivided`: one entry, or requests that change no lots |
| `LedgerKeptApart` | the same for any entries and requests | `Serialized`, and the behaviour is always `Apart`: no entry buys while a request has still to book |
| `TypeCorrect`, `GlobalLimitKept` (`PineConversionProofs`) | types; the global limit | - |
| `AttemptsKept`, `ConsentKept` | attempts; consent before review | `OneWorker` |
| `ResultsKept` | how a request has ended stands, but for a cancellation between a worker's read and write | `OneWorker` |
| `ReviewKept` | a submitted version is moved by the reviewers, or by the user who rejects a second conversion into it | `OneWorker` |
| `TypeCorrect`, `AppliedAtMostOnce` (`PaymentsProofs`) | types; an event's effect is committed once, with its record | - |
| `AccessIsPaid` | the bundle is open only in a period that was bought, or for a pilot | - |
| `PaperIsKept` | a paper purchase survives whatever other transactions have read before it | - |
| `RevocationIsFinal` | a revocation that commits last closes the bundle, whatever a concurrent delivery has read | - |
| `TypesHold` (`PositionShadowProofs`) | types; a permit whose caller waits carries that caller's operation | - |
| `ProbeIsAlone` | a half-open breaker lets one call at the database | - |
| `NoSilentDivergence` | a row differs from the JSON position only while a call is under way, after a reported write, or where one router's transaction overtook another's; for any number of routers without a common lock | - |
| `LogTellsHistory` | the events follow the rows, but for two kinds of skipped event | - |
| `TypeCorrect` (`OrderIntentProofs`) | types | - |
| `SentAtMostOnce`, `OneResult`, `RejectedForGood` | one order per request; one definite result for all its repetitions; a rejection is final | - |
| `TypeCorrect`, `AcceptedKept` (`PrivateAlertsProofs`) | types; what was accepted is stored | - |
| `EntersAllowed`, `LiveAllowed` | an entry needs the instance to allow it at that moment; a real one needs it in real mode and verified | - |

Everything is proved for arbitrary constants that satisfy the module's `ASSUME`.
The hypotheses of the last column are where the claims end: with suggestions the
position can be written back after it was closed, on two sides a reversal clears
a position another thread has claimed, and a second worker recovers what the
first still works on (section 6). `AddsBounded` and
`VerdictsStable` are proved for every instance and no run repeats them; they
were checked by TLC before they were proved.

*Pipeline.* `AtMostOneOrder` is not inductive. The invariant `IInv` adds who can
be where: `PoolInv` (a thread past its start belongs to the batch and its job is
running), `FanOutInv` (only a fanned-out signal has jobs), `OrderInv` (an
order implies an attempt, and in a money mode a second attempt never reaches
the dispatch), `AttemptInv` (a queued job has an attempt left, which is why the claim
need not look at the limit), `RollUpInv` (a verdict that a refresh has read
stays true until it is written). The refinement maps a job to open or resolved;
each action maps to one abstract step or stutters, `RecoverStaleJobs` to
`Resolve` of the exhausted jobs.

*Paper account.* `Ownership` says where the claim of a position comes from:
the claimant is the thread between `Claim` and `Complete`, it has read this very
trade, and nobody else is past its claim. `Booked` says what the ledger holds at
each point of an entry and of an exit. Versions make the rest: a stale reader
has an older version, so its compare-and-set fails.

`LedgerAgrees` speaks of quiet states, so its invariant has to say what is owed
while somebody is at work. `Bookkeeping` holds whatever dies: an exit past its
claim has read the position there is, a request at "book" has patched it, and an
entry that opens a position finds its own trade, whole. `Tallied` holds as long
as nobody has died (`Alive`): the lots of the trade are those of the position
but for the change that one request (`Pending`) has still to book, a trade
without a position is that of an entry about to open one, and a position without
a trade has been sold by the exit that owns it. A dead thread never returns, so
a state in which all have returned is one in which nobody died, and with nothing
pending `Tallied` is `LedgerAgrees`. The one step that needs more is `Buy`: it
starts a trade, on which a request that is still pending would be booked. Under
`Undivided` there is none (`NobodyBooks`), and without it TLC shows the failure
(section 6).

*Conversion.* `WellPlaced` ties a thread's reason and candidate to its place.
`Recovery` relates the rows to the threads of the one worker: a request at work
is processing, cancelled, or about to be failed; what recovery is about to
write was exhausted or not when read and still is, because a worker that
recovers has no threads. `Consented` follows a version from its source to
an accepted request. `Held`, the part of `Recovery` about a write to come, is why
results stay: what a thread or the recovery has read as processing can only have
been cancelled since.

Review is undisturbed because of the mark on the source: `Waiting` says of a
candidate whose request waits for the user that its version is "pending", which
`submit_version` refuses, or that another request into the same version was
accepted (`Another`). So a version that is under review has no candidate whose
rejection could archive it but beside an accepted one. `Filed` adds that it has
a report, so a validation that began before the submission finds one and leaves
the status alone, and `Working` that a thread acts on a processing or cancelled
request only. With two workers the second thread of a request may write its
failure over the acceptance, and `Another` is gone, hence `OneWorker`.

*Payments.* `Typed` adds to the types what a process holds at its place. At most
once needs `KeyHeld`: of the processes that have inserted a record and not
committed it, no two hold the same event, and the event is absent from the
table. `PaidInv` says of every row but a pilot's that its expiry has passed or
lies in a period that was bought, and of every pending effect that its expiry
does or will once its own event is committed. It holds whichever column a
commit overwrites, because a column is written as some transaction decided it.
A session writes the columns it changed, and `RowsInv` says what that protects:
an effect that waits to be committed was decided from the row as read (`Stale`),
the expiry it has read is the end of a period or an instant gone by that no
delivery under way brings (`Settled`), and a paper flag it has read is still
there while no paper plan has ended. So a transaction that read the flag does not
write it, one that read none may only set it, and the expiry that a revocation
writes, which is its own instant, is not what anybody else has read:
`RevokedInv` keeps it in force.

*Position shadow.* `TypeInv` gives every permit whose caller still waits to that
caller. `ProbeInv`: whenever the breaker is half-open its flag is set and one
caller at most is in the database, since it gets there from OPEN only, after a
cool-down that outlasts every call. No silent divergence: the operations of the
routers that are under way for a slot form a `Line` in the order of their JSON
writes. The newest leaves what the JSON position says; one that does not set the
row by itself (`Depends`: a partial exit, a mark) finds the order that the
operation before it in the line leaves; and the row is what the oldest finds. A
router joins the line at its end when it writes JSON, whatever it had read before,
because it writes a new entry, nothing, or a change of the order it finds at that
moment. A transaction that commits in turn is the oldest and leaves at the other
end; one out of turn makes the slot `crossed`. The fill of the monitor stands
beside the line, since `Contradicts` refuses it for another order. `Tracks` says
so until the slot is `Doubtful`, when a failed write has reached its caller or was
recorded in `missed`, or the slot is `crossed`; doubts are never withdrawn. The
event log is the longest of the proofs, because an event is dropped when its key
is known, so one has to know which keys cannot come again. `Past` bounds the
snapshots of the JSON position, and every write `Advances` them: it clears the
position, names the call it belongs to in the order, the partial exit or the
reversal, or sets a price that was missing, so a snapshot never recurs. `OpOk`
says of an operation under way, the abandoned ones included, that it has left no
trace: no event carries its identity, and no event the snapshot it would mirror.
What can recur are the mark of one row for one reason and the close by a mirror,
and these are the two gaps that `Skipped` names.

*Order intents.* A request on its way to the broker holds the row of its order
(`Claimed`), a panel request also that of its operation (`Entered`), and whoever
has sent an order still owns its row, because no row changes hands (`Owned`);
that and `Tried` (the second attempt follows a refusal of the first) give one
order. One result: every definite reply is in the row everybody reads, or is
held by the row's owner, who has still to store it (`RepliesBacked`,
`AnswersBacked`). The rejection of a named order is final because that order has
ended (`Final` of replies, answers and rows) and nobody sends an order the broker
has heard of (`Fresh`); the orders before it were refused (`Tried`).

*Private alerts.* `StoredInv` ties a row to the body its event was claimed with,
and a delivery at "storing" to that event; a claim of another body is a
conflict, so an accepted answer means the own body. `GuardInv` says that from
the check to the end of the routing the worker holds the row of the instance and
the instance still allows the job: every operation on that row waits for it
(`HandleKeeps`). An entry is an order of the worker, so it happens under
`GuardInv`; to the live account only with the egress that is bound for a job in
real mode (`Bound`). Nothing is needed about `app_state.json`, which anybody may
change at any time.

Model-checked only: liveness (`SignalsSettle`, `ClaimsResolved`, `ConversionsEnd`,
`AllAnswered`), which TLAPS cannot prove under fairness; `LotsConserved` under
faults or reversals; `ConsentBeforeReview` and the bounds of the conversions with
several workers are false and not claimed. Every other property of a run is stated
by a theorem.

## 6. Disagreements and limits

Two disagreements between the code and the repository's own text are shown by
runs that TLC must find violated.

* `intent_retry`: a super order refused for its levels is sent again under the
  same correlation id. When the second request times out, the order book is
  searched by that id, and the refused first attempt may be taken for it: the
  caller is told REJECTED while the second order is at work.
  `docs/AUDIT_FINDINGS.md:17` says unresolved timeouts return
  `ORDER_STATE_UNKNOWN`.
* `stop_lost`: a router reads `app_state.json`, the engine is stopped, and the
  router writes back what it had read: entries are on again, although the stop
  was answered and nobody started the engine. `docs/SAFETY_RULES.md:6` says a
  stopped engine blocks new entries. A square-off, which "blocks new entries
  first" (`docs/product/NOVA_RUNTIME_RELIABILITY_AND_MINOR_BUGS.md:64`), loses
  its block the same way.

Behaviour the models contain and the checked properties therefore leave out:

*Pipeline.*

* An alert with no job to run is acknowledged and its event stays "queued" for
  ever, although the comment in `_refresh_signal_summary` says events no longer
  do. The same happens when the worker is faster than the handler: the handler's
  late write reopens the closed event.

*Paper account.*

* A reversal sells and clears a position whose exit another thread has claimed,
  against the docstring of `claim_exit_operation`.
* Arming S/R levels (`_apply_sr_suggestion`) writes a position back that was
  closed meanwhile, against the comment above the compare-and-set helpers
  (`state_store.py:449`). It can also bring back a claim that was released;
  nothing resolves it. `ClaimsResolved` speaks of claims whose thread is still
  at work.
* Two entries under different locks (a panel order and a strategy signal) can
  both find the account flat; the second replaces the open trade of the first.
  The checked instances put entries under one lock.
* An addition patches the position, an exit that had decided on the lots before
  it sells the trade and completes, a new entry opens a position, and the fill of
  the addition is booked on the new trade (`routers/orders.py`, between
  `POSITION_APPLIED` and `LEDGER_APPLIED`). TLC finds it with two entries and one
  addition; the checked instances with additions have one entry, and
  `LedgerKeptApart` says that nothing else parts the two files.

*Conversion.*

* `_fail` and the recovery overwrite a cancellation that came between their read
  and their write; a request put back in the queue that way may take its user
  beyond `PINE_CONVERSION_MAX_CONCURRENT_PER_USER`, if the user has made another
  meanwhile. `ResultsStay` names this exception, and `pine_faults` contains it.
* A worker that restarts before the lease of its request has run out never looks
  again, and the request stays in processing. `pine_liveness` has no crash.
* Two conversions can share a candidate: with different options and the same
  output, or with the same options, because `retry` takes an old failed request
  even when a later attempt has succeeded. When one is accepted and its version
  submitted, rejecting the other archives the version under review: `reject`
  looks at its own request and spares only approved versions
  (`pine_conversion_service.py:429`). `ReviewUndisturbed` names this exception,
  and `pine_faults` contains it.
* Two workers that start together recover the same stale request, and two
  threads may convert it; attempts may then exceed the limit. The engine starts
  one worker thread, which is what the bounds are stated for.
* A conversion whose output equals an uploaded version marks it as a pending
  candidate, and the user can no longer submit it unless it is accepted.

*Payments.*

* `has_paper_entitlement` reads the newest row of any source, and the row of a
  pilot grant leaves the paper flag at its default `False`: a bought unlock
  disappears, against the docstring ("one-time, non-expiring grant",
  `entitlements.py:207`).
* A paper purchase and a renewal read the same row, whose period has just ended:
  the paper purchase writes its own time of arrival over the later expiry that
  the renewal brought, and the renewal is lost. `AccessPaid` bounds access from
  above only. When two first events insert a row
  each, later events see the newer one; `PaperKept` and `RevocationHolds` are
  stated while there is one row.
* A charge that arrives after the cancellation it precedes opens the bundle
  again until the end of its period. The period was paid for.

*Position shadow.*

* A conflict, a slot's lock timeout and a lack of permits leave the half-open
  breaker's probe marked as in flight: nothing records an outcome, and the
  breaker never moves on. `ProbeAlone` therefore bounds the probes from above only.
* A refused transition feeds the global breaker, although the comment in
  `position_store.py` (near line 697) keeps problems of one slot away from it.
* Two routers without a common lock may pass each other between the JSON write
  and the database (`state_store.py:400`): the mirror of a close that comes after
  that of the next entry closes the row of that entry, while the JSON position is
  open and both writes were told as a success. Nothing reports it; the parity
  report finds it later. These slots are `crossed`, and `RowOfPosition` says that
  there is no other way for a row to differ unreported.
* A late fill confirmation carries a snapshot that may raise quantity and state
  of the row again, and a close that was abandoned may close the row of the next
  lifetime; both are of slots with a reported write (`missed`).
* `ExitPending` reads the position and writes it back without a lock
  (`execution_router.py:2198`), and the reconcilers write back copies they have
  read before asking the broker: a close in between is undone. The model takes
  the first in one step and leaves the second out; what a lost close does to the
  JSON position is a matter of `PaperPosition` and component 6.
* The parity report expects the latest typed event to agree with the row
  (`_typed_event_findings`, `position_store.py:918`), but two kinds of event are
  skipped while the row moves on. The key of `mark_reconciliation_error` is the
  row and the reason: a row that is verified and marked again for the same reason
  goes to `error_reconciling` without an event, as the repetition of the first.
  And the key of a mirrored close has no row in it
  (`_event_idempotency_key`, `position_store.py:431`), so closing a row with the
  snapshot of an earlier row's close is taken for that one.
* A compare-and-set mirrors under `_LOCK`, so one silent database holds up the
  JSON files of all users for the budget of a call. The same mark of a reversal
  made twice is a conflict, not a repetition.

*Order intents.*

* A signal that is repeated after the exit management was changed has another
  key (`signal:ENTRY:method`) and is another request, although
  `AI_AGENT_RULES.md:95` asks to fail closed rather than risk a duplicate.
* The key of a panel exit is rebuilt from the position and no longer carries the
  Idempotency-Key: only the outer claim protects it.
* An HTTP error of the broker is taken for a refusal, and any other exception is
  reported as a failure (`API_ERROR`), though the order may exist. And the search
  after a timeout may adopt the refused order of a repetition that was placed the
  other way, since the correlation id leaves the method out. In both cases
  REJECTED is told to a caller whose own order may be at work; `RejectionFinal`
  speaks of the order a rejection names.
* An intent whose owner died is never healed, and a JSON response of the panel
  is not stored, so its operation stays pending; a repetition whose payload
  hashes differently is a conflict instead of a replay. All of this fails closed.

*Engine and private alerts.*

* A delivery is known by its event for as long as `webhook_events` keeps it
  (pruning is not modelled): `AcceptedIsKept` holds within that retention.
* The lost update of `stop_lost` can also undo EXIT_PENDING, so that a second
  square-off sends a second exit, restore an older mode of the engine, or undo
  a start.
* An engine whose mode is switched while an entry is in flight records the
  position in the file of the other account.
* A square-off may publish CONFIRMED_FLAT while an entry is in flight. An exit of
  the worker and one of a square-off may both sell in live mode. When
  `route_signal` raises after EXIT_PENDING was written, later square-offs only
  observe, until the account is flat.
* An alert that was accepted is executed in the mode it was accepted in, even
  after a stop and a restart in that mode; a comment of the worker says changes
  since the enqueue apply.
* Archiving a paused instance leaves its position without exits by webhook.
* The row of a start whose process dies stays pending.

## 7. Not modelled

Of the modelled components: the read shadow and the parity report of 5, the
validation that comes before its envelope, and a reversal leg that is partly
filled; the stages of a reversal's intents and the preflight of 4; of 7
reconfiguration, the reset of the paper account, snapshots, sessions, live
readiness and the crash of the engine process; of 9 credentials, the pruning of
events, configuration revisions (a refusal is a choice) and the evidence of a
HOLD; of 11 the catalog, the TradingView setup and installations, and the
subscriptions to shared strategies. In `EngineRuntime` the exit of a reversal
and the clearing of the position are one step, and how an exit is owned is left
to `PaperPosition`.

Whole components: 6, 8, 10 and 18 are planned (section 8), 10 as far as its
lock goes is in `PaperPosition`. 14, 15, 19 and 22 are external I/O, timing or
presentation; 17 is cryptography; 20 and 21 decide nothing; 16 appears as the
atomicity of the models (a transaction is a step, a unique constraint a guard).
The legacy inline path `process_signal` of 1 is replaced by the worker wherever
the engine runs. The conversions of an administrator
(`services/admin_pine_conversion_service.py`, part of 13) and the installations
of `services/c2_tradingview_service.py` (11) are transactions under row locks
and are next in size.

## 8. Plan

1. The reconcilers (6) and the end-of-day marker (18) as further writers of the
   position of `EngineRuntime`.
2. `StrategyRisk` (8): counters under read-committed transactions.
3. The administrator's conversions and the TradingView installations (11, 13).

Further proofs: an abstract breaker (closed, open, half-open with one probe) and
an abstract queue (at most so many claims, a result for each) that
`PositionShadow` and `PineConversion` refine; which of the two bounds of the
conversions survive a second worker; `LotsKept` with dying threads, for the
lots that no dead thread held.
