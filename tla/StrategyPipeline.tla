-------------------------- MODULE StrategyPipeline --------------------------
(***************************************************************************)
(* The broadcast-strategy pipeline: an HTTP intake process accepts a       *)
(* TradingView alert, claims its webhook event, fans it out into one       *)
(* durable job per subscriber, and the engine process's job worker claims  *)
(* the jobs in batches, executes each in a pool thread and rolls the       *)
(* outcome up into the signal row and the webhook event.                   *)
(*                                                                         *)
(*   intake   routers/strategies.py      strategy_webhook                  *)
(*            services/strategy_fanout.py enqueue_strategy_signal          *)
(*   worker   workers/strategy_job_worker.py                               *)
(*   events   services/webhook_replay_store.py                             *)
(*                                                                         *)
(* Every database transaction is one step; whatever the code does between  *)
(* two transactions may interleave with the other threads, the other       *)
(* process and a crash of either.                                          *)
(***************************************************************************)
EXTENDS Integers, Sequences, FiniteSets

CONSTANTS
    Signals,        \* (strategy_name, signal_id) pairs
    Users,          \* users that may be subscribed to the strategy
    Deliveries,     \* HTTP deliveries of an alert, retries included
    SignalOf,       \* the signal a delivery carries
    BodyOf,         \* the hash of a delivery's raw body
    NonceOf,        \* the nonce in a delivery's body
    Production,     \* settings.is_production: nonces are claimed
    Modes,          \* execution modes subscriptions are in
    MaxAttempts,    \* StrategyExecutionJob.max_attempts
    Concurrency,    \* STRATEGY_JOB_WORKER_CONCURRENCY, also the claim limit
    MaxCrashes,     \* bound: engine crashes
    DbFaults,       \* bound: whether a database call of the worker may raise
    Loop,           \* the worker's polling thread
    None

ExecutionModes == {"signal_only", "paper_live_data", "real_orders"}
MoneyModes == {"paper_live_data", "real_orders"}

ASSUME PipelineAssumption ==
    /\ SignalOf \in [Deliveries -> Signals]
    /\ DOMAIN BodyOf = Deliveries
    /\ DOMAIN NonceOf = Deliveries
    /\ Production \in BOOLEAN
    /\ DbFaults \in BOOLEAN
    /\ Modes \subseteq ExecutionModes
    /\ MaxAttempts \in Nat \ {0}
    /\ Concurrency \in Nat \ {0}
    /\ MaxCrashes \in Nat
    /\ Loop \notin Signals \X Users
    /\ None \notin Signals \X Users
    /\ None \notin ExecutionModes

Jobs == Signals \X Users
SignalOfJob(j) == j[1]
UserOfJob(j) == j[2]
JobsOf(s) == {j \in Jobs : SignalOfJob(j) = s}
Actors == Jobs \cup {Loop}

VARIABLES
    \* the database
    event,      \* webhook_events.processed_status of each signal's event
    eventBody,  \* webhook_events.raw_body_sha256
    nonces,     \* nonces claimed as ":nonce" events
    signal,     \* strategy_signals.status
    arrival,    \* signals in the order their rows were created
    jobStatus,  \* strategy_execution_jobs.status; "error" is a completed row
                \* whose result_summary says "error"
    jobMode,    \* strategy_execution_jobs.execution_mode
    attempts,   \* strategy_execution_jobs.attempts
    lockStale,  \* locked_at is older than the recovery cutoff
    orders,     \* times a job's signal was routed to the (paper) broker
    \* the intake process
    phase,      \* where each delivery's handler is
    \* the engine process
    at,         \* where each pool thread and the polling thread are
    outcome,    \* the result a thread is about to record
    view,       \* what _refresh_signal_summary has read: status and verdict
    holder,     \* the thread that owns a user's lock
    batch,      \* the jobs of the batch in flight
    raised,     \* a pool thread raised, so executor.map re-raises
    pending,    \* signals the loop still has to refresh
    current,    \* the signal it refreshes now
    crashes

intakeVars == <<event, eventBody, nonces, signal, arrival, phase>>
jobVars == <<jobStatus, jobMode, attempts, lockStale, orders>>
poolVars == <<outcome, view, holder, batch, raised, pending, current>>
vars == <<intakeVars, jobVars, at, poolVars, crashes>>

Finished == {"completed", "error", "failed"}
Settled == {"completed", "completed_with_errors"}
Closed == {"completed", "failed"}
Subject(a) == IF a = Loop THEN current ELSE SignalOfJob(a)

Init ==
    /\ event = [s \in Signals |-> "none"]
    /\ eventBody = [s \in Signals |-> None]
    /\ nonces = {}
    /\ signal = [s \in Signals |-> "none"]
    /\ arrival = <<>>
    /\ jobStatus = [j \in Jobs |-> "absent"]
    /\ jobMode = [j \in Jobs |-> None]
    /\ attempts = [j \in Jobs |-> 0]
    /\ lockStale = [j \in Jobs |-> FALSE]
    /\ orders = [j \in Jobs |-> 0]
    /\ phase = [d \in Deliveries |-> "idle"]
    /\ at = [a \in Actors |-> IF a = Loop THEN "starting" ELSE "idle"]
    /\ outcome = [j \in Jobs |-> None]
    /\ view = [a \in Actors |-> None]
    /\ holder = [u \in Users |-> None]
    /\ batch = {}
    /\ raised = FALSE
    /\ pending = {}
    /\ current = None
    /\ crashes = 0

-----------------------------------------------------------------------------
(* Intake: strategy_webhook, after the secret and freshness checks.        *)

\* A handler's own outcome when it returns without touching another row.
MoveTo(d, p) == phase' = [phase EXCEPT ![d] = p]

\* Production only: the nonce is claimed as an event of its own first.
ClaimNonce(d) ==
    /\ phase[d] = "idle"
    /\ Production
    /\ IF NonceOf[d] \in nonces
       THEN MoveTo(d, "rejected") /\ UNCHANGED nonces
       ELSE MoveTo(d, "nonced") /\ nonces' = nonces \cup {NonceOf[d]}
    /\ UNCHANGED <<event, eventBody, signal, arrival, jobVars, at, poolVars, crashes>>

\* claim_webhook_event: the unique (provider, event_id) insert; a conflict is
\* "duplicate" or, for another body, "tampered", and both answer 409.
ClaimEvent(d) ==
    LET s == SignalOf[d] IN
    /\ phase[d] = IF Production THEN "nonced" ELSE "idle"
    /\ IF event[s] = "none"
       THEN /\ event' = [event EXCEPT ![s] = "received"]
            /\ eventBody' = [eventBody EXCEPT ![s] = BodyOf[d]]
            /\ MoveTo(d, "claimed")
       ELSE /\ MoveTo(d, IF eventBody[s] = BodyOf[d] THEN "duplicate" ELSE "tampered")
            /\ UNCHANGED <<event, eventBody>>
    /\ UNCHANGED <<nonces, signal, arrival, jobVars, at, poolVars, crashes>>

\* The unique (strategy_name, signal_id) row is still free.
UnclaimedAlways(s) == TRUE      \* mutant: no unique constraint
Unclaimed(s) == signal[s] = "none"

\* The rows one fan-out inserts: the signal, and one job per subscriber.
InsertRows(s, subscribers, mode, unconfigured) ==
    /\ jobStatus' = [j \in Jobs |->
          IF SignalOfJob(j) = s /\ UserOfJob(j) \in subscribers
          THEN IF UserOfJob(j) \in unconfigured THEN "failed" ELSE "queued"
          ELSE jobStatus[j]]
    /\ jobMode' = [j \in Jobs |->
          IF SignalOfJob(j) = s /\ UserOfJob(j) \in subscribers
          THEN mode[UserOfJob(j)] ELSE jobMode[j]]
    /\ signal' = [signal EXCEPT ![s] =
          IF subscribers = {} THEN "completed"
          ELSE IF unconfigured = subscribers THEN "completed_with_errors" ELSE "queued"]

\* enqueue_strategy_signal: one transaction inserts the signal row and one job
\* per active subscriber; a subscriber in a money mode whose configuration
\* revision is missing gets a job that is already failed.
Enqueue(d) ==
    /\ phase[d] = "claimed"
    /\ Unclaimed(SignalOf[d])
    /\ \E subscribers \in SUBSET Users :
       \E mode \in [subscribers -> Modes] :
       \E unconfigured \in SUBSET {u \in subscribers : mode[u] \in MoneyModes} :
          InsertRows(SignalOf[d], subscribers, mode, unconfigured)
    /\ arrival' = Append(arrival, SignalOf[d])
    /\ MoveTo(d, "enqueued")
    /\ UNCHANGED <<event, eventBody, nonces, attempts, lockStale, orders, at, poolVars, crashes>>

\* The signal row's unique constraint refuses a second fan-out.
EnqueueDuplicate(d) ==
    /\ phase[d] = "claimed"
    /\ ~Unclaimed(SignalOf[d])
    /\ MoveTo(d, "rejecting")
    /\ UNCHANGED <<event, eventBody, nonces, signal, arrival, jobVars, at, poolVars, crashes>>

\* update_webhook_event is a no-op when the row is gone.
SetEvent(s, status) ==
    event' = IF event[s] = "none" THEN event ELSE [event EXCEPT ![s] = status]

MarkRejected(d) ==
    /\ phase[d] = "rejecting"
    /\ SetEvent(SignalOf[d], "rejected")
    /\ MoveTo(d, "rejected")
    /\ UNCHANGED <<eventBody, nonces, signal, arrival, jobVars, at, poolVars, crashes>>

\* After the worker has been woken, the event is marked "queued" and the
\* handler answers 202.
MarkQueued(d) ==
    /\ phase[d] = "enqueued"
    /\ SetEvent(SignalOf[d], "queued")
    /\ MoveTo(d, "acknowledged")
    /\ UNCHANGED <<eventBody, nonces, signal, arrival, jobVars, at, poolVars, crashes>>

\* The intake process dies, or the database refuses the handler's next call.
LoseDelivery(d) ==
    /\ phase[d] \in {"nonced", "claimed", "enqueued", "rejecting"}
    /\ MoveTo(d, "lost")
    /\ UNCHANGED <<event, eventBody, nonces, signal, arrival, jobVars, at, poolVars, crashes>>

Intake(d) ==
    \/ ClaimNonce(d)
    \/ ClaimEvent(d)
    \/ Enqueue(d)
    \/ EnqueueDuplicate(d)
    \/ MarkRejected(d)
    \/ MarkQueued(d)
    \/ LoseDelivery(d)

-----------------------------------------------------------------------------
(* The worker's polling thread.                                            *)

\* locked_at passes the STRATEGY_JOB_STALE_SECONDS cutoff.
LockGoesStale(j) ==
    /\ jobStatus[j] = "running"
    /\ ~lockStale[j]
    /\ lockStale' = [lockStale EXCEPT ![j] = TRUE]
    /\ UNCHANGED <<intakeVars, jobStatus, jobMode, attempts, orders, at, poolVars, crashes>>

StaleJobs == {j \in Jobs : jobStatus[j] = "running" /\ lockStale[j]}

ExhaustedLate(j) == attempts[j] > MaxAttempts           \* mutant: off by one
Exhausted(j) == attempts[j] >= MaxAttempts

\* recover_stale_jobs, once per start of the loop: expired webhook events are
\* pruned, then every stale running job is failed or queued again.
RecoverStaleJobs ==
    LET busy == {SignalOf[d] : d \in {e \in Deliveries :
                    phase[e] \in {"claimed", "enqueued", "rejecting"}}}
    IN
    /\ at[Loop] = "starting"
    /\ \E pruned \in SUBSET (Signals \ busy) :
          /\ event' = [s \in Signals |-> IF s \in pruned THEN "none" ELSE event[s]]
          /\ eventBody' = [s \in Signals |-> IF s \in pruned THEN None ELSE eventBody[s]]
    /\ jobStatus' = [j \in Jobs |->
          IF j \in StaleJobs
          THEN IF Exhausted(j) THEN "failed" ELSE "queued"
          ELSE jobStatus[j]]
    /\ lockStale' = [j \in Jobs |-> IF j \in StaleJobs THEN FALSE ELSE lockStale[j]]
    /\ nonces' \in SUBSET nonces
    /\ at' = [at EXCEPT ![Loop] = "polling"]
    /\ UNCHANGED <<signal, arrival, phase, jobMode, attempts, orders, poolVars, crashes>>

ArrivalOf(s) == CHOOSE i \in DOMAIN arrival : arrival[i] = s

\* _claim_jobs: the oldest queued jobs, up to the limit, become running in one
\* transaction and each is handed to a pool thread.
ClaimJobs ==
    LET queued == {j \in Jobs : jobStatus[j] = "queued"} IN
    /\ at[Loop] = "polling"
    /\ queued # {}
    /\ \E claim \in SUBSET queued :
          /\ claim # {}
          /\ Cardinality(claim) <= Concurrency
          /\ Cardinality(claim) = Concurrency \/ claim = queued
          /\ \A j \in claim, k \in queued \ claim :
                ArrivalOf(SignalOfJob(j)) <= ArrivalOf(SignalOfJob(k))
          /\ jobStatus' = [j \in Jobs |-> IF j \in claim THEN "running" ELSE jobStatus[j]]
          /\ attempts' = [j \in Jobs |-> IF j \in claim THEN attempts[j] + 1 ELSE attempts[j]]
          /\ at' = [a \in Actors |->
                IF a = Loop THEN "draining" ELSE IF a \in claim THEN "start" ELSE at[a]]
          /\ batch' = claim
    /\ UNCHANGED <<intakeVars, jobMode, lockStale, orders,
                   outcome, view, holder, raised, pending, current, crashes>>

NoSignals == {}                                         \* mutant
BatchSignals == {SignalOfJob(j) : j \in batch}

\* The executor has joined every thread; an exception in one of them skips the
\* final refresh of the batch's signals.
JoinBatch ==
    /\ at[Loop] = "draining"
    /\ \A j \in batch : at[j] = "ended"
    /\ at' = [a \in Actors |->
          IF a = Loop THEN IF raised THEN "polling" ELSE "next"
          ELSE IF a \in batch THEN "idle" ELSE at[a]]
    /\ pending' = IF raised THEN {} ELSE BatchSignals
    /\ batch' = {}
    /\ raised' = FALSE
    /\ UNCHANGED <<intakeVars, jobVars, outcome, view, holder, current, crashes>>

NextRefresh ==
    /\ at[Loop] = "next"
    /\ IF pending = {}
       THEN at' = [at EXCEPT ![Loop] = "polling"] /\ current' = None /\ UNCHANGED pending
       ELSE \E s \in pending :
               /\ current' = s
               /\ pending' = pending \ {s}
               /\ at' = [at EXCEPT ![Loop] = "refresh"]
    /\ UNCHANGED <<intakeVars, jobVars, outcome, view, holder, batch, raised, crashes>>

-----------------------------------------------------------------------------
(* _execute_job, one pool thread per claimed job.                          *)

\* _retry_would_risk_duplicate_execution.
NeverRisky(j) == FALSE                                  \* mutant
RetryIsRisky(j) == attempts[j] > 1 /\ jobMode[j] \in MoneyModes

\* Mutant: the refusal is reported without a status.
RefuseRetrySilently(j) ==
    /\ at[j] = "start"
    /\ RetryIsRisky(j)
    /\ at' = [at EXCEPT ![j] = "finish"]
    /\ UNCHANGED <<intakeVars, jobVars, poolVars, crashes>>

\* A retried money job may already have reached the broker: it is failed.
RefuseRetry(j) ==
    /\ at[j] = "start"
    /\ RetryIsRisky(j)
    /\ outcome' = [outcome EXCEPT ![j] = "failed"]
    /\ at' = [at EXCEPT ![j] = "finish"]
    /\ UNCHANGED <<intakeVars, jobVars, view, holder, batch, raised, pending, current, crashes>>

LockUser(j) ==
    /\ at[j] = "start"
    /\ ~RetryIsRisky(j)
    /\ holder[UserOfJob(j)] = None
    /\ holder' = [holder EXCEPT ![UserOfJob(j)] = j]
    /\ at' = [at EXCEPT ![j] = "locked"]
    /\ UNCHANGED <<intakeVars, jobVars, outcome, view, batch, raised, pending, current, crashes>>

\* dispatch_signal_job reaches route_signal: an order goes out, whatever the
\* thread reports about it afterwards.
DispatchOrder(j) ==
    /\ at[j] = "locked"
    /\ jobMode[j] \in MoneyModes
    /\ orders' = [orders EXCEPT ![j] = @ + 1]
    /\ \E r \in Finished : outcome' = [outcome EXCEPT ![j] = r]
    /\ at' = [at EXCEPT ![j] = "finish"]
    /\ UNCHANGED <<intakeVars, jobStatus, jobMode, attempts, lockStale,
                   view, holder, batch, raised, pending, current, crashes>>

\* signal_only acknowledgement, a block by entitlement, egress or risk, a
\* missing configuration revision, or an exception: no order.
DispatchNothing(j) ==
    /\ at[j] = "locked"
    /\ \E r \in (IF jobMode[j] \in MoneyModes THEN Finished ELSE {"completed", "failed"}) :
          outcome' = [outcome EXCEPT ![j] = r]
    /\ at' = [at EXCEPT ![j] = "finish"]
    /\ UNCHANGED <<intakeVars, jobVars, view, holder, batch, raised, pending, current, crashes>>

\* _complete_job: the row's status is written by primary key, unconditionally.
FinishJob(j) ==
    /\ at[j] = "finish"
    /\ jobStatus' = [jobStatus EXCEPT ![j] = outcome[j]]
    /\ outcome' = [outcome EXCEPT ![j] = None]
    /\ at' = [at EXCEPT ![j] = "refresh"]
    /\ UNCHANGED <<intakeVars, jobMode, attempts, lockStale, orders,
                   view, holder, batch, raised, pending, current, crashes>>

\* The thread returns and leaves "with user_lock".
Release(j) ==
    holder' = [u \in Users |-> IF holder[u] = j THEN None ELSE holder[u]]

-----------------------------------------------------------------------------
(* _refresh_signal_summary: read the signal and its jobs, write the        *)
(* verdict, close the webhook event. Each is a transaction boundary another*)
(* thread can slip into; a row whose attribute does not change is not      *)
(* written by the ORM.                                                     *)

\* Mutants: a running job, or an errored result, is overlooked.
VerdictIgnoringRunning(s) ==
    IF \E j \in JobsOf(s) : jobStatus[j] = "queued" THEN "processing"
    ELSE IF \E j \in JobsOf(s) : jobStatus[j] \in {"failed", "error"}
    THEN "completed_with_errors" ELSE "completed"

VerdictIgnoringErrors(s) ==
    IF \E j \in JobsOf(s) : jobStatus[j] \in {"queued", "running"} THEN "processing"
    ELSE IF \E j \in JobsOf(s) : jobStatus[j] = "failed"
    THEN "completed_with_errors" ELSE "completed"

Verdict(s) ==
    IF \E j \in JobsOf(s) : jobStatus[j] \in {"queued", "running"} THEN "processing"
    ELSE IF \E j \in JobsOf(s) : jobStatus[j] \in {"failed", "error"}
    THEN "completed_with_errors" ELSE "completed"

RefreshRead(a) ==
    /\ at[a] = "refresh"
    /\ view' = [view EXCEPT ![a] = [loaded |-> signal[Subject(a)], verdict |-> Verdict(Subject(a))]]
    /\ at' = [at EXCEPT ![a] = "write"]
    /\ UNCHANGED <<intakeVars, jobVars, outcome, holder, batch, raised, pending, current, crashes>>

\* Where an actor goes when its refresh returns.
LeaveRefresh(a) ==
    /\ view' = [view EXCEPT ![a] = None]
    /\ IF a = Loop
       THEN at' = [at EXCEPT ![Loop] = "next"] /\ UNCHANGED holder
       ELSE at' = [at EXCEPT ![a] = "ended"] /\ Release(a)

RefreshWrite(a) ==
    LET v == view[a] IN
    /\ at[a] = "write"
    /\ signal' = IF v.loaded = v.verdict THEN signal
                 ELSE [signal EXCEPT ![Subject(a)] = v.verdict]
    /\ IF v.verdict \in Settled
       THEN at' = [at EXCEPT ![a] = "close"] /\ UNCHANGED <<holder, view>>
       ELSE LeaveRefresh(a)
    /\ UNCHANGED <<event, eventBody, nonces, arrival, phase, jobVars,
                   outcome, batch, raised, pending, current, crashes>>

CloseEvent(a) ==
    /\ at[a] = "close"
    /\ SetEvent(Subject(a), IF view[a].verdict = "completed" THEN "completed" ELSE "failed")
    /\ LeaveRefresh(a)
    /\ UNCHANGED <<eventBody, nonces, signal, arrival, phase, jobVars,
                   outcome, batch, raised, pending, current, crashes>>

\* A database call raises: a thread dies with the exception, the loop logs it
\* and polls again; closing the event swallows it.
DbRaises(a) ==
    /\ DbFaults
    /\ \/ /\ at[a] \in {"finish", "refresh", "write"}
          /\ view' = [view EXCEPT ![a] = None]
          /\ IF a = Loop
             THEN /\ at' = [at EXCEPT ![Loop] = "polling"]
                  /\ pending' = {}
                  /\ UNCHANGED <<outcome, holder, raised>>
             ELSE /\ at' = [at EXCEPT ![a] = "ended"]
                  /\ outcome' = [outcome EXCEPT ![a] = None]
                  /\ Release(a)
                  /\ raised' = TRUE
                  /\ UNCHANGED pending
       \/ /\ at[a] = "close"
          /\ LeaveRefresh(a)
          /\ UNCHANGED <<outcome, pending, raised>>
    /\ UNCHANGED <<intakeVars, jobVars, batch, current, crashes>>

\* The engine process dies and systemd starts it again.
Crash ==
    /\ crashes < MaxCrashes
    /\ crashes' = crashes + 1
    /\ at' = [a \in Actors |-> IF a = Loop THEN "starting" ELSE "idle"]
    /\ outcome' = [j \in Jobs |-> None]
    /\ view' = [a \in Actors |-> None]
    /\ holder' = [u \in Users |-> None]
    /\ batch' = {}
    /\ raised' = FALSE
    /\ pending' = {}
    /\ current' = None
    /\ UNCHANGED <<intakeVars, jobVars>>

-----------------------------------------------------------------------------
Thread(j) ==
    \/ RefuseRetry(j)
    \/ LockUser(j)
    \/ DispatchOrder(j)
    \/ DispatchNothing(j)
    \/ FinishJob(j)

Refresh(a) ==
    \/ RefreshRead(a)
    \/ RefreshWrite(a)
    \/ CloseEvent(a)

Worker ==
    \/ RecoverStaleJobs
    \/ ClaimJobs
    \/ JoinBatch
    \/ NextRefresh
    \/ \E j \in Jobs : Thread(j)
    \/ \E a \in Actors : Refresh(a)

Next ==
    \/ \E d \in Deliveries : Intake(d)
    \/ Worker
    \/ \E j \in Jobs : LockGoesStale(j)
    \/ \E a \in Actors : DbRaises(a)
    \/ Crash

Spec == Init /\ [][Next]_vars

\* The engine keeps scheduling its polling thread and its pool threads, a
\* batch is drained, and an HTTP handler that has started keeps running.
FairSpec ==
    /\ Spec
    /\ WF_vars(RecoverStaleJobs \/ ClaimJobs \/ JoinBatch \/ NextRefresh)
    /\ \A j \in Jobs : WF_vars(RefuseRetry(j) \/ DispatchOrder(j) \/ DispatchNothing(j) \/ FinishJob(j))
    /\ \A j \in Jobs : SF_vars(LockUser(j))
    /\ \A a \in Actors : WF_vars(Refresh(a))
    /\ \A d \in Deliveries : WF_vars(phase[d] # "idle" /\ Intake(d))

-----------------------------------------------------------------------------
(* Properties.                                                             *)

\* Every variable holds a value of its column or of its program point.
TypeOK ==
    /\ event \in [Signals -> {"none", "received", "queued", "rejected", "completed", "failed"}]
    /\ signal \in [Signals -> {"none", "queued", "processing"} \cup Settled]
    /\ jobStatus \in [Jobs -> {"absent", "queued", "running"} \cup Finished]
    /\ jobMode \in [Jobs -> Modes \cup {None}]
    /\ attempts \in [Jobs -> Nat]
    /\ orders \in [Jobs -> Nat]
    /\ lockStale \in [Jobs -> BOOLEAN]
    /\ phase \in [Deliveries -> {"idle", "nonced", "claimed", "duplicate", "tampered",
                                 "enqueued", "rejecting", "rejected", "acknowledged", "lost"}]
    /\ at \in [Actors -> {"idle", "start", "locked", "finish", "refresh", "write", "close",
                          "ended", "starting", "polling", "draining", "next"}]
    /\ outcome \in [Jobs -> Finished \cup {None}]
    /\ view \in [Actors -> {None} \cup
                 [loaded : {"none", "queued", "processing"} \cup Settled,
                  verdict : {"processing"} \cup Settled]]
    /\ holder \in [Users -> Jobs \cup {None}]
    /\ batch \in SUBSET Jobs
    /\ pending \in SUBSET Signals
    /\ current \in Signals \cup {None}

\* However often an alert is delivered, whichever process dies and however the
\* job is recovered, a subscriber's account sees at most one order for it.
AtMostOneOrder == \A j \in Jobs : orders[j] <= 1

\* Recovery never gives a job an attempt beyond max_attempts, although the
\* claim itself does not look at the limit.
AttemptsBounded == \A j \in Jobs : attempts[j] <= MaxAttempts

\* A signal row shown as settled has no job left to run: the roll-up never
\* reports a fan-out finished while an order may still be sent for it.
SettledMeansDone ==
    \A s \in Signals : signal[s] \in Settled =>
        \A j \in JobsOf(s) : jobStatus[j] \in {"absent"} \cup Finished

\* A closed webhook event tells the truth: every job of its signal is over,
\* and it says "completed" exactly when none of them failed.
ClosedEventTruthful ==
    \A s \in Signals : event[s] \in Closed =>
        /\ \A j \in JobsOf(s) : jobStatus[j] \in {"absent"} \cup Finished
        /\ (event[s] = "completed") <=>
              (\A j \in JobsOf(s) : jobStatus[j] \in {"absent", "completed"})

\* A job that has reached a final status keeps it: a worker that finishes late
\* and the recovery of stale jobs never overwrite one another's verdict.
JobVerdictStable ==
    [][\A j \in Jobs : jobStatus[j] \in Finished => jobStatus'[j] = jobStatus[j]]_vars

\* While the engine stays up, every signal that was fanned out is finally
\* settled for good, although concurrent refreshes may overwrite one another.
SignalsSettle ==
    \A s \in Signals : [](signal[s] # "none" => <>[](signal[s] \in Settled))

\* The pipeline implements the once-per-subscriber promise.
Promise == INSTANCE OncePerSubscriber WITH
    accepted <- {s \in Signals : signal[s] # "none"},
    job <- [j \in Signals \X Users |->
              CASE jobStatus[j] = "absent" -> "none"
                [] jobStatus[j] \in {"queued", "running"} -> "open"
                [] OTHER -> "resolved"],
    executed <- orders

\* Every behaviour of the pipeline is one of the abstract promise.
ImplementsPromise == Promise!PromiseSpec

=============================================================================
