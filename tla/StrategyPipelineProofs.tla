---------------------- MODULE StrategyPipelineProofs ------------------------
(***************************************************************************)
(* Proofs about StrategyPipeline for every set of signals, users and       *)
(* deliveries and every value of the bounds.  The inductive invariant says *)
(* who may be where: only a batch in flight has threads, only fanned-out   *)
(* signals have jobs, a thread that may still order has no order behind it *)
(* and a verdict that was read stays true until it is written.             *)
(***************************************************************************)
EXTENDS StrategyPipeline, TLAPS

Verdicts == {"processing"} \cup Settled

Done(s) == \A j \in Jobs : SignalOfJob(j) = s => jobStatus[j] \in {"absent"} \cup Finished
Clean(s) == \A j \in Jobs : SignalOfJob(j) = s => jobStatus[j] \in {"absent", "completed"}

\* Only the jobs of the batch in flight have a thread, a thread that has not
\* recorded its result works on a running job, and the result is a status.
PoolInv ==
    /\ \A j \in Jobs : at[j] # "idle" => j \in batch
    /\ batch # {} => at[Loop] = "draining"
    /\ \A j \in Jobs : at[j] \in {"start", "locked", "finish"} =>
          jobStatus[j] = "running" /\ attempts[j] >= 1
    /\ \A j \in Jobs : at[j] = "finish" => outcome[j] \in Finished

\* Whatever the worker touches has been fanned out before.
FanOutInv ==
    /\ \A j \in Jobs : signal[SignalOfJob(j)] = "none" =>
          jobStatus[j] = "absent" /\ attempts[j] = 0
    /\ \A j \in batch : signal[SignalOfJob(j)] # "none"
    /\ \A s \in pending : signal[s] # "none"
    /\ at[Loop] \in {"refresh", "write", "close"} =>
          current \in Signals /\ signal[current] # "none"
    /\ \A s \in Signals : event[s] \in Closed => signal[s] # "none"

\* A thread on its way to the broker has no order behind it.
OrderInv ==
    /\ \A j \in Jobs : orders[j] <= 1
    /\ \A j \in Jobs : attempts[j] = 0 => orders[j] = 0
    /\ \A j \in Jobs : at[j] \in {"start", "locked"} /\ attempts[j] = 1 => orders[j] = 0
    /\ \A j \in Jobs : at[j] = "locked" => ~RetryIsRisky(j)

AttemptInv ==
    \A j \in Jobs :
        /\ attempts[j] <= MaxAttempts
        /\ jobStatus[j] = "queued" => attempts[j] < MaxAttempts

\* A settled verdict that was read is still the truth when it is written.
RollUpInv ==
    /\ \A a \in Actors : at[a] \in {"write", "close"} =>
          /\ view[a].verdict \in Verdicts
          /\ at[a] = "close" => view[a].verdict \in Settled
          /\ view[a].verdict \in Settled =>
                /\ Done(Subject(a))
                /\ view[a].verdict = "completed" <=> Clean(Subject(a))
    /\ \A s \in Signals : signal[s] \in Settled => Done(s)
    /\ \A s \in Signals : event[s] \in Closed =>
          /\ Done(s)
          /\ event[s] = "completed" <=> Clean(s)

IInv == TypeOK /\ PoolInv /\ FanOutInv /\ OrderInv /\ AttemptInv /\ RollUpInv

-----------------------------------------------------------------------------
(* The facts about jobs and actors the proofs use; Jobs stays folded.        *)
LEMMA JobFacts ==
    /\ Loop \notin Jobs
    /\ None \notin Jobs
    /\ \A j \in Jobs : SignalOfJob(j) \in Signals /\ UserOfJob(j) \in Users
    /\ Actors = Jobs \cup {Loop}
    /\ \A j \in Jobs : j # Loop
    BY PipelineAssumption DEF Jobs, Actors, SignalOfJob, UserOfJob

(* What a fan-out changes: only rows of a signal nobody had worked on.       *)
LEMMA EnqueueFacts ==
    ASSUME IInv, NEW d \in Deliveries, Enqueue(d)
    PROVE  LET s == SignalOf[d] IN
           /\ s \in Signals
           /\ signal[s] = "none"
           /\ \A t \in Signals : t # s => signal'[t] = signal[t]
           /\ \A j \in Jobs : SignalOfJob(j) = s =>
                 /\ attempts[j] = 0
                 /\ jobStatus'[j] \in {"absent", "queued", "failed"}
                 /\ signal'[s] \in Settled => jobStatus'[j] # "queued"
           /\ \A j \in Jobs : SignalOfJob(j) # s =>
                 jobStatus'[j] = jobStatus[j] /\ jobMode'[j] = jobMode[j]
<1> DEFINE s == SignalOf[d]
<1> USE JobFacts, PipelineAssumption DEF IInv, TypeOK
<1>1. s \in Signals /\ signal[s] = "none"
    BY DEF Enqueue, Unclaimed
<1>2. PICK subscribers \in SUBSET Users :
        \E mode \in [subscribers -> Modes] :
        \E unconfigured \in SUBSET {u \in subscribers : mode[u] \in MoneyModes} :
          InsertRows(s, subscribers, mode, unconfigured)
    BY DEF Enqueue
<1>3. PICK mode, unconfigured : InsertRows(s, subscribers, mode, unconfigured)
    BY <1>2
<1> USE DEF InsertRows
<1>4. \A t \in Signals : t # s => signal'[t] = signal[t]
    BY <1>1, <1>3
<1>5. \A j \in Jobs : SignalOfJob(j) # s =>
        jobStatus'[j] = jobStatus[j] /\ jobMode'[j] = jobMode[j]
    BY <1>3
<1>6. ASSUME NEW j \in Jobs, SignalOfJob(j) = s
      PROVE  attempts[j] = 0 /\ jobStatus'[j] \in {"absent", "queued", "failed"}
    BY <1>1, <1>3, <1>6 DEF FanOutInv
<1>7. ASSUME NEW j \in Jobs, SignalOfJob(j) = s, signal'[s] \in Settled
      PROVE  jobStatus'[j] # "queued"
    <2>1. jobStatus[j] = "absent"
        BY <1>1, <1>7 DEF FanOutInv
    <2>2. CASE subscribers = {}
        BY <1>3, <2>1, <2>2, <1>7
    <2>3. CASE subscribers # {} /\ unconfigured = subscribers
        BY <1>3, <2>1, <2>3, <1>7
    <2>4. CASE subscribers # {} /\ unconfigured # subscribers
        <3>1. signal'[s] = "queued"
            BY <1>1, <1>3, <2>4
        <3> QED
            BY <3>1, <1>7 DEF Settled
    <2> QED
        BY <2>2, <2>3, <2>4
<1> QED
    BY <1>1, <1>4, <1>5, <1>6, <1>7

(* An actor that refreshes a signal refreshes one that was fanned out.      *)
LEMMA SubjectFacts ==
    ASSUME IInv, NEW a \in Actors, at[a] \in {"refresh", "write", "close"}
    PROVE  Subject(a) \in Signals /\ signal[Subject(a)] # "none"
    BY JobFacts DEF IInv, PoolInv, FanOutInv, Subject

(* What the roll-up concludes from the jobs it sees.                        *)
LEMMA VerdictFacts ==
    ASSUME IInv, NEW s \in Signals
    PROVE  /\ Verdict(s) \in Verdicts
           /\ Verdict(s) \in Settled =>
                 /\ Done(s)
                 /\ Verdict(s) = "completed" <=> Clean(s)
    BY DEF IInv, TypeOK, Verdict, Verdicts, Settled, Done, Clean, JobsOf, Finished

(* Each step of either process stores values of the right type.            *)
LEMMA TypeStep == IInv /\ [Next]_vars => TypeOK'
<1> SUFFICES ASSUME IInv, [Next]_vars PROVE TypeOK'
    OBVIOUS
<1> USE JobFacts, PipelineAssumption
<1> USE DEF IInv, TypeOK, PoolInv, RollUpInv, Finished, Settled, Verdicts
<1>1. ASSUME NEW d \in Deliveries, ClaimNonce(d) PROVE TypeOK'
    BY <1>1 DEF ClaimNonce, vars, intakeVars, jobVars, poolVars, MoveTo
<1>2. ASSUME NEW d \in Deliveries, ClaimEvent(d) PROVE TypeOK'
    BY <1>2 DEF ClaimEvent, vars, intakeVars, jobVars, poolVars, MoveTo
<1>3. ASSUME NEW d \in Deliveries, Enqueue(d) PROVE TypeOK'
    BY <1>3 DEF Enqueue, vars, intakeVars, jobVars, poolVars, MoveTo, InsertRows
<1>4. ASSUME NEW d \in Deliveries, EnqueueDuplicate(d) PROVE TypeOK'
    BY <1>4 DEF EnqueueDuplicate, vars, intakeVars, jobVars, poolVars, MoveTo
<1>5. ASSUME NEW d \in Deliveries, MarkRejected(d) PROVE TypeOK'
    BY <1>5 DEF MarkRejected, vars, intakeVars, jobVars, poolVars, MoveTo, SetEvent
<1>6. ASSUME NEW d \in Deliveries, MarkQueued(d) PROVE TypeOK'
    BY <1>6 DEF MarkQueued, vars, intakeVars, jobVars, poolVars, MoveTo, SetEvent
<1>7. ASSUME NEW d \in Deliveries, LoseDelivery(d) PROVE TypeOK'
    BY <1>7 DEF LoseDelivery, vars, intakeVars, jobVars, poolVars, MoveTo
<1>8. ASSUME RecoverStaleJobs PROVE TypeOK'
    <2>1. event' \in [Signals -> {"none", "received", "queued", "rejected", "completed", "failed"}]
        BY <1>8 DEF RecoverStaleJobs
    <2>2. jobStatus' \in [Jobs -> {"absent", "queued", "running"} \cup Finished]
        BY <1>8 DEF RecoverStaleJobs
    <2>3. lockStale' \in [Jobs -> BOOLEAN]
        BY <1>8 DEF RecoverStaleJobs
    <2>4. at' = [at EXCEPT ![Loop] = "polling"]
        BY <1>8 DEF RecoverStaleJobs
    <2>5. UNCHANGED <<signal, phase, jobMode, attempts, orders, outcome, holder, batch, pending, view, current>>
        BY <1>8 DEF RecoverStaleJobs, poolVars
    <2> QED
        BY <2>1, <2>2, <2>3, <2>4, <2>5
<1>9. ASSUME ClaimJobs PROVE TypeOK'
    BY <1>9 DEF ClaimJobs, vars, intakeVars, jobVars, poolVars
<1>10. ASSUME JoinBatch PROVE TypeOK'
    BY <1>10 DEF JoinBatch, vars, intakeVars, jobVars, poolVars, BatchSignals
<1>11. ASSUME NextRefresh PROVE TypeOK'
    BY <1>11 DEF NextRefresh, vars, intakeVars, jobVars, poolVars
<1>12. ASSUME NEW j \in Jobs, RefuseRetry(j) PROVE TypeOK'
    BY <1>12 DEF RefuseRetry, vars, intakeVars, jobVars, poolVars
<1>13. ASSUME NEW j \in Jobs, LockUser(j) PROVE TypeOK'
    BY <1>13 DEF LockUser, vars, intakeVars, jobVars, poolVars
<1>14. ASSUME NEW j \in Jobs, DispatchOrder(j) PROVE TypeOK'
    BY <1>14 DEF DispatchOrder, vars, intakeVars, jobVars, poolVars
<1>15. ASSUME NEW j \in Jobs, DispatchNothing(j) PROVE TypeOK'
    BY <1>15 DEF DispatchNothing, vars, intakeVars, jobVars, poolVars
<1>16. ASSUME NEW j \in Jobs, FinishJob(j) PROVE TypeOK'
    BY <1>16 DEF FinishJob, vars, intakeVars, jobVars, poolVars
<1>17. ASSUME NEW j \in Jobs, LockGoesStale(j) PROVE TypeOK'
    BY <1>17 DEF LockGoesStale, vars, intakeVars, jobVars, poolVars
<1>18. ASSUME NEW a \in Actors, RefreshRead(a) PROVE TypeOK'
    <2>1. /\ signal[Subject(a)] \in {"none", "queued", "processing"} \cup Settled
          /\ Verdict(Subject(a)) \in Verdicts
        BY <1>18, SubjectFacts, VerdictFacts DEF RefreshRead
    <2>2. view' \in [Actors -> {None} \cup
                    [loaded : {"none", "queued", "processing"} \cup Settled, verdict : Verdicts]]
        BY <1>18, <2>1 DEF RefreshRead
    <2> QED
        BY <1>18, <2>2 DEF RefreshRead, intakeVars, jobVars
<1>19. ASSUME NEW a \in Actors, RefreshWrite(a) PROVE TypeOK'
    <2>1. view[a].verdict \in {"none", "queued", "processing"} \cup Settled
        BY <1>19 DEF RefreshWrite
    <2>2. signal' \in [Signals -> {"none", "queued", "processing"} \cup Settled]
        BY <1>19, <2>1 DEF RefreshWrite
    <2>3. /\ at' \in [Actors -> {"idle", "start", "locked", "finish", "refresh", "write",
                               "close", "ended", "starting", "polling", "draining", "next"}]
          /\ holder' \in [Users -> Jobs \cup {None}]
        BY <1>19 DEF RefreshWrite, LeaveRefresh, Release
    <2>4. view' \in [Actors -> {None} \cup [loaded : {"none", "queued", "processing"} \cup Settled, verdict : Verdicts]]
        BY <1>19 DEF RefreshWrite, LeaveRefresh
    <2> QED
        BY <1>19, <2>2, <2>3, <2>4 DEF RefreshWrite, jobVars
<1>20. ASSUME NEW a \in Actors, CloseEvent(a) PROVE TypeOK'
    <2>1. event' \in [Signals -> {"none", "received", "queued", "rejected", "completed", "failed"}]
        BY <1>20 DEF CloseEvent, SetEvent
    <2>2. /\ at' \in [Actors -> {"idle", "start", "locked", "finish", "refresh", "write",
                               "close", "ended", "starting", "polling", "draining", "next"}]
          /\ holder' \in [Users -> Jobs \cup {None}]
        BY <1>20 DEF CloseEvent, LeaveRefresh, Release
    <2>3. view' \in [Actors -> {None} \cup [loaded : {"none", "queued", "processing"} \cup Settled, verdict : Verdicts]]
        BY <1>20 DEF CloseEvent, LeaveRefresh
    <2> QED
        BY <1>20, <2>1, <2>2, <2>3 DEF CloseEvent, jobVars
<1>21. ASSUME NEW a \in Actors, DbRaises(a) PROVE TypeOK'
    BY <1>21 DEF DbRaises, vars, intakeVars, jobVars, poolVars, LeaveRefresh, Release
<1>22. ASSUME Crash PROVE TypeOK'
    BY <1>22 DEF Crash, vars, intakeVars, jobVars, poolVars
<1>23. CASE UNCHANGED vars
    BY <1>23 DEF vars, intakeVars, jobVars, poolVars
<1> QED
    BY <1>1, <1>2, <1>3, <1>4, <1>5, <1>6, <1>7, <1>8, <1>9, <1>10, <1>11, <1>12, <1>13, <1>14, <1>15, <1>16, <1>17, <1>18, <1>19, <1>20, <1>21, <1>22, <1>23 DEF Next, Intake, Worker, Thread, Refresh

(* Only the batch in flight has threads, whatever step is taken.           *)
LEMMA PoolStep == IInv /\ [Next]_vars => PoolInv'
<1> SUFFICES ASSUME IInv, [Next]_vars PROVE PoolInv'
    OBVIOUS
<1> USE JobFacts, PipelineAssumption
<1> USE DEF IInv, PoolInv, TypeOK, Finished
<1>1. ASSUME NEW d \in Deliveries, ClaimNonce(d) PROVE PoolInv'
    BY <1>1 DEF ClaimNonce, vars, intakeVars, jobVars, poolVars, MoveTo
<1>2. ASSUME NEW d \in Deliveries, ClaimEvent(d) PROVE PoolInv'
    BY <1>2 DEF ClaimEvent, vars, intakeVars, jobVars, poolVars, MoveTo
<1>3. ASSUME NEW d \in Deliveries, Enqueue(d) PROVE PoolInv'
    <2>1. \A j \in Jobs : jobStatus[j] = "running" => jobStatus'[j] = "running"
        BY <1>3 DEF Enqueue, InsertRows, Unclaimed, FanOutInv
    <2> QED
        BY <1>3, <2>1 DEF Enqueue, poolVars
<1>4. ASSUME NEW d \in Deliveries, EnqueueDuplicate(d) PROVE PoolInv'
    BY <1>4 DEF EnqueueDuplicate, vars, intakeVars, jobVars, poolVars, MoveTo
<1>5. ASSUME NEW d \in Deliveries, MarkRejected(d) PROVE PoolInv'
    BY <1>5 DEF MarkRejected, vars, intakeVars, jobVars, poolVars, MoveTo, SetEvent
<1>6. ASSUME NEW d \in Deliveries, MarkQueued(d) PROVE PoolInv'
    BY <1>6 DEF MarkQueued, vars, intakeVars, jobVars, poolVars, MoveTo, SetEvent
<1>7. ASSUME NEW d \in Deliveries, LoseDelivery(d) PROVE PoolInv'
    BY <1>7 DEF LoseDelivery, vars, intakeVars, jobVars, poolVars, MoveTo
<1>8. ASSUME RecoverStaleJobs PROVE PoolInv'
    BY <1>8 DEF RecoverStaleJobs, vars, intakeVars, jobVars, poolVars, StaleJobs
<1>9. ASSUME ClaimJobs PROVE PoolInv'
    BY <1>9 DEF ClaimJobs, vars, intakeVars, jobVars, poolVars
<1>10. ASSUME JoinBatch PROVE PoolInv'
    BY <1>10 DEF JoinBatch, vars, intakeVars, jobVars, poolVars, BatchSignals
<1>11. ASSUME NextRefresh PROVE PoolInv'
    BY <1>11 DEF NextRefresh, vars, intakeVars, jobVars, poolVars
<1>12. ASSUME NEW j \in Jobs, RefuseRetry(j) PROVE PoolInv'
    BY <1>12 DEF RefuseRetry, vars, intakeVars, jobVars, poolVars
<1>13. ASSUME NEW j \in Jobs, LockUser(j) PROVE PoolInv'
    BY <1>13 DEF LockUser, vars, intakeVars, jobVars, poolVars
<1>14. ASSUME NEW j \in Jobs, DispatchOrder(j) PROVE PoolInv'
    BY <1>14 DEF DispatchOrder, vars, intakeVars, jobVars, poolVars
<1>15. ASSUME NEW j \in Jobs, DispatchNothing(j) PROVE PoolInv'
    BY <1>15 DEF DispatchNothing, vars, intakeVars, jobVars, poolVars
<1>16. ASSUME NEW j \in Jobs, FinishJob(j) PROVE PoolInv'
    BY <1>16 DEF FinishJob, vars, intakeVars, jobVars, poolVars
<1>17. ASSUME NEW j \in Jobs, LockGoesStale(j) PROVE PoolInv'
    BY <1>17 DEF LockGoesStale, vars, intakeVars, jobVars, poolVars
<1>18. ASSUME NEW a \in Actors, RefreshRead(a) PROVE PoolInv'
    BY <1>18 DEF RefreshRead, vars, intakeVars, jobVars, poolVars
<1>19. ASSUME NEW a \in Actors, RefreshWrite(a) PROVE PoolInv'
    BY <1>19 DEF RefreshWrite, vars, intakeVars, jobVars, poolVars, LeaveRefresh, Release
<1>20. ASSUME NEW a \in Actors, CloseEvent(a) PROVE PoolInv'
    BY <1>20 DEF CloseEvent, vars, intakeVars, jobVars, poolVars, SetEvent, LeaveRefresh, Release
<1>21. ASSUME NEW a \in Actors, DbRaises(a) PROVE PoolInv'
    BY <1>21 DEF DbRaises, vars, intakeVars, jobVars, poolVars, LeaveRefresh, Release
<1>22. ASSUME Crash PROVE PoolInv'
    BY <1>22 DEF Crash, vars, intakeVars, jobVars, poolVars
<1>23. CASE UNCHANGED vars
    BY <1>23 DEF vars, intakeVars, jobVars, poolVars
<1> QED
    BY <1>1, <1>2, <1>3, <1>4, <1>5, <1>6, <1>7, <1>8, <1>9, <1>10, <1>11, <1>12, <1>13, <1>14, <1>15, <1>16, <1>17, <1>18, <1>19, <1>20, <1>21, <1>22, <1>23 DEF Next, Intake, Worker, Thread, Refresh

(* No step touches a signal that was not fanned out.                       *)
LEMMA FanOutStep == IInv /\ [Next]_vars => FanOutInv'
<1> SUFFICES ASSUME IInv, [Next]_vars PROVE FanOutInv'
    OBVIOUS
<1> USE JobFacts, PipelineAssumption
<1> USE DEF IInv, FanOutInv, PoolInv, TypeOK, Finished, Subject, Closed
<1>1. ASSUME NEW d \in Deliveries, ClaimNonce(d) PROVE FanOutInv'
    BY <1>1 DEF ClaimNonce, vars, intakeVars, jobVars, poolVars, MoveTo
<1>2. ASSUME NEW d \in Deliveries, ClaimEvent(d) PROVE FanOutInv'
    BY <1>2 DEF ClaimEvent, vars, intakeVars, jobVars, poolVars, MoveTo
<1>3. ASSUME NEW d \in Deliveries, Enqueue(d) PROVE FanOutInv'
    BY <1>3 DEF Enqueue, vars, intakeVars, jobVars, poolVars, MoveTo, InsertRows
<1>4. ASSUME NEW d \in Deliveries, EnqueueDuplicate(d) PROVE FanOutInv'
    BY <1>4 DEF EnqueueDuplicate, vars, intakeVars, jobVars, poolVars, MoveTo
<1>5. ASSUME NEW d \in Deliveries, MarkRejected(d) PROVE FanOutInv'
    BY <1>5 DEF MarkRejected, vars, intakeVars, jobVars, poolVars, MoveTo, SetEvent
<1>6. ASSUME NEW d \in Deliveries, MarkQueued(d) PROVE FanOutInv'
    BY <1>6 DEF MarkQueued, vars, intakeVars, jobVars, poolVars, MoveTo, SetEvent
<1>7. ASSUME NEW d \in Deliveries, LoseDelivery(d) PROVE FanOutInv'
    BY <1>7 DEF LoseDelivery, vars, intakeVars, jobVars, poolVars, MoveTo
<1>8. ASSUME RecoverStaleJobs PROVE FanOutInv'
    BY <1>8 DEF RecoverStaleJobs, vars, intakeVars, jobVars, poolVars, StaleJobs
<1>9. ASSUME ClaimJobs PROVE FanOutInv'
    BY <1>9 DEF ClaimJobs, vars, intakeVars, jobVars, poolVars
<1>10. ASSUME JoinBatch PROVE FanOutInv'
    BY <1>10 DEF JoinBatch, vars, intakeVars, jobVars, poolVars, BatchSignals
<1>11. ASSUME NextRefresh PROVE FanOutInv'
    BY <1>11 DEF NextRefresh, vars, intakeVars, jobVars, poolVars
<1>12. ASSUME NEW j \in Jobs, RefuseRetry(j) PROVE FanOutInv'
    BY <1>12 DEF RefuseRetry, vars, intakeVars, jobVars, poolVars
<1>13. ASSUME NEW j \in Jobs, LockUser(j) PROVE FanOutInv'
    BY <1>13 DEF LockUser, vars, intakeVars, jobVars, poolVars
<1>14. ASSUME NEW j \in Jobs, DispatchOrder(j) PROVE FanOutInv'
    BY <1>14 DEF DispatchOrder, vars, intakeVars, jobVars, poolVars
<1>15. ASSUME NEW j \in Jobs, DispatchNothing(j) PROVE FanOutInv'
    BY <1>15 DEF DispatchNothing, vars, intakeVars, jobVars, poolVars
<1>16. ASSUME NEW j \in Jobs, FinishJob(j) PROVE FanOutInv'
    BY <1>16 DEF FinishJob, vars, intakeVars, jobVars, poolVars
<1>17. ASSUME NEW j \in Jobs, LockGoesStale(j) PROVE FanOutInv'
    BY <1>17 DEF LockGoesStale, vars, intakeVars, jobVars, poolVars
<1>18. ASSUME NEW a \in Actors, RefreshRead(a) PROVE FanOutInv'
    BY <1>18 DEF RefreshRead, vars, intakeVars, jobVars, poolVars
<1>19. ASSUME NEW a \in Actors, RefreshWrite(a) PROVE FanOutInv'
    <2>1. view[a].verdict # "none"
        BY <1>19 DEF RefreshWrite, RollUpInv, Verdicts, Settled
    <2>2. \A s \in Signals : signal'[s] = "none" => signal[s] = "none"
        BY <1>19, <2>1 DEF RefreshWrite
    <2>3. \A s \in Signals : signal[s] # "none" => signal'[s] # "none"
        BY <1>19, <2>1 DEF RefreshWrite
    <2> QED
        BY <1>19, <2>2, <2>3 DEF RefreshWrite, jobVars, LeaveRefresh
<1>20. ASSUME NEW a \in Actors, CloseEvent(a) PROVE FanOutInv'
    BY <1>20 DEF CloseEvent, vars, intakeVars, jobVars, poolVars, SetEvent, LeaveRefresh, Release
<1>21. ASSUME NEW a \in Actors, DbRaises(a) PROVE FanOutInv'
    BY <1>21 DEF DbRaises, vars, intakeVars, jobVars, poolVars, LeaveRefresh, Release
<1>22. ASSUME Crash PROVE FanOutInv'
    BY <1>22 DEF Crash, vars, intakeVars, jobVars, poolVars
<1>23. CASE UNCHANGED vars
    BY <1>23 DEF vars, intakeVars, jobVars, poolVars
<1> QED
    BY <1>1, <1>2, <1>3, <1>4, <1>5, <1>6, <1>7, <1>8, <1>9, <1>10, <1>11, <1>12, <1>13, <1>14, <1>15, <1>16, <1>17, <1>18, <1>19, <1>20, <1>21, <1>22, <1>23 DEF Next, Intake, Worker, Thread, Refresh

(* No step puts a thread with an order behind it on the way to the broker. *)
LEMMA OrderStep == IInv /\ [Next]_vars => OrderInv'
<1> SUFFICES ASSUME IInv, [Next]_vars PROVE OrderInv'
    OBVIOUS
<1> USE JobFacts, PipelineAssumption
<1> USE DEF IInv, OrderInv, FanOutInv, PoolInv, TypeOK, RetryIsRisky
<1>1. ASSUME NEW d \in Deliveries, ClaimNonce(d) PROVE OrderInv'
    BY <1>1 DEF ClaimNonce, vars, intakeVars, jobVars, poolVars, MoveTo
<1>2. ASSUME NEW d \in Deliveries, ClaimEvent(d) PROVE OrderInv'
    BY <1>2 DEF ClaimEvent, vars, intakeVars, jobVars, poolVars, MoveTo
<1>3. ASSUME NEW d \in Deliveries, Enqueue(d) PROVE OrderInv'
    <2>1. \A j \in Jobs : at[j] \in {"start", "locked"} => jobMode'[j] = jobMode[j]
        BY <1>3, EnqueueFacts
    <2> QED
        BY <1>3, <2>1 DEF Enqueue, poolVars
<1>4. ASSUME NEW d \in Deliveries, EnqueueDuplicate(d) PROVE OrderInv'
    BY <1>4 DEF EnqueueDuplicate, vars, intakeVars, jobVars, poolVars, MoveTo
<1>5. ASSUME NEW d \in Deliveries, MarkRejected(d) PROVE OrderInv'
    BY <1>5 DEF MarkRejected, vars, intakeVars, jobVars, poolVars, MoveTo, SetEvent
<1>6. ASSUME NEW d \in Deliveries, MarkQueued(d) PROVE OrderInv'
    BY <1>6 DEF MarkQueued, vars, intakeVars, jobVars, poolVars, MoveTo, SetEvent
<1>7. ASSUME NEW d \in Deliveries, LoseDelivery(d) PROVE OrderInv'
    BY <1>7 DEF LoseDelivery, vars, intakeVars, jobVars, poolVars, MoveTo
<1>8. ASSUME RecoverStaleJobs PROVE OrderInv'
    BY <1>8 DEF RecoverStaleJobs, vars, intakeVars, jobVars, poolVars, StaleJobs
<1>9. ASSUME ClaimJobs PROVE OrderInv'
    BY <1>9 DEF ClaimJobs, vars, intakeVars, jobVars, poolVars
<1>10. ASSUME JoinBatch PROVE OrderInv'
    BY <1>10 DEF JoinBatch, vars, intakeVars, jobVars, poolVars, BatchSignals
<1>11. ASSUME NextRefresh PROVE OrderInv'
    BY <1>11 DEF NextRefresh, vars, intakeVars, jobVars, poolVars
<1>12. ASSUME NEW j \in Jobs, RefuseRetry(j) PROVE OrderInv'
    BY <1>12 DEF RefuseRetry, vars, intakeVars, jobVars, poolVars
<1>13. ASSUME NEW j \in Jobs, LockUser(j) PROVE OrderInv'
    BY <1>13 DEF LockUser, vars, intakeVars, jobVars, poolVars
<1>14. ASSUME NEW j \in Jobs, DispatchOrder(j) PROVE OrderInv'
    BY <1>14 DEF DispatchOrder, vars, intakeVars, jobVars, poolVars
<1>15. ASSUME NEW j \in Jobs, DispatchNothing(j) PROVE OrderInv'
    BY <1>15 DEF DispatchNothing, vars, intakeVars, jobVars, poolVars
<1>16. ASSUME NEW j \in Jobs, FinishJob(j) PROVE OrderInv'
    BY <1>16 DEF FinishJob, vars, intakeVars, jobVars, poolVars
<1>17. ASSUME NEW j \in Jobs, LockGoesStale(j) PROVE OrderInv'
    BY <1>17 DEF LockGoesStale, vars, intakeVars, jobVars, poolVars
<1>18. ASSUME NEW a \in Actors, RefreshRead(a) PROVE OrderInv'
    BY <1>18 DEF RefreshRead, vars, intakeVars, jobVars, poolVars
<1>19. ASSUME NEW a \in Actors, RefreshWrite(a) PROVE OrderInv'
    BY <1>19 DEF RefreshWrite, vars, intakeVars, jobVars, poolVars, LeaveRefresh, Release
<1>20. ASSUME NEW a \in Actors, CloseEvent(a) PROVE OrderInv'
    BY <1>20 DEF CloseEvent, vars, intakeVars, jobVars, poolVars, SetEvent, LeaveRefresh, Release
<1>21. ASSUME NEW a \in Actors, DbRaises(a) PROVE OrderInv'
    BY <1>21 DEF DbRaises, vars, intakeVars, jobVars, poolVars, LeaveRefresh, Release
<1>22. ASSUME Crash PROVE OrderInv'
    BY <1>22 DEF Crash, vars, intakeVars, jobVars, poolVars
<1>23. CASE UNCHANGED vars
    BY <1>23 DEF vars, intakeVars, jobVars, poolVars
<1> QED
    BY <1>1, <1>2, <1>3, <1>4, <1>5, <1>6, <1>7, <1>8, <1>9, <1>10, <1>11, <1>12, <1>13, <1>14, <1>15, <1>16, <1>17, <1>18, <1>19, <1>20, <1>21, <1>22, <1>23 DEF Next, Intake, Worker, Thread, Refresh

(* Claims and recovery keep the attempt counters within their limit.       *)
LEMMA AttemptStep == IInv /\ [Next]_vars => AttemptInv'
<1> SUFFICES ASSUME IInv, [Next]_vars PROVE AttemptInv'
    OBVIOUS
<1> USE JobFacts, PipelineAssumption
<1> USE DEF IInv, AttemptInv, FanOutInv, PoolInv, TypeOK, Finished, Exhausted
<1>1. ASSUME NEW d \in Deliveries, ClaimNonce(d) PROVE AttemptInv'
    BY <1>1 DEF ClaimNonce, vars, intakeVars, jobVars, poolVars, MoveTo
<1>2. ASSUME NEW d \in Deliveries, ClaimEvent(d) PROVE AttemptInv'
    BY <1>2 DEF ClaimEvent, vars, intakeVars, jobVars, poolVars, MoveTo
<1>3. ASSUME NEW d \in Deliveries, Enqueue(d) PROVE AttemptInv'
    <2>1. attempts' = attempts
        BY <1>3 DEF Enqueue
    <2>2. ASSUME NEW j \in Jobs
          PROVE  /\ attempts'[j] <= MaxAttempts
                 /\ jobStatus'[j] = "queued" => attempts'[j] < MaxAttempts
        <3>1. CASE SignalOfJob(j) = SignalOf[d]
            BY <1>3, <2>1, <3>1, EnqueueFacts
        <3>2. CASE SignalOfJob(j) # SignalOf[d]
            BY <1>3, <2>1, <3>2, EnqueueFacts
        <3> QED
            BY <3>1, <3>2
    <2> QED
        BY <2>2
<1>4. ASSUME NEW d \in Deliveries, EnqueueDuplicate(d) PROVE AttemptInv'
    BY <1>4 DEF EnqueueDuplicate, vars, intakeVars, jobVars, poolVars, MoveTo
<1>5. ASSUME NEW d \in Deliveries, MarkRejected(d) PROVE AttemptInv'
    BY <1>5 DEF MarkRejected, vars, intakeVars, jobVars, poolVars, MoveTo, SetEvent
<1>6. ASSUME NEW d \in Deliveries, MarkQueued(d) PROVE AttemptInv'
    BY <1>6 DEF MarkQueued, vars, intakeVars, jobVars, poolVars, MoveTo, SetEvent
<1>7. ASSUME NEW d \in Deliveries, LoseDelivery(d) PROVE AttemptInv'
    BY <1>7 DEF LoseDelivery, vars, intakeVars, jobVars, poolVars, MoveTo
<1>8. ASSUME RecoverStaleJobs PROVE AttemptInv'
    BY <1>8 DEF RecoverStaleJobs, vars, intakeVars, jobVars, poolVars, StaleJobs
<1>9. ASSUME ClaimJobs PROVE AttemptInv'
    BY <1>9 DEF ClaimJobs, vars, intakeVars, jobVars, poolVars
<1>10. ASSUME JoinBatch PROVE AttemptInv'
    BY <1>10 DEF JoinBatch, vars, intakeVars, jobVars, poolVars, BatchSignals
<1>11. ASSUME NextRefresh PROVE AttemptInv'
    BY <1>11 DEF NextRefresh, vars, intakeVars, jobVars, poolVars
<1>12. ASSUME NEW j \in Jobs, RefuseRetry(j) PROVE AttemptInv'
    BY <1>12 DEF RefuseRetry, vars, intakeVars, jobVars, poolVars
<1>13. ASSUME NEW j \in Jobs, LockUser(j) PROVE AttemptInv'
    BY <1>13 DEF LockUser, vars, intakeVars, jobVars, poolVars
<1>14. ASSUME NEW j \in Jobs, DispatchOrder(j) PROVE AttemptInv'
    BY <1>14 DEF DispatchOrder, vars, intakeVars, jobVars, poolVars
<1>15. ASSUME NEW j \in Jobs, DispatchNothing(j) PROVE AttemptInv'
    BY <1>15 DEF DispatchNothing, vars, intakeVars, jobVars, poolVars
<1>16. ASSUME NEW j \in Jobs, FinishJob(j) PROVE AttemptInv'
    BY <1>16 DEF FinishJob, vars, intakeVars, jobVars, poolVars
<1>17. ASSUME NEW j \in Jobs, LockGoesStale(j) PROVE AttemptInv'
    BY <1>17 DEF LockGoesStale, vars, intakeVars, jobVars, poolVars
<1>18. ASSUME NEW a \in Actors, RefreshRead(a) PROVE AttemptInv'
    BY <1>18 DEF RefreshRead, vars, intakeVars, jobVars, poolVars
<1>19. ASSUME NEW a \in Actors, RefreshWrite(a) PROVE AttemptInv'
    BY <1>19 DEF RefreshWrite, vars, intakeVars, jobVars, poolVars, LeaveRefresh, Release
<1>20. ASSUME NEW a \in Actors, CloseEvent(a) PROVE AttemptInv'
    BY <1>20 DEF CloseEvent, vars, intakeVars, jobVars, poolVars, SetEvent, LeaveRefresh, Release
<1>21. ASSUME NEW a \in Actors, DbRaises(a) PROVE AttemptInv'
    BY <1>21 DEF DbRaises, vars, intakeVars, jobVars, poolVars, LeaveRefresh, Release
<1>22. ASSUME Crash PROVE AttemptInv'
    BY <1>22 DEF Crash, vars, intakeVars, jobVars, poolVars
<1>23. CASE UNCHANGED vars
    BY <1>23 DEF vars, intakeVars, jobVars, poolVars
<1> QED
    BY <1>1, <1>2, <1>3, <1>4, <1>5, <1>6, <1>7, <1>8, <1>9, <1>10, <1>11, <1>12, <1>13, <1>14, <1>15, <1>16, <1>17, <1>18, <1>19, <1>20, <1>21, <1>22, <1>23 DEF Next, Intake, Worker, Thread, Refresh

(* A verdict that was read stays true until it is written.                 *)
LEMMA RollUpStep == IInv /\ [Next]_vars => RollUpInv'
<1> SUFFICES ASSUME IInv, [Next]_vars PROVE RollUpInv'
    OBVIOUS
<1> USE JobFacts, PipelineAssumption
<1> USE DEF IInv, RollUpInv, FanOutInv, PoolInv, TypeOK, Done, Clean, Finished, Closed, Subject, Verdicts
<1>1. ASSUME NEW d \in Deliveries, ClaimNonce(d) PROVE RollUpInv'
    BY <1>1 DEF ClaimNonce, vars, intakeVars, jobVars, poolVars, MoveTo
<1>2. ASSUME NEW d \in Deliveries, ClaimEvent(d) PROVE RollUpInv'
    BY <1>2 DEF ClaimEvent, vars, intakeVars, jobVars, poolVars, MoveTo
<1>3. ASSUME NEW d \in Deliveries, Enqueue(d) PROVE RollUpInv'
    <2> DEFINE s == SignalOf[d]
    <2>1. \A t \in Signals : t # s => (Done(t)' <=> Done(t)) /\ (Clean(t)' <=> Clean(t))
        BY <1>3, EnqueueFacts
    <2>2. \A b \in Actors : at[b] \in {"write", "close"} => Subject(b) \in Signals /\ Subject(b) # s
        BY <1>3, SubjectFacts, EnqueueFacts DEF FanOutInv
    <2>3. signal'[s] \in Settled => Done(s)'
        BY <1>3, EnqueueFacts
    <2>4. event[s] \notin Closed
        BY <1>3, EnqueueFacts DEF FanOutInv
    <2>5. UNCHANGED <<event, at, view, current>>
        BY <1>3 DEF Enqueue, poolVars
    <2>6. \A b \in Actors : Subject(b)' = Subject(b)
        BY <2>5
    <2> HIDE DEF Done, Clean, Subject, Closed
    <2> QED
        BY <1>3, <2>1, <2>2, <2>3, <2>4, <2>5, <2>6, EnqueueFacts
<1>4. ASSUME NEW d \in Deliveries, EnqueueDuplicate(d) PROVE RollUpInv'
    BY <1>4 DEF EnqueueDuplicate, vars, intakeVars, jobVars, poolVars, MoveTo
<1>5. ASSUME NEW d \in Deliveries, MarkRejected(d) PROVE RollUpInv'
    BY <1>5 DEF MarkRejected, vars, intakeVars, jobVars, poolVars, MoveTo, SetEvent
<1>6. ASSUME NEW d \in Deliveries, MarkQueued(d) PROVE RollUpInv'
    BY <1>6 DEF MarkQueued, vars, intakeVars, jobVars, poolVars, MoveTo, SetEvent
<1>7. ASSUME NEW d \in Deliveries, LoseDelivery(d) PROVE RollUpInv'
    BY <1>7 DEF LoseDelivery, vars, intakeVars, jobVars, poolVars, MoveTo
<1>8. ASSUME RecoverStaleJobs PROVE RollUpInv'
    BY <1>8 DEF RecoverStaleJobs, vars, intakeVars, jobVars, poolVars, StaleJobs
<1>9. ASSUME ClaimJobs PROVE RollUpInv'
    BY <1>9 DEF ClaimJobs, vars, intakeVars, jobVars, poolVars
<1>10. ASSUME JoinBatch PROVE RollUpInv'
    BY <1>10 DEF JoinBatch, vars, intakeVars, jobVars, poolVars, BatchSignals
<1>11. ASSUME NextRefresh PROVE RollUpInv'
    BY <1>11 DEF NextRefresh, vars, intakeVars, jobVars, poolVars
<1>12. ASSUME NEW j \in Jobs, RefuseRetry(j) PROVE RollUpInv'
    BY <1>12 DEF RefuseRetry, vars, intakeVars, jobVars, poolVars
<1>13. ASSUME NEW j \in Jobs, LockUser(j) PROVE RollUpInv'
    BY <1>13 DEF LockUser, vars, intakeVars, jobVars, poolVars
<1>14. ASSUME NEW j \in Jobs, DispatchOrder(j) PROVE RollUpInv'
    BY <1>14 DEF DispatchOrder, vars, intakeVars, jobVars, poolVars
<1>15. ASSUME NEW j \in Jobs, DispatchNothing(j) PROVE RollUpInv'
    BY <1>15 DEF DispatchNothing, vars, intakeVars, jobVars, poolVars
<1>16. ASSUME NEW j \in Jobs, FinishJob(j) PROVE RollUpInv'
    BY <1>16 DEF FinishJob, vars, intakeVars, jobVars, poolVars
<1>17. ASSUME NEW j \in Jobs, LockGoesStale(j) PROVE RollUpInv'
    BY <1>17 DEF LockGoesStale, vars, intakeVars, jobVars, poolVars
<1>18. ASSUME NEW a \in Actors, RefreshRead(a) PROVE RollUpInv'
    <2>1. Subject(a) \in Signals
        BY <1>18, SubjectFacts DEF RefreshRead
    <2>2. UNCHANGED <<jobStatus, signal, event, current>>
        BY <1>18 DEF RefreshRead, intakeVars, jobVars
    <2>3. \A t : (Done(t)' <=> Done(t)) /\ (Clean(t)' <=> Clean(t))
        BY <2>2
    <2>4. \A b \in Actors : Subject(b)' = Subject(b)
        BY <2>2
    <2>5. \A b \in Actors : b # a => at'[b] = at[b] /\ view'[b].verdict = view[b].verdict
        BY <1>18 DEF RefreshRead
    <2>6. at'[a] = "write" /\ view'[a].verdict = Verdict(Subject(a))
        BY <1>18 DEF RefreshRead
    <2> HIDE DEF Done, Clean, Subject, Closed
    <2> QED
        BY <1>18, <2>1, <2>2, <2>3, <2>4, <2>5, <2>6, VerdictFacts
<1>19. ASSUME NEW a \in Actors, RefreshWrite(a) PROVE RollUpInv'
    <2> DEFINE s == Subject(a)
    <2>1. s \in Signals
        BY <1>19, SubjectFacts DEF RefreshWrite
    <2>2. UNCHANGED <<jobStatus, event, current>>
        BY <1>19 DEF RefreshWrite, jobVars
    <2>3. \A t : (Done(t)' <=> Done(t)) /\ (Clean(t)' <=> Clean(t))
        BY <2>2
    <2>4. \A b \in Actors : Subject(b)' = Subject(b)
        BY <2>2
    <2>5. \A b \in Actors : b # a => at'[b] = at[b] /\ view'[b] = view[b]
        BY <1>19 DEF RefreshWrite, LeaveRefresh
    <2>6. at'[a] \in {"write", "close"} =>
            at'[a] = "close" /\ view'[a] = view[a] /\ view[a].verdict \in Settled
        BY <1>19 DEF RefreshWrite, LeaveRefresh
    <2>7. \A t \in Signals : signal'[t] # signal[t] => t = s /\ signal'[t] = view[a].verdict
        BY <1>19 DEF RefreshWrite
    <2>8. at[a] = "write"
        BY <1>19 DEF RefreshWrite
    <2> HIDE DEF Done, Clean, Subject, Closed
    <2> QED
        BY <1>19, <2>1, <2>2, <2>3, <2>4, <2>5, <2>6, <2>7, <2>8
<1>20. ASSUME NEW a \in Actors, CloseEvent(a) PROVE RollUpInv'
    BY <1>20 DEF CloseEvent, vars, intakeVars, jobVars, poolVars, SetEvent, LeaveRefresh, Release
<1>21. ASSUME NEW a \in Actors, DbRaises(a) PROVE RollUpInv'
    <2>1. UNCHANGED <<jobStatus, signal, event, current>>
        BY <1>21 DEF DbRaises, intakeVars, jobVars
    <2>2. \A t : (Done(t)' <=> Done(t)) /\ (Clean(t)' <=> Clean(t))
        BY <2>1
    <2>3. \A b \in Actors : Subject(b)' = Subject(b)
        BY <2>1
    <2>4. \A b \in Actors : at'[b] \in {"write", "close"} => at'[b] = at[b] /\ view'[b] = view[b]
        BY <1>21 DEF DbRaises, LeaveRefresh
    <2> HIDE DEF Done, Clean, Subject, Closed
    <2> QED
        BY <2>1, <2>2, <2>3, <2>4
<1>22. ASSUME Crash PROVE RollUpInv'
    BY <1>22 DEF Crash, vars, intakeVars, jobVars, poolVars
<1>23. CASE UNCHANGED vars
    BY <1>23 DEF vars, intakeVars, jobVars, poolVars
<1> QED
    BY <1>1, <1>2, <1>3, <1>4, <1>5, <1>6, <1>7, <1>8, <1>9, <1>10, <1>11, <1>12, <1>13, <1>14, <1>15, <1>16, <1>17, <1>18, <1>19, <1>20, <1>21, <1>22, <1>23 DEF Next, Intake, Worker, Thread, Refresh

(* The databases start empty and the engine starts idle.                    *)
LEMMA InitIInv == Init => IInv
<1> SUFFICES ASSUME Init PROVE IInv
    OBVIOUS
<1> USE JobFacts, PipelineAssumption
<1>1. TypeOK
    BY DEF Init, TypeOK
<1>2. PoolInv /\ FanOutInv
    BY DEF Init, PoolInv, FanOutInv, Closed
<1>3. OrderInv /\ AttemptInv
    BY DEF Init, OrderInv, AttemptInv
<1>4. RollUpInv
    BY DEF Init, RollUpInv, Closed, Settled
<1> QED
    BY <1>1, <1>2, <1>3, <1>4 DEF IInv

(* The invariant is inductive: every step of either process keeps it.       *)
THEOREM Inductive == Spec => []IInv
<1>1. IInv /\ [Next]_vars => IInv'
    BY TypeStep, PoolStep, FanOutStep, OrderStep, AttemptStep, RollUpStep DEF IInv
<1> QED
    BY InitIInv, <1>1, PTL DEF Spec

(* Every variable keeps the type of its column or program point.            *)
THEOREM TypeCorrect == Spec => []TypeOK
<1>1. IInv => TypeOK
    BY DEF IInv
<1> QED
    BY Inductive, <1>1, PTL

(* However an alert is delivered, whatever crashes and however often a job  *)
(* is recovered, no subscriber gets a second order for it.                  *)
THEOREM OrderedAtMostOnce == Spec => []AtMostOneOrder
<1>1. IInv => AtMostOneOrder
    BY DEF IInv, OrderInv, AtMostOneOrder
<1> QED
    BY Inductive, <1>1, PTL

(* Recovery and claims together never exceed max_attempts.                  *)
THEOREM RecoveryBounded == Spec => []AttemptsBounded
<1>1. IInv => AttemptsBounded
    BY DEF IInv, AttemptInv, AttemptsBounded
<1> QED
    BY Inductive, <1>1, PTL

(* A settled signal row has no job left that could still run.               *)
THEOREM SettledTruthful == Spec => []SettledMeansDone
<1>1. IInv => SettledMeansDone
    BY DEF IInv, RollUpInv, SettledMeansDone, Done, JobsOf
<1> QED
    BY Inductive, <1>1, PTL

(* A closed webhook event says "completed" exactly when every job did.      *)
THEOREM EventsTruthful == Spec => []ClosedEventTruthful
<1>1. IInv => ClosedEventTruthful
    BY DEF IInv, RollUpInv, ClosedEventTruthful, Done, Clean, JobsOf
<1> QED
    BY Inductive, <1>1, PTL

(* No step takes a final status away from a job.                            *)
VerdictKept == \A j \in Jobs : jobStatus[j] \in Finished => jobStatus'[j] = jobStatus[j]

(* No step of either process rewrites a final job status.                  *)
LEMMA VerdictStep == IInv /\ [Next]_vars => VerdictKept
<1> SUFFICES ASSUME IInv, [Next]_vars PROVE VerdictKept
    OBVIOUS
<1> USE JobFacts, PipelineAssumption
<1> USE DEF IInv, VerdictKept, TypeOK, PoolInv, Finished
<1>1. ASSUME NEW d \in Deliveries, ClaimNonce(d) PROVE VerdictKept
    BY <1>1 DEF ClaimNonce, vars, intakeVars, jobVars, poolVars, MoveTo
<1>2. ASSUME NEW d \in Deliveries, ClaimEvent(d) PROVE VerdictKept
    BY <1>2 DEF ClaimEvent, vars, intakeVars, jobVars, poolVars, MoveTo
<1>3. ASSUME NEW d \in Deliveries, Enqueue(d) PROVE VerdictKept
    BY <1>3, EnqueueFacts DEF FanOutInv
<1>4. ASSUME NEW d \in Deliveries, EnqueueDuplicate(d) PROVE VerdictKept
    BY <1>4 DEF EnqueueDuplicate, vars, intakeVars, jobVars, poolVars, MoveTo
<1>5. ASSUME NEW d \in Deliveries, MarkRejected(d) PROVE VerdictKept
    BY <1>5 DEF MarkRejected, vars, intakeVars, jobVars, poolVars, MoveTo, SetEvent
<1>6. ASSUME NEW d \in Deliveries, MarkQueued(d) PROVE VerdictKept
    BY <1>6 DEF MarkQueued, vars, intakeVars, jobVars, poolVars, MoveTo, SetEvent
<1>7. ASSUME NEW d \in Deliveries, LoseDelivery(d) PROVE VerdictKept
    BY <1>7 DEF LoseDelivery, vars, intakeVars, jobVars, poolVars, MoveTo
<1>8. ASSUME RecoverStaleJobs PROVE VerdictKept
    BY <1>8 DEF RecoverStaleJobs, vars, intakeVars, jobVars, poolVars, StaleJobs
<1>9. ASSUME ClaimJobs PROVE VerdictKept
    BY <1>9 DEF ClaimJobs, vars, intakeVars, jobVars, poolVars
<1>10. ASSUME JoinBatch PROVE VerdictKept
    BY <1>10 DEF JoinBatch, vars, intakeVars, jobVars, poolVars, BatchSignals
<1>11. ASSUME NextRefresh PROVE VerdictKept
    BY <1>11 DEF NextRefresh, vars, intakeVars, jobVars, poolVars
<1>12. ASSUME NEW j \in Jobs, RefuseRetry(j) PROVE VerdictKept
    BY <1>12 DEF RefuseRetry, vars, intakeVars, jobVars, poolVars
<1>13. ASSUME NEW j \in Jobs, LockUser(j) PROVE VerdictKept
    BY <1>13 DEF LockUser, vars, intakeVars, jobVars, poolVars
<1>14. ASSUME NEW j \in Jobs, DispatchOrder(j) PROVE VerdictKept
    BY <1>14 DEF DispatchOrder, vars, intakeVars, jobVars, poolVars
<1>15. ASSUME NEW j \in Jobs, DispatchNothing(j) PROVE VerdictKept
    BY <1>15 DEF DispatchNothing, vars, intakeVars, jobVars, poolVars
<1>16. ASSUME NEW j \in Jobs, FinishJob(j) PROVE VerdictKept
    BY <1>16 DEF FinishJob, vars, intakeVars, jobVars, poolVars
<1>17. ASSUME NEW j \in Jobs, LockGoesStale(j) PROVE VerdictKept
    BY <1>17 DEF LockGoesStale, vars, intakeVars, jobVars, poolVars
<1>18. ASSUME NEW a \in Actors, RefreshRead(a) PROVE VerdictKept
    BY <1>18 DEF RefreshRead, vars, intakeVars, jobVars, poolVars
<1>19. ASSUME NEW a \in Actors, RefreshWrite(a) PROVE VerdictKept
    BY <1>19 DEF RefreshWrite, vars, intakeVars, jobVars, poolVars, LeaveRefresh, Release
<1>20. ASSUME NEW a \in Actors, CloseEvent(a) PROVE VerdictKept
    BY <1>20 DEF CloseEvent, vars, intakeVars, jobVars, poolVars, SetEvent, LeaveRefresh, Release
<1>21. ASSUME NEW a \in Actors, DbRaises(a) PROVE VerdictKept
    BY <1>21 DEF DbRaises, vars, intakeVars, jobVars, poolVars, LeaveRefresh, Release
<1>22. ASSUME Crash PROVE VerdictKept
    BY <1>22 DEF Crash, vars, intakeVars, jobVars, poolVars
<1>23. CASE UNCHANGED vars
    BY <1>23 DEF vars, intakeVars, jobVars, poolVars
<1> QED
    BY <1>1, <1>2, <1>3, <1>4, <1>5, <1>6, <1>7, <1>8, <1>9, <1>10, <1>11, <1>12, <1>13, <1>14, <1>15, <1>16, <1>17, <1>18, <1>19, <1>20, <1>21, <1>22, <1>23 DEF Next, Intake, Worker, Thread, Refresh

(* A late worker and the recovery of stale jobs never overwrite a verdict.  *)
THEOREM VerdictsStable == Spec => JobVerdictStable
<1>1. IInv /\ [Next]_vars => [VerdictKept]_vars
    BY VerdictStep
<1>2. Spec => [][VerdictKept]_vars
    BY Inductive, <1>1, PTL DEF Spec
<1> QED
    BY <1>2 DEF JobVerdictStable, VerdictKept

-----------------------------------------------------------------------------
(* The refinement: the pipeline implements OncePerSubscriber.               *)

Accepted == {s \in Signals : signal[s] # "none"}
Progress ==
    [j \in Signals \X Users |->
        CASE jobStatus[j] = "absent" -> "none"
          [] jobStatus[j] \in {"queued", "running"} -> "open"
          [] OTHER -> "resolved"]

PromiseStep ==
    \/ \E s \in Signals : Promise!FanOut(s)
    \/ \E j \in Promise!PromiseJobs : Promise!Execute(j)
    \/ \E R \in SUBSET Promise!PromiseJobs : Promise!Resolve(R)
    \/ UNCHANGED <<Accepted, Progress, orders>>

(* The mapped state, job by job.                                            *)
LEMMA ProgressFacts ==
    /\ \A j \in Jobs : Progress[j] =
          IF jobStatus[j] = "absent" THEN "none"
          ELSE IF jobStatus[j] \in {"queued", "running"} THEN "open" ELSE "resolved"
    /\ \A j \in Jobs : Progress'[j] =
          IF jobStatus'[j] = "absent" THEN "none"
          ELSE IF jobStatus'[j] \in {"queued", "running"} THEN "open" ELSE "resolved"
    /\ Progress = [j \in Jobs |-> Progress[j]]
    /\ Progress' = [j \in Jobs |-> Progress'[j]]
    BY DEF Progress, Jobs

(* A step that only moves jobs among the open statuses, or resolves some,   *)
(* is a Resolve of the promise.                                             *)
LEMMA ResolveStep ==
    ASSUME IInv, UNCHANGED <<orders, Accepted>>,
           NEW R \in SUBSET Jobs,
           \A j \in R : jobStatus[j] \in {"queued", "running"} /\ jobStatus'[j] \in Finished,
           \A j \in Jobs \ R : \/ jobStatus'[j] = jobStatus[j]
                               \/ {jobStatus[j], jobStatus'[j]} \subseteq {"queued", "running"}
    PROVE  Promise!Resolve(R)
<1>1. \A j \in R : Progress[j] = "open"
    BY ProgressFacts DEF Finished
<1>2. \A j \in Jobs : Progress'[j] = IF j \in R THEN "resolved" ELSE Progress[j]
    BY ProgressFacts DEF Finished
<1>3. Progress' = [j \in Jobs |-> IF j \in R THEN "resolved" ELSE Progress[j]]
    BY <1>2, ProgressFacts
<1> QED
    BY <1>1, <1>3 DEF Promise!Resolve, Progress, Accepted, Promise!PromiseJobs, Jobs

(* The intake transaction is the promise's fan-out.                         *)
LEMMA FanOutIsOneStep ==
    ASSUME IInv, NEW d \in Deliveries, Enqueue(d)
    PROVE  Promise!FanOut(SignalOf[d])
<1> DEFINE s == SignalOf[d]
<1> USE JobFacts, PipelineAssumption DEF IInv, TypeOK
<1>1. s \in Signals /\ signal[s] = "none" /\ orders' = orders
    BY DEF Enqueue, Unclaimed
<1>2. PICK subscribers \in SUBSET Users :
        \E mode \in [subscribers -> Modes] :
        \E unconfigured \in SUBSET {u \in subscribers : mode[u] \in MoneyModes} :
          InsertRows(s, subscribers, mode, unconfigured)
    BY DEF Enqueue
<1>3. PICK mode, unconfigured :
        unconfigured \in SUBSET subscribers /\ InsertRows(s, subscribers, mode, unconfigured)
    BY <1>2
<1>4. Accepted' = Accepted \cup {s}
    <2>1. signal'[s] # "none" /\ \A t \in Signals : t # s => signal'[t] = signal[t]
        BY <1>1, <1>3 DEF InsertRows
    <2> QED
        BY <1>1, <2>1 DEF Accepted
<1>5. \A j \in Jobs : SignalOfJob(j) = s => jobStatus[j] = "absent"
    BY <1>1 DEF FanOutInv
<1>6. ASSUME NEW j \in Jobs
      PROVE  Progress'[j] =
                IF SignalOfJob(j) # s THEN Progress[j]
                ELSE IF UserOfJob(j) \in unconfigured THEN "resolved"
                ELSE IF UserOfJob(j) \in subscribers THEN "open" ELSE "none"
    <2>1. jobStatus'[j] =
            IF SignalOfJob(j) = s /\ UserOfJob(j) \in subscribers
            THEN IF UserOfJob(j) \in unconfigured THEN "failed" ELSE "queued"
            ELSE jobStatus[j]
        BY <1>3 DEF InsertRows
    <2> QED
        BY <2>1, <1>3, <1>5, ProgressFacts
<1>7. Progress' = [j \in Promise!PromiseJobs |->
                    IF j[1] # s THEN Progress[j]
                    ELSE IF j[2] \in unconfigured THEN "resolved"
                    ELSE IF j[2] \in subscribers THEN "open" ELSE "none"]
    BY <1>6, ProgressFacts DEF SignalOfJob, UserOfJob, Jobs, Promise!PromiseJobs
<1>8. s \notin Accepted
    BY <1>1 DEF Accepted
<1>9. \E opened, refused \in SUBSET Users :
        Progress' = [j \in Promise!PromiseJobs |->
                    IF j[1] # s THEN Progress[j]
                    ELSE IF j[2] \in refused THEN "resolved"
                    ELSE IF j[2] \in opened THEN "open" ELSE "none"]
    <2>1. unconfigured \in SUBSET Users
        BY <1>3
    <2> WITNESS subscribers \in SUBSET Users, unconfigured \in SUBSET Users
    <2> QED
        BY <1>7
<1> QED
    BY <1>1, <1>4, <1>8, <1>9 DEF Promise!FanOut, Accepted, Progress

(* An order is sent for an open job that has none.                          *)
LEMMA DispatchExecutes ==
    ASSUME IInv, NEW j \in Jobs, DispatchOrder(j)
    PROVE  Promise!Execute(j)
<1> USE JobFacts, PipelineAssumption DEF IInv, TypeOK
<1>1. jobStatus[j] = "running"
    BY DEF DispatchOrder, PoolInv
<1>2. orders[j] = 0
    BY DEF DispatchOrder, PoolInv, OrderInv, RetryIsRisky
<1>3. orders' = [orders EXCEPT ![j] = 1]
    BY <1>2 DEF DispatchOrder
<1>4. Progress[j] = "open"
    BY <1>1, ProgressFacts
<1>5. UNCHANGED <<Accepted, Progress>>
    BY DEF DispatchOrder, intakeVars, Accepted, Progress
<1> QED
    BY <1>2, <1>3, <1>4, <1>5 DEF Promise!Execute, Accepted, Progress

(* Steps that touch no signal, job or order are invisible to the promise.   *)
LEMMA StutterStep ==
    ASSUME UNCHANGED <<signal, jobStatus, orders>>
    PROVE  PromiseStep
    BY DEF PromiseStep, Accepted, Progress

(* Every step of the pipeline is a step of the promise or a stutter.       *)
LEMMA RefinementStep == IInv /\ [Next]_vars => PromiseStep
<1> SUFFICES ASSUME IInv, [Next]_vars PROVE PromiseStep
    OBVIOUS
<1> USE JobFacts, PipelineAssumption
<1> USE DEF IInv, TypeOK
<1>1. ASSUME NEW d \in Deliveries, ClaimNonce(d) PROVE PromiseStep
    BY <1>1, StutterStep DEF ClaimNonce, intakeVars, jobVars
<1>2. ASSUME NEW d \in Deliveries, ClaimEvent(d) PROVE PromiseStep
    BY <1>2, StutterStep DEF ClaimEvent, intakeVars, jobVars
<1>3. ASSUME NEW d \in Deliveries, Enqueue(d) PROVE PromiseStep
    <2>1. SignalOf[d] \in Signals
        BY <1>3
    <2> QED
        BY <1>3, <2>1, FanOutIsOneStep DEF PromiseStep
<1>4. ASSUME NEW d \in Deliveries, EnqueueDuplicate(d) PROVE PromiseStep
    BY <1>4, StutterStep DEF EnqueueDuplicate, intakeVars, jobVars
<1>5. ASSUME NEW d \in Deliveries, MarkRejected(d) PROVE PromiseStep
    BY <1>5, StutterStep DEF MarkRejected, intakeVars, jobVars
<1>6. ASSUME NEW d \in Deliveries, MarkQueued(d) PROVE PromiseStep
    BY <1>6, StutterStep DEF MarkQueued, intakeVars, jobVars
<1>7. ASSUME NEW d \in Deliveries, LoseDelivery(d) PROVE PromiseStep
    BY <1>7, StutterStep DEF LoseDelivery, intakeVars, jobVars
<1>8. ASSUME RecoverStaleJobs PROVE PromiseStep
    <2>1. UNCHANGED <<orders, Accepted>>
        BY <1>8 DEF RecoverStaleJobs, Accepted
    <2>2. \A j \in Jobs : jobStatus'[j] = IF j \in StaleJobs
                                         THEN IF Exhausted(j) THEN "failed" ELSE "queued"
                                         ELSE jobStatus[j]
        BY <1>8 DEF RecoverStaleJobs, StaleJobs
    <2>3. PICK R : R = {j \in StaleJobs : Exhausted(j)}
        OBVIOUS
    <2>4. R \in SUBSET Jobs /\ \A j \in StaleJobs : jobStatus[j] = "running"
        BY <2>3 DEF StaleJobs
    <2>5. /\ \A j \in R : jobStatus[j] \in {"queued", "running"} /\ jobStatus'[j] \in Finished
          /\ \A j \in Jobs \ R : \/ jobStatus'[j] = jobStatus[j]
                                \/ {jobStatus[j], jobStatus'[j]} \subseteq {"queued", "running"}
        BY <2>2, <2>3, <2>4 DEF Finished
    <2>6. Promise!Resolve(R)
        BY <2>1, <2>4, <2>5, ResolveStep
    <2> QED
        BY <2>4, <2>6 DEF PromiseStep, Promise!PromiseJobs, Jobs
<1>9. ASSUME ClaimJobs PROVE PromiseStep
    <2>1. UNCHANGED <<orders, Accepted>>
        BY <1>9 DEF ClaimJobs, intakeVars, Accepted
    <2>2. \A j \in Jobs : \/ jobStatus'[j] = jobStatus[j]
                          \/ {jobStatus[j], jobStatus'[j]} \subseteq {"queued", "running"}
        BY <1>9 DEF ClaimJobs
    <2>3. Promise!Resolve({})
        BY <2>1, <2>2, ResolveStep
    <2> QED
        BY <2>3 DEF PromiseStep, Promise!PromiseJobs
<1>10. ASSUME JoinBatch PROVE PromiseStep
    BY <1>10, StutterStep DEF JoinBatch, intakeVars, jobVars
<1>11. ASSUME NextRefresh PROVE PromiseStep
    BY <1>11, StutterStep DEF NextRefresh, intakeVars, jobVars
<1>12. ASSUME NEW j \in Jobs, RefuseRetry(j) PROVE PromiseStep
    BY <1>12, StutterStep DEF RefuseRetry, intakeVars, jobVars
<1>13. ASSUME NEW j \in Jobs, LockUser(j) PROVE PromiseStep
    BY <1>13, StutterStep DEF LockUser, intakeVars, jobVars
<1>14. ASSUME NEW j \in Jobs, DispatchOrder(j) PROVE PromiseStep
    <2>1. j \in Promise!PromiseJobs
        BY DEF Promise!PromiseJobs, Jobs
    <2> QED
        BY <1>14, <2>1, DispatchExecutes DEF PromiseStep
<1>15. ASSUME NEW j \in Jobs, DispatchNothing(j) PROVE PromiseStep
    BY <1>15, StutterStep DEF DispatchNothing, intakeVars, jobVars
<1>16. ASSUME NEW j \in Jobs, FinishJob(j) PROVE PromiseStep
    <2>1. UNCHANGED <<orders, Accepted>>
        BY <1>16 DEF FinishJob, intakeVars, Accepted
    <2>2. jobStatus[j] = "running" /\ jobStatus'[j] \in Finished
        BY <1>16 DEF FinishJob, PoolInv
    <2>3. \A k \in Jobs \ {j} : jobStatus'[k] = jobStatus[k]
        BY <1>16 DEF FinishJob
    <2>4. Promise!Resolve({j})
        BY <2>1, <2>2, <2>3, ResolveStep
    <2> QED
        BY <2>4 DEF PromiseStep, Promise!PromiseJobs, Jobs
<1>17. ASSUME NEW j \in Jobs, LockGoesStale(j) PROVE PromiseStep
    BY <1>17, StutterStep DEF LockGoesStale, intakeVars, jobVars
<1>18. ASSUME NEW a \in Actors, RefreshRead(a) PROVE PromiseStep
    BY <1>18, StutterStep DEF RefreshRead, intakeVars, jobVars
<1>19. ASSUME NEW a \in Actors, RefreshWrite(a) PROVE PromiseStep
    <2>1. view[a].verdict # "none"
        BY <1>19 DEF RefreshWrite, RollUpInv, Verdicts, Settled
    <2>2. Subject(a) \in Signals /\ signal[Subject(a)] # "none"
        BY <1>19, SubjectFacts DEF RefreshWrite
    <2>3. \A s \in Signals : (signal'[s] # "none") <=> (signal[s] # "none")
        BY <1>19, <2>1, <2>2 DEF RefreshWrite
    <2>4. UNCHANGED <<Accepted, Progress, orders>>
        BY <1>19, <2>3 DEF RefreshWrite, jobVars, Accepted, Progress
    <2> QED
        BY <2>4 DEF PromiseStep
<1>20. ASSUME NEW a \in Actors, CloseEvent(a) PROVE PromiseStep
    BY <1>20, StutterStep DEF CloseEvent, intakeVars, jobVars
<1>21. ASSUME NEW a \in Actors, DbRaises(a) PROVE PromiseStep
    BY <1>21, StutterStep DEF DbRaises, intakeVars, jobVars
<1>22. ASSUME Crash PROVE PromiseStep
    BY <1>22, StutterStep DEF Crash, intakeVars, jobVars
<1>23. CASE UNCHANGED vars
    BY <1>23, StutterStep DEF vars, intakeVars, jobVars
<1> QED
    BY <1>1, <1>2, <1>3, <1>4, <1>5, <1>6, <1>7, <1>8, <1>9, <1>10, <1>11, <1>12, <1>13, <1>14, <1>15, <1>16, <1>17, <1>18, <1>19, <1>20, <1>21, <1>22, <1>23 DEF Next, Intake, Worker, Thread, Refresh

(* Every behaviour of the pipeline keeps the once-per-subscriber promise.   *)
THEOREM Refinement == Spec => ImplementsPromise
<1>1. Init => Promise!PromiseInit
    BY JobFacts DEF Init, Promise!PromiseInit, Promise!PromiseJobs, Jobs
<1>2. IInv /\ [Next]_vars => [Promise!PromiseNext]_(Promise!promiseVars)
    BY RefinementStep DEF PromiseStep, Promise!PromiseNext, Promise!promiseVars, Accepted, Progress
<1>3. Spec => Promise!PromiseSpec
    BY Inductive, <1>1, <1>2, PTL DEF Spec, Promise!PromiseSpec
<1> QED
    BY <1>3 DEF ImplementsPromise

=============================================================================
