------------------------- MODULE OncePerSubscriber --------------------------
(***************************************************************************)
(* What the broadcast pipeline promises, without intake, threads, batches  *)
(* or crashes: an alert is fanned out at most once, to a set of subscribers*)
(* fixed at that moment; each subscriber's job is executed at most once,   *)
(* only while it is open, and once it is resolved it stays resolved.       *)
(***************************************************************************)
EXTENDS Naturals

CONSTANTS Signals, Users

VARIABLES
    accepted,   \* signals that have been fanned out
    job,        \* "none", "open" or "resolved" for each signal and user
    executed    \* how often the signal was executed for the user

promiseVars == <<accepted, job, executed>>

PromiseJobs == Signals \X Users

PromiseInit ==
    /\ accepted = {}
    /\ job = [j \in PromiseJobs |-> "none"]
    /\ executed = [j \in PromiseJobs |-> 0]

\* Fan-out is one step, and refused jobs are resolved from the start.
FanOut(s) ==
    /\ s \notin accepted
    /\ accepted' = accepted \cup {s}
    /\ \E opened, refused \in SUBSET Users :
          job' = [j \in PromiseJobs |->
                    IF j[1] # s THEN job[j]
                    ELSE IF j[2] \in refused THEN "resolved"
                    ELSE IF j[2] \in opened THEN "open" ELSE "none"]
    /\ UNCHANGED executed

Execute(j) ==
    /\ job[j] = "open"
    /\ executed[j] = 0
    /\ executed' = [executed EXCEPT ![j] = 1]
    /\ UNCHANGED <<accepted, job>>

\* Several jobs may be resolved by one step (recovery of stale jobs).
Resolve(R) ==
    /\ \A j \in R : job[j] = "open"
    /\ job' = [j \in PromiseJobs |-> IF j \in R THEN "resolved" ELSE job[j]]
    /\ UNCHANGED <<accepted, executed>>

PromiseNext ==
    \/ \E s \in Signals : FanOut(s)
    \/ \E j \in PromiseJobs : Execute(j)
    \/ \E R \in SUBSET PromiseJobs : Resolve(R)

PromiseSpec == PromiseInit /\ [][PromiseNext]_promiseVars

=============================================================================
