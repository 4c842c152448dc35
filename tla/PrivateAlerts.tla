--------------------------- MODULE PrivateAlerts ---------------------------
(* The private webhook of one strategy instance: alerts of TradingView are
   authenticated, claimed and stored (private_webhook_service.py), and the
   worker executes them (private_webhook_execution.py) on the owner's engine
   (EngineRuntime).

   An alert has one signal_id; its deliveries may carry different bodies.  The
   life of the job's row in the queue is the one of StrategyPipeline. *)
EXTENDS EngineRuntime

CONSTANTS Alerts, Deliveries,
          AlertOf,           \* of a delivery: its signal_id
          Carries,           \* Carries[d]: the actions d may ask for
          MaxLost            \* bound: deliveries that break off

Bodies == {"entry", "exit", "hold"}

ASSUME AlertAssumption ==
  /\ AlertOf \in [Deliveries -> Alerts]
  /\ Carries \in [Deliveries -> SUBSET Bodies]
  /\ MaxLost \in Nat
  /\ None \notin Alerts

VARIABLES event,   \* webhook_events: the body an alert was claimed with
          row,     \* strategy_signals and its job
          body,    \* what a delivery asks for
          doing,   \* where a delivery is
          auth,    \* the mode of the instance it has read
          answer,  \* what TradingView was told
          current, \* the alert whose job the worker executes
          lost
alertVars == <<event, row, body, doing, auth, answer, current, lost>>
intakeVars == <<body, doing, auth, answer, lost>>
vars == <<runtimeVars, alertVars>>

----------------------------------------------------------------------------
JobStatus == {"completed", "queued", "running"}
Row == [body: Bodies, mode: Accounts, status: JobStatus]
NoRow == [body |-> "none", mode |-> "none", status |-> "none"]

Answered(d, what) == /\ answer' = [answer EXCEPT ![d] = what]
                     /\ doing' = [doing EXCEPT ![d] = "answered"]
                     /\ auth' = [auth EXCEPT ![d] = "none"]
Does(d, place) == /\ doing' = [doing EXCEPT ![d] = place]
                  /\ UNCHANGED <<answer, auth>>

\* authenticate_credential reads the instance without a lock; a converted
\* strategy that is not verified yet may accept a HOLD.
Authenticate(d) ==
  /\ doing[d] = "new"
  /\ \E b \in Carries[d] : body' = [body EXCEPT ![d] = b]
  /\ \/ /\ inst.status \in {"active", "paused"} \/ inst.verifying \/ body'[d] = "hold"
        /\ inst.verifying => inst.mode = "paper"
        /\ doing' = [doing EXCEPT ![d] = "claiming"]
        /\ auth' = [auth EXCEPT ![d] = inst.mode]
        /\ UNCHANGED answer
     \/ /\ inst.status \notin {"active", "paused"} /\ ~inst.verifying
        /\ Answered(d, "refused")
  /\ UNCHANGED <<event, row, current, lost, runtimeVars>>

\* Mutant: whatever was claimed is taken for stored.
ClaimTrusting(d) ==
  /\ doing[d] = "claiming"
  /\ LET a == AlertOf[d] IN
     \/ /\ event[a] = "none"
        /\ event' = [event EXCEPT ![a] = body[d]]
        /\ Does(d, "storing")
     \/ /\ event[a] = body[d]
        /\ Answered(d, "duplicate")
        /\ UNCHANGED event
     \/ /\ event[a] \notin {"none", body[d]}
        /\ Answered(d, "conflict")
        /\ UNCHANGED event
  /\ UNCHANGED <<row, body, current, lost, runtimeVars>>

\* The unique constraint decides; a claim whose delivery broke off is taken up.
Claim(d) ==
  /\ doing[d] = "claiming"
  /\ LET a == AlertOf[d] IN
     \/ /\ event[a] = "none"
        /\ event' = [event EXCEPT ![a] = body[d]]
        /\ Does(d, "storing")
     \/ /\ event[a] = body[d]
        /\ IF row[a] # NoRow THEN Answered(d, "duplicate") ELSE Does(d, "storing")
        /\ UNCHANGED event
     \/ /\ event[a] \notin {"none", body[d]}
        /\ Answered(d, "conflict")
        /\ UNCHANGED event
  /\ UNCHANGED <<row, body, current, lost, runtimeVars>>

\* Without a configuration for its mode an alert is refused and nothing stored.
Store(d) ==
  /\ doing[d] = "storing"
  /\ LET a == AlertOf[d] IN
     \/ /\ row[a] = NoRow
        /\ row' = [row EXCEPT ![a] =
                     [body |-> body[d], mode |-> auth[d],
                      status |-> IF body[d] = "hold" THEN "completed" ELSE "queued"]]
        /\ Answered(d, "accepted")
     \/ row[a] # NoRow /\ Answered(d, "duplicate") /\ UNCHANGED row
     \/ body[d] # "hold" /\ Answered(d, "blocked") /\ UNCHANGED row
  /\ UNCHANGED <<event, body, current, lost, runtimeVars>>

\* The process dies or a statement raises (before the claim, nothing is lost).
BreakOff(d) ==
  /\ doing[d] = "storing"
  /\ lost < MaxLost
  /\ lost' = lost + 1
  /\ Answered(d, "none")
  /\ UNCHANGED <<event, row, body, current, runtimeVars>>

----------------------------------------------------------------------------
(* The worker. *)

\* Mutant: any row that is not at work is taken up.
StartJobAny ==
  /\ at[Worker] = "idle"
  /\ \E a \in Alerts :
       /\ row[a].status # "running"
       /\ row' = [row EXCEPT ![a].status = "running"]
       /\ current' = a
       /\ job' = [action |-> row[a].body, mode |-> row[a].mode]
  /\ Goes(Worker, "revalidate")
  /\ UNCHANGED <<fileVars, request, owner, startVars, routeVars, instVars, locked, event, intakeVars>>

StartJob ==
  /\ at[Worker] = "idle"
  /\ \E a \in Alerts :
       /\ row[a].status = "queued"
       /\ row' = [row EXCEPT ![a].status = "running"]
       /\ current' = a
       /\ job' = [action |-> row[a].body, mode |-> row[a].mode]
  /\ Goes(Worker, "revalidate")
  /\ UNCHANGED <<fileVars, request, owner, startVars, routeVars, instVars, locked, event, intakeVars>>

Eligible == /\ inst.status = "paused" => job.action # "entry"
            /\ inst.status \in {"active", "paused"} \/ inst.verifying
            /\ inst.verifying => inst.mode = "paper"
            /\ inst.mode = job.mode

\* Mutant: the row is read, and not kept until the order is out.
RevalidateUnlocked ==
  /\ at[Worker] = "revalidate"
  /\ \/ Eligible /\ Goes(Worker, "enrich")
     \/ Goes(Worker, "routed")
  /\ UNCHANGED <<fileVars, request, owner, startVars, routeVars, instVars, locked, job, alertVars>>

\* _revalidate_instance keeps the row for update until the job is dispatched;
\* the switch for live execution, entitlements and risk may refuse as well.
Revalidate ==
  /\ at[Worker] = "revalidate"
  /\ \/ Eligible /\ locked' = TRUE /\ Goes(Worker, "enrich")
     \/ UNCHANGED locked /\ Goes(Worker, "routed")
  /\ UNCHANGED <<fileVars, request, owner, startVars, routeVars, instVars, job, alertVars>>

\* The position is looked at before the signal is routed: nothing to exit, or
\* an entry of the side that is open, is a no-op; so is a missing contract.
Enrich ==
  /\ at[Worker] = "enrich"
  /\ \/ (job.action = "exit" => Open) /\ Goes(Worker, "signal")
     \/ Goes(Worker, "routed")
  /\ UNCHANGED <<fileVars, request, owner, startVars, routeVars, instVars, locked, job, alertVars>>

CompleteJob ==
  /\ at[Worker] = "routed"
  /\ locked' = FALSE
  /\ row' = [row EXCEPT ![current].status = "completed"]
  /\ Goes(Worker, "idle")
  /\ current' = None /\ job' = NoSignal
  /\ UNCHANGED <<fileVars, request, owner, startVars, routeVars, instVars, event, intakeVars>>

Init ==
  /\ RuntimeInit
  /\ event = [a \in Alerts |-> "none"]
  /\ row = [a \in Alerts |-> NoRow]
  /\ body = [d \in Deliveries |-> "none"]
  /\ doing = [d \in Deliveries |-> "new"]
  /\ auth = [d \in Deliveries |-> "none"]
  /\ answer = [d \in Deliveries |-> "none"]
  /\ current = None
  /\ lost = 0

Deliver(d) == Authenticate(d) \/ Claim(d) \/ Store(d) \/ BreakOff(d)
Work == \/ StartJob \/ Revalidate \/ Enrich \/ CompleteJob
        \/ Route(Worker) /\ UNCHANGED alertVars
Serve(c) == (Handle(c) \/ Route(c)) /\ UNCHANGED alertVars

Next ==
  \/ \E d \in Deliveries : Deliver(d)
  \/ Work
  \/ \E c \in Callers : Serve(c)
  \/ Manage /\ UNCHANGED alertVars

Spec == Init /\ [][Next]_vars

----------------------------------------------------------------------------
TypeOK ==
  /\ RuntimeTypeOK
  /\ event \in [Alerts -> Bodies \cup {"none"}]
  /\ row \in [Alerts -> Row \cup {NoRow}]
  /\ body \in [Deliveries -> Bodies \cup {"none"}]
  /\ doing \in [Deliveries -> {"new", "claiming", "storing", "answered"}]
  /\ auth \in [Deliveries -> Accounts \cup {"none"}]
  /\ answer \in [Deliveries -> {"none", "refused", "accepted", "duplicate", "blocked", "conflict"}]
  /\ current \in Alerts \cup {None}
  /\ lost \in 0..MaxLost

(* Whoever sends an alert and is told that it was accepted, or is a duplicate,
   has its very body stored: a delivery that broke off after the claim is made
   good by the next one, and another body never passes for a repetition. *)
AcceptedIsKept ==
  \A d \in Deliveries : answer[d] \in {"accepted", "duplicate"} =>
    row[AlertOf[d]] # NoRow /\ row[AlertOf[d]].body = body[d]

(* An alert enters a position only while its instance is active, or is being
   verified and not paused, however late its job was accepted: a pause that has
   been answered is not overtaken by a job at work. *)
EntersWhileActive ==
  [][entries' # entries => inst.status = "active" \/ (inst.verifying /\ inst.status # "paused")]_vars

(* Real orders need the instance in real mode and out of verification at that
   moment, whatever the engine was switched to since the alert came. *)
LiveWhenLive ==
  [][entries'["live"] # entries["live"] => inst.mode = "live" /\ ~inst.verifying]_vars

(* "Runtime engine stopped blocks new entries" (docs/SAFETY_RULES.md): after a
   stop, or a square-off, has returned and no start was made, entries are off. *)
StopHolds ==
  \A c \in Callers :
    /\ at[c] = "done" /\ Task(c) \in {"stop", "square_off"}
    /\ \A d \in Callers : Task(d) # "start"
    => ~file.on
=============================================================================
