---------------------------- MODULE OrderIntent ----------------------------
(* One live order per request of a user, whatever is repeated or lost.  An
   operation is what the user or TradingView asked for once; its requests are
   the repetitions of it.  A request claims a row of live_order_intents under a
   key that names the operation (order_idempotency.py), sends the order
   (_place_order of execution_router.py, dhan_client.py), finds out what became
   of it and stores the answer in the row for whoever repeats the request.  A
   request of the panel is claimed once more around all of this
   (_run_manual_operation of routers/orders.py).

   This is the production setting: live mode, an authenticated user, every
   request of the panel carrying an Idempotency-Key.  Quantities, prices and
   contracts are left out; two computations of a payload may differ, so a hash
   that is compared may turn out equal or not. *)
EXTENDS Naturals

CONSTANTS Requests,
          Operations,
          Operation,   \* Operation[r]: what r asks for
          MaxFaults,   \* bound: raised statements, lost answers, deaths
          MaxSwitches, \* bound: changes of the exit management of the runtime
          None

ASSUME IntentAssumption ==
  /\ Operation \in [Requests -> Operations]
  /\ MaxFaults \in Nat /\ MaxSwitches \in Nat
  /\ None \notin Requests

VARIABLES kind,     \* of an operation: by the panel?  an exit?
          method,   \* option_exit_mode: plain order or super order
          intent,   \* the rows of live_order_intents
          order,    \* what the broker knows of each order
          at,       \* where a request is
          seen,     \* the method in the settings a request has read
          attempt,  \* the order a request sends, or sends again
          reply,    \* the result a request is about to return; the order it polls
          answer,   \* what its caller was told
          faults, switches
vars == <<kind, method, intent, order, at, seen, attempt, reply, answer, faults, switches>>

----------------------------------------------------------------------------
Methods == {"orders", "super_orders"}
Orders == Requests \X {1, 2}
NoOrder == <<None, 0>>

Panel(r) == kind[Operation[r]].panel
Exit(r) == kind[Operation[r]].exit

(* Keys: the operation of the panel; its order; the order of a signal, which
   names the way it is placed; the exit of a request of the panel, whose signal
   is made anew from the position and no longer carries the Idempotency-Key. *)
OperationKey(r) == <<"operation", Operation[r], "any">>
SignalKey(r, m) == <<"signal", Operation[r], m>>
ManualKey(r) == <<"manual_order", Operation[r], "any">>
RebuiltKey(r) == <<"rebuilt", r, "orders">>
Keys == {OperationKey(r) : r \in Requests} \cup {ManualKey(r) : r \in Requests}
        \cup {RebuiltKey(r) : r \in Requests}
        \cup {SignalKey(r, m) : r \in Requests, m \in Methods}

PlaceMethod(r) == IF Exit(r) THEN "orders" ELSE seen[r]

LookupKey(r) == IF Panel(r) THEN ManualKey(r) ELSE SignalKey(r, PlaceMethod(r))

ClaimKey(r) ==
  IF ~Panel(r) THEN SignalKey(r, PlaceMethod(r))
  ELSE IF Exit(r) THEN RebuiltKey(r) ELSE ManualKey(r)

Sent == {"TRADED", "PARTIAL_FILL", "PENDING_CONFIRMATION"}
Definite == Sent \cup {"REJECTED", "API_ERROR", "ORDER_STATE_UNKNOWN"}
Unsent == {"blocked", "reconcile", "none"}
Result == [status: Definite \cup Unsent, order: Orders \cup {NoOrder}]
NoResult == [status |-> "none", order |-> NoOrder]
Blocked == [status |-> "blocked", order |-> NoOrder]
Reconcile == [status |-> "reconcile", order |-> NoOrder]

Row == [by: Requests \cup {None}, result: Result,
        status: {"none", "pending", "submitted", "completed", "failed"}]
NoRow == [by |-> None, status |-> "none", result |-> NoResult]
Pending(r) == [by |-> r, status |-> "pending", result |-> NoResult]

IntentStatus(st) ==
  CASE st \in Sent                   -> "completed"
    [] st = "ORDER_STATE_UNKNOWN"    -> "submitted"
    [] OTHER                         -> "failed"

Places == {"new", "routing", "checking", "cleared", "claimed", "ready", "waiting",
           "recovering", "polling", "completing", "leaving", "done", "dead"}
Working == Places \ {"new", "done", "dead"}

Alive == {"working", "traded"}
Accepted == Alive \cup {"dead"}
OrderOf(r) == <<r, attempt[r]>>

Goes(r, to) == at' = [at EXCEPT ![r] = to]
Leaves(r, res) == /\ reply' = [reply EXCEPT ![r] = res]
                  /\ Goes(r, "leaving")
Fails == /\ faults < MaxFaults
         /\ faults' = faults + 1
NoFault == UNCHANGED faults

----------------------------------------------------------------------------
(* The panel claims the operation before anything else. *)

\* What a claim of an existing row answers: another payload, the stored
\* result, or somebody is still at it.
Found(row, inProgress) ==
  {Blocked} \cup (IF row.result # NoResult THEN {row.result} ELSE {inProgress})

Told(r, res) == /\ answer' = [answer EXCEPT ![r] = res]
                /\ Goes(r, "done")

\* Mutant: an operation that was not finished is done again.
ClaimUnfinishedOperation(r) ==
  /\ at[r] = "new"
  /\ IF Panel(r) /\ intent[OperationKey(r)].result # NoResult
     THEN /\ \E res \in Found(intent[OperationKey(r)], Reconcile) : Told(r, res)
          /\ UNCHANGED intent
     ELSE /\ Goes(r, "routing")
          /\ intent' = IF Panel(r) THEN [intent EXCEPT ![OperationKey(r)] = Pending(r)] ELSE intent
          /\ UNCHANGED answer
  /\ seen' = [seen EXCEPT ![r] = method]
  /\ NoFault
  /\ UNCHANGED <<kind, method, order, attempt, reply, switches>>

Begin(r) ==
  /\ at[r] = "new"
  /\ IF Panel(r) /\ intent[OperationKey(r)] # NoRow
     THEN /\ \E res \in Found(intent[OperationKey(r)], Reconcile) : Told(r, res)
          /\ UNCHANGED intent
     ELSE /\ Goes(r, "routing")
          /\ intent' = IF Panel(r) THEN [intent EXCEPT ![OperationKey(r)] = Pending(r)] ELSE intent
          /\ UNCHANGED answer
  /\ seen' = [seen EXCEPT ![r] = method]
  /\ NoFault
  /\ UNCHANGED <<kind, method, order, attempt, reply, switches>>

\* The row may have been committed although the call raised.
BeginFails(r) ==
  /\ at[r] = "new" /\ Panel(r) /\ Fails
  /\ \/ UNCHANGED intent
     \/ /\ intent[OperationKey(r)] = NoRow
        /\ intent' = [intent EXCEPT ![OperationKey(r)] = Pending(r)]
  /\ Told(r, Reconcile)
  /\ UNCHANGED <<kind, method, order, seen, attempt, reply, switches>>

----------------------------------------------------------------------------
(* Routing: an early look for the intent, then the risk checks. *)

Lookup(r) ==
  /\ at[r] = "routing"
  /\ LET row == intent[LookupKey(r)] IN
     \/ /\ row = NoRow
        /\ Goes(r, "checking")
        /\ UNCHANGED reply
     \/ /\ row # NoRow
        /\ \E res \in Found(row, Blocked) : Leaves(r, res)
  /\ NoFault
  /\ UNCHANGED <<kind, method, intent, order, seen, attempt, answer, switches>>

\* A lookup that raises is taken for "nothing known".
LookupFails(r) ==
  /\ at[r] = "routing" /\ Fails
  /\ Goes(r, "checking")
  /\ UNCHANGED <<kind, method, intent, order, seen, attempt, reply, answer, switches>>

\* Reconciliation, risk, levels, preflight.
Check(r) ==
  /\ at[r] = "checking"
  /\ \/ Goes(r, "cleared") /\ UNCHANGED <<reply, answer>>
     \/ Leaves(r, Blocked) /\ UNCHANGED answer
     \/ Panel(r) /\ Told(r, Blocked) /\ UNCHANGED reply    \* a JSONResponse is not stored
  /\ NoFault
  /\ UNCHANGED <<kind, method, intent, order, seen, attempt, switches>>

\* Mutant: whoever finds an intent that is not finished takes it over.
ClaimUnfinishedIntent(r) ==
  /\ at[r] = "cleared"
  /\ LET row == intent[ClaimKey(r)] IN
     \/ /\ row.result = NoResult
        /\ intent' = [intent EXCEPT ![ClaimKey(r)] = Pending(r)]
        /\ Goes(r, "claimed")
        /\ UNCHANGED reply
     \/ /\ row.result # NoResult
        /\ \E res \in Found(row, Blocked) : Leaves(r, res)
        /\ UNCHANGED intent
  /\ NoFault
  /\ UNCHANGED <<kind, method, order, seen, attempt, answer, switches>>

\* The insert and the unique constraint decide.
ClaimIntent(r) ==
  /\ at[r] = "cleared"
  /\ LET row == intent[ClaimKey(r)] IN
     \/ /\ row = NoRow
        /\ intent' = [intent EXCEPT ![ClaimKey(r)] = Pending(r)]
        /\ Goes(r, "claimed")
        /\ UNCHANGED reply
     \/ /\ row # NoRow
        /\ \E res \in Found(row, Blocked) : Leaves(r, res)
        /\ UNCHANGED intent
  /\ NoFault
  /\ UNCHANGED <<kind, method, order, seen, attempt, answer, switches>>

\* The store is unavailable: nothing is sent.
ClaimFails(r) ==
  /\ at[r] = "cleared" /\ Fails
  /\ \/ UNCHANGED intent
     \/ /\ intent[ClaimKey(r)] = NoRow
        /\ intent' = [intent EXCEPT ![ClaimKey(r)] = Pending(r)]
  /\ Leaves(r, Blocked)
  /\ UNCHANGED <<kind, method, order, seen, attempt, answer, switches>>

MarkSubmitted(r) ==
  /\ at[r] = "claimed"
  /\ \/ /\ intent' = [intent EXCEPT ![ClaimKey(r)].status = "submitted"]
        /\ Goes(r, "ready")
        /\ NoFault /\ UNCHANGED reply
     \/ /\ Fails
        /\ \/ UNCHANGED intent
           \/ intent' = [intent EXCEPT ![ClaimKey(r)].status = "submitted"]
        /\ Leaves(r, Blocked)
  /\ UNCHANGED <<kind, method, order, seen, attempt, answer, switches>>

----------------------------------------------------------------------------
(* The order. *)

Post(r) ==
  /\ at[r] = "ready"
  /\ order' = [order EXCEPT ![OrderOf(r)] = "sent"]
  /\ Goes(r, "waiting")
  /\ UNCHANGED <<kind, method, intent, seen, attempt, reply, answer, faults, switches>>

\* The broker, in its own time.
Broker(o) ==
  /\ \/ order[o] = "sent"    /\ \E st \in {"refused", "working"} : order' = [order EXCEPT ![o] = st]
     \/ order[o] = "working" /\ \E st \in {"traded", "dead"} : order' = [order EXCEPT ![o] = st]
  /\ UNCHANGED <<kind, method, intent, at, seen, attempt, reply, answer, faults, switches>>

SettlesOn(r, st, o) == /\ reply' = [reply EXCEPT ![r] = [status |-> st, order |-> o]]
                       /\ Goes(r, "completing")
                       /\ UNCHANGED attempt

Super(r) == PlaceMethod(r) = "super_orders"

\* Mutant: the attempts are not counted.
ResendsUncounted(r) ==
  /\ Super(r)
  /\ attempt' = [attempt EXCEPT ![r] = @ + 1]
  /\ Goes(r, "ready")
  /\ UNCHANGED reply

\* A refusal of the levels of a super order is answered by one more attempt.
Resends(r) ==
  /\ Super(r) /\ attempt[r] = 1
  /\ attempt' = [attempt EXCEPT ![r] = 2]
  /\ Goes(r, "ready")
  /\ UNCHANGED reply

\* The broker has an order of that id: what becomes of it is asked for.
Polls(r, o) ==
  /\ order[o] \in Accepted
  /\ reply' = [reply EXCEPT ![r] = [NoResult EXCEPT !.order = o]]
  /\ Goes(r, "polling")
  /\ UNCHANGED attempt

\* Only an answer of success names an order.  Any other answer is taken for a
\* refusal, an error of the gateway as well, whatever the order does.
Hear(r) ==
  /\ at[r] = "waiting"
  /\ \/ Polls(r, OrderOf(r)) /\ NoFault
     \/ order[OrderOf(r)] = "refused" /\ (SettlesOn(r, "REJECTED", NoOrder) \/ Resends(r)) /\ NoFault
     \/ Fails /\ SettlesOn(r, "REJECTED", NoOrder)
  /\ UNCHANGED <<kind, method, intent, order, seen, answer, switches>>

TimeOut(r) ==
  /\ at[r] = "waiting" /\ Fails
  /\ Goes(r, "recovering")
  /\ UNCHANGED <<kind, method, intent, order, seen, attempt, reply, answer, switches>>

\* Any other exception: the answer is lost, and counts as a failure.
Breaks(r) ==
  /\ at[r] = "waiting" /\ Fails
  /\ SettlesOn(r, "API_ERROR", NoOrder)
  /\ UNCHANGED <<kind, method, intent, order, seen, answer, switches>>

\* The correlation id: of the signal and its action, without the way the order
\* is placed; a request of the panel makes a signal of its own.
SameTag(r, q) == r = q \/ (~Panel(r) /\ Operation[r] = Operation[q])

\* Mutant: an order that is not found in the book is sent again.
RecoverByResending(r) ==
  /\ at[r] = "recovering"
  /\ \/ \E o \in Orders :
          /\ SameTag(r, o[1])
          /\ \/ Polls(r, o)
             \/ order[o] = "refused" /\ SettlesOn(r, "REJECTED", o)
             \/ o = OrderOf(r) /\ Resends(r)
     \/ SettlesOn(r, "ORDER_STATE_UNKNOWN", NoOrder)
  /\ UNCHANGED <<kind, method, intent, order, seen, answer, faults, switches>>

\* The first order of the book that carries the correlation id is taken: of
\* either attempt, or of a repetition that placed its order the other way.
Recover(r) ==
  /\ at[r] = "recovering"
  /\ \/ \E o \in Orders :
          /\ SameTag(r, o[1])
          /\ \/ Polls(r, o)
             \/ order[o] = "refused" /\ SettlesOn(r, "REJECTED", o)
             \/ order[o] = "refused" /\ o = OrderOf(r) /\ Resends(r)
     \/ SettlesOn(r, "ORDER_STATE_UNKNOWN", NoOrder)
  /\ UNCHANGED <<kind, method, intent, order, seen, answer, faults, switches>>

\* A poll that fails counts as not confirmed yet.
Poll(r) ==
  /\ at[r] = "polling"
  /\ LET o == reply[r].order IN
     \/ /\ \/ order[o] = "working" /\ SettlesOn(r, "PENDING_CONFIRMATION", o)
           \/ order[o] = "traded" /\ SettlesOn(r, "TRADED", o)
           \/ order[o] = "dead" /\ \E st \in {"REJECTED", "PARTIAL_FILL"} : SettlesOn(r, st, o)
        /\ NoFault
     \/ /\ Fails
        /\ SettlesOn(r, "PENDING_CONFIRMATION", o)
  /\ UNCHANGED <<kind, method, intent, order, seen, answer, switches>>

Stored(row, res) == [row EXCEPT !.status = IntentStatus(res.status), !.result = res]

\* A result that cannot be stored is only logged.
Complete(r) ==
  /\ at[r] = "completing"
  /\ \/ intent' = [intent EXCEPT ![ClaimKey(r)] = Stored(@, reply[r])] /\ NoFault
     \/ Fails /\ UNCHANGED intent
  /\ Goes(r, "leaving")
  /\ UNCHANGED <<kind, method, order, seen, attempt, reply, answer, switches>>

----------------------------------------------------------------------------
(* The way out. *)

\* What follows the order raises: the panel reports an uncertain state.
PersistenceFails(r) ==
  /\ Panel(r) /\ at[r] \in Working /\ Fails
  /\ Leaves(r, Reconcile)
  /\ UNCHANGED <<kind, method, intent, order, seen, attempt, answer, switches>>

Return(r) ==
  /\ at[r] = "leaving"
  /\ \/ /\ Told(r, reply[r])
        /\ intent' = IF Panel(r)
                     THEN [intent EXCEPT ![OperationKey(r)] = Stored(@, reply[r])]
                     ELSE intent
        /\ NoFault
     \/ /\ Panel(r) /\ Fails
        /\ Told(r, Reconcile)
        /\ \/ UNCHANGED intent
           \/ intent' = [intent EXCEPT ![OperationKey(r)] = Stored(@, reply[r])]
  /\ UNCHANGED <<kind, method, order, seen, attempt, reply, switches>>

\* The process dies, or the thread of a signal raises.
Die ==
  /\ Fails
  /\ \E S \in SUBSET {r \in Requests : at[r] \in Working} :
       /\ S # {}
       /\ at' = [r \in Requests |-> IF r \in S THEN "dead" ELSE at[r]]
  /\ UNCHANGED <<kind, method, intent, order, seen, attempt, reply, answer, switches>>

\* The user changes how exits are managed.
Switch ==
  /\ switches < MaxSwitches
  /\ switches' = switches + 1
  /\ \E m \in Methods \ {method} : method' = m
  /\ UNCHANGED <<kind, intent, order, at, seen, attempt, reply, answer, faults>>

Init ==
  /\ kind \in [Operations -> [panel: BOOLEAN, exit: BOOLEAN]]
  /\ method \in Methods
  /\ intent = [k \in Keys |-> NoRow]
  /\ order = [o \in Orders |-> "none"]
  /\ at = [r \in Requests |-> "new"]
  /\ seen = [r \in Requests |-> method]
  /\ attempt = [r \in Requests |-> 1]
  /\ reply = [r \in Requests |-> NoResult]
  /\ answer = [r \in Requests |-> NoResult]
  /\ faults = 0 /\ switches = 0

Step(r) ==
  \/ Begin(r) \/ BeginFails(r) \/ Lookup(r) \/ LookupFails(r) \/ Check(r)
  \/ ClaimIntent(r) \/ ClaimFails(r) \/ MarkSubmitted(r)
  \/ Post(r) \/ Hear(r) \/ TimeOut(r) \/ Breaks(r) \/ Recover(r) \/ Poll(r)
  \/ Complete(r) \/ PersistenceFails(r) \/ Return(r)

Next ==
  \/ \E r \in Requests : Step(r)
  \/ \E o \in Orders : Broker(o)
  \/ Die \/ Switch

Spec == Init /\ [][Next]_vars

----------------------------------------------------------------------------
TypeOK ==
  /\ kind \in [Operations -> [panel: BOOLEAN, exit: BOOLEAN]]
  /\ method \in Methods
  /\ intent \in [Keys -> Row]
  /\ order \in [Orders -> {"none", "sent", "refused"} \cup Accepted]
  /\ at \in [Requests -> Places]
  /\ seen \in [Requests -> Methods]
  /\ attempt \in [Requests -> {1, 2}]
  /\ reply \in [Requests -> Result]
  /\ answer \in [Requests -> Result]
  /\ faults \in 0..MaxFaults /\ switches \in 0..MaxSwitches

\* Repetitions of one request: the panel's, or a signal's that are placed the
\* same way.
Alike(r, q) == /\ Operation[r] = Operation[q]
               /\ Panel(r) \/ PlaceMethod(r) = PlaceMethod(q)

(* Of all the orders that the repetitions of one request send, the broker
   accepts one: AI_AGENT_RULES.md asks the code to "fail closed instead of
   risking a duplicate live order".  (A signal that is repeated after the exit
   management was changed has another key, and is another request.) *)
SentOnce ==
  \A o, p \in Orders :
    /\ order[o] \in Accepted /\ order[p] \in Accepted
    /\ Alike(o[1], p[1])
    => o = p

(* Whoever repeats a request is told the result of the order that was sent, or
   is told nothing definite: no two callers act on different results. *)
AnswersAgree ==
  \A r, q \in Requests :
    /\ Alike(r, q)
    /\ answer[r].status \in Definite /\ answer[q].status \in Definite
    => answer[r] = answer[q]

(* A rejection that names an order is true and stays true, although the order
   may have been found by the correlation id only: the order, and every order
   sent before it for the request it belongs to, is not at work and never
   trades.  (A rejection without an order may be an error of the gateway.) *)
RejectionFinal ==
  \A r \in Requests : LET o == answer[r].order IN
    answer[r].status = "REJECTED" /\ o # NoOrder =>
      \A p \in Orders : Alike(o[1], p[1]) /\ p[2] <= o[2] => order[p] \notin Alive

(* A timeout is resolved to a rejection only if the request has no order at
   work: "unresolved timeouts return ORDER_STATE_UNKNOWN"
   (docs/AUDIT_FINDINGS.md). *)
RejectionComplete ==
  \A r \in Requests : answer[r].status = "REJECTED" /\ answer[r].order # NoOrder =>
    \A o \in Orders : Alike(r, o[1]) => order[o] \notin Alive
=============================================================================
