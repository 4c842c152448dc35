------------------------- MODULE OrderIntentProofs -------------------------
(* Proofs about OrderIntent, for any number of requests, operations, faults and
   changes of the exit management. *)
EXTENDS OrderIntent, TLAPS

----------------------------------------------------------------------------
(* Types. *)

LEMMA KeysOfRequest ==
  ASSUME NEW r \in Requests, seen \in [Requests -> Methods]
  PROVE  /\ OperationKey(r) \in Keys
         /\ LookupKey(r) \in Keys
         /\ ClaimKey(r) \in Keys
BY DEF OperationKey, LookupKey, ClaimKey, Keys, ManualKey, SignalKey, RebuiltKey, PlaceMethod, Methods

LEMMA ResultTypes ==
  /\ NoResult \in Result /\ Blocked \in Result /\ Reconcile \in Result
  /\ NoRow \in Row
  /\ \A r \in Requests : Pending(r) \in Row
  /\ \A row \in Row, inp \in Result : \A res \in Found(row, inp) : res \in Result
  /\ \A row \in Row, res \in Result : Stored(row, res) \in Row
  /\ \A row \in Row : [row EXCEPT !.status = "submitted"] \in Row
<1>1. /\ NoResult \in Result /\ Blocked \in Result /\ Reconcile \in Result
  BY DEF NoResult, Blocked, Reconcile, Result, Unsent
<1>2. NoRow \in Row /\ \A r \in Requests : Pending(r) \in Row
  BY <1>1 DEF NoRow, Row, Pending
<1>3. \A row \in Row, inp \in Result : \A res \in Found(row, inp) : res \in Result
  BY <1>1 DEF Found, Row
<1>4. \A st \in Definite \cup Unsent : IntentStatus(st) \in {"completed", "submitted", "failed"}
  BY DEF IntentStatus
<1>5. ASSUME NEW row \in Row, NEW res \in Result PROVE Stored(row, res) \in Row
  BY <1>4 DEF Stored, Row, Result
<1>6. \A row \in Row : [row EXCEPT !.status = "submitted"] \in Row
  BY DEF Row
<1>7. QED
  BY <1>1, <1>2, <1>3, <1>5, <1>6

LEMMA OrderOfRequest ==
  ASSUME NEW r \in Requests, attempt \in [Requests -> {1, 2}]
  PROVE  OrderOf(r) \in Orders
BY DEF OrderOf, Orders

(* What the shared pieces of the actions do to the types. *)
LEMMA GoesTypes ==
  ASSUME TypeOK, NEW r \in Requests, NEW p \in Places, Goes(r, p)
  PROVE  at' \in [Requests -> Places]
BY DEF TypeOK, Goes

LEMMA LeavesTypes ==
  ASSUME TypeOK, NEW r \in Requests, NEW res \in Result, Leaves(r, res)
  PROVE  at' \in [Requests -> Places] /\ reply' \in [Requests -> Result]
BY GoesTypes DEF TypeOK, Leaves, Places

LEMMA ToldTypes ==
  ASSUME TypeOK, NEW r \in Requests, NEW res \in Result, Told(r, res)
  PROVE  at' \in [Requests -> Places] /\ answer' \in [Requests -> Result]
BY GoesTypes DEF TypeOK, Told, Places

LEMMA RowTypes ==
  ASSUME TypeOK, NEW k \in Keys, NEW row \in Row, intent' = [intent EXCEPT ![k] = row]
  PROVE  intent' \in [Keys -> Row]
BY DEF TypeOK

LEMMA FaultTypes ==
  ASSUME TypeOK, Fails \/ NoFault
  PROVE  faults' \in 0..MaxFaults
BY IntentAssumption DEF TypeOK, Fails, NoFault

LEMMA SubmittedTypes ==
  ASSUME TypeOK, NEW k \in Keys, intent' = [intent EXCEPT ![k].status = "submitted"]
  PROVE  intent' \in [Keys -> Row]
<1>1. intent[k] \in Row
  BY DEF TypeOK
<1>2. [intent[k] EXCEPT !.status = "submitted"] \in Row
  BY <1>1, ResultTypes
<1>3. intent' = [intent EXCEPT ![k] = [intent[k] EXCEPT !.status = "submitted"]]
  OBVIOUS
<1>4. QED
  BY <1>2, <1>3, RowTypes

LEMMA StoredTypes ==
  ASSUME TypeOK, NEW k \in Keys, NEW res \in Result,
         intent' = [intent EXCEPT ![k] = Stored(@, res)]
  PROVE  intent' \in [Keys -> Row]
<1>1. Stored(intent[k], res) \in Row
  BY ResultTypes DEF TypeOK
<1>2. QED
  BY <1>1, RowTypes

(* Every step keeps the types. *)
LEMMA TypeStep == TypeOK /\ [Next]_vars => TypeOK'
<1> SUFFICES ASSUME TypeOK, [Next]_vars PROVE TypeOK'
  OBVIOUS
<1> DEFINE Kept == UNCHANGED <<kind, method, switches>>
<1>k. ASSUME Kept, intent' \in [Keys -> Row],
             order' \in [Orders -> {"none", "sent", "refused"} \cup Accepted],
             at' \in [Requests -> Places], seen' \in [Requests -> Methods],
             attempt' \in [Requests -> {1, 2}], reply' \in [Requests -> Result],
             answer' \in [Requests -> Result], faults' \in 0..MaxFaults
      PROVE  TypeOK'
  BY <1>k DEF TypeOK
<1>t. /\ intent \in [Keys -> Row]
      /\ order \in [Orders -> {"none", "sent", "refused"} \cup Accepted]
      /\ at \in [Requests -> Places] /\ seen \in [Requests -> Methods]
      /\ attempt \in [Requests -> {1, 2}] /\ reply \in [Requests -> Result]
      /\ answer \in [Requests -> Result] /\ faults \in 0..MaxFaults /\ method \in Methods
  BY DEF TypeOK
<1>r. ASSUME NEW r \in Requests
      PROVE  /\ OperationKey(r) \in Keys /\ LookupKey(r) \in Keys /\ ClaimKey(r) \in Keys
             /\ intent[OperationKey(r)] \in Row /\ intent[LookupKey(r)] \in Row
             /\ intent[ClaimKey(r)] \in Row
             /\ Pending(r) \in Row /\ reply[r] \in Result
  BY <1>t, KeysOfRequest, ResultTypes
<1>f. ASSUME Fails \/ NoFault PROVE faults' \in 0..MaxFaults
  BY <1>f, FaultTypes
<1>1. CASE UNCHANGED vars
  BY <1>1 DEF vars, TypeOK
<1>2. ASSUME NEW r \in Requests, Begin(r) PROVE TypeOK'
  <2>1. faults' \in 0..MaxFaults /\ seen' \in [Requests -> Methods] /\ Kept
        /\ UNCHANGED <<order, attempt, reply>>
    BY <1>2, <1>f, <1>t DEF Begin
  <2>2. CASE Panel(r) /\ intent[OperationKey(r)] # NoRow
    <3>1. PICK res \in Found(intent[OperationKey(r)], Reconcile) : Told(r, res)
      BY <1>2, <2>2 DEF Begin
    <3>2. UNCHANGED intent
      BY <1>2, <2>2 DEF Begin
    <3>3. res \in Result
      BY <1>r, ResultTypes
    <3>4. at' \in [Requests -> Places] /\ answer' \in [Requests -> Result]
      BY <3>1, <3>3, ToldTypes
    <3>5. QED
      BY <2>1, <3>2, <3>4, <1>k, <1>t
  <2>3. CASE ~(Panel(r) /\ intent[OperationKey(r)] # NoRow)
    <3>1. Goes(r, "routing") /\ UNCHANGED answer
      BY <1>2, <2>3 DEF Begin
    <3>2. at' \in [Requests -> Places]
      BY <3>1, GoesTypes DEF Places
    <3>3. intent' \in [Keys -> Row]
      BY <1>2, <2>3, <1>r, <1>t, RowTypes DEF Begin
    <3>4. QED
      BY <2>1, <3>1, <3>2, <3>3, <1>k, <1>t
  <2>4. QED
    BY <2>2, <2>3
<1>3. ASSUME NEW r \in Requests, BeginFails(r) PROVE TypeOK'
  <2>1. intent' \in [Keys -> Row]
    BY <1>3, <1>r, <1>t, RowTypes DEF BeginFails
  <2>2. at' \in [Requests -> Places] /\ answer' \in [Requests -> Result]
    BY <1>3, ToldTypes, ResultTypes DEF BeginFails
  <2>3. QED
    BY <1>3, <2>1, <2>2, <1>f, <1>k, <1>t DEF BeginFails
<1>4. ASSUME NEW r \in Requests, NEW k \in {LookupKey(r), ClaimKey(r)}, NEW res \in Found(intent[k], Blocked),
             Leaves(r, res), NoFault, Kept, UNCHANGED <<intent, order, seen, attempt, answer>>
      PROVE  TypeOK'
  <2>1. res \in Result
    BY <1>r, ResultTypes
  <2>2. at' \in [Requests -> Places] /\ reply' \in [Requests -> Result]
    BY <1>4, <2>1, LeavesTypes
  <2>3. QED
    BY <1>4, <2>2, <1>f, <1>k, <1>t
<1>5. ASSUME NEW r \in Requests, NEW p \in Places, Goes(r, p), Fails \/ NoFault, Kept,
             UNCHANGED <<order, seen, attempt, reply, answer>>, intent' \in [Keys -> Row]
      PROVE  TypeOK'
  BY <1>5, GoesTypes, <1>f, <1>k, <1>t
<1>6. ASSUME NEW r \in Requests, Leaves(r, Blocked) \/ Leaves(r, Reconcile), Fails \/ NoFault, Kept,
             UNCHANGED <<order, seen, attempt, answer>>, intent' \in [Keys -> Row]
      PROVE  TypeOK'
  BY <1>6, LeavesTypes, ResultTypes, <1>f, <1>k, <1>t
<1>7. ASSUME NEW r \in Requests, Lookup(r) \/ LookupFails(r) PROVE TypeOK'
  <2>1. CASE LookupFails(r)
    BY <2>1, <1>5, <1>t DEF LookupFails, Places
  <2>2. CASE Lookup(r) /\ intent[LookupKey(r)] = NoRow
    BY <2>2, <1>5, <1>t DEF Lookup, Places
  <2>3. CASE Lookup(r) /\ intent[LookupKey(r)] # NoRow
    BY <2>3, <1>4 DEF Lookup
  <2>4. QED
    BY <1>7, <2>1, <2>2, <2>3
<1>8. ASSUME NEW r \in Requests, Check(r) PROVE TypeOK'
  <2>1. CASE Goes(r, "cleared") /\ UNCHANGED <<reply, answer>>
    BY <2>1, <1>8, <1>5, <1>t DEF Check, Places
  <2>2. CASE Leaves(r, Blocked) /\ UNCHANGED answer
    BY <2>2, <1>8, <1>6, <1>t DEF Check
  <2>3. CASE Told(r, Blocked) /\ UNCHANGED reply
    BY <2>3, <1>8, ToldTypes, ResultTypes, <1>f, <1>k, <1>t DEF Check
  <2>4. QED
    BY <1>8, <2>1, <2>2, <2>3 DEF Check
<1>9. ASSUME NEW r \in Requests, ClaimIntent(r) PROVE TypeOK'
  <2>1. CASE intent[ClaimKey(r)] = NoRow /\ intent' = [intent EXCEPT ![ClaimKey(r)] = Pending(r)]
             /\ Goes(r, "claimed") /\ UNCHANGED reply
    <3>1. intent' \in [Keys -> Row]
      BY <2>1, <1>r, RowTypes
    <3>2. QED
      BY <1>9, <2>1, <3>1, <1>5 DEF ClaimIntent, Places
  <2>2. CASE UNCHANGED intent /\ \E res \in Found(intent[ClaimKey(r)], Blocked) : Leaves(r, res)
    BY <2>2, <1>9, <1>4 DEF ClaimIntent
  <2>3. QED
    BY <1>9, <2>1, <2>2 DEF ClaimIntent
<1>10. ASSUME NEW r \in Requests, ClaimFails(r) PROVE TypeOK'
  <2>1. intent' \in [Keys -> Row]
    BY <1>10, <1>r, <1>t, RowTypes DEF ClaimFails
  <2>2. QED
    BY <1>10, <2>1, <1>6 DEF ClaimFails
<1>11. ASSUME NEW r \in Requests, MarkSubmitted(r) PROVE TypeOK'
  <2>1. intent' \in [Keys -> Row]
    BY <1>11, <1>r, <1>t, SubmittedTypes DEF MarkSubmitted
  <2>2. CASE Goes(r, "ready") /\ NoFault /\ UNCHANGED reply
    BY <1>11, <2>1, <2>2, <1>5 DEF MarkSubmitted, Places
  <2>3. CASE Fails /\ Leaves(r, Blocked)
    BY <1>11, <2>1, <2>3, <1>6 DEF MarkSubmitted
  <2>4. QED
    BY <1>11, <2>2, <2>3 DEF MarkSubmitted
<1>12. ASSUME NEW r \in Requests, Post(r) PROVE TypeOK'
  <2>1. order' \in [Orders -> {"none", "sent", "refused"} \cup Accepted]
    BY <1>12, <1>t, OrderOfRequest DEF Post
  <2>2. at' \in [Requests -> Places]
    BY <1>12, GoesTypes DEF Post, Places
  <2>3. QED
    BY <1>12, <2>1, <2>2, <1>k, <1>t DEF Post
<1>s. ASSUME NEW r \in Requests, NEW st \in Definite, NEW o \in Orders \cup {NoOrder}, SettlesOn(r, st, o), Kept,
             UNCHANGED <<intent, order, seen, answer>>, faults' \in 0..MaxFaults
      PROVE  TypeOK'
  <2>1. [status |-> st, order |-> o] \in Result
    BY DEF Result
  <2>2. reply' \in [Requests -> Result] /\ UNCHANGED attempt
    BY <1>s, <2>1, <1>t DEF SettlesOn
  <2>3. at' \in [Requests -> Places]
    BY <1>s, GoesTypes DEF SettlesOn, Places
  <2>4. QED
    BY <1>s, <2>2, <2>3, <1>k, <1>t
<1>13. ASSUME NEW r \in Requests, NEW o \in Orders, Polls(r, o), Kept,
              UNCHANGED <<intent, order, seen, answer>>, faults' \in 0..MaxFaults
       PROVE  TypeOK'
  <2>1. [NoResult EXCEPT !.order = o] \in Result
    BY ResultTypes DEF Result
  <2>2. reply' \in [Requests -> Result] /\ UNCHANGED attempt
    BY <1>13, <2>1, <1>t DEF Polls
  <2>3. at' \in [Requests -> Places]
    BY <1>13, GoesTypes DEF Polls, Places
  <2>4. QED
    BY <1>13, <2>2, <2>3, <1>k, <1>t
<1>14. ASSUME NEW r \in Requests, Resends(r), Kept,
              UNCHANGED <<intent, order, seen, answer>>, faults' \in 0..MaxFaults
       PROVE  TypeOK'
  <2>1. attempt' \in [Requests -> {1, 2}] /\ UNCHANGED reply
    BY <1>14, <1>t DEF Resends
  <2>2. at' \in [Requests -> Places]
    BY <1>14, GoesTypes DEF Resends, Places
  <2>3. QED
    BY <2>1, <2>2, <1>14, <1>k, <1>t
<1>15. ASSUME NEW r \in Requests, Hear(r) \/ TimeOut(r) \/ Breaks(r) \/ Recover(r) \/ Poll(r) PROVE TypeOK'
  <2>o. OrderOf(r) \in Orders /\ {"REJECTED", "API_ERROR", "ORDER_STATE_UNKNOWN"} \subseteq Definite
    BY <1>t, OrderOfRequest DEF Definite
  <2>1. CASE Hear(r)
    <3>1. faults' \in 0..MaxFaults /\ Kept /\ UNCHANGED <<intent, order, seen, answer>>
      BY <2>1, <1>f DEF Hear
    <3>2. Polls(r, OrderOf(r)) \/ SettlesOn(r, "REJECTED", NoOrder) \/ Resends(r)
      BY <2>1 DEF Hear
    <3>3. QED
      BY <2>o, <3>1, <3>2, <1>s, <1>13, <1>14
  <2>2. CASE TimeOut(r)
    BY <2>2, <1>5, <1>t DEF TimeOut, Places
  <2>3. CASE Breaks(r)
    BY <2>3, <2>o, <1>s, <1>f DEF Breaks
  <2>4. CASE Recover(r)
    <3>1. faults' \in 0..MaxFaults /\ Kept /\ UNCHANGED <<intent, order, seen, answer>>
      BY <2>4, <1>t DEF Recover
    <3>2. \/ \E o \in Orders : Polls(r, o) \/ SettlesOn(r, "REJECTED", o)
          \/ Resends(r) \/ SettlesOn(r, "ORDER_STATE_UNKNOWN", NoOrder)
      BY <2>4 DEF Recover
    <3>3. QED
      BY <2>o, <3>1, <3>2, <1>s, <1>13, <1>14
  <2>5. CASE Poll(r)
    <3>1. faults' \in 0..MaxFaults /\ Kept /\ UNCHANGED <<intent, order, seen, answer>>
      BY <2>5, <1>f DEF Poll
    <3>2. \E st \in Definite : SettlesOn(r, st, reply[r].order)
      BY <2>5 DEF Poll, Definite, Sent
    <3>3. reply[r].order \in Orders \cup {NoOrder}
      BY <1>t DEF Result
    <3>4. QED
      BY <3>1, <3>2, <3>3, <1>s
  <2>6. QED
    BY <1>15, <2>1, <2>2, <2>3, <2>4, <2>5
<1>16. ASSUME NEW r \in Requests, Complete(r) PROVE TypeOK'
  <2>1. intent' \in [Keys -> Row]
    BY <1>16, <1>r, <1>t, StoredTypes DEF Complete
  <2>2. Fails \/ NoFault
    BY <1>16 DEF Complete
  <2>3. QED
    BY <1>16, <2>1, <2>2, <1>5 DEF Complete, Places
<1>17. ASSUME NEW r \in Requests, PersistenceFails(r) PROVE TypeOK'
  BY <1>17, <1>6, <1>t DEF PersistenceFails
<1>18. ASSUME NEW r \in Requests, Return(r) PROVE TypeOK'
  <2>1. intent' \in [Keys -> Row]
    BY <1>18, <1>r, <1>t, StoredTypes DEF Return
  <2>2. Told(r, reply[r]) \/ Told(r, Reconcile)
    BY <1>18 DEF Return
  <2>3. at' \in [Requests -> Places] /\ answer' \in [Requests -> Result]
    BY <2>2, ToldTypes, ResultTypes, <1>r
  <2>4. Fails \/ NoFault
    BY <1>18 DEF Return
  <2>5. QED
    BY <1>18, <2>1, <2>3, <2>4, <1>f, <1>k, <1>t DEF Return
<1>19. ASSUME NEW o \in Orders, Broker(o) PROVE TypeOK'
  <2>1. order' \in [Orders -> {"none", "sent", "refused"} \cup Accepted]
    BY <1>19, <1>t DEF Broker, Accepted, Alive
  <2>2. QED
    BY <1>19, <2>1, <1>k, <1>t DEF Broker
<1>20. CASE Die
  <2>1. at' \in [Requests -> Places]
    BY <1>20, <1>t DEF Die, Places
  <2>2. QED
    BY <1>20, <2>1, <1>f, <1>k, <1>t DEF Die
<1>21. CASE Switch
  BY <1>21, IntentAssumption DEF Switch, TypeOK
<1>22. QED
  BY <1>1, <1>2, <1>3, <1>7, <1>8, <1>9, <1>10, <1>11, <1>12, <1>15, <1>16, <1>17, <1>18, <1>19,
     <1>20, <1>21 DEF Next, Step

LEMMA TypeInit == Init => TypeOK
BY ResultTypes, IntentAssumption DEF Init, TypeOK, Places, Methods, Accepted, Alive

(* The variables keep their types, for every set of requests. *)
THEOREM TypeCorrect == Spec => []TypeOK
BY TypeInit, TypeStep, PTL DEF Spec

----------------------------------------------------------------------------
(* Keys. *)

KeysOf(r) == {OperationKey(r), ClaimKey(r)}

LEMMA KeyOfOperation ==
  ASSUME NEW r \in Requests, NEW q \in Requests
  PROVE  /\ OperationKey(r) = OperationKey(q) <=> Operation[r] = Operation[q]
         /\ OperationKey(r) \notin {LookupKey(q), ClaimKey(q)}
BY DEF OperationKey, LookupKey, ClaimKey, ManualKey, SignalKey, RebuiltKey

\* A row that two requests claim, at the panel or on the way to the broker, is
\* of repetitions of one request.
LEMMA KeyNamesRequest ==
  ASSUME NEW r \in Requests, NEW q \in Requests,
         \/ Panel(r) /\ OperationKey(r) \in KeysOf(q)
         \/ LookupKey(r) \in KeysOf(q)
         \/ ClaimKey(r) \in KeysOf(q)
  PROVE  Alike(q, r)
<1> DEFINE k == IF Panel(r) /\ OperationKey(r) \in KeysOf(q) THEN OperationKey(r)
                ELSE IF LookupKey(r) \in KeysOf(q) THEN LookupKey(r) ELSE ClaimKey(r)
<1>1. k \in KeysOf(q) /\ k \in {OperationKey(r), LookupKey(r), ClaimKey(r)} /\ (k = OperationKey(r) => Panel(r))
  BY KeyOfOperation DEF KeysOf
<1>2. CASE k[1] \in {"operation", "manual_order"}
  <2>1. k[2] = Operation[r] /\ k[2] = Operation[q] /\ Panel(r)
    BY <1>1, <1>2 DEF KeysOf, OperationKey, LookupKey, ClaimKey, ManualKey, SignalKey, RebuiltKey
  <2>2. QED
    BY <2>1 DEF Alike, Panel
<1>3. CASE k[1] = "signal"
  <2>1. k[2] = Operation[r] /\ k[2] = Operation[q] /\ k[3] = PlaceMethod(r) /\ k[3] = PlaceMethod(q)
    BY <1>1, <1>3 DEF KeysOf, OperationKey, LookupKey, ClaimKey, ManualKey, SignalKey, RebuiltKey
  <2>2. QED
    BY <2>1 DEF Alike
<1>4. CASE k[1] = "rebuilt"
  <2>1. k[2] = r /\ k[2] = q /\ Panel(r)
    BY <1>1, <1>4 DEF KeysOf, OperationKey, LookupKey, ClaimKey, ManualKey, SignalKey, RebuiltKey
  <2>2. QED
    BY <2>1 DEF Alike
<1>5. k[1] \in {"operation", "manual_order", "signal", "rebuilt"}
  BY <1>1 DEF KeysOf, OperationKey, LookupKey, ClaimKey, ManualKey, SignalKey, RebuiltKey
<1>6. QED
  BY <1>2, <1>3, <1>4, <1>5

LEMMA AlikeIs ==
  ASSUME NEW r \in Requests, NEW q \in Requests, Alike(q, r)
  PROVE  /\ Operation[q] = Operation[r] /\ Panel(q) = Panel(r)
         /\ Alike(r, q)
         /\ \A p \in Requests : Alike(r, p) => Alike(q, p)
         /\ ~Panel(r) => PlaceMethod(q) = PlaceMethod(r)
BY DEF Alike, Panel

\* Two requests for one signal, placed the same way, claim the same row.
LEMMA SignalClaims ==
  ASSUME NEW r \in Requests, NEW q \in Requests, Alike(r, q), ~Panel(r)
  PROVE  ClaimKey(r) = ClaimKey(q) /\ LookupKey(r) = ClaimKey(r) /\ ~Panel(q)
BY DEF Alike, ClaimKey, LookupKey, SignalKey, Panel

\* Whoever owns the rows of a request is alone.
Owns(r) == /\ intent[ClaimKey(r)].by = r
           /\ Panel(r) => intent[OperationKey(r)].by = r

LEMMA OwnsAlone ==
  ASSUME NEW r \in Requests, NEW q \in Requests, Alike(r, q), Owns(r), Owns(q)
  PROVE  r = q
<1>1. CASE Panel(r)
  BY <1>1 DEF Owns, Panel, OperationKey, Alike
<1>2. CASE ~Panel(r)
  BY <1>2, SignalClaims DEF Owns
<1>3. QED
  BY <1>1, <1>2

\* A request that has begun has read the exit management, and keeps its keys.
LEMMA KindStays ==
  ASSUME [Next]_vars
  PROVE  /\ kind' = kind
         /\ \A r \in Requests : Panel(r)' = Panel(r) /\ OperationKey(r)' = OperationKey(r)
<1>1. kind' = kind
  BY DEF Next, vars, Die, Switch, Broker, Step, Begin, BeginFails, Lookup, LookupFails, Check, ClaimIntent, ClaimFails,
     MarkSubmitted, Post, Hear, TimeOut, Breaks, Recover, Poll, Complete, PersistenceFails, Return
<1>2. QED
  BY <1>1 DEF Panel, OperationKey

LEMMA KeysStay ==
  ASSUME TypeOK, [Next]_vars, NEW r \in Requests, at[r] # "new"
  PROVE  /\ LookupKey(r)' = LookupKey(r) /\ ClaimKey(r)' = ClaimKey(r)
         /\ PlaceMethod(r)' = PlaceMethod(r)
<1>1. ASSUME NEW q \in Requests, Begin(q) PROVE seen'[r] = seen[r]
  BY <1>1 DEF Begin, TypeOK
<1>2. ASSUME NEW q \in Requests, Step(q), ~Begin(q) PROVE seen' = seen
  BY <1>2 DEF Step, BeginFails, Lookup, LookupFails, Check, ClaimIntent, ClaimFails, MarkSubmitted, Post,
     Hear, TimeOut, Breaks, Recover, Poll, Complete, PersistenceFails, Return
<1>3. seen'[r] = seen[r]
  BY <1>1, <1>2 DEF Next, vars, Die, Switch, Broker
<1>4. QED
  BY <1>3, KindStays DEF Panel, Exit, LookupKey, ClaimKey, ManualKey, SignalKey, RebuiltKey, PlaceMethod

----------------------------------------------------------------------------
(* What a step can do to each part of the state. *)

\* A row is claimed once, marked, and given the result of its owner.
RowStep(k) ==
  \/ intent'[k] = intent[k]
  \/ intent[k] = NoRow /\ \E q \in Requests : intent'[k] = Pending(q)
  \/ intent'[k] = [intent[k] EXCEPT !.status = "submitted"]
  \/ \E q \in Requests : /\ k = ClaimKey(q) /\ at[q] = "completing" /\ at'[q] = "leaving"
                         /\ intent'[k] = Stored(intent[k], reply[q])
  \/ \E q \in Requests : /\ k = OperationKey(q) /\ Panel(q) /\ at[q] = "leaving" /\ at'[q] = "done"
                         /\ intent'[k] = Stored(intent[k], reply[q])

LEMMA RowSteps ==
  ASSUME TypeOK, [Next]_vars, NEW k \in Keys
  PROVE  RowStep(k)
<1>t. intent \in [Keys -> Row] /\ at \in [Requests -> Places]
  BY DEF TypeOK
<1>1. CASE UNCHANGED intent
  BY <1>1 DEF RowStep
<1>2. ASSUME NEW r \in Requests, NEW c \in Keys, intent[c] = NoRow, intent' = [intent EXCEPT ![c] = Pending(r)]
      PROVE  RowStep(k)
  BY <1>2, <1>t DEF RowStep
<1>3. ASSUME NEW r \in Requests, Begin(r) \/ BeginFails(r) \/ ClaimIntent(r) \/ ClaimFails(r) PROVE RowStep(k)
  <2>1. OperationKey(r) \in Keys /\ ClaimKey(r) \in Keys
    BY KeysOfRequest DEF TypeOK
  <2>2. CASE Begin(r)
    BY <2>1, <2>2, <1>1, <1>2 DEF Begin
  <2>3. CASE BeginFails(r)
    BY <2>1, <2>3, <1>1, <1>2 DEF BeginFails
  <2>4. CASE ClaimIntent(r)
    BY <2>1, <2>4, <1>1, <1>2 DEF ClaimIntent
  <2>5. CASE ClaimFails(r)
    BY <2>1, <2>5, <1>1, <1>2 DEF ClaimFails
  <2>6. QED
    BY <1>3, <2>2, <2>3, <2>4, <2>5
<1>4. ASSUME NEW r \in Requests, MarkSubmitted(r) PROVE RowStep(k)
  BY <1>4, <1>1, <1>t DEF MarkSubmitted, RowStep
<1>5. ASSUME NEW r \in Requests, Complete(r) PROVE RowStep(k)
  <2>1. at[r] = "completing" /\ at'[r] = "leaving"
    BY <1>5, <1>t DEF Complete, Goes
  <2>2. CASE intent' = [intent EXCEPT ![ClaimKey(r)] = Stored(@, reply[r])]
    BY <2>1, <2>2, <1>t DEF RowStep
  <2>3. QED
    BY <1>5, <1>1, <2>2 DEF Complete
<1>6. ASSUME NEW r \in Requests, Return(r) PROVE RowStep(k)
  <2>1. at[r] = "leaving" /\ at'[r] = "done"
    BY <1>6, <1>t DEF Return, Told, Goes
  <2>2. CASE Panel(r) /\ intent' = [intent EXCEPT ![OperationKey(r)] = Stored(@, reply[r])]
    BY <2>1, <2>2, <1>t DEF RowStep
  <2>3. QED
    BY <1>6, <1>1, <2>2 DEF Return
<1>7. ASSUME NEW r \in Requests,
             Lookup(r) \/ LookupFails(r) \/ Check(r) \/ Post(r) \/ Hear(r) \/ TimeOut(r) \/ Breaks(r)
             \/ Recover(r) \/ Poll(r) \/ PersistenceFails(r)
      PROVE  UNCHANGED intent
  BY <1>7 DEF Lookup, LookupFails, Check, Post, Hear, TimeOut, Breaks, Recover, Poll, PersistenceFails
<1>8. QED
  BY <1>1, <1>3, <1>4, <1>5, <1>6, <1>7 DEF Next, Step, vars, Broker, Die, Switch

\* An owner stays, and a result is stored by the owner's request only.
LEMMA RowKept ==
  ASSUME TypeOK, [Next]_vars, NEW k \in Keys
  PROVE  /\ intent[k].by # None => intent'[k].by = intent[k].by
         /\ \/ intent'[k].result = intent[k].result
            \/ \E q \in Requests : /\ k = ClaimKey(q) /\ at[q] = "completing" /\ at'[q] = "leaving"
                                   /\ intent'[k].result = reply[q]
            \/ \E q \in Requests : /\ k = OperationKey(q) /\ Panel(q) /\ at[q] = "leaving" /\ at'[q] = "done"
                                   /\ intent'[k].result = reply[q]
<1>1. RowStep(k)
  BY RowSteps
<1>2. intent[k] \in Row
  BY DEF TypeOK
<1>3. ASSUME NEW res PROVE Stored(intent[k], res).by = intent[k].by /\ Stored(intent[k], res).result = res
  BY <1>2 DEF Stored, Row
<1>4. [intent[k] EXCEPT !.status = "submitted"].by = intent[k].by
      /\ [intent[k] EXCEPT !.status = "submitted"].result = intent[k].result
  BY <1>2 DEF Row
<1>5. NoRow.by = None /\ \A q \in Requests : Pending(q).result = NoRow.result
  BY DEF NoRow, Pending
<1>6. CASE intent'[k] = [intent[k] EXCEPT !.status = "submitted"]
  BY <1>4, <1>6
<1>7. CASE intent[k] = NoRow /\ \E q \in Requests : intent'[k] = Pending(q)
  BY <1>5, <1>7
<1>8. ASSUME NEW q \in Requests, intent'[k] = Stored(intent[k], reply[q])
      PROVE  intent'[k].by = intent[k].by /\ intent'[k].result = reply[q]
  BY <1>3, <1>8
<1>9. QED
  BY <1>1, <1>6, <1>7, <1>8 DEF RowStep

\* An order is sent from "ready" and then goes its way at the broker.
OrderStep(o) ==
  \/ order'[o] = order[o]
  \/ /\ o = OrderOf(o[1]) /\ at[o[1]] = "ready" /\ at'[o[1]] = "waiting" /\ order'[o] = "sent"
  \/ order[o] = "sent" /\ order'[o] \in {"refused", "working"}
  \/ order[o] = "working" /\ order'[o] \in {"traded", "dead"}

LEMMA OrderSteps ==
  ASSUME TypeOK, [Next]_vars, NEW o \in Orders
  PROVE  OrderStep(o)
<1>t. order \in [Orders -> {"none", "sent", "refused"} \cup Accepted] /\ at \in [Requests -> Places]
  BY DEF TypeOK
<1>1. ASSUME NEW r \in Requests, Post(r) PROVE OrderStep(o)
  <2>1. order' = [order EXCEPT ![OrderOf(r)] = "sent"] /\ at[r] = "ready" /\ at'[r] = "waiting"
    BY <1>1, <1>t DEF Post, Goes
  <2>2. OrderOf(r)[1] = r /\ OrderOf(r) \in Orders
    BY OrderOfRequest DEF OrderOf, TypeOK
  <2>3. QED
    BY <2>1, <2>2, <1>t DEF OrderStep
<1>2. ASSUME NEW p \in Orders, Broker(p) PROVE OrderStep(o)
  BY <1>2, <1>t DEF Broker, OrderStep
<1>3. ASSUME NEW r \in Requests, Step(r), ~Post(r) PROVE order' = order
  BY <1>3 DEF Step, Begin, BeginFails, Lookup, LookupFails, Check, ClaimIntent, ClaimFails, MarkSubmitted,
     Hear, TimeOut, Breaks, Recover, Poll, Complete, PersistenceFails, Return
<1>4. CASE order' = order
  BY <1>4 DEF OrderStep
<1>5. QED
  BY <1>1, <1>2, <1>3, <1>4 DEF Next, vars, Die, Switch

\* A second attempt follows a refused first one.
LEMMA AttemptSteps ==
  ASSUME TypeOK, [Next]_vars, NEW r \in Requests
  PROVE  \/ attempt'[r] = attempt[r]
         \/ /\ attempt[r] = 1 /\ attempt'[r] = 2 /\ order[<<r, 1>>] = "refused"
            /\ at[r] \in {"waiting", "recovering"} /\ at'[r] = "ready"
<1>t. attempt \in [Requests -> {1, 2}] /\ at \in [Requests -> Places]
  BY DEF TypeOK
<1>1. ASSUME NEW q \in Requests, Resends(q), order[OrderOf(q)] = "refused", at[q] \in {"waiting", "recovering"}
      PROVE  \/ attempt'[r] = attempt[r]
             \/ /\ attempt[r] = 1 /\ attempt'[r] = 2 /\ order[<<r, 1>>] = "refused"
                /\ at[r] \in {"waiting", "recovering"} /\ at'[r] = "ready"
  <2>1. attempt[q] = 1 /\ attempt' = [attempt EXCEPT ![q] = 2] /\ at' = [at EXCEPT ![q] = "ready"]
    BY <1>1 DEF Resends, Goes
  <2>2. QED
    BY <1>1, <2>1, <1>t DEF OrderOf
<1>2. ASSUME NEW q \in Requests, Hear(q) \/ Recover(q)
      PROVE  attempt' = attempt \/ (Resends(q) /\ order[OrderOf(q)] = "refused")
  BY <1>2 DEF Hear, Recover, SettlesOn, Polls
<1>3. ASSUME NEW q \in Requests, Hear(q) \/ Recover(q) PROVE at[q] \in {"waiting", "recovering"}
  BY <1>3 DEF Hear, Recover
<1>4. ASSUME NEW q \in Requests, Step(q), ~Hear(q), ~Recover(q) PROVE attempt' = attempt
  BY <1>4 DEF Step, Begin, BeginFails, Lookup, LookupFails, Check, ClaimIntent, ClaimFails, MarkSubmitted, Post,
     TimeOut, Breaks, Poll, SettlesOn, Complete, PersistenceFails, Return
<1>5. QED
  BY <1>1, <1>2, <1>3, <1>4 DEF Next, vars, Broker, Die, Switch

\* Where a request can go: it starts with its operation claimed, and reaches
\* the order with the order's intent claimed.
Early == {"new", "routing", "checking", "cleared", "claimed", "ready"}
Placing == {"claimed", "ready", "waiting", "recovering", "polling", "completing"}
After == {"completing", "leaving", "done", "dead"}
Move(r) ==
  \/ at'[r] = at[r]
  \/ at'[r] \in {"leaving", "done", "dead"}  /\ at[r] \in Working
  \/ at'[r] = "done" /\ at[r] = "new"
  \/ /\ at[r] = "new" /\ at'[r] = "routing"
     /\ Panel(r) => intent'[OperationKey(r)] = Pending(r)
  \/ at[r] = "routing" /\ at'[r] = "checking"
  \/ at[r] = "checking" /\ at'[r] = "cleared"
  \/ at[r] = "cleared" /\ at'[r] = "claimed" /\ intent'[ClaimKey(r)] = Pending(r)
  \/ /\ at[r] \in Placing \ {"completing"} /\ at'[r] \in Placing
     /\ at'[r] \in Early => at[r] \in Early \/ attempt'[r] # attempt[r]

LEMMA Moves ==
  ASSUME TypeOK, [Next]_vars, NEW r \in Requests
  PROVE  Move(r)
<1>t. intent \in [Keys -> Row] /\ at \in [Requests -> Places] /\ OperationKey(r) \in Keys /\ ClaimKey(r) \in Keys
  BY KeysOfRequest DEF TypeOK
<1>1. CASE at'[r] = at[r]
  BY <1>1 DEF Move
<1>2. ASSUME NEW q \in Requests, q # r, Step(q) PROVE at'[r] = at[r]
  BY <1>2, <1>t DEF Step, Begin, BeginFails, Lookup, LookupFails, Check, ClaimIntent, ClaimFails, MarkSubmitted, Post,
     Hear, Polls, Resends, SettlesOn, TimeOut, Breaks, Recover, Poll, Complete, PersistenceFails, Return,
     Goes, Leaves, Told
<1>3. CASE Begin(r)
  BY <1>3, <1>t DEF Begin, Goes, Told, Move
<1>4. CASE BeginFails(r)
  BY <1>4, <1>t DEF BeginFails, Goes, Told, Move
<1>5. CASE Lookup(r) \/ LookupFails(r) \/ Check(r)
  BY <1>5, <1>t DEF Lookup, LookupFails, Check, Goes, Told, Leaves, Move, Working, Places
<1>6. CASE ClaimIntent(r) \/ ClaimFails(r)
  BY <1>6, <1>t DEF ClaimIntent, ClaimFails, Goes, Leaves, Move, Working, Places
<1>7. CASE MarkSubmitted(r) \/ Post(r) \/ TimeOut(r)
  BY <1>7, <1>t DEF MarkSubmitted, Post, TimeOut, Goes, Leaves, Move, Working, Places, Placing, Early
<1>8. CASE Hear(r) \/ Breaks(r) \/ Recover(r) \/ Poll(r)
  <2>1. at[r] \in {"waiting", "recovering", "polling"}
    BY <1>8 DEF Hear, Breaks, Recover, Poll
  <2>2. \/ at'[r] \in {"polling", "completing"}
        \/ Resends(r)
    BY <1>8, <1>t DEF Hear, Breaks, Recover, Poll, Polls, SettlesOn, Goes
  <2>3. Resends(r) => at'[r] = "ready" /\ attempt'[r] # attempt[r]
    BY <1>t DEF Resends, Goes, TypeOK
  <2>4. QED
    BY <2>1, <2>2, <2>3 DEF Move, Placing, Early
<1>9. CASE Complete(r) \/ PersistenceFails(r) \/ Return(r)
  BY <1>9, <1>t DEF Complete, PersistenceFails, Return, Goes, Leaves, Told, Move, Working, Places
<1>10. CASE Die
  BY <1>10, <1>t DEF Die, Move
<1>11. CASE UNCHANGED vars \/ (\E o \in Orders : Broker(o)) \/ Switch
  BY <1>11, <1>1 DEF vars, Broker, Switch
<1>12. QED
  BY <1>1, <1>2, <1>3, <1>4, <1>5, <1>6, <1>7, <1>8, <1>9, <1>10, <1>11 DEF Next, Step

----------------------------------------------------------------------------
(* One order for an operation.  A request on its way to the broker holds the row
   of its order, and at the panel the row of its operation; that is still so when
   the order is known to the broker, because no row changes hands. *)

Claimed == \A r \in Requests : at[r] \in Placing =>
             intent[ClaimKey(r)].by = r /\ intent[ClaimKey(r)].result = NoResult
Entered == \A r \in Requests : Panel(r) /\ at[r] \in Working =>
             intent[OperationKey(r)].by = r /\ intent[OperationKey(r)].result = NoResult
Owned == \A o \in Orders : order[o] # "none" => at[o[1]] # "new" /\ Owns(o[1])
Tried == \A r \in Requests :
           /\ attempt[r] = 1 => order[<<r, 2>>] = "none"
           /\ attempt[r] = 2 => order[<<r, 1>>] = "refused"

SendInv == TypeOK /\ Claimed /\ Entered /\ Owned /\ Tried

LEMMA SendInit == Init => SendInv
<1> SUFFICES ASSUME Init PROVE SendInv
  OBVIOUS
<1>1. TypeOK
  BY TypeInit
<1>2. /\ \A r \in Requests : at[r] = "new" /\ attempt[r] = 1
      /\ \A o \in Orders : order[o] = "none"
  BY DEF Init
<1>3. QED
  BY <1>1, <1>2 DEF SendInv, Claimed, Entered, Owned, Tried, Placing, Working, Orders

LEMMA ClaimedStep ==
  ASSUME SendInv, [Next]_vars
  PROVE  Claimed'
<1>1. SUFFICES ASSUME NEW r \in Requests, at'[r] \in Placing
      PROVE  intent'[ClaimKey(r)'].by = r /\ intent'[ClaimKey(r)'].result = NoResult
  BY DEF Claimed
<1>2. TypeOK /\ ClaimKey(r) \in Keys /\ ClaimKey(r)' = ClaimKey(r)
  <2>1. TypeOK /\ ClaimKey(r) \in Keys
    BY KeysOfRequest DEF SendInv, TypeOK
  <2>2. at[r] # "new"
    BY <1>1, <2>1, Moves DEF Move, Placing
  <2>3. QED
    BY <2>1, <2>2, KeysStay
<1>3. CASE intent'[ClaimKey(r)] = Pending(r)
  BY <1>2, <1>3 DEF Pending
<1>4. CASE at[r] \in Placing
  <2>1. intent[ClaimKey(r)].by = r /\ intent[ClaimKey(r)].result = NoResult
    BY <1>4 DEF SendInv, Claimed
  <2>2. intent'[ClaimKey(r)].by = r
    BY <1>2, <2>1, RowKept, IntentAssumption
  <2>3. ASSUME NEW q \in Requests, ClaimKey(r) = ClaimKey(q), at[q] = "completing", at'[q] = "leaving" PROVE FALSE
    BY <2>1, <2>3, <1>1 DEF SendInv, Claimed, Placing
  <2>4. ASSUME NEW q \in Requests, ClaimKey(r) = OperationKey(q) PROVE FALSE
    BY <2>4, KeyOfOperation
  <2>5. intent'[ClaimKey(r)].result = intent[ClaimKey(r)].result
    BY <1>2, <2>3, <2>4, RowKept
  <2>6. QED
    BY <1>2, <2>1, <2>2, <2>5
<1>5. QED
  BY <1>1, <1>2, <1>3, <1>4, Moves DEF Move, Placing

LEMMA EnteredStep ==
  ASSUME SendInv, [Next]_vars
  PROVE  Entered'
<1>1. TypeOK /\ \A r \in Requests : /\ OperationKey(r)' = OperationKey(r) /\ OperationKey(r) \in Keys
                                    /\ Panel(r)' = Panel(r)
  BY KindStays, KeysOfRequest DEF SendInv, TypeOK
<1>2. SUFFICES ASSUME NEW r \in Requests, Panel(r), at'[r] \in Working
      PROVE  intent'[OperationKey(r)].by = r /\ intent'[OperationKey(r)].result = NoResult
  BY <1>1 DEF Entered
<1>3. CASE intent'[OperationKey(r)] = Pending(r)
  BY <1>3 DEF Pending
<1>4. CASE at[r] \in Working
  <2>1. intent[OperationKey(r)].by = r /\ intent[OperationKey(r)].result = NoResult
    BY <1>2, <1>4 DEF SendInv, Entered
  <2>2. intent'[OperationKey(r)].by = r
    BY <1>1, <2>1, RowKept, IntentAssumption
  <2>3. ASSUME NEW q \in Requests, OperationKey(r) = OperationKey(q), Panel(q), at[q] = "leaving", at'[q] = "done"
        PROVE FALSE
    BY <2>1, <2>3, <1>2 DEF SendInv, Entered, Working, Places
  <2>4. ASSUME NEW q \in Requests, OperationKey(r) = ClaimKey(q) PROVE FALSE
    BY <2>4, KeyOfOperation
  <2>5. intent'[OperationKey(r)].result = intent[OperationKey(r)].result
    BY <1>1, <2>3, <2>4, RowKept
  <2>6. QED
    BY <2>1, <2>2, <2>5
<1>5. QED
  BY <1>1, <1>2, <1>3, <1>4, Moves DEF Move, Placing, Working, Places

LEMMA OwnsKept ==
  ASSUME TypeOK, [Next]_vars, NEW r \in Requests, Owns(r), at[r] # "new"
  PROVE  Owns(r)' /\ at'[r] # "new"
<1>1. /\ ClaimKey(r)' = ClaimKey(r) /\ OperationKey(r)' = OperationKey(r) /\ Panel(r)' = Panel(r)
      /\ ClaimKey(r) \in Keys /\ OperationKey(r) \in Keys
  BY KeysStay, KindStays, KeysOfRequest DEF TypeOK
<1>2. at'[r] # "new"
  BY Moves DEF Move, Placing
<1>3. QED
  BY <1>1, <1>2, RowKept, IntentAssumption DEF Owns

LEMMA OwnedStep ==
  ASSUME SendInv, [Next]_vars
  PROVE  Owned'
<1>1. SUFFICES ASSUME NEW o \in Orders, order'[o] # "none" PROVE at'[o[1]] # "new" /\ Owns(o[1])'
  BY DEF Owned
<1>2. TypeOK /\ o[1] \in Requests
  BY DEF SendInv, Orders
<1>3. CASE order[o] # "none"
  BY <1>2, <1>3, OwnsKept DEF SendInv, Owned
<1>4. CASE at[o[1]] = "ready"
  <2>1. Owns(o[1])
    BY <1>2, <1>4 DEF SendInv, Claimed, Entered, Owns, Placing, Working, Places
  <2>2. QED
    BY <1>2, <1>4, <2>1, OwnsKept
<1>5. QED
  BY <1>1, <1>2, <1>3, <1>4, OrderSteps DEF OrderStep

LEMMA TriedStep ==
  ASSUME SendInv, [Next]_vars
  PROVE  Tried'
<1>1. SUFFICES ASSUME NEW r \in Requests
      PROVE  /\ attempt'[r] = 1 => order'[<<r, 2>>] = "none"
             /\ attempt'[r] = 2 => order'[<<r, 1>>] = "refused"
  BY DEF Tried
<1>2. /\ TypeOK /\ <<r, 1>> \in Orders /\ <<r, 2>> \in Orders /\ attempt[r] \in {1, 2}
  BY DEF SendInv, Orders, TypeOK
<1>3. attempt[r] = 1 => order'[<<r, 2>>] = "none"
  BY <1>2, OrderSteps DEF OrderStep, OrderOf, SendInv, Tried
<1>4. order[<<r, 1>>] = "refused" /\ at[r] # "ready" => order'[<<r, 1>>] = "refused"
  BY <1>2, OrderSteps DEF OrderStep, OrderOf
<1>5. attempt[r] = 2 => order'[<<r, 1>>] = "refused"
  BY <1>2, OrderSteps DEF OrderStep, OrderOf, SendInv, Tried
<1>6. QED
  BY <1>2, <1>3, <1>4, <1>5, AttemptSteps

LEMMA SendStep ==
  ASSUME SendInv, [Next]_vars
  PROVE  SendInv'
BY TypeStep, ClaimedStep, EnteredStep, OwnedStep, TriedStep DEF SendInv

LEMMA SendSafe == SendInv => SentOnce
<1> SUFFICES ASSUME SendInv, NEW o \in Orders, NEW p \in Orders, order[o] \in Accepted, order[p] \in Accepted,
                    Alike(o[1], p[1])
             PROVE  o = p
  BY DEF SentOnce
<1>1. o[1] \in Requests /\ p[1] \in Requests /\ o[2] \in {1, 2} /\ p[2] \in {1, 2}
      /\ o = <<o[1], o[2]>> /\ p = <<p[1], p[2]>>
  BY DEF Orders
<1>2. o[1] = p[1]
  BY <1>1, OwnsAlone DEF SendInv, Owned, Accepted, Alive
<1>3. attempt[o[1]] \in {1, 2}
  BY <1>1 DEF SendInv, TypeOK
<1>4. o[2] = p[2]
  BY <1>1, <1>2, <1>3 DEF SendInv, Tried, Accepted, Alive
<1>5. QED
  BY <1>1, <1>2, <1>4

(* The broker accepts one order of a request, whatever is repeated, lost or
   interrupted. *)
THEOREM SentAtMostOnce == Spec => []SentOnce
<1>1. Init => SendInv
  BY SendInit
<1>2. SendInv /\ [Next]_vars => SendInv'
  BY SendStep
<1>3. SendInv => SentOnce
  BY SendSafe
<1>4. QED
  BY <1>1, <1>2, <1>3, PTL DEF Spec

----------------------------------------------------------------------------
(* What a step can do to replies and answers. *)

\* An order that is over.
Ended(o) == o \in Orders /\ order[o] \in {"refused", "dead"}

ReplyStep(r) ==
  \/ reply'[r] = reply[r]
  \/ at[r] \in Working /\ at'[r] = "leaving" /\ reply'[r].status \notin Definite
  \/ /\ at[r] \in Working /\ at'[r] = "leaving" /\ intent' = intent
     /\ reply'[r] \in {intent[LookupKey(r)].result, intent[ClaimKey(r)].result}
  \/ at[r] \in Placing /\ at'[r] = "polling" /\ reply'[r].status \notin Definite
  \/ /\ at[r] \in Placing \ {"completing"} /\ at'[r] = "completing" /\ UNCHANGED <<intent, order>>
     /\ reply'[r].status = "REJECTED" /\ reply'[r].order # NoOrder => Ended(reply'[r].order)

LEMMA FoundIs ==
  ASSUME NEW row \in Row, NEW res \in Found(row, Blocked) \cup Found(row, Reconcile)
  PROVE  res.status \notin Definite \/ res = row.result
BY DEF Found, Blocked, Reconcile, Definite, Sent

LEMMA ReplySteps ==
  ASSUME TypeOK, [Next]_vars, NEW r \in Requests
  PROVE  ReplyStep(r)
<1>t. /\ at \in [Requests -> Places] /\ reply \in [Requests -> Result]
      /\ intent[LookupKey(r)] \in Row /\ intent[ClaimKey(r)] \in Row
  BY KeysOfRequest DEF TypeOK
<1>1. ASSUME NEW q \in Requests, q # r, Step(q) PROVE reply'[r] = reply[r]
  BY <1>1, <1>t DEF Step, Begin, BeginFails, Lookup, LookupFails, Check, ClaimIntent, ClaimFails, MarkSubmitted, Post,
     Hear, Polls, Resends, SettlesOn, TimeOut, Breaks, Recover, Poll, Complete, PersistenceFails, Return, Leaves
<1>2. ASSUME NEW k \in {LookupKey(r), ClaimKey(r)}, NEW res \in Found(intent[k], Blocked),
             Leaves(r, res), intent' = intent, at[r] \in Working
      PROVE  ReplyStep(r)
  <2>1. reply'[r] = res /\ at'[r] = "leaving"
    BY <1>2, <1>t DEF Leaves, Goes
  <2>2. res.status \notin Definite \/ res = intent[k].result
    BY <1>t, FoundIs
  <2>3. QED
    BY <1>2, <2>1, <2>2 DEF ReplyStep
<1>3. ASSUME Leaves(r, Blocked) \/ Leaves(r, Reconcile), at[r] \in Working PROVE ReplyStep(r)
  BY <1>3, <1>t DEF Leaves, Goes, Blocked, Reconcile, Definite, Sent, ReplyStep
<1>s. ASSUME NEW st \in Definite, NEW o, SettlesOn(r, st, o), at[r] \in {"waiting", "recovering", "polling"},
             UNCHANGED <<intent, order>>, st = "REJECTED" /\ o # NoOrder => Ended(o)
      PROVE  ReplyStep(r)
  BY <1>s, <1>t DEF SettlesOn, Goes, ReplyStep, Placing
<1>4. ASSUME NEW o \in Orders, Polls(r, o), at[r] \in {"waiting", "recovering"} PROVE ReplyStep(r)
  BY <1>4, <1>t DEF Polls, Goes, ReplyStep, Placing, NoResult, Definite, Sent
<1>5. CASE UNCHANGED reply
  BY <1>5 DEF ReplyStep
<1>6. CASE Lookup(r)
  BY <1>6, <1>2, <1>5 DEF Lookup, Working, Places
<1>7. CASE Check(r)
  BY <1>7, <1>3, <1>5 DEF Check, Working, Places
<1>8. CASE ClaimIntent(r)
  BY <1>8, <1>2, <1>5 DEF ClaimIntent, Working, Places
<1>9. CASE ClaimFails(r) \/ MarkSubmitted(r) \/ PersistenceFails(r)
  BY <1>9, <1>3, <1>5 DEF ClaimFails, MarkSubmitted, PersistenceFails, Working, Places
<1>10. CASE Hear(r)
  <2>1. OrderOf(r) \in Orders /\ "REJECTED" \in Definite
    BY OrderOfRequest DEF TypeOK, Definite
  <2>2. /\ at[r] = "waiting" /\ UNCHANGED <<intent, order>>
        /\ Polls(r, OrderOf(r)) \/ SettlesOn(r, "REJECTED", NoOrder) \/ Resends(r)
    BY <1>10 DEF Hear
  <2>3. Resends(r) => UNCHANGED reply
    BY DEF Resends
  <2>4. QED
    BY <2>1, <2>2, <2>3, <1>s, <1>4, <1>5
<1>11. CASE Breaks(r)
  BY <1>11, <1>s DEF Breaks, Definite
<1>12. CASE Recover(r)
  <2>1. {"REJECTED", "ORDER_STATE_UNKNOWN"} \subseteq Definite
    BY DEF Definite
  <2>2. /\ at[r] = "recovering" /\ UNCHANGED <<intent, order>>
        /\ \/ \E o \in Orders : Polls(r, o) \/ (order[o] = "refused" /\ SettlesOn(r, "REJECTED", o))
           \/ Resends(r) \/ SettlesOn(r, "ORDER_STATE_UNKNOWN", NoOrder)
    BY <1>12 DEF Recover
  <2>3. ASSUME NEW o \in Orders, order[o] = "refused", SettlesOn(r, "REJECTED", o) PROVE ReplyStep(r)
    BY <2>1, <2>2, <2>3, <1>s DEF Ended
  <2>4. Resends(r) => UNCHANGED reply
    BY DEF Resends
  <2>5. SettlesOn(r, "ORDER_STATE_UNKNOWN", NoOrder) => ReplyStep(r)
    BY <2>1, <2>2, <1>s
  <2>6. QED
    BY <2>2, <2>3, <2>4, <2>5, <1>4, <1>5
<1>13. CASE Poll(r)
  <2>1. PICK o : o = reply[r].order
    OBVIOUS
  <2>2. o \in Orders \cup {NoOrder}
    BY <2>1, <1>t DEF Result
  <2>3. /\ at[r] = "polling" /\ UNCHANGED <<intent, order>>
        /\ \E st \in Definite : SettlesOn(r, st, o) /\ (st = "REJECTED" => order[o] = "dead")
    BY <1>13, <2>1 DEF Poll, Definite, Sent
  <2>4. PICK st \in Definite : SettlesOn(r, st, o) /\ (st = "REJECTED" => order[o] = "dead")
    BY <2>3
  <2>5. st = "REJECTED" /\ o # NoOrder => Ended(o)
    BY <2>2, <2>4 DEF Ended
  <2>6. QED
    BY <2>3, <2>4, <2>5, <1>s
<1>14. CASE Begin(r) \/ BeginFails(r) \/ LookupFails(r) \/ Post(r) \/ TimeOut(r) \/ Complete(r) \/ Return(r)
  BY <1>14, <1>5 DEF Begin, BeginFails, LookupFails, Post, TimeOut, Complete, Return
<1>15. CASE UNCHANGED vars \/ Die \/ Switch \/ (\E o \in Orders : Broker(o))
  BY <1>15, <1>5 DEF vars, Die, Switch, Broker
<1>16. ASSUME reply'[r] = reply[r] PROVE ReplyStep(r)
  BY <1>16 DEF ReplyStep
<1>17. QED
  BY <1>1, <1>6, <1>7, <1>8, <1>9, <1>10, <1>11, <1>12, <1>13, <1>14, <1>15, <1>16 DEF Next, Step

AnswerStep(r) ==
  \/ answer'[r] = answer[r]
  \/ at'[r] = "done" /\ answer'[r].status \notin Definite
  \/ /\ at[r] = "new" /\ at'[r] = "done" /\ Panel(r) /\ intent' = intent
     /\ answer'[r] = intent[OperationKey(r)].result
  \/ /\ at[r] = "leaving" /\ at'[r] = "done" /\ answer'[r] = reply[r]
     /\ IF Panel(r) THEN intent'[OperationKey(r)].result = reply[r] ELSE intent' = intent

LEMMA AnswerSteps ==
  ASSUME TypeOK, [Next]_vars, NEW r \in Requests
  PROVE  AnswerStep(r)
<1>t. /\ at \in [Requests -> Places] /\ answer \in [Requests -> Result] /\ intent \in [Keys -> Row]
      /\ intent[OperationKey(r)] \in Row /\ OperationKey(r) \in Keys
  BY KeysOfRequest DEF TypeOK
<1>1. ASSUME NEW q \in Requests, q # r, Step(q) PROVE answer'[r] = answer[r]
  BY <1>1, <1>t DEF Step, Begin, BeginFails, Lookup, LookupFails, Check, ClaimIntent, ClaimFails, MarkSubmitted, Post,
     Hear, TimeOut, Breaks, Recover, Poll, Complete, PersistenceFails, Return, Told
<1>2. ASSUME NEW res, Told(r, res) PROVE answer'[r] = res /\ at'[r] = "done"
  BY <1>2, <1>t DEF Told, Goes
<1>3. ASSUME Told(r, Blocked) \/ Told(r, Reconcile) PROVE AnswerStep(r)
  BY <1>2, <1>3 DEF AnswerStep, Blocked, Reconcile, Definite, Sent
<1>4. CASE UNCHANGED answer
  BY <1>4 DEF AnswerStep
<1>5. CASE Begin(r)
  <2>1. CASE Panel(r) /\ intent[OperationKey(r)] # NoRow
    <3>1. PICK res \in Found(intent[OperationKey(r)], Reconcile) : Told(r, res)
      BY <1>5, <2>1 DEF Begin
    <3>2. res.status \notin Definite \/ res = intent[OperationKey(r)].result
      BY <1>t, FoundIs
    <3>3. at[r] = "new" /\ intent' = intent
      BY <1>5, <2>1 DEF Begin
    <3>4. QED
      BY <2>1, <3>1, <3>2, <3>3, <1>2 DEF AnswerStep
  <2>2. QED
    BY <1>5, <2>1, <1>4 DEF Begin
<1>6. CASE Return(r)
  <2>1. CASE Told(r, Reconcile)
    BY <2>1, <1>3
  <2>2. CASE /\ Told(r, reply[r])
             /\ intent' = IF Panel(r) THEN [intent EXCEPT ![OperationKey(r)] = Stored(@, reply[r])] ELSE intent
    <3>1. answer'[r] = reply[r] /\ at'[r] = "done" /\ at[r] = "leaving"
      BY <1>6, <2>2, <1>2 DEF Return
    <3>2. Panel(r) => intent'[OperationKey(r)].result = reply[r]
      BY <2>2, <1>t DEF Stored, Row
    <3>3. QED
      BY <2>2, <3>1, <3>2 DEF AnswerStep
  <2>3. QED
    BY <1>6, <2>1, <2>2 DEF Return
<1>7. CASE BeginFails(r) \/ Check(r)
  BY <1>7, <1>3, <1>4 DEF BeginFails, Check
<1>8. ASSUME Step(r), ~Begin(r), ~Return(r), ~BeginFails(r), ~Check(r) PROVE UNCHANGED answer
  BY <1>8 DEF Step, Lookup, LookupFails, ClaimIntent, ClaimFails, MarkSubmitted, Post,
     Hear, TimeOut, Breaks, Recover, Poll, Complete, PersistenceFails
<1>9. CASE UNCHANGED vars \/ Die \/ Switch \/ (\E o \in Orders : Broker(o))
  BY <1>9, <1>4 DEF vars, Die, Switch, Broker
<1>10. ASSUME answer'[r] = answer[r] PROVE AnswerStep(r)
  BY <1>10 DEF AnswerStep
<1>11. QED
  BY <1>1, <1>4, <1>5, <1>6, <1>7, <1>8, <1>9, <1>10 DEF Next, Step

----------------------------------------------------------------------------
(* One result for an operation.  A definite result is in the row everybody
   reads, or is held by the owner of that row, who has still to store it. *)

RepliesBacked == \A r \in Requests : ~Panel(r) /\ reply[r].status \in Definite =>
  /\ at[r] # "new"
  /\ \/ intent[ClaimKey(r)].result = reply[r]
     \/ intent[ClaimKey(r)].by = r /\ intent[ClaimKey(r)].result = NoResult

AnswersBacked == \A r \in Requests : answer[r].status \in Definite =>
  /\ at[r] = "done"
  /\ IF Panel(r) THEN intent[OperationKey(r)].result = answer[r] ELSE answer[r] = reply[r]

AgreeInv == SendInv /\ RepliesBacked /\ AnswersBacked

LEMMA NoResultIndefinite == NoResult.status \notin Definite
BY DEF NoResult, Definite, Sent

LEMMA AgreeInit == Init => AgreeInv
<1> SUFFICES ASSUME Init PROVE AgreeInv
  OBVIOUS
<1>1. \A r \in Requests : reply[r] = NoResult /\ answer[r] = NoResult
  BY DEF Init
<1>2. QED
  BY <1>1, SendInit, NoResultIndefinite DEF AgreeInv, RepliesBacked, AnswersBacked

\* A stored result stays, and only its owner stores one.
LEMMA ResultKept ==
  ASSUME SendInv, [Next]_vars, NEW k \in Keys
  PROVE  \/ intent'[k].result = intent[k].result
         \/ \E q \in Requests : /\ intent[k].by = q /\ intent[k].result = NoResult
                                /\ k \in KeysOf(q) /\ at[q] # "new" /\ intent'[k].result = reply[q]
<1>1. ASSUME NEW q \in Requests, k = ClaimKey(q), at[q] = "completing"
      PROVE  intent[k].by = q /\ intent[k].result = NoResult
  BY <1>1 DEF SendInv, Claimed, Placing
<1>2. ASSUME NEW q \in Requests, k = OperationKey(q), Panel(q), at[q] = "leaving"
      PROVE  intent[k].by = q /\ intent[k].result = NoResult
  BY <1>2 DEF SendInv, Entered, Working, Places
<1>3. QED
  BY <1>1, <1>2, RowKept DEF SendInv, KeysOf

LEMMA RepliesBackedStep ==
  ASSUME AgreeInv, [Next]_vars
  PROVE  RepliesBacked'
<1>1. TypeOK /\ SendInv /\ (\A r \in Requests : Panel(r)' = Panel(r))
  BY KindStays DEF AgreeInv, SendInv
<1>2. SUFFICES ASSUME NEW r \in Requests, ~Panel(r), reply'[r].status \in Definite
      PROVE  /\ at'[r] # "new"
             /\ \/ intent'[ClaimKey(r)'].result = reply'[r]
                \/ intent'[ClaimKey(r)'].by = r /\ intent'[ClaimKey(r)'].result = NoResult
  BY <1>1 DEF RepliesBacked
<1>n. at[r] # "new"
  BY <1>1, <1>2, ReplySteps DEF ReplyStep, Working, Placing, AgreeInv, RepliesBacked
<1>k. at'[r] # "new" /\ ClaimKey(r)' = ClaimKey(r)
  BY <1>1, <1>n, KeysStay, Moves DEF Move, Placing
<1>3. LookupKey(r) = ClaimKey(r) /\ ClaimKey(r) \in Keys
  <2>1. Alike(r, r)
    BY DEF Alike
  <2>2. QED
    BY <1>1, <1>2, <2>1, SignalClaims, KeysOfRequest DEF TypeOK
<1>4. CASE reply'[r] = reply[r]
  <2>1. CASE intent[ClaimKey(r)].result = reply[r]
    BY <1>1, <1>2, <1>k, <1>3, <1>4, <2>1, ResultKept, NoResultIndefinite
  <2>2. CASE intent[ClaimKey(r)].by = r /\ intent[ClaimKey(r)].result = NoResult
    BY <1>1, <1>k, <1>3, <1>4, <2>2, ResultKept, RowKept, IntentAssumption
  <2>3. QED
    BY <1>2, <1>4, <2>1, <2>2 DEF AgreeInv, RepliesBacked
<1>5. CASE intent' = intent /\ reply'[r] \in {intent[LookupKey(r)].result, intent[ClaimKey(r)].result}
  BY <1>k, <1>3, <1>5
<1>6. CASE at[r] \in Placing /\ intent' = intent
  BY <1>1, <1>k, <1>6 DEF SendInv, Claimed
<1>7. QED
  BY <1>1, <1>2, <1>k, <1>4, <1>5, <1>6, ReplySteps DEF ReplyStep

LEMMA AnswersBackedStep ==
  ASSUME AgreeInv, [Next]_vars
  PROVE  AnswersBacked'
<1>1. /\ TypeOK /\ SendInv
      /\ \A r \in Requests : OperationKey(r)' = OperationKey(r) /\ OperationKey(r) \in Keys /\ Panel(r)' = Panel(r)
  BY KindStays, KeysOfRequest DEF AgreeInv, SendInv, TypeOK
<1>2. SUFFICES ASSUME NEW r \in Requests, answer'[r].status \in Definite
      PROVE  /\ at'[r] = "done"
             /\ IF Panel(r) THEN intent'[OperationKey(r)].result = answer'[r] ELSE answer'[r] = reply'[r]
  BY <1>1 DEF AnswersBacked
<1>3. CASE answer'[r] = answer[r]
  <2>1. /\ at[r] = "done"
        /\ IF Panel(r) THEN intent[OperationKey(r)].result = answer[r] ELSE answer[r] = reply[r]
    BY <1>2, <1>3 DEF AgreeInv, AnswersBacked
  <2>2. at'[r] = "done"
    BY <1>1, <2>1, Moves DEF Move, Working, Placing
  <2>3. reply'[r] = reply[r]
    BY <1>1, <2>1, ReplySteps DEF ReplyStep, Working, Placing
  <2>4. Panel(r) => intent'[OperationKey(r)].result = intent[OperationKey(r)].result
    BY <1>1, <1>2, <1>3, <2>1, ResultKept, NoResultIndefinite
  <2>5. QED
    BY <1>3, <2>1, <2>2, <2>3, <2>4
<1>4. CASE at[r] = "leaving" /\ at'[r] = "done" /\ answer'[r] = reply[r]
           /\ IF Panel(r) THEN intent'[OperationKey(r)].result = reply[r] ELSE intent' = intent
  <2>1. reply'[r] = reply[r]
    BY <1>1, <1>4, ReplySteps DEF ReplyStep
  <2>2. QED
    BY <1>4, <2>1
<1>5. QED
  BY <1>1, <1>2, <1>3, <1>4, AnswerSteps DEF AnswerStep

LEMMA AgreeStep ==
  ASSUME AgreeInv, [Next]_vars
  PROVE  AgreeInv'
BY SendStep, RepliesBackedStep, AnswersBackedStep DEF AgreeInv

LEMMA AgreeSafe == AgreeInv => AnswersAgree
<1> SUFFICES ASSUME AgreeInv, NEW r \in Requests, NEW q \in Requests, Alike(r, q),
                    answer[r].status \in Definite, answer[q].status \in Definite
             PROVE  answer[r] = answer[q]
  BY DEF AnswersAgree
<1>1. CASE Panel(r)
  BY <1>1 DEF AgreeInv, AnswersBacked, Panel, OperationKey, Alike
<1>2. CASE ~Panel(r)
  <2>1. ClaimKey(r) = ClaimKey(q) /\ ~Panel(q)
    BY <1>2, SignalClaims DEF AgreeInv, SendInv
  <2>2. answer[r] = reply[r] /\ answer[q] = reply[q]
    BY <1>2, <2>1 DEF AgreeInv, AnswersBacked
  <2>3. QED
    BY <1>2, <2>1, <2>2, NoResultIndefinite DEF AgreeInv, RepliesBacked
<1>3. QED
  BY <1>1, <1>2

(* Two callers of one request are never told different results. *)
THEOREM OneResult == Spec => []AnswersAgree
<1>1. Init => AgreeInv
  BY AgreeInit
<1>2. AgreeInv /\ [Next]_vars => AgreeInv'
  BY AgreeStep
<1>3. AgreeInv => AnswersAgree
  BY AgreeSafe
<1>4. QED
  BY <1>1, <1>2, <1>3, PTL DEF Spec

----------------------------------------------------------------------------
(* A rejection that names an order is final.  No order is sent twice: a request
   is at its order only while the broker has not heard of it. *)

Fresh == \A r \in Requests : at[r] \in Early => order[OrderOf(r)] = "none"

LEMMA FreshStep ==
  ASSUME SendInv, Fresh, [Next]_vars
  PROVE  Fresh'
<1>1. SUFFICES ASSUME NEW r \in Requests, at'[r] \in Early PROVE order'[OrderOf(r)'] = "none"
  BY DEF Fresh
<1>2. TypeOK /\ <<r, 1>> \in Orders /\ <<r, 2>> \in Orders /\ attempt[r] \in {1, 2}
  BY DEF SendInv, Orders, TypeOK
<1>3. CASE attempt'[r] = attempt[r]
  <2>1. at[r] \in Early
    BY <1>1, <1>2, <1>3, Moves DEF Move, Early, Placing
  <2>2. OrderOf(r) \in Orders /\ OrderOf(r)[1] = r /\ OrderOf(r)' = OrderOf(r) /\ order[OrderOf(r)] = "none"
    BY <1>2, <1>3, <2>1 DEF OrderOf, Fresh
  <2>3. QED
    BY <1>1, <1>2, <2>2, OrderSteps DEF OrderStep, Early
<1>4. CASE attempt[r] = 1 /\ attempt'[r] = 2
  <2>1. order[<<r, 2>>] = "none"
    BY <1>4 DEF SendInv, Tried
  <2>2. OrderOf(r) = <<r, 1>> /\ OrderOf(r)' = <<r, 2>>
    BY <1>4 DEF OrderOf
  <2>3. QED
    BY <1>2, <2>1, <2>2, OrderSteps DEF OrderStep
<1>5. QED
  BY <1>2, <1>3, <1>4, AttemptSteps

LEMMA EndedStays ==
  ASSUME SendInv, Fresh, [Next]_vars, NEW o, Ended(o)
  PROVE  Ended(o)'
<1>1. TypeOK /\ o \in Orders /\ o[1] \in Requests
  BY DEF Ended, SendInv, Orders
<1>2. ~(o = OrderOf(o[1]) /\ at[o[1]] = "ready")
  BY <1>1 DEF Ended, Fresh, Early
<1>3. QED
  BY <1>1, <1>2, OrderSteps DEF OrderStep, Ended

Final(res) == res.status = "REJECTED" /\ res.order # NoOrder => Ended(res.order)

FinalReplies == \A r \in Requests : Final(reply[r])
FinalAnswers == \A r \in Requests : Final(answer[r])
FinalRows == \A k \in Keys : Final(intent[k].result)
FinalInv == SendInv /\ Fresh /\ FinalReplies /\ FinalAnswers /\ FinalRows

LEMMA FinalInit == Init => FinalInv
<1> SUFFICES ASSUME Init PROVE FinalInv
  OBVIOUS
<1>1. \A r \in Requests : reply[r].status = "none" /\ answer[r].status = "none" /\ OrderOf(r) \in Orders
  BY OrderOfRequest DEF Init, NoResult
<1>2. \A k \in Keys : intent[k].result.status = "none"
  BY DEF Init, NoRow, NoResult
<1>3. Fresh
  BY <1>1 DEF Init, Fresh
<1>4. QED
  BY <1>1, <1>2, <1>3, SendInit DEF FinalInv, FinalReplies, FinalAnswers, FinalRows, Final

\* What is known of a result stays true.
LEMMA FinalKept ==
  ASSUME FinalInv, [Next]_vars, NEW res, Final(res)
  PROVE  res.status = "REJECTED" /\ res.order # NoOrder => Ended(res.order)'
BY EndedStays DEF Final, FinalInv

LEMMA FinalRepliesStep ==
  ASSUME FinalInv, [Next]_vars
  PROVE  FinalReplies'
<1>1. SUFFICES ASSUME NEW r \in Requests, reply'[r].status = "REJECTED", reply'[r].order # NoOrder
      PROVE  Ended(reply[r].order)'
  BY DEF FinalReplies, Final, NoOrder, Ended
<1>2. TypeOK /\ LookupKey(r) \in Keys /\ ClaimKey(r) \in Keys
  BY KeysOfRequest DEF FinalInv, SendInv, TypeOK
<1>3. ASSUME NEW res, reply'[r] = res, Final(res) PROVE Ended(reply[r].order)'
  BY <1>1, <1>3, FinalKept DEF Ended
<1>4. CASE reply'[r] \in {reply[r], intent[LookupKey(r)].result, intent[ClaimKey(r)].result}
  BY <1>2, <1>3, <1>4 DEF FinalInv, FinalReplies, FinalRows
<1>5. CASE Ended(reply'[r].order) /\ UNCHANGED order
  BY <1>5 DEF Ended
<1>6. QED
  BY <1>1, <1>2, <1>4, <1>5, ReplySteps DEF ReplyStep, Definite

LEMMA FinalAnswersStep ==
  ASSUME FinalInv, [Next]_vars
  PROVE  FinalAnswers'
<1>1. SUFFICES ASSUME NEW r \in Requests, answer'[r].status = "REJECTED", answer'[r].order # NoOrder
      PROVE  Ended(answer[r].order)'
  BY DEF FinalAnswers, Final, NoOrder, Ended
<1>2. TypeOK /\ OperationKey(r) \in Keys
  BY KeysOfRequest DEF FinalInv, SendInv, TypeOK
<1>3. ASSUME NEW res, answer'[r] = res, Final(res) PROVE Ended(answer[r].order)'
  BY <1>1, <1>3, FinalKept DEF Ended
<1>4. answer'[r] \in {answer[r], reply[r], intent[OperationKey(r)].result}
  BY <1>1, <1>2, AnswerSteps DEF AnswerStep, Definite
<1>5. QED
  BY <1>2, <1>3, <1>4 DEF FinalInv, FinalAnswers, FinalReplies, FinalRows

LEMMA FinalRowsStep ==
  ASSUME FinalInv, [Next]_vars
  PROVE  FinalRows'
<1>1. SUFFICES ASSUME NEW k \in Keys, intent'[k].result.status = "REJECTED", intent'[k].result.order # NoOrder
      PROVE  Ended(intent[k].result.order)'
  BY DEF FinalRows, Final, NoOrder, Ended
<1>2. ASSUME NEW res, intent'[k].result = res, Final(res) PROVE Ended(intent[k].result.order)'
  BY <1>1, <1>2, FinalKept DEF Ended
<1>3. \/ intent'[k].result = intent[k].result
      \/ \E q \in Requests : intent'[k].result = reply[q]
  BY ResultKept DEF FinalInv
<1>4. QED
  BY <1>2, <1>3 DEF FinalInv, FinalReplies, FinalRows

LEMMA FinalStep ==
  ASSUME FinalInv, [Next]_vars
  PROVE  FinalInv'
BY SendStep, FreshStep, FinalRepliesStep, FinalAnswersStep, FinalRowsStep DEF FinalInv

LEMMA FinalSafe == FinalInv => RejectionFinal
<1> SUFFICES ASSUME FinalInv, NEW r \in Requests, NEW o, o = answer[r].order,
                    answer[r].status = "REJECTED", o # NoOrder,
                    NEW p \in Orders, Alike(o[1], p[1]), p[2] <= o[2], order[p] \in Alive
             PROVE  FALSE
  BY DEF RejectionFinal
<1>1. Ended(o)
  BY DEF FinalInv, FinalAnswers, Final
<1>2. /\ o[1] \in Requests /\ p[1] \in Requests /\ o[2] \in {1, 2} /\ p[2] \in {1, 2}
      /\ o = <<o[1], o[2]>> /\ p = <<p[1], p[2]>>
  BY <1>1 DEF Orders, Ended
<1>3. o[1] = p[1]
  BY <1>1, <1>2, OwnsAlone DEF FinalInv, SendInv, Owned, Ended, Alive
<1>4. CASE p[2] = o[2]
  BY <1>1, <1>2, <1>3, <1>4 DEF Ended, Alive
<1>5. CASE p[2] = 1 /\ o[2] = 2
  <2>1. order[<<o[1], 2>>] # "none" /\ attempt[o[1]] \in {1, 2}
    BY <1>1, <1>2, <1>5 DEF Ended, FinalInv, SendInv, TypeOK
  <2>2. QED
    BY <1>2, <1>3, <1>5, <2>1 DEF FinalInv, SendInv, Tried, Alive
<1>6. QED
  BY <1>2, <1>4, <1>5

(* A caller that was told of the rejection of an order can rely on it: that order,
   and every order sent before it for the request it belongs to, is over, also
   when the order was only found by a correlation id that other requests share. *)
THEOREM RejectedForGood == Spec => []RejectionFinal
<1>1. Init => FinalInv
  BY FinalInit
<1>2. FinalInv /\ [Next]_vars => FinalInv'
  BY FinalStep
<1>3. FinalInv => RejectionFinal
  BY FinalSafe
<1>4. QED
  BY <1>1, <1>2, <1>3, PTL DEF Spec
=============================================================================
