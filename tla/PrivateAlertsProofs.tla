------------------------- MODULE PrivateAlertsProofs -------------------------
(* Proofs about PrivateAlerts, for every set of callers, alerts and deliveries. *)
EXTENDS PrivateAlerts, TLAPS

----------------------------------------------------------------------------
(* The invariant. *)

StartPlaces == {"checks", "configure", "set_mode", "activate", "set_again",
                "starting", "enabling", "running"}

\* A request is known once it has begun, and a start has its row.
RequestInv ==
  \A c \in Callers :
    /\ at[c] # "new" => request[c] \in Requests
    /\ at[c] # "new" /\ Task(c) = "start" => starts[KeyOf[c]] # NoStart
    /\ at[c] \in StartPlaces => Task(c) = "start"

\* A row has the body its alert was claimed with, and so has who stores it.
StoredInv ==
  /\ \A a \in Alerts : row[a] # NoRow => event[a] = row[a].body
  /\ \A a \in Alerts : row[a].status = "queued" => row[a].body # "hold"
  /\ current # None => row[current] # NoRow
  /\ \A d \in Deliveries :
       /\ doing[d] = "new" => answer[d] = "none"
       /\ doing[d] \in {"claiming", "storing"} => auth[d] \in Accounts /\ body[d] \in Bodies
       /\ doing[d] = "storing" => event[AlertOf[d]] = body[d]

\* The worker routes under the row of an instance that allows the job.
GuardInv == at[Worker] \in Routing \cup {"enrich"} => locked /\ Eligible

IInv == TypeOK /\ RequestInv /\ StoredInv /\ AcceptedIsKept /\ GuardInv

----------------------------------------------------------------------------
(* Types. *)

USE DEF Threads, Goes, Task, Mode

\* What a thread read is a file, and the account of now is an account.
LEMMA Accounted ==
  ASSUME RuntimeTypeOK
  PROVE  EngineMode \in Accounts
  BY RuntimeAssumption DEF RuntimeTypeOK, EngineMode, File, Accounts

LEMMA WritesFile ==
  ASSUME NEW t \in Threads, copy[t] # NoFile, RuntimeTypeOK
  PROVE  copy[t] \in File
  BY DEF RuntimeTypeOK

LEMMA RouteTyped ==
  ASSUME RuntimeTypeOK, NEW t \in Threads, Route(t)
  PROVE  RuntimeTypeOK'
PROOF
  <1>1. CASE Read(t)
    BY <1>1 DEF Read, RuntimeTypeOK, startVars, routeVars, instVars
  <1>2. CASE UpdateState(t)
    BY <1>2, WritesFile DEF UpdateState, Write, Finishes, RuntimeTypeOK, startVars, routeVars, instVars,
       Places, Routing, RouteUpdates
  <1>3. CASE Evaluate(t)
    BY <1>3 DEF Evaluate, Finishes, RuntimeTypeOK, fileVars, startVars, routeVars, instVars,
       Places, Routing, RouteUpdates
  <1>4. CASE Reverse(t)
    BY <1>4, Accounted DEF Reverse, RuntimeTypeOK, fileVars, startVars, instVars,
       Places, Routing, RouteUpdates
  <1>5. CASE Order(t)
    BY <1>5, Accounted DEF Order, RuntimeTypeOK, fileVars, startVars, instVars,
       Places, Routing, RouteUpdates
  <1>6. CASE Record(t)
    BY <1>6, Accounted DEF Record, RuntimeTypeOK, fileVars, startVars, instVars,
       Places, Routing, RouteUpdates
  <1>7. CASE Raise(t)
    BY <1>7 DEF Raise, Leaves, RuntimeTypeOK, startVars, routeVars, instVars, Places, Routing, RouteUpdates
  <1> QED BY <1>1, <1>2, <1>3, <1>4, <1>5, <1>6, <1>7 DEF Route

\* A request that has begun names a mode, and the row of a start exists.
LEMMA Named ==
  ASSUME RuntimeTypeOK, RequestInv, NEW c \in Callers, at[c] # "new"
  PROVE  /\ request[c] \in Requests /\ Mode(c) \in Accounts
         /\ Task(c) = "start" =>
              starts[KeyOf[c]] \in [mode: Accounts, status: {"pending", "succeeded", "failed"}]
  BY RuntimeAssumption DEF RuntimeTypeOK, RequestInv, Requests

LEMMA ClosedTyped ==
  ASSUME RuntimeTypeOK, RequestInv, NEW c \in Callers, at[c] # "new", Task(c) = "start",
         NEW s \in {"pending", "succeeded", "failed"}, Closed(c, s)
  PROVE  /\ starts' \in [Keys -> [mode: Accounts, status: {"pending", "succeeded", "failed"}]
                                 \cup {NoStart}]
         /\ starter' \in Callers \cup {None}
PROOF
  <1>1. KeyOf[c] \in Keys
    BY RuntimeAssumption
  <1>2. [starts[KeyOf[c]] EXCEPT !.status = s]
          \in [mode: Accounts, status: {"pending", "succeeded", "failed"}]
    BY Named
  <1> QED BY <1>1, <1>2 DEF Closed, RuntimeTypeOK

LEMMA StartTyped ==
  ASSUME RuntimeTypeOK, RequestInv, NEW c \in Callers,
         Begin(c) \/ Enter(c) \/ Check(c) \/ Configure(c) \/ SetMode(c) \/ Activate(c)
         \/ SetAgain(c) \/ Launch(c)
  PROVE  RuntimeTypeOK'
PROOF
  <1> USE DEF Places, PanelUpdates
  <1>1. CASE Begin(c)
    <2>1. PICK r \in Operations[c] :
            /\ request' = [request EXCEPT ![c] = r]
            /\ IF r[1] # "start"
               THEN Goes(c, "entering") /\ UNCHANGED starts
               ELSE IF starts[KeyOf[c]] # NoStart
               THEN Goes(c, "done") /\ UNCHANGED starts
               ELSE /\ Goes(c, "checks")
                    /\ starts' = [starts EXCEPT ![KeyOf[c]] = [mode |-> r[2], status |-> "pending"]]
      BY <1>1 DEF Begin
    <2>2. r \in Requests /\ r[2] \in Accounts
      BY RuntimeAssumption DEF Requests
    <2> QED BY <1>1, <2>1, <2>2 DEF Begin, RuntimeTypeOK, fileVars, routeVars, instVars
  <1>2. CASE Enter(c)
    BY <1>2 DEF Enter, Takes, RuntimeTypeOK, fileVars, startVars, routeVars, instVars
  <1>3. CASE Check(c)
    <2>1. Task(c) = "start" /\ at[c] # "new"
      BY <1>3 DEF Check, RequestInv, StartPlaces
    <2>2. CASE UNCHANGED starts /\ starter' = c
      BY <1>3, <2>2 DEF Check, RuntimeTypeOK, fileVars, routeVars, instVars
    <2>3. CASE Closed(c, "failed")
      BY <1>3, <2>1, <2>3, ClosedTyped DEF Check, RuntimeTypeOK, fileVars, routeVars, instVars
    <2> QED BY <1>3, <2>2, <2>3 DEF Check
  <1>4. CASE Configure(c)
    BY <1>4 DEF Configure, Takes, RuntimeTypeOK, fileVars, startVars, routeVars, instVars
  <1>5. CASE SetMode(c)
    BY <1>5, Named, WritesFile DEF SetMode, Write, Leaves, File, RuntimeTypeOK, startVars, routeVars, instVars
  <1>6. CASE Activate(c)
    BY <1>6, Named DEF Activate, Instance, RuntimeTypeOK, fileVars, startVars, routeVars
  <1>7. CASE SetAgain(c)
    BY <1>7, Named, WritesFile DEF SetAgain, Write, File, RuntimeTypeOK, startVars, routeVars, instVars
  <1>8. CASE Launch(c)
    <2>1. at[c] # "new" /\ Task(c) = "start"
      BY <1>8 DEF Launch, RequestInv, StartPlaces
    <2>2. Closed(c, "succeeded") \/ UNCHANGED startVars
      BY <1>8 DEF Launch
    <2>3. /\ starts' \in [Keys -> [mode: Accounts, status: {"pending", "succeeded", "failed"}]
                                 \cup {NoStart}]
          /\ starter' \in Callers \cup {None}
      BY <2>1, <2>2, ClosedTyped DEF RuntimeTypeOK, startVars
    <2>4. copy[c] \in File
      BY <1>8, WritesFile DEF Launch, Write
    <2>5. file' \in File /\ copy' = [copy EXCEPT ![c] = NoFile]
      BY <1>8, <2>1, <2>4, Named DEF Launch, Write, File
    <2>6. at' \in [Threads -> Places] /\ UNCHANGED <<request, owner, routeVars, instVars, locked, job>>
      BY <1>8 DEF Launch, RuntimeTypeOK
    <2> QED BY <2>3, <2>5, <2>6 DEF RuntimeTypeOK, routeVars, instVars
  <1> QED BY <1>1, <1>2, <1>3, <1>4, <1>5, <1>6, <1>7, <1>8

LEMMA StopTyped ==
  ASSUME RuntimeTypeOK, RequestInv, NEW c \in Callers,
         Stop(c) \/ Select(c) \/ Pause(c) \/ Switch(c) \/ Block(c) \/ Look(c)
         \/ RequestExit(c) \/ Conclude(c) \/ Tell(c)
  PROVE  RuntimeTypeOK'
PROOF
  <1> USE DEF Places, PanelUpdates, RouteUpdates, Routing
  <1>0. ASSUME at[c] # "new", Ends(c) \/ UNCHANGED startVars
        PROVE  /\ starts' \in [Keys -> [mode: Accounts, status: {"pending", "succeeded", "failed"}]
                                       \cup {NoStart}]
               /\ starter' \in Callers \cup {None}
    BY <1>0, ClosedTyped DEF Ends, RuntimeTypeOK, startVars
  <1>1. CASE Stop(c)
    <2>1. copy[c] \in File
      BY <1>1, WritesFile DEF Stop, Write
    <2>2. file' \in File /\ copy' = [copy EXCEPT ![c] = NoFile]
      BY <1>1, <2>1 DEF Stop, Write, File
    <2>3. /\ at' \in [Threads -> Places] /\ owner' \in Callers \cup {None}
          /\ UNCHANGED <<request, startVars, routeVars, instVars, locked, job>>
      BY <1>1 DEF Stop, Leaves, RuntimeTypeOK
    <2> QED BY <2>2, <2>3 DEF RuntimeTypeOK, startVars, routeVars, instVars
  <1>2. CASE Select(c)
    <2>1. /\ starts' \in [Keys -> [mode: Accounts, status: {"pending", "succeeded", "failed"}]
                                 \cup {NoStart}]
          /\ starter' \in Callers \cup {None}
      BY <1>0, <1>2 DEF Select
    <2> QED BY <1>2, <2>1 DEF Select, Ends, RuntimeTypeOK, fileVars, routeVars, instVars
  <1>3. CASE Pause(c)
    <2>1. /\ starts' \in [Keys -> [mode: Accounts, status: {"pending", "succeeded", "failed"}]
                                 \cup {NoStart}]
          /\ starter' \in Callers \cup {None}
      BY <1>0, <1>3 DEF Pause
    <2> QED BY <1>3, <2>1 DEF Pause, SetStatus, Instance, Ends, RuntimeTypeOK, fileVars, routeVars
  <1>4. CASE Switch(c)
    BY <1>4, Named, WritesFile DEF Switch, Write, Leaves, File, RuntimeTypeOK, startVars, routeVars, instVars
  <1>5. CASE Block(c)
    BY <1>5, WritesFile DEF Block, Write, File, RuntimeTypeOK, startVars, routeVars, instVars
  <1>6. CASE Look(c)
    BY <1>6 DEF Look, Leaves, RuntimeTypeOK, fileVars, startVars, routeVars, instVars
  <1>7. CASE RequestExit(c)
    BY <1>7, WritesFile DEF RequestExit, Write, File, RuntimeTypeOK, startVars, routeVars, instVars
  <1>8. CASE Conclude(c)
    BY <1>8 DEF Conclude, RuntimeTypeOK, fileVars, startVars, routeVars, instVars
  <1>9. CASE Tell(c)
    <2>1. copy[c] \in File
      BY <1>9, WritesFile DEF Tell, Write
    <2>2. file' \in File /\ copy' = [copy EXCEPT ![c] = NoFile]
      BY <1>9, <2>1 DEF Tell, Write, File
    <2>3. /\ at' \in [Threads -> Places] /\ owner' \in Callers \cup {None}
          /\ result' \in [Callers -> {"none", "pending", "refused"}]
          /\ UNCHANGED <<request, startVars, position, entries, instVars, locked, job>>
      BY <1>9 DEF Tell, Leaves, RuntimeTypeOK
    <2> QED BY <2>2, <2>3 DEF RuntimeTypeOK, startVars, instVars
  <1> QED BY <1>1, <1>2, <1>3, <1>4, <1>5, <1>6, <1>7, <1>8, <1>9

LEMMA ManageTyped ==
  ASSUME RuntimeTypeOK, Manage
  PROVE  RuntimeTypeOK'
PROOF
  <1>1. inst' \in Instance
    BY DEF Manage, SetStatus, StartVerification, CompleteVerification, RuntimeTypeOK, Instance
  <1> QED BY <1>1, RuntimeAssumption DEF Manage, RuntimeTypeOK, fileVars, startVars, routeVars

LEMMA HandleTyped ==
  ASSUME RuntimeTypeOK, RequestInv, NEW c \in Callers, Handle(c)
  PROVE  RuntimeTypeOK'
  BY StartTyped, StopTyped DEF Handle

\* What the worker does besides routing.
LEMMA WorkTyped ==
  ASSUME TypeOK, StoredInv, StartJob \/ Revalidate \/ Enrich \/ CompleteJob
  PROVE  TypeOK'
PROOF
  <1> USE DEF TypeOK, alertVars, intakeVars, Places, Routing, RouteUpdates
  <1>1. CASE StartJob
    <2>1. PICK a \in Alerts :
            /\ row[a].status = "queued"
            /\ row' = [row EXCEPT ![a].status = "running"]
            /\ current' = a
            /\ job' = [action |-> row[a].body, mode |-> row[a].mode]
      BY <1>1 DEF StartJob
    <2>2. row[a] \in Row /\ row[a].body # "hold"
      BY <2>1 DEF StoredInv, NoRow
    <2>3. row' \in [Alerts -> Row \cup {NoRow}]
      BY <2>1, <2>2 DEF Row, JobStatus
    <2>4. job' \in Signal
      BY <2>1, <2>2 DEF Row, Signal, Bodies
    <2> QED BY <1>1, <2>1, <2>3, <2>4 DEF StartJob, RuntimeTypeOK, fileVars, startVars, routeVars, instVars
  <1>2. CASE Revalidate
    <2>1. locked' \in BOOLEAN
      BY <1>2 DEF Revalidate, RuntimeTypeOK
    <2>2. at' \in [Threads -> Places]
      BY <1>2 DEF Revalidate, RuntimeTypeOK
    <2> QED BY <1>2, <2>1, <2>2 DEF Revalidate, RuntimeTypeOK, fileVars, startVars, routeVars, instVars
  <1>3. CASE Enrich
    BY <1>3 DEF Enrich, RuntimeTypeOK, fileVars, startVars, routeVars, instVars
  <1>4. CASE CompleteJob
    <2>1. row' \in [Alerts -> Row \cup {NoRow}]
      <3>1. CASE current = None
        BY <1>4, <3>1, RuntimeAssumption, AlertAssumption DEF CompleteJob, Row, JobStatus
      <3>2. CASE current # None
        <4>1. current \in Alerts /\ row[current] \in Row
          BY <3>2 DEF StoredInv
        <4> QED BY <1>4, <4>1 DEF CompleteJob, Row, JobStatus
      <3> QED BY <3>1, <3>2
    <2> QED BY <1>4, <2>1 DEF CompleteJob, RuntimeTypeOK, fileVars, startVars, routeVars, instVars
  <1> QED BY <1>1, <1>2, <1>3, <1>4

LEMMA DeliverTyped ==
  ASSUME TypeOK, StoredInv, NEW d \in Deliveries, Deliver(d)
  PROVE  TypeOK'
PROOF
  <1> USE AlertAssumption DEF TypeOK
  <1>0. UNCHANGED runtimeVars
    BY DEF Deliver, Authenticate, Claim, Store, BreakOff
  <1>1. RuntimeTypeOK'
    BY <1>0 DEF RuntimeTypeOK, runtimeVars, fileVars, startVars, routeVars, instVars
  <1>2. CASE Authenticate(d)
    <2>1. inst.mode \in Accounts
      BY DEF RuntimeTypeOK, Instance
    <2>2. PICK b \in Carries[d] : body' = [body EXCEPT ![d] = b]
      BY <1>2 DEF Authenticate
    <2>3. b \in Bodies
      OBVIOUS
    <2> QED BY <1>1, <1>2, <2>1, <2>2, <2>3 DEF Authenticate, Answered
  <1>3. CASE Claim(d)
    <2>1. body[d] \in Bodies
      BY <1>3 DEF Claim, StoredInv
    <2> QED BY <1>1, <1>3, <2>1 DEF Claim, Answered, Does
  <1>4. CASE Store(d)
    <2>1. auth[d] \in Accounts /\ body[d] \in Bodies
      BY <1>4 DEF Store, StoredInv
    <2> QED BY <1>1, <1>4, <2>1 DEF Store, Answered, Row, JobStatus
  <1>5. CASE BreakOff(d)
    BY <1>1, <1>5 DEF BreakOff, Answered
  <1> QED BY <1>2, <1>3, <1>4, <1>5 DEF Deliver

----------------------------------------------------------------------------
(* What a step may do. *)

LEMMA RouteKeeps ==
  ASSUME RuntimeTypeOK, NEW t \in Threads, Route(t)
  PROVE  /\ UNCHANGED <<request, starts, inst, locked, job>>
         /\ \A u \in Threads : u # t => at'[u] = at[u]
         /\ at'[t] = at[t] \/ (at[t] \in Routing /\ at'[t] \in Routing \cup {"routed", "concluding", "done"})
  BY DEF Route, Read, UpdateState, Evaluate, Reverse, Order, Record, Raise, Finishes, RuntimeTypeOK,
     startVars, instVars, Routing, RouteUpdates

LEMMA HandleKeeps ==
  ASSUME RuntimeTypeOK, NEW c \in Callers, Handle(c)
  PROVE  /\ UNCHANGED <<locked, job, entries>>
         /\ \A u \in Threads : u # c => at'[u] = at[u]
         /\ locked => inst' = inst
PROOF
  <1> USE DEF RuntimeTypeOK, routeVars, instVars
  <1>1. CASE Begin(c) \/ Enter(c) \/ Check(c) \/ Configure(c) \/ SetMode(c) \/ Activate(c)
             \/ SetAgain(c) \/ Launch(c)
    BY <1>1 DEF Begin, Enter, Check, Configure, SetMode, Activate, SetAgain, Launch
  <1>2. CASE Stop(c) \/ Select(c) \/ Pause(c) \/ Switch(c) \/ Block(c) \/ Look(c)
             \/ RequestExit(c) \/ Conclude(c) \/ Tell(c)
    BY <1>2 DEF Stop, Select, Pause, Switch, Block, Look, RequestExit, Conclude, Tell, Ends
  <1> QED BY <1>1, <1>2 DEF Handle

\* Closing an operation keeps its row.
LEMMA Kept ==
  ASSUME RuntimeTypeOK, NEW c \in Callers, NEW s \in {"pending", "succeeded", "failed"}, Closed(c, s)
  PROVE  \A k \in Keys : starts[k] # NoStart => starts'[k] # NoStart
PROOF
  <1> SUFFICES ASSUME NEW k \in Keys, starts[k] # NoStart PROVE starts'[k] # NoStart
    OBVIOUS
  <1>1. starts[k].mode \in Accounts
    BY DEF RuntimeTypeOK
  <1>2. starts'[k].mode = starts[k].mode
    BY <1>1 DEF Closed, RuntimeTypeOK
  <1> QED BY <1>1, <1>2 DEF NoStart, Accounts

\* How a request is known: nothing but its own steps changes what it asks for,
\* and the row of a start stays.
LEMMA StartRequests ==
  ASSUME RuntimeTypeOK, RequestInv, NEW c \in Callers,
         Begin(c) \/ Enter(c) \/ Check(c) \/ Configure(c) \/ SetMode(c) \/ Activate(c)
         \/ SetAgain(c) \/ Launch(c)
  PROVE  RequestInv'
PROOF
  <1> USE RuntimeAssumption DEF RequestInv, StartPlaces, RuntimeTypeOK
  <1>1. CASE Begin(c)
    <2>1. PICK r \in Operations[c] :
            /\ request' = [request EXCEPT ![c] = r]
            /\ IF r[1] # "start"
               THEN Goes(c, "entering") /\ UNCHANGED starts
               ELSE IF starts[KeyOf[c]] # NoStart
               THEN Goes(c, "done") /\ UNCHANGED starts
               ELSE /\ Goes(c, "checks")
                    /\ starts' = [starts EXCEPT ![KeyOf[c]] = [mode |-> r[2], status |-> "pending"]]
      BY <1>1 DEF Begin
    <2>2. r \in Requests /\ r[2] \in Accounts
      BY DEF Requests
    <2>3. \A k \in Keys : starts[k] # NoStart => starts'[k] # NoStart
      BY <2>1, <2>2 DEF NoStart, Accounts
    <2>4. r[1] = "start" => starts'[KeyOf[c]] # NoStart
      BY <2>1, <2>2 DEF NoStart, Accounts
    <2>5. request'[c] = r /\ at'[c] \in {"entering", "done", "checks"}
          /\ (at'[c] = "checks" => r[1] = "start")
      BY <2>1
    <2>6. \A d \in Callers : d # c => request'[d] = request[d] /\ at'[d] = at[d]
      BY <2>1
    <2>7. \A d \in Callers : KeyOf[d] \in Keys
      OBVIOUS
    <2> QED BY <2>2, <2>3, <2>4, <2>5, <2>6, <2>7
  <1>2. CASE Enter(c) \/ Configure(c) \/ SetMode(c) \/ Activate(c) \/ SetAgain(c)
    BY <1>2 DEF Enter, Configure, SetMode, Activate, SetAgain, startVars
  <1>3. CASE Check(c) \/ Launch(c)
    <2>1. \A k \in Keys : starts[k] # NoStart => starts'[k] # NoStart
      <3>1. UNCHANGED starts \/ \E s \in {"failed", "succeeded"} : Closed(c, s)
        BY <1>3 DEF Check, Launch, startVars
      <3> QED BY <3>1, Kept
    <2>2. UNCHANGED request /\ (at[c] # "new")
          /\ \E p \in StartPlaces \cup {"done"} : Goes(c, p)
      BY <1>3 DEF Check, Launch
    <2>3. at[c] \in StartPlaces
      BY <1>3 DEF Check, Launch
    <2> QED BY <2>1, <2>2, <2>3
  <1> QED BY <1>1, <1>2, <1>3

LEMMA StopRequests ==
  ASSUME RuntimeTypeOK, RequestInv, NEW c \in Callers,
         Stop(c) \/ Select(c) \/ Pause(c) \/ Switch(c) \/ Block(c) \/ Look(c)
         \/ RequestExit(c) \/ Conclude(c) \/ Tell(c)
  PROVE  RequestInv'
PROOF
  <1>1. \A k \in Keys : starts[k] # NoStart => starts'[k] # NoStart
    <2>1. UNCHANGED starts \/ Closed(c, "failed")
      BY DEF Stop, Select, Pause, Switch, Block, Look, RequestExit, Conclude, Tell, Ends, startVars
    <2> QED BY <2>1, Kept
  <1>2. UNCHANGED request /\ at[c] # "new"
    BY DEF Stop, Select, Pause, Switch, Block, Look, RequestExit, Conclude, Tell
  <1>3. \E p \in {"stopped", "selecting", "done", "pausing", "looking", "flat", "requesting", "signal", "telling"} :
          Goes(c, p)
    BY DEF Stop, Select, Pause, Switch, Block, Look, RequestExit, Conclude, Tell, Ends
  <1> QED BY <1>1, <1>2, <1>3, RuntimeAssumption DEF RequestInv, StartPlaces, RuntimeTypeOK

LEMMA RouteRequests ==
  ASSUME RuntimeTypeOK, RequestInv, NEW t \in Threads, Route(t)
  PROVE  RequestInv'
  BY RouteKeeps DEF RequestInv, StartPlaces, Routing, RouteUpdates

LEMMA HandleRequests ==
  ASSUME RuntimeTypeOK, RequestInv, NEW c \in Callers, Handle(c)
  PROVE  RequestInv'
  BY StartRequests, StopRequests DEF Handle

\* The steps that touch neither a request nor the row of a start.
LEMMA OtherRequests ==
  ASSUME RuntimeTypeOK, RequestInv,
         \/ Manage \/ StartJob \/ Revalidate \/ Enrich \/ CompleteJob
         \/ \E d \in Deliveries : Deliver(d)
  PROVE  RequestInv'
PROOF
  <1>1. UNCHANGED <<request, starts>>
    BY DEF Manage, StartJob, Revalidate, Enrich, CompleteJob, Deliver, Authenticate, Claim, Store,
       BreakOff, startVars, runtimeVars
  <1>2. \A c \in Callers : at'[c] = at[c]
    BY RuntimeAssumption DEF Manage, StartJob, Revalidate, Enrich, CompleteJob, Deliver, Authenticate,
       Claim, Store, BreakOff, runtimeVars, RuntimeTypeOK
  <1> QED BY <1>1, <1>2 DEF RequestInv

\* A delivery stores the body its alert was claimed with.
LEMMA DeliverStored ==
  ASSUME TypeOK, StoredInv, AcceptedIsKept, NEW d \in Deliveries, Deliver(d)
  PROVE  StoredInv' /\ AcceptedIsKept'
PROOF
  <1> USE AlertAssumption DEF StoredInv, AcceptedIsKept, TypeOK
  <1>1. CASE Authenticate(d)
    <2>1. PICK b \in Carries[d] : body' = [body EXCEPT ![d] = b]
      BY <1>1 DEF Authenticate
    <2>2. b \in Bodies /\ inst.mode \in Accounts
      BY DEF RuntimeTypeOK, Instance
    <2>3. \A e \in Deliveries : e # d => /\ doing'[e] = doing[e] /\ answer'[e] = answer[e]
                                          /\ auth'[e] = auth[e] /\ body'[e] = body[e]
      BY <1>1, <2>1 DEF Authenticate, Answered
    <2>4. /\ UNCHANGED <<event, row, current>> /\ body'[d] = b
          /\ answer[d] = "none"
          /\ \/ doing'[d] = "claiming" /\ auth'[d] = inst.mode /\ answer'[d] = answer[d]
             \/ doing'[d] = "answered" /\ answer'[d] = "refused"
      BY <1>1, <2>1 DEF Authenticate, Answered
    <2> QED BY <2>2, <2>3, <2>4
  <1>2. CASE Claim(d)
    <2>1. \A e \in Deliveries : e # d => /\ doing'[e] = doing[e] /\ answer'[e] = answer[e]
                                          /\ auth'[e] = auth[e]
      BY <1>2 DEF Claim, Answered, Does
    <2>2. UNCHANGED <<row, current, body>> /\ body[d] \in Bodies
      BY <1>2 DEF Claim
    <2>3. CASE event[AlertOf[d]] = "none" /\ event' = [event EXCEPT ![AlertOf[d]] = body[d]] /\ Does(d, "storing")
      <3>1. \A a \in Alerts : row[a] # NoRow => event[a] # "none"
        BY DEF Row, Bodies
      <3>2. \A e \in Deliveries : doing[e] = "storing" => event[AlertOf[e]] # "none"
        BY DEF Bodies
      <3>3. doing[d] = "claiming" BY <1>2 DEF Claim
      <3> QED BY <2>1, <2>2, <2>3, <3>1, <3>2, <3>3 DEF Does
    <2>4. CASE event[AlertOf[d]] = body[d] /\ UNCHANGED event /\ Does(d, "storing")
      <3>1. doing[d] = "claiming" BY <1>2 DEF Claim
      <3> QED BY <2>1, <2>2, <2>4, <3>1 DEF Does
    <2>5. CASE /\ event[AlertOf[d]] = body[d] /\ UNCHANGED event
               /\ row[AlertOf[d]] # NoRow /\ Answered(d, "duplicate")
      BY <2>1, <2>2, <2>5 DEF Answered
    <2>6. CASE UNCHANGED event /\ Answered(d, "conflict")
      BY <2>1, <2>2, <2>6 DEF Answered
    <2> QED BY <1>2, <2>3, <2>4, <2>5, <2>6 DEF Claim
  <1>3. CASE Store(d)
    <2>1. \A e \in Deliveries : e # d => /\ doing'[e] = doing[e] /\ answer'[e] = answer[e]
                                          /\ auth'[e] = auth[e]
      BY <1>3 DEF Store, Answered
    <2>2. UNCHANGED <<event, current, body>> /\ doing'[d] = "answered"
          /\ auth[d] \in Accounts /\ body[d] \in Bodies /\ event[AlertOf[d]] = body[d]
      BY <1>3 DEF Store, Answered
    <2>3. CASE /\ row[AlertOf[d]] = NoRow
               /\ row' = [row EXCEPT ![AlertOf[d]] =
                           [body |-> body[d], mode |-> auth[d],
                            status |-> IF body[d] = "hold" THEN "completed" ELSE "queued"]]
               /\ Answered(d, "accepted")
      <3>1. /\ row'[AlertOf[d]] # NoRow /\ row'[AlertOf[d]].body = body[d]
            /\ (row'[AlertOf[d]].status = "queued" => body[d] # "hold")
            /\ \A a \in Alerts : a # AlertOf[d] => row'[a] = row[a]
        BY <2>2, <2>3 DEF NoRow, Accounts
      <3> QED BY <2>1, <2>2, <2>3, <3>1 DEF Answered
    <2>4. CASE row[AlertOf[d]] # NoRow /\ Answered(d, "duplicate") /\ UNCHANGED row
      BY <2>1, <2>2, <2>4 DEF Answered
    <2>5. CASE Answered(d, "blocked") /\ UNCHANGED row
      BY <2>1, <2>2, <2>5 DEF Answered
    <2> QED BY <1>3, <2>3, <2>4, <2>5 DEF Store
  <1>4. CASE BreakOff(d)
    BY <1>4 DEF BreakOff, Answered
  <1> QED BY <1>1, <1>2, <1>3, <1>4 DEF Deliver

\* The worker changes nothing of a row but its status.
LEMMA WorkStored ==
  ASSUME TypeOK, StoredInv, AcceptedIsKept, StartJob \/ Revalidate \/ Enrich \/ CompleteJob
  PROVE  StoredInv' /\ AcceptedIsKept'
PROOF
  <1> USE AlertAssumption DEF TypeOK
  <1>1. CASE StartJob
    <2>1. PICK a \in Alerts : /\ row[a].status = "queued" /\ current' = a
                              /\ row' = [row EXCEPT ![a].status = "running"]
      BY <1>1 DEF StartJob
    <2>2. row[a] \in Row
      BY <2>1 DEF NoRow
    <2>3. /\ row'[a] # NoRow /\ row'[a].body = row[a].body /\ row'[a].status = "running"
          /\ row[a] # NoRow
      BY <2>1, <2>2 DEF Row, NoRow, JobStatus
    <2>4. \A b \in Alerts : b # a => row'[b] = row[b]
      BY <2>1
    <2>5. UNCHANGED <<event, body, doing, auth, answer>>
      BY <1>1 DEF StartJob, intakeVars
    <2> QED BY <2>1, <2>3, <2>4, <2>5 DEF StoredInv, AcceptedIsKept
  <1>2. CASE Revalidate \/ Enrich
    BY <1>2 DEF Revalidate, Enrich, alertVars, StoredInv, AcceptedIsKept
  <1>3. CASE CompleteJob
    <2>1. UNCHANGED <<event, body, doing, auth, answer>> /\ current' = None
          /\ row' = [row EXCEPT ![current].status = "completed"]
      BY <1>3 DEF CompleteJob, intakeVars
    <2>2. CASE current = None
      BY <2>1, <2>2 DEF StoredInv, AcceptedIsKept
    <2>3. CASE current # None
      <3>1. current \in Alerts /\ row[current] \in Row
        BY <2>3 DEF StoredInv
      <3>2. /\ row'[current] # NoRow /\ row'[current].body = row[current].body
            /\ row'[current].status = "completed" /\ row[current] # NoRow
        BY <2>1, <2>3, <3>1 DEF Row, NoRow, JobStatus, StoredInv
      <3>3. \A b \in Alerts : b # current => row'[b] = row[b]
        BY <2>1
      <3> QED BY <2>1, <3>1, <3>2, <3>3 DEF StoredInv, AcceptedIsKept
    <2> QED BY <2>2, <2>3
  <1> QED BY <1>1, <1>2, <1>3

----------------------------------------------------------------------------
(* The worker routes only under the row it has locked, and nobody but the
   worker changes that row or its job meanwhile. *)

LEMMA RouteGuard ==
  ASSUME RuntimeTypeOK, GuardInv, NEW t \in Threads, Route(t)
  PROVE  GuardInv'
PROOF
  <1>1. UNCHANGED <<inst, locked, job>>
    BY RouteKeeps
  <1>2. at'[Worker] \in Routing \cup {"enrich"} => at[Worker] \in Routing \cup {"enrich"}
    BY RouteKeeps
  <1> QED BY <1>1, <1>2 DEF GuardInv, Eligible

LEMMA HandleGuard ==
  ASSUME RuntimeTypeOK, GuardInv, NEW c \in Callers, Handle(c)
  PROVE  GuardInv'
PROOF
  <1>1. at'[Worker] = at[Worker] /\ UNCHANGED <<locked, job>> /\ (locked => inst' = inst)
    BY HandleKeeps, RuntimeAssumption
  <1> QED BY <1>1 DEF GuardInv, Eligible

LEMMA OtherGuard ==
  ASSUME RuntimeTypeOK, GuardInv,
         \/ Manage \/ StartJob \/ Revalidate \/ Enrich \/ CompleteJob
         \/ \E d \in Deliveries : Deliver(d)
  PROVE  GuardInv'
PROOF
  <1> USE DEF RuntimeTypeOK, GuardInv, Eligible, Routing, RouteUpdates
  <1>1. CASE Manage
    BY <1>1 DEF Manage, SetStatus, StartVerification, CompleteVerification
  <1>2. CASE StartJob \/ CompleteJob
    BY <1>2 DEF StartJob, CompleteJob
  <1>3. CASE Revalidate
    BY <1>3 DEF Revalidate, instVars
  <1>4. CASE Enrich
    BY <1>4 DEF Enrich, instVars
  <1>5. CASE \E d \in Deliveries : Deliver(d)
    <2>1. UNCHANGED runtimeVars
      BY <1>5 DEF Deliver, Authenticate, Claim, Store, BreakOff
    <2> QED BY <2>1 DEF runtimeVars, instVars
  <1> QED BY <1>1, <1>2, <1>3, <1>4, <1>5

----------------------------------------------------------------------------
(* The invariant holds at first and is kept by every step. *)

LEMMA InitInv == Init => IInv
PROOF
  <1> SUFFICES ASSUME Init PROVE IInv
    OBVIOUS
  <1> USE RuntimeAssumption, AlertAssumption DEF Init, RuntimeInit
  <1>1. RuntimeTypeOK
    <2>1. file \in File /\ inst \in Instance
      <3>1. CASE \E a \in Accounts :
                   /\ file = [on |-> TRUE, engine |-> a, life |-> "RUNNING", exit |-> "NONE"]
                   /\ inst = [status |-> "active", mode |-> a, verifying |-> FALSE]
        BY <3>1 DEF File, Instance
      <3>2. CASE file \in File /\ inst \in Instance
        BY <3>2
      <3> QED BY <3>1, <3>2
    <2>2. at \in [Threads -> Places]
      BY DEF Places
    <2>3. position \in [Accounts -> BOOLEAN] /\ entries \in [Accounts -> Nat]
      OBVIOUS
    <2>4. managed \in 0..MaxManaged
      OBVIOUS
    <2>5. /\ copy \in [Threads -> File \cup {NoFile}]
          /\ request \in [Callers -> Requests \cup {<<"none", "none">>}]
          /\ starts \in [Keys -> [mode: Accounts, status: {"pending", "succeeded", "failed"}]
                                 \cup {NoStart}]
          /\ result \in [Callers -> {"none", "pending", "refused"}]
      OBVIOUS
    <2> QED BY <2>1, <2>2, <2>3, <2>4, <2>5 DEF RuntimeTypeOK
  <1>2. TypeOK
    BY <1>1 DEF TypeOK
  <1>3. RequestInv
    BY DEF RequestInv, StartPlaces
  <1>4. StoredInv /\ AcceptedIsKept
    BY DEF StoredInv, AcceptedIsKept, NoRow
  <1>5. GuardInv
    BY DEF GuardInv, Routing, RouteUpdates
  <1> QED BY <1>2, <1>3, <1>4, <1>5 DEF IInv

\* A step of the engine leaves the alerts alone.
LEMMA EngineStep ==
  ASSUME IInv, RuntimeTypeOK', RequestInv', GuardInv', UNCHANGED alertVars
  PROVE  IInv'
  BY DEF IInv, TypeOK, StoredInv, AcceptedIsKept, alertVars

LEMMA NextInv == IInv /\ [Next]_vars => IInv'
PROOF
  <1> SUFFICES ASSUME IInv, [Next]_vars PROVE IInv'
    OBVIOUS
  <1> USE DEF IInv
  <1>0. RuntimeTypeOK
    BY DEF TypeOK
  <1>1. ASSUME NEW d \in Deliveries, Deliver(d) PROVE IInv'
    <2>1. TypeOK' /\ StoredInv' /\ AcceptedIsKept'
      BY <1>1, DeliverTyped, DeliverStored
    <2>2. RequestInv' /\ GuardInv'
      BY <1>0, <1>1, OtherRequests, OtherGuard
    <2> QED BY <2>1, <2>2
  <1>2. CASE Work
    <2>1. CASE StartJob \/ Revalidate \/ Enrich \/ CompleteJob
      <3>1. TypeOK' /\ StoredInv' /\ AcceptedIsKept'
        BY <2>1, WorkTyped, WorkStored
      <3>2. RequestInv' /\ GuardInv'
        BY <1>0, <2>1, OtherRequests, OtherGuard
      <3> QED BY <3>1, <3>2
    <2>2. CASE Route(Worker) /\ UNCHANGED alertVars
      BY <1>0, <2>2, RouteTyped, RouteRequests, RouteGuard, EngineStep
    <2> QED BY <1>2, <2>1, <2>2 DEF Work
  <1>3. ASSUME NEW c \in Callers, Serve(c) PROVE IInv'
    <2>1. UNCHANGED alertVars /\ (Handle(c) \/ Route(c))
      BY <1>3 DEF Serve
    <2>2. RuntimeTypeOK' /\ RequestInv' /\ GuardInv'
      BY <1>0, <2>1, HandleTyped, HandleRequests, HandleGuard, RouteTyped, RouteRequests, RouteGuard
    <2> QED BY <2>1, <2>2, EngineStep
  <1>4. CASE Manage /\ UNCHANGED alertVars
    BY <1>0, <1>4, ManageTyped, OtherRequests, OtherGuard, EngineStep
  <1>5. CASE UNCHANGED vars
    <2>1. UNCHANGED runtimeVars /\ UNCHANGED alertVars
      BY <1>5 DEF vars
    <2>2. RuntimeTypeOK' /\ RequestInv' /\ GuardInv'
      BY <1>0, <2>1 DEF runtimeVars, fileVars, startVars, routeVars, instVars, RuntimeTypeOK,
         RequestInv, GuardInv, Eligible
    <2> QED BY <2>1, <2>2, EngineStep
  <1> QED BY <1>1, <1>2, <1>3, <1>4, <1>5 DEF Next

LEMMA Invariant == Spec => []IInv
  BY InitInv, NextInv, PTL DEF Spec

\* Every variable keeps its type, for any number of callers and alerts.
THEOREM TypeCorrect == Spec => []TypeOK
PROOF
  <1>1. IInv => TypeOK
    BY DEF IInv
  <1> QED BY <1>1, Invariant, PTL

\* Whoever was told "accepted" or "duplicate" has its own body stored, whatever
\* deliveries repeated, raced, contradicted each other or broke off.
THEOREM AcceptedKept == Spec => []AcceptedIsKept
PROOF
  <1>1. IInv => AcceptedIsKept
    BY DEF IInv
  <1> QED BY <1>1, Invariant, PTL

----------------------------------------------------------------------------
(* What an entry needs. *)

Enters == entries' # entries =>
            inst.status = "active" \/ (inst.verifying /\ inst.status # "paused")
EntersLive == entries'["live"] # entries["live"] => inst.mode = "live" /\ ~inst.verifying

\* Only an order of the worker enters, in the account the engine is in, and to
\* the live one only with the egress of a job in that mode.
LEMMA EntryStep ==
  ASSUME RuntimeTypeOK, [Next]_vars, entries' # entries
  PROVE  /\ at[Worker] \in Routing /\ job.action = "entry"
         /\ entries'["live"] # entries["live"] => job.mode = "live"
PROOF
  <1> USE DEF RuntimeTypeOK, routeVars
  <1>1. ASSUME NEW t \in Threads, Route(t)
        PROVE  /\ at[Worker] \in Routing /\ job.action = "entry"
               /\ entries'["live"] # entries["live"] => job.mode = "live"
    <2>1. Order(t)
      BY <1>1 DEF Route, Read, UpdateState, Evaluate, Reverse, Record, Raise
    <2>2. Action(t) = "entry" /\ entries' = [entries EXCEPT ![EngineMode] = @ + 1]
          /\ (EngineMode = "live" => Bound(t))
      BY <2>1 DEF Order
    <2>3. t = Worker /\ job.action = "entry"
      BY <2>2 DEF Action
    <2>4. entries'["live"] # entries["live"] => EngineMode = "live"
      BY <2>2 DEF Accounts
    <2> QED BY <2>1, <2>2, <2>3, <2>4 DEF Order, Bound, Routing
  <1>2. ~ \E c \in Callers : Handle(c)
    BY HandleKeeps
  <1>3. ~ (Manage \/ StartJob \/ Revalidate \/ Enrich \/ CompleteJob)
    BY DEF Manage, StartJob, Revalidate, Enrich, CompleteJob
  <1>4. ~ \E d \in Deliveries : Deliver(d)
    BY DEF Deliver, Authenticate, Claim, Store, BreakOff, runtimeVars
  <1>5. vars' # vars
    BY DEF vars, runtimeVars
  <1> QED BY <1>1, <1>2, <1>3, <1>4, <1>5 DEF Next, Work, Serve

LEMMA EntersStep == IInv /\ [Next]_vars => Enters /\ EntersLive
PROOF
  <1> SUFFICES ASSUME IInv, [Next]_vars, entries' # entries
               PROVE  Enters /\ EntersLive
    BY DEF Enters, EntersLive
  <1>1. /\ at[Worker] \in Routing /\ job.action = "entry"
        /\ entries'["live"] # entries["live"] => job.mode = "live"
    BY EntryStep DEF IInv, TypeOK
  <1>2. Eligible
    BY <1>1 DEF IInv, GuardInv
  <1> QED BY <1>1, <1>2 DEF Eligible, Enters, EntersLive

\* An alert enters only while its instance is active, or is being verified and
\* not paused: the row it was looked at under is held until the job is done.
THEOREM EntersAllowed == Spec => EntersWhileActive
PROOF
  <1>1. IInv /\ [Next]_vars => [Enters]_vars
    BY EntersStep
  <1>2. Spec => [][Enters]_vars
    BY <1>1, Invariant, PTL DEF Spec
  <1> QED BY <1>2, PTL DEF EntersWhileActive, Enters

\* Real orders need the instance in real mode and out of verification, however
\* the engine's mode is switched while the job is routed.
THEOREM LiveAllowed == Spec => LiveWhenLive
PROOF
  <1>1. IInv /\ [Next]_vars => [EntersLive]_vars
    BY EntersStep
  <1>2. Spec => [][EntersLive]_vars
    BY <1>1, Invariant, PTL DEF Spec
  <1> QED BY <1>2, PTL DEF LiveWhenLive, EntersLive
=============================================================================
