--------------------------- MODULE EngineRuntime ---------------------------
(* The engine of one owner: app_state.json (state_store.py), the panel's
   operations on it (runtime_reliability.py, routers/engine.py), the row of the
   strategy instance the owner has selected (strategy_instance_service.py), and
   the threads that route signals (execution_router.py).

   Every thread changes app_state.json by update_app_state: it reads the file
   and writes all of it back, and nothing is held in between.  The panel's
   operations exclude each other by the owner's lock, which the router does not
   take; a worker holds the row of the instance while it routes.  Updates that
   follow each other immediately and touch none of the fields below are one.
   Contracts, quantities, and how an exit is owned (PaperPosition) are left out. *)
EXTENDS Naturals

CONSTANTS Callers,       \* requests of the panel
          Worker,        \* the worker's thread for this owner
          Keys, KeyOf,   \* the Idempotency-Key of a start
          Operations,    \* Operations[c]: what c may ask for
          Fallback,      \* the mode of an engine that has none: DHAN_MODE
          MaxManaged,    \* bound: what the owner does to the instance
          None

Accounts == {"paper", "live"}
Requests == {"start", "stop", "square_off", "switch"} \X Accounts

ASSUME RuntimeAssumption ==
  /\ Worker \notin Callers /\ None \notin Callers \cup {Worker}
  /\ KeyOf \in [Callers -> Keys]
  /\ Operations \in [Callers -> SUBSET Requests]
  /\ Fallback \in Accounts
  /\ MaxManaged \in Nat

VARIABLES file,     \* app_state.json
          copy,     \* what a thread has read of it and is about to write back
          at,       \* where a thread is
          request,  \* what a caller asked for, and the mode it named
          owner,    \* who holds the owner's lock
          starter,  \* who holds the lock of the starts
          starts,   \* the rows of engine_start_operations
          result,   \* what the router has told a square-off
          position, \* of an account: is a position tracked in its file?
          inst,     \* the row of the instance
          managed,
          locked,   \* does the worker hold that row?
          job,      \* the signal the worker routes
          entries   \* history: how many entries went to each account
fileVars == <<file, copy>>
startVars == <<starter, starts>>
instVars == <<inst, managed>>
routeVars == <<result, position, entries>>
runtimeVars == <<fileVars, at, request, owner, startVars, routeVars, instVars, locked, job>>

----------------------------------------------------------------------------
Threads == Callers \cup {Worker}

File == [on: BOOLEAN, engine: Accounts \cup {"none"},
         life: {"STOPPED", "STARTING", "RUNNING", "STOPPING"},
         exit: {"NONE", "EXIT_PENDING", "RECONCILIATION_REQUIRED", "CONFIRMED_FLAT"}]
NoFile == [on |-> FALSE, engine |-> "none", life |-> "none", exit |-> "none"]

Instance == [status: {"ready", "active", "paused", "stopped", "archived"},
             mode: Accounts, verifying: BOOLEAN]
Signal == [action: {"entry", "exit"}, mode: Accounts]
NoSignal == [action |-> "none", mode |-> "none"]
NoStart == [mode |-> "none", status |-> "none"]

EngineMode == IF file.engine = "none" THEN Fallback ELSE file.engine
Open == position[EngineMode]
Flat == \A a \in Accounts : ~position[a]

\* Where a thread updates the file.
PanelUpdates == {"set_mode", "set_again", "starting", "enabling", "running", "stopping",
                 "stopped", "blocking", "flat", "requesting", "telling", "switching"}
RouteUpdates == {"signal", "reversing", "sending", "wallet", "waiting"}
Routing == RouteUpdates \cup {"evaluate", "reverse", "order", "record"}
Places == PanelUpdates \cup Routing \cup
          {"new", "checks", "configure", "activate", "entering", "looking", "concluding",
           "selecting", "pausing", "done", "idle", "revalidate", "enrich", "routed"}

Goes(t, place) == at' = [at EXCEPT ![t] = place]
Task(c) == request[c][1]
Mode(c) == request[c][2]

Read(t) ==
  /\ at[t] \in PanelUpdates \cup RouteUpdates
  /\ copy[t] = NoFile
  /\ copy' = [copy EXCEPT ![t] = file]
  /\ UNCHANGED <<file, at, request, owner, startVars, routeVars, instVars, locked, job>>

\* update_app_state: what was read, with the changes made in f, is written.
Write(t, f) ==
  /\ copy[t] # NoFile
  /\ file' = f
  /\ copy' = [copy EXCEPT ![t] = NoFile]

----------------------------------------------------------------------------
(* The lifecycle of the instance; each operation is one transaction that has
   the row for update. *)

Reachable(status) == CASE status = "ready"   -> {"active", "archived"}
                       [] status = "active"  -> {"paused", "stopped"}
                       [] status = "paused"  -> {"active", "stopped", "archived"}
                       [] status = "stopped" -> {"archived"}
                       [] OTHER              -> {}

SetStatus(target) ==
  /\ ~locked
  /\ target \in Reachable(inst.status)
  /\ target = "stopped" => ~position[inst.mode]
  /\ inst' = [inst EXCEPT !.status = target]

StartVerification ==
  /\ ~locked
  /\ inst.mode = "paper" /\ inst.status \in {"ready", "paused"}
  /\ inst' = [inst EXCEPT !.verifying = TRUE]

CompleteVerification ==
  /\ ~locked /\ inst.verifying
  /\ inst' = [inst EXCEPT !.verifying = FALSE]

\* The owner: pause, resume, stop, archive, verify.  Readiness is left open.
Manage ==
  /\ \/ \E s \in {"active", "paused", "stopped", "archived"} : SetStatus(s)
     \/ StartVerification \/ CompleteVerification
  /\ managed < MaxManaged /\ managed' = managed + 1
  /\ UNCHANGED <<fileVars, at, request, owner, startVars, routeVars, locked, job>>

----------------------------------------------------------------------------
(* A request of the panel. *)

Begin(c) ==
  /\ at[c] = "new"
  /\ \E r \in Operations[c] :
       /\ request' = [request EXCEPT ![c] = r]
       /\ IF r[1] # "start"
          THEN Goes(c, "entering") /\ UNCHANGED starts
          ELSE IF starts[KeyOf[c]] # NoStart
          THEN Goes(c, "done") /\ UNCHANGED starts       \* answered from the row
          ELSE /\ Goes(c, "checks")
               /\ starts' = [starts EXCEPT ![KeyOf[c]] = [mode |-> r[2], status |-> "pending"]]
  /\ UNCHANGED <<fileVars, owner, starter, routeVars, instVars, locked, job>>

Closed(c, status) ==
  /\ starts' = [starts EXCEPT ![KeyOf[c]].status = status]
  /\ starter' = IF starter = c THEN None ELSE starter

\* The owner's lock.
Takes(c) == owner = None /\ owner' = c
Leaves(c) == owner' = None

Enter(c) ==
  /\ at[c] = "entering"
  /\ Takes(c)
  /\ CASE Task(c) = "square_off" -> Goes(c, "blocking")
       [] Task(c) = "switch"     -> Goes(c, "switching")
       [] OTHER                  -> Goes(c, "stopping")
  /\ UNCHANGED <<fileVars, request, startVars, routeVars, instVars, locked, job>>

(* start-selected *)

Check(c) ==
  /\ at[c] = "checks"
  /\ starter = None
  /\ \/ /\ file.life = "STOPPED"
        /\ IF file.engine = "none" THEN Flat ELSE ~Open
        /\ file.exit \notin {"EXIT_PENDING", "RECONCILIATION_REQUIRED"}
        /\ Goes(c, "configure")
        /\ starter' = c
        /\ UNCHANGED starts
     \/ Goes(c, "done") /\ Closed(c, "failed")
  /\ UNCHANGED <<fileVars, request, owner, routeVars, instVars, locked, job>>

Configure(c) ==
  /\ at[c] = "configure"
  /\ owner = None
  /\ \/ /\ file.on \/ ~Flat
        /\ Goes(c, "entering") /\ UNCHANGED owner
     \/ /\ ~file.on /\ Flat
        /\ IF file.engine = Mode(c)
           THEN Goes(c, "activate") /\ UNCHANGED owner
           ELSE Goes(c, "set_mode") /\ Takes(c)
  /\ UNCHANGED <<fileVars, request, startVars, routeVars, instVars, locked, job>>

SetMode(c) ==
  /\ at[c] = "set_mode"
  /\ Write(c, [copy[c] EXCEPT !.engine = Mode(c)])
  /\ Leaves(c)
  /\ Goes(c, "activate")
  /\ UNCHANGED <<request, startVars, routeVars, instVars, locked, job>>

\* A start that fails stops the engine.
Activate(c) ==
  /\ at[c] = "activate" /\ ~locked
  /\ \/ /\ inst.status # "archived"
        /\ inst.verifying => Mode(c) = "paper"
        /\ inst' = [inst EXCEPT !.mode = Mode(c),
                                !.status = IF inst.verifying THEN @ ELSE "active"]
        /\ Goes(c, "set_again")
     \/ Goes(c, "entering") /\ UNCHANGED inst
  /\ UNCHANGED <<fileVars, request, owner, startVars, routeVars, managed, locked, job>>

SetAgain(c) ==
  /\ at[c] = "set_again" /\ copy[c] # NoFile
  /\ IF copy[c].engine # Mode(c) /\ (copy[c].on \/ ~Flat)
     THEN /\ Goes(c, "entering")
          /\ copy' = [copy EXCEPT ![c] = NoFile] /\ UNCHANGED file
     ELSE /\ Write(c, [copy[c] EXCEPT !.engine = Mode(c)])
          /\ Goes(c, "starting") \/ Goes(c, "entering")
  /\ UNCHANGED <<request, owner, startVars, routeVars, instVars, locked, job>>

Launch(c) ==
  /\ \/ /\ at[c] = "starting"
        /\ Write(c, [copy[c] EXCEPT !.life = "STARTING"])
        /\ Goes(c, "enabling")
        /\ UNCHANGED startVars
     \/ /\ at[c] = "enabling"
        /\ Write(c, [copy[c] EXCEPT !.on = TRUE, !.engine = Mode(c)])
        /\ Goes(c, "running")
        /\ UNCHANGED startVars
     \/ /\ at[c] = "running"
        /\ Write(c, [copy[c] EXCEPT !.on = TRUE, !.life = "RUNNING", !.exit = "NONE"])
        /\ Goes(c, "done") /\ Closed(c, "succeeded")
  /\ UNCHANGED <<request, owner, routeVars, instVars, locked, job>>

(* stop *)

Stop(c) ==
  /\ \/ /\ at[c] = "stopping"
        /\ Write(c, [copy[c] EXCEPT !.on = FALSE, !.life = "STOPPING"])
        /\ Goes(c, "stopped")
        /\ UNCHANGED owner
     \/ /\ at[c] = "stopped"
        /\ Write(c, [copy[c] EXCEPT !.on = FALSE, !.life = "STOPPED"])
        /\ Goes(c, "selecting")
        /\ Leaves(c)
  /\ UNCHANGED <<request, startVars, routeVars, instVars, locked, job>>

Ends(c) == /\ Goes(c, "done")
           /\ IF Task(c) = "start" THEN Closed(c, "failed") ELSE UNCHANGED startVars

\* _pause_selected_personal looks at the status before it asks for the pause.
Select(c) ==
  /\ at[c] = "selecting"
  /\ IF inst.status = "active" THEN Goes(c, "pausing") /\ UNCHANGED startVars ELSE Ends(c)
  /\ UNCHANGED <<fileVars, request, owner, routeVars, instVars, locked, job>>

Pause(c) ==
  /\ at[c] = "pausing" /\ ~locked
  /\ IF inst.status = "active" THEN SetStatus("paused") ELSE UNCHANGED inst
  /\ Ends(c)
  /\ UNCHANGED <<fileVars, request, owner, routeVars, managed, locked, job>>

(* mode *)

Switch(c) ==
  /\ at[c] = "switching" /\ copy[c] # NoFile
  /\ IF copy[c].on \/ (copy[c].engine # Mode(c) /\ ~Flat)
     THEN copy' = [copy EXCEPT ![c] = NoFile] /\ UNCHANGED file
     ELSE Write(c, [copy[c] EXCEPT !.engine = Mode(c)])
  /\ Leaves(c)
  /\ Goes(c, "done")
  /\ UNCHANGED <<request, startVars, routeVars, instVars, locked, job>>

(* square-off *)

Block(c) ==
  /\ at[c] = "blocking"
  /\ Write(c, [copy[c] EXCEPT !.on = FALSE, !.life = "STOPPING"])
  /\ Goes(c, "looking")
  /\ UNCHANGED <<request, owner, startVars, routeVars, instVars, locked, job>>

Look(c) ==
  /\ at[c] = "looking"
  /\ IF ~Open THEN Goes(c, "flat") /\ UNCHANGED owner
     ELSE IF file.exit \in {"EXIT_PENDING", "RECONCILIATION_REQUIRED"}
     THEN Goes(c, "selecting") /\ Leaves(c)
     ELSE Goes(c, "requesting") /\ UNCHANGED owner
  /\ UNCHANGED <<fileVars, request, startVars, routeVars, instVars, locked, job>>

RequestExit(c) ==
  /\ at[c] = "requesting"
  /\ Write(c, [copy[c] EXCEPT !.exit = "EXIT_PENDING"])
  /\ Goes(c, "signal")
  /\ UNCHANGED <<request, owner, startVars, routeVars, instVars, locked, job>>

Conclude(c) ==
  /\ at[c] = "concluding"
  /\ Goes(c, IF Open THEN "telling" ELSE "flat")
  /\ UNCHANGED <<fileVars, request, owner, startVars, routeVars, instVars, locked, job>>

Tell(c) ==
  /\ \/ /\ at[c] = "flat"
        /\ Write(c, [copy[c] EXCEPT !.on = FALSE, !.life = "STOPPED", !.exit = "CONFIRMED_FLAT"])
     \/ /\ at[c] = "telling" /\ result[c] = "pending"
        /\ Write(c, [copy[c] EXCEPT !.exit = "EXIT_PENDING"])
     \/ /\ at[c] = "telling" /\ result[c] # "pending"
        /\ Write(c, [copy[c] EXCEPT !.life = "STOPPING", !.exit = "RECONCILIATION_REQUIRED"])
  /\ Leaves(c)
  /\ Goes(c, "selecting")
  /\ result' = [result EXCEPT ![c] = "none"]
  /\ UNCHANGED <<request, startVars, position, entries, instVars, locked, job>>

----------------------------------------------------------------------------
(* Routing a signal: the worker's, or the exit of a square-off. *)

Action(t) == IF t = Worker THEN job.action ELSE "exit"

\* The egress of the user is bound for an order of the panel and for a job in
\* the mode real_orders; without it an order in live mode is refused.
Bound(t) == t = Worker => job.mode = "live"

Finishes(t) == Goes(t, IF t = Worker THEN "routed" ELSE "concluding")

UpdateState(t) ==
  /\ Write(t, copy[t])
  /\ \/ at[t] = "signal"  /\ Goes(t, "evaluate")
     \/ at[t] = "reversing" /\ Goes(t, "reverse")
     \/ at[t] = "sending" /\ Goes(t, "order")
     \/ at[t] = "wallet"  /\ Goes(t, "record")
     \/ at[t] = "waiting" /\ Finishes(t)
  /\ UNCHANGED <<request, owner, startVars, routeVars, instVars, locked, job>>

\* Levels, limits and the broker's preflight may refuse as well.
Evaluate(t) ==
  /\ at[t] = "evaluate"
  /\ \/ Action(t) = "entry" /\ file.on /\ ~Open /\ Goes(t, "sending")
     \/ Action(t) = "entry" /\ file.on /\ Open /\ Goes(t, "reversing")
     \/ Action(t) = "exit" /\ Open /\ Goes(t, "sending")
     \/ Finishes(t)
  /\ UNCHANGED <<fileVars, request, owner, startVars, routeVars, instVars, locked, job>>

\* A reversal closes the position of the other side before it enters; its exit
\* and the clearing are one step here.
Reverse(t) ==
  /\ at[t] = "reverse"
  /\ \/ /\ EngineMode = "live" => Bound(t)
        /\ position' = [position EXCEPT ![EngineMode] = FALSE]
        /\ Goes(t, "sending")
     \/ Goes(t, "waiting") /\ UNCHANGED position
  /\ UNCHANGED <<fileVars, request, owner, startVars, result, entries, instVars, locked, job>>

\* Mutant: the order of a job goes to whatever account the engine has.
OrderAnywhere(t) ==
  /\ at[t] = "order"
  /\ \/ /\ \/ Action(t) = "entry" /\ entries' = [entries EXCEPT ![EngineMode] = @ + 1]
           \/ Action(t) = "exit" /\ UNCHANGED entries
        /\ Goes(t, IF EngineMode = "live" /\ Action(t) = "entry" THEN "wallet" ELSE "record")
        /\ UNCHANGED result
     \/ /\ IF t = Worker THEN UNCHANGED result
           ELSE \E r \in {"pending", "refused"} : result' = [result EXCEPT ![t] = r]
        /\ Goes(t, "waiting")
        /\ UNCHANGED entries
  /\ UNCHANGED <<fileVars, request, owner, startVars, position, instVars, locked, job>>

\* _place_order reads the engine's mode for itself.
Order(t) ==
  /\ at[t] = "order"
  /\ \/ /\ EngineMode = "live" => Bound(t)
        /\ \/ Action(t) = "entry" /\ entries' = [entries EXCEPT ![EngineMode] = @ + 1]
           \/ Action(t) = "exit" /\ UNCHANGED entries
        /\ Goes(t, IF EngineMode = "live" /\ Action(t) = "entry" THEN "wallet" ELSE "record")
        /\ UNCHANGED result
     \/ /\ IF t = Worker THEN UNCHANGED result
           ELSE \E r \in {"pending", "refused"} : result' = [result EXCEPT ![t] = r]
        /\ Goes(t, "waiting")
        /\ UNCHANGED entries
  /\ UNCHANGED <<fileVars, request, owner, startVars, position, instVars, locked, job>>

\* The position is recorded, or cleared, in the file of the mode of now.
Record(t) ==
  /\ at[t] = "record"
  /\ position' = [position EXCEPT ![EngineMode] = Action(t) = "entry"]
  /\ Goes(t, "waiting")
  /\ UNCHANGED <<fileVars, request, owner, startVars, result, entries, instVars, locked, job>>

\* An exception ends the request of the panel; the worker reports it.
Raise(t) ==
  /\ at[t] \in Routing
  /\ copy' = [copy EXCEPT ![t] = NoFile]
  /\ IF t = Worker THEN Goes(t, "routed") /\ UNCHANGED owner
                   ELSE Goes(t, "done") /\ Leaves(t)
  /\ UNCHANGED <<file, request, startVars, routeVars, instVars, locked, job>>

Route(t) == \/ Read(t) \/ UpdateState(t) \/ Evaluate(t) \/ Reverse(t)
            \/ Order(t) \/ Record(t) \/ Raise(t)

Handle(c) ==
  \/ Begin(c) \/ Enter(c) \/ Check(c) \/ Configure(c) \/ SetMode(c) \/ Activate(c)
  \/ SetAgain(c) \/ Launch(c) \/ Stop(c) \/ Select(c) \/ Pause(c) \/ Switch(c)
  \/ Block(c) \/ Look(c) \/ RequestExit(c) \/ Conclude(c) \/ Tell(c)

----------------------------------------------------------------------------
(* An engine that runs its instance, or one that is stopped. *)
RuntimeInit ==
  /\ \/ \E a \in Accounts :
          /\ file = [on |-> TRUE, engine |-> a, life |-> "RUNNING", exit |-> "NONE"]
          /\ inst = [status |-> "active", mode |-> a, verifying |-> FALSE]
     \/ /\ file \in {f \in File : ~f.on /\ f.life = "STOPPED" /\ f.exit = "NONE"}
        /\ inst \in {i \in Instance : /\ i.status \in {"ready", "paused"}
                                      /\ i.verifying => i.mode = "paper"}
  /\ position \in {p \in [Accounts -> BOOLEAN] :
                     \A a \in Accounts : p[a] => a = file.engine /\ a = inst.mode}
  /\ copy = [t \in Threads |-> NoFile]
  /\ at = [t \in Threads |-> IF t = Worker THEN "idle" ELSE "new"]
  /\ request = [c \in Callers |-> <<"none", "none">>]
  /\ owner = None /\ starter = None
  /\ starts = [k \in Keys |-> NoStart]
  /\ result = [c \in Callers |-> "none"]
  /\ managed = 0
  /\ locked = FALSE
  /\ job = NoSignal
  /\ entries = [a \in Accounts |-> 0]

RuntimeTypeOK ==
  /\ file \in File
  /\ copy \in [Threads -> File \cup {NoFile}]
  /\ at \in [Threads -> Places]
  /\ request \in [Callers -> Requests \cup {<<"none", "none">>}]
  /\ owner \in Callers \cup {None} /\ starter \in Callers \cup {None}
  /\ starts \in [Keys -> [mode: Accounts, status: {"pending", "succeeded", "failed"}]
                         \cup {NoStart}]
  /\ result \in [Callers -> {"none", "pending", "refused"}]
  /\ position \in [Accounts -> BOOLEAN]
  /\ inst \in Instance
  /\ managed \in 0..MaxManaged
  /\ locked \in BOOLEAN
  /\ job \in Signal \cup {NoSignal}
  /\ entries \in [Accounts -> Nat]
=============================================================================
