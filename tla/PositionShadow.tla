--------------------------- MODULE PositionShadow ---------------------------
(* The durable shadow of a tracked position.  The JSON position of a slot (a
   user and an execution mode) is the authority.  After each JSON write the
   code mirrors it into one database row and an append-only event log: by the
   generic writer of position_store.py, or, when typed writes are on, by the
   operations of position_operations.py.  Every such write runs in the envelope
   run_guarded_slot_operation: a circuit breaker, a permit per worker thread, a
   watchdog that abandons the transaction, which may still commit later.

   Several threads route orders of one slot: the job worker under the user's
   lock, and without it the panel's requests, the exits of the option monitor and
   the reconcilers.  Each looks at the position, has its order placed and writes
   what came of it; the "monitor" fills in the entry price beside them.  Prices,
   instruments, order legs and the parity stamp are left out. *)
EXTENDS Naturals, Sequences, SequencesExt

CONSTANTS Slots,      \* (user, execution mode) pairs
          Routers,    \* the threads that route orders of a slot
          Permits,    \* the worker threads of the executor, one permit each
          Threshold,  \* POSITION_DB_SHADOW_FAILURE_THRESHOLD
          Lots,       \* lots of an entry
          Calls,      \* bound: database operations called, also their identity
          Faults      \* bound: failed transactions and restarts

ASSUME ShadowAssumption ==
  /\ "none" \notin Slots   \* no slot has the name of an unused permit's
  /\ "monitor" \notin Routers
  /\ Threshold \in Nat \ {0} /\ Lots \in Nat \ {0}
  /\ Calls \in Nat /\ Faults \in Nat

Callers == Slots \X (Routers \cup {"monitor"})
NoCaller == <<"none", "nobody">>
Monitor(s) == <<s, "monitor">>
Routing == Slots \X Routers   \* the callers that route

VARIABLES typed,     \* POSITION_DB_TYPED_WRITES_ENABLED of this process
          position,  \* the JSON position of a slot
          row,       \* its latest database row
          log,       \* its position_events
          breaker,   \* state, consecutive_failures and _probe_in_flight
          call,      \* where a caller is in the envelope
          worker,    \* the transaction a permit was taken for
          missed,    \* slots with a write reported as skipped, failed or lost
          crossed,   \* slots where a router's write overtook another router's
          calls, faults
vars == <<typed, position, row, log, breaker, call, worker, missed, crossed, calls, faults>>

----------------------------------------------------------------------------
(* Positions, rows and operations. *)

\* An entry, a partial exit and a pending reversal exit are named by the
\* operation that told the database of them (0: none).
Position == [order: 0..Calls, qty: 0..Lots, priced: BOOLEAN, partial: 0..Calls, reversal: 0..Calls]
Flat == [order |-> 0, qty |-> 0, priced |-> FALSE, partial |-> 0, reversal |-> 0]

DerivedState(p) ==
  IF p.qty = 0 THEN "closed"
  ELSE IF p.reversal # 0 THEN "reversing"
  ELSE IF p.partial # 0 THEN "exiting"
  ELSE IF ~p.priced THEN "entering" ELSE "open"

States == {"none", "entering", "open", "exiting", "reversing", "error", "closed"}
Row == [born: 0..Calls, snap: Position, qty: 0..Lots, state: States, imported: BOOLEAN]
NoRow == [born |-> 0, snap |-> Flat, qty |-> 0, state |-> "none", imported |-> FALSE]
Active(r) == r.state \notin {"none", "closed"}

\* "none" stands for the absent active row; "closed" ends a lifetime.
Allowed ==
  [st \in States |->
     CASE st = "none"      -> {"entering", "open"}
       [] st = "entering"  -> {"open", "exiting", "reversing", "closed", "error"}
       [] st = "open"      -> {"open", "exiting", "reversing", "closed", "error"}
       [] st = "exiting"   -> {"exiting", "closed", "open", "error"}
       [] st = "reversing" -> {"reversing", "exiting", "closed", "open", "error"}
       [] st = "error"     -> {"open", "exiting", "closed"}
       [] OTHER            -> {}]

Kinds == {"entry", "fill", "partial", "close", "reversal", "pending", "verified", "unverified"}
Mirrors == {"mirror", "patch"}   \* a "patch" is written while _LOCK is held
Op == [kind: Kinds \cup Mirrors \cup {"none"}, id: 0..Calls, snap: Position]
NoOp == [kind |-> "none", id |-> 0, snap |-> Flat]

Landed == {"written", "noop", "duplicate"}
Failed == {"conflict", "refused", "error", "lock", "budget"}
\* What a router has decided: nothing, an entry, an exit, the exit leg of a reversal.
Decisions == {"idle", "entry", "exit", "leg"}
Call == [pc: Decisions \cup {"called", "waiting", "answered"}, op: Op,
         out: Landed \cup Failed \cup {"none"}, next: Decisions]
Idle == [pc |-> "idle", op |-> NoOp, out |-> "none", next |-> "idle"]
Worker == [slot: Slots \cup {"none"}, op: Op, owner: Callers \cup {NoCaller}]
Unused == [slot |-> "none", op |-> NoOp, owner |-> NoCaller]

----------------------------------------------------------------------------
(* The transactions: each runs under the slot's advisory lock, hence in one
   step.  Outcome(out, r, es) is what it answers and what it commits. *)

Outcome(out, r, es) == [out |-> out, row |-> r, log |-> es]
Event(r, key, from, to) == [row |-> r.born, key |-> key, from |-> from, to |-> to]
Known(es, key) == \E i \in DOMAIN es : es[i].key = key

\* Mutant: a mirror's event is identified by its snapshot, without the states.
AppendedBySnapshot(es, e) ==
  IF \E i \in DOMAIN es : es[i].key[1] = e.key[1] /\ Last(es[i].key) = Last(e.key) THEN es
  ELSE Append(es, e)

\* _append_event: a key that was used is skipped.
Appended(es, e) == IF Known(es, e.key) THEN es ELSE Append(es, e)

\* _emit_event: the same key and payload is skipped, another payload refused.
Emitted(old, r, es, key, from) ==
  IF ~Known(es, key) THEN Outcome("written", r, Append(es, Event(r, key, from, r.state)))
  ELSE IF \E i \in DOMAIN es : es[i].key = key /\ es[i].from = from /\ es[i].to = r.state
       THEN Outcome("written", r, es)
       ELSE Outcome("conflict", old, es)

\* _apply_json_to_row: the row takes over the snapshot.
Applied(r, p) == [r EXCEPT !.snap = p, !.qty = p.qty, !.state = DerivedState(p)]
Lesser(a, b) == IF a <= b THEN a ELSE b

Target(op, r) ==
  CASE op.kind = "entry"      -> IF op.snap.priced THEN "open" ELSE "entering"
    [] op.kind = "fill"       -> "open"
    [] op.kind = "partial"    -> "exiting"
    [] op.kind = "close"      -> "closed"
    [] op.kind = "reversal"   -> "reversing"
    [] op.kind = "pending"    -> IF r.state = "reversing" THEN "reversing" ELSE "exiting"
    [] op.kind = "verified"   -> r.state
    [] op.kind = "unverified" -> "error"
    [] OTHER                  -> DerivedState(op.snap)

\* The row an operation leaves behind, once it is accepted.
Changed(op, r) ==
  LET to == Target(op, r) IN
  CASE op.kind = "entry" ->
         [Applied(NoRow, op.snap) EXCEPT !.born = op.id, !.state = to]
    [] op.kind \in {"fill", "pending"} -> [Applied(r, op.snap) EXCEPT !.state = to]
    [] op.kind \in {"partial", "verified"} ->
         [Applied(r, op.snap) EXCEPT !.state = to, !.qty = Lesser(r.qty, op.snap.qty)]
    [] op.kind = "close" -> [r EXCEPT !.state = to, !.qty = 0]
    [] OTHER -> [r EXCEPT !.state = to]

\* What identifies an operation: an order, a check of the broker, a reason.
Key(op, r) ==
  CASE op.kind \in {"entry", "fill"} -> <<op.kind, op.snap.order>>
    [] op.kind = "unverified"        -> <<op.kind, r.born>>
    [] OTHER                         -> <<op.kind, op.id>>

\* An entry on an occupied slot, a fill of another order.
Contradicts(op, r) ==
  \/ op.kind = "entry" /\ Active(r)
  \/ op.kind = "fill" /\ r.snap.order # op.snap.order

TypedWrite(op, r, es) ==
  LET from == IF Active(r) THEN r.state ELSE "none" IN
  IF ~Active(r) /\ op.kind # "entry" THEN Outcome("noop", r, es)
  ELSE IF Contradicts(op, r) THEN Outcome("conflict", r, es)
  ELSE IF op.kind # "verified" /\ Target(op, r) \notin Allowed[from] THEN Outcome("refused", r, es)
  ELSE Emitted(r, Changed(op, r), es, Key(op, r), from)

\* _shadow_write_txn: the row follows the snapshot, whatever it was.
MirrorWrite(op, r, es) ==
  LET from == IF Active(r) THEN r.state ELSE "none"
      to == DerivedState(op.snap)
      born == IF Active(r) THEN r ELSE [NoRow EXCEPT !.born = op.id]
      next == IF to = "closed" THEN [r EXCEPT !.state = "closed", !.qty = 0] ELSE Applied(born, op.snap)
  IN IF \/ ~Active(r) /\ to = "closed"
        \/ Active(r) /\ r.snap = op.snap
     THEN Outcome("noop", r, es)
     ELSE Outcome("written", next,
                  Appended(es, Event(next, <<"mirror", from, to, next.snap>>, from, to)))

Effect(op, r, es) == IF op.kind \in Mirrors THEN MirrorWrite(op, r, es) ELSE TypedWrite(op, r, es)

----------------------------------------------------------------------------
(* The callers: the JSON write comes first, then the database operation. *)

LockFree == \A c \in Callers : call[c].op.kind # "patch"

\* The operation that follows a JSON write; a compare-and-set writes its
\* mirror before it releases _LOCK.
Mirrored(kind, cas) == IF typed THEN kind ELSE IF cas THEN "patch" ELSE "mirror"

\* The operation is called with snapshot p; its caller goes on with next.
Calling(c, kind, p, next) ==
  /\ calls < Calls
  /\ calls' = calls + 1
  /\ call' = [call EXCEPT ![c] = [pc |-> "called", out |-> "none", next |-> next,
                                  op |-> [kind |-> kind, id |-> calls + 1, snap |-> p]]]
  /\ UNCHANGED <<typed, row, log, breaker, worker, missed, crossed, faults>>

Write(c, kind, cas, p, next) ==
  /\ LockFree
  /\ position' = [position EXCEPT ![c[1]] = p]
  /\ Calling(c, Mirrored(kind, cas), p, next)

Open(s) == position[s].qty > 0

\* Only the thread's own state changes.
Turns(c, pc, read) ==
  /\ call' = [call EXCEPT ![c] = [Idle EXCEPT !.pc = pc, !.op = [NoOp EXCEPT !.snap = read]]]
  /\ UNCHANGED <<typed, position, row, log, breaker, worker, missed, crossed, calls, faults>>

\* A router looks at the position: a flat slot may be entered, an open one left.
\* Its order is placed before it writes, and no lock is held until then.
Decide(c) ==
  /\ call[c].pc = "idle" /\ LockFree
  /\ Turns(c, IF Open(c[1]) THEN "exit" ELSE "entry", position[c[1]])

\* The order was blocked or failed: nothing is undone.
GiveUp(c) == call[c].pc \in {"entry", "exit", "leg"} /\ Turns(c, "idle", Flat)

\* An entry is written whatever the position has become.
Enter(c) ==
  /\ call[c].pc = "entry"
  /\ \E priced \in BOOLEAN :
       Write(c, "entry", FALSE,
             [Flat EXCEPT !.order = calls + 1, !.qty = Lots, !.priced = priced], "idle")

\* The monitor learns the fill price of an entry (compare-and-set).
FillSynced(s) ==
  /\ call[Monitor(s)].pc = "idle"
  /\ Open(s) /\ ~position[s].priced
  /\ Write(Monitor(s), "fill", TRUE, [position[s] EXCEPT !.priced = TRUE], "idle")

\* The position is still the one the router has read.
Same(c) == Open(c[1]) /\ position[c[1]].order = call[c].op.snap.order

\* Some lots of an exit were sold (compare-and-set).
PartialExit(c) ==
  /\ call[c].pc = "exit" /\ Same(c) /\ call[c].op.snap.qty > 1
  /\ Write(c, "partial", TRUE,
           [position[c[1]] EXCEPT !.qty = call[c].op.snap.qty - 1, !.partial = calls + 1], "idle")

\* A confirmed exit, or a reconciler that found the broker flat: a live position
\* is cleared whatever it has become, a paper one by the owner of its exit.  A
\* reversal then enters the other side without looking again.
Close(c) ==
  /\ call[c].pc \in {"exit", "leg"}
  /\ \E cas \in BOOLEAN :
       /\ cas => call[c].pc = "exit" /\ Same(c)
       /\ Write(c, "close", cas, Flat, IF call[c].pc = "leg" THEN "entry" ELSE "idle")

\* A reversal is marked before its exit leg is placed; JSON does not change,
\* and only a typed write tells the database.
MarkReversal(c) ==
  /\ call[c].pc = "exit"
  /\ IF typed THEN /\ LockFree
                   /\ Calling(c, "reversal", position[c[1]], "leg")
                   /\ UNCHANGED position
     ELSE Turns(c, "leg", Flat)

\* The exit leg was accepted and is not confirmed.
ExitPending(c) ==
  /\ call[c].pc = "leg" /\ Open(c[1])
  /\ Write(c, "pending", FALSE, [position[c[1]] EXCEPT !.reversal = calls + 1], "idle")

\* The startup reconciler sees the position at the broker, or cannot tell.
Reconcile(c) ==
  /\ call[c].pc = "idle" /\ Open(c[1]) /\ typed
  /\ LockFree
  /\ \E kind \in {"verified", "unverified"} : Calling(c, kind, position[c[1]], "idle")
  /\ UNCHANGED position

----------------------------------------------------------------------------
(* The envelope. *)

Returned(c) == [Idle EXCEPT !.pc = call[c].next]

\* How long the breaker stays open exceeds the budget of a call (60 s against
\* 2.5 s by default): whoever was admitted before it opened has returned.
CooledOff == \A c \in Callers : call[c].pc \notin {"waiting", "answered"}

\* Mutant: a half-open breaker admits everybody.
AdmitsAll == \/ breaker.state # "OPEN"
             \/ breaker.state = "OPEN" /\ CooledOff

Admits == \/ breaker.state = "CLOSED"
          \/ breaker.state = "OPEN" /\ CooledOff
          \/ breaker.state = "HALF_OPEN" /\ ~breaker.probe

Allow == IF breaker.state = "CLOSED" THEN breaker
         ELSE [breaker EXCEPT !.state = "HALF_OPEN", !.probe = TRUE]

Skip(c) ==
  /\ call[c].pc = "called"
  /\ \/ breaker.state = "OPEN"
     \/ breaker.state = "HALF_OPEN" /\ breaker.probe
  /\ call' = [call EXCEPT ![c] = Returned(c)]
  /\ missed' = missed \cup {c[1]}
  /\ UNCHANGED <<typed, position, row, log, breaker, worker, crossed, calls, faults>>

Submit(c) ==
  /\ call[c].pc = "called" /\ Admits
  /\ \E w \in Permits :
       /\ worker[w] = Unused
       /\ worker' = [worker EXCEPT ![w] = [slot |-> c[1], op |-> call[c].op, owner |-> c]]
  /\ breaker' = Allow
  /\ call' = [call EXCEPT ![c].pc = "waiting"]
  /\ UNCHANGED <<typed, position, row, log, missed, crossed, calls, faults>>

\* No permit is free: the call returns at once and records no outcome.
Saturated(c) ==
  /\ call[c].pc = "called" /\ Admits
  /\ \A w \in Permits : worker[w] # Unused
  /\ breaker' = Allow
  /\ call' = [call EXCEPT ![c] = Returned(c)]
  /\ missed' = missed \cup {c[1]}
  /\ UNCHANGED <<typed, position, row, log, worker, crossed, calls, faults>>

\* The transaction ends: the permit is released and whoever waits is told.
Answered(w, out) ==
  /\ worker' = [worker EXCEPT ![w] = Unused]
  /\ call' = IF worker[w].owner = NoCaller THEN call
             ELSE [call EXCEPT ![worker[w].owner] = [@ EXCEPT !.pc = "answered", !.out = out]]

\* A router's transaction commits while one of another router, for an earlier
\* write of the same slot, is still to come.
Overtakes(w) ==
  /\ worker[w].owner \in Routing
  /\ \E c \in Routing : /\ c[1] = worker[w].slot /\ call[c].pc \in {"called", "waiting"}
                         /\ call[c].op.id < worker[w].op.id

Run(w) ==
  /\ worker[w] # Unused
  /\ LET s == worker[w].slot
         e == Effect(worker[w].op, row[s], log[s])
     IN /\ row' = [row EXCEPT ![s] = e.row]
        /\ log' = [log EXCEPT ![s] = e.log]
        /\ Answered(w, e.out)
        /\ crossed' = IF Overtakes(w) THEN crossed \cup {s} ELSE crossed
  /\ UNCHANGED <<typed, position, breaker, missed, calls, faults>>

\* A database error, or the slot's lock is held by another transaction.
Break(w) ==
  /\ worker[w] # Unused /\ faults < Faults
  /\ \/ Answered(w, "error")
     \/ /\ \E v \in Permits \ {w} : worker[v].slot = worker[w].slot
        /\ Answered(w, "lock")
  /\ faults' = faults + 1
  /\ UNCHANGED <<typed, position, row, log, breaker, missed, crossed, calls>>

\* Mutant: the watchdog gives up on a call while its transaction keeps it.
AbandonOwned(c) ==
  /\ call[c].pc = "waiting"
  /\ call' = [call EXCEPT ![c] = [@ EXCEPT !.pc = "answered", !.out = "budget"]]
  /\ UNCHANGED <<typed, position, row, log, breaker, worker, missed, crossed, calls, faults>>

\* The watchdog: the caller goes on, the transaction is abandoned.
Abandon(c) ==
  /\ call[c].pc = "waiting"
  /\ call' = [call EXCEPT ![c] = [@ EXCEPT !.pc = "answered", !.out = "budget"]]
  /\ worker' = [w \in Permits |-> IF worker[w].owner = c THEN [worker[w] EXCEPT !.owner = NoCaller]
                                  ELSE worker[w]]
  /\ UNCHANGED <<typed, position, row, log, breaker, missed, crossed, calls, faults>>

Succeeded == [state |-> "CLOSED", failures |-> 0, probe |-> FALSE]
Tripped ==
  LET n == Lesser(breaker.failures + 1, Threshold) IN
  [state |-> IF breaker.state # "CLOSED" \/ n >= Threshold THEN "OPEN" ELSE "CLOSED",
   failures |-> n, probe |-> FALSE]

\* Mutant: a conflict is taken for a repetition, and not reported.
RecordForgives(c) ==
  /\ call[c].pc = "answered"
  /\ breaker' = IF call[c].out \in Landed THEN Succeeded
                ELSE IF call[c].out \in {"conflict", "lock"} THEN breaker ELSE Tripped
  /\ missed' = IF call[c].out \in Landed \cup {"conflict"} THEN missed ELSE missed \cup {c[1]}
  /\ call' = [call EXCEPT ![c] = Returned(c)]
  /\ UNCHANGED <<typed, position, row, log, worker, crossed, calls, faults>>

\* A conflict is raised past the breaker, a lock timeout is the slot's own.
Record(c) ==
  /\ call[c].pc = "answered"
  /\ breaker' = CASE call[c].out \in Landed -> Succeeded
                  [] call[c].out \in {"conflict", "lock"} -> breaker
                  [] OTHER -> Tripped
  /\ missed' = IF call[c].out \in Landed THEN missed ELSE missed \cup {c[1]}
  /\ call' = [call EXCEPT ![c] = Returned(c)]
  /\ UNCHANGED <<typed, position, row, log, worker, crossed, calls, faults>>

\* The process stops and starts, perhaps with the other kind of write.
Restart ==
  /\ faults < Faults
  /\ faults' = faults + 1
  /\ typed' \in BOOLEAN
  /\ breaker' = Succeeded
  /\ missed' = missed \cup {c[1] : c \in {d \in Callers : call[d].pc \notin Decisions}}
  /\ call' = [c \in Callers |-> Idle]
  /\ worker' = [w \in Permits |-> Unused]
  /\ UNCHANGED <<position, row, log, crossed, calls>>

\* import_json_position, run by an operator while the slot is quiet.
Quiet(s) == /\ \A c \in Callers : c[1] = s => call[c].pc \in Decisions
            /\ \A w \in Permits : worker[w].slot # s

Import(s) ==
  LET r == row[s]
      base == IF Active(r) THEN r ELSE [NoRow EXCEPT !.born = calls + 1]
      next == [Applied(base, position[s]) EXCEPT !.imported = TRUE]
      from == IF Active(r) THEN r.state ELSE "none"
  IN /\ Quiet(s) /\ Open(s)
     /\ calls < Calls /\ calls' = calls + 1
     /\ Active(r) => r.imported /\ r.snap # position[s]
     /\ row' = [row EXCEPT ![s] = next]
     /\ log' = [log EXCEPT ![s] = Appended(@, Event(next, <<"import", position[s]>>, from, next.state))]
     /\ UNCHANGED <<typed, position, breaker, call, worker, missed, crossed, faults>>

----------------------------------------------------------------------------
Init ==
  /\ typed \in BOOLEAN
  /\ position = [s \in Slots |-> Flat]
  /\ row = [s \in Slots |-> NoRow]
  /\ log = [s \in Slots |-> <<>>]
  /\ breaker = Succeeded
  /\ call = [c \in Callers |-> Idle]
  /\ worker = [w \in Permits |-> Unused]
  /\ missed = {} /\ crossed = {}
  /\ calls = 0 /\ faults = 0

Envelope(c) == Skip(c) \/ Submit(c) \/ Saturated(c) \/ Abandon(c) \/ Record(c)

Next ==
  \/ \E c \in Routing : \/ Decide(c) \/ GiveUp(c) \/ Enter(c) \/ PartialExit(c) \/ Close(c)
                        \/ MarkReversal(c) \/ ExitPending(c) \/ Reconcile(c)
  \/ \E s \in Slots : FillSynced(s) \/ Import(s)
  \/ \E c \in Callers : Envelope(c)
  \/ \E w \in Permits : Run(w) \/ Break(w)
  \/ Restart

Spec == Init /\ [][Next]_vars

----------------------------------------------------------------------------
\* How the events of a log identify their operations.
Keys == (Kinds \X (1..Calls)) \cup ({"import"} \X Position)
          \cup ({"mirror"} \X States \X States \X Position)
Events == [row: 1..Calls, key: Keys, from: States, to: States]

(* Every variable has its type; a permit whose caller still waits carries that
   caller's own operation on its own slot, and no two permits have one caller. *)
TypeOK ==
  /\ typed \in BOOLEAN
  /\ position \in [Slots -> Position]
  /\ row \in [Slots -> Row]
  /\ log \in [Slots -> Seq(Events)]
  /\ breaker \in [state: {"CLOSED", "OPEN", "HALF_OPEN"}, failures: 0..Threshold, probe: BOOLEAN]
  /\ call \in [Callers -> Call]
  /\ worker \in [Permits -> Worker]
  /\ \A w \in Permits : LET c == worker[w].owner IN
       c # NoCaller => /\ call[c].pc = "waiting"
                       /\ worker[w].slot = c[1] /\ worker[w].op = call[c].op
                       /\ \A v \in Permits \ {w} : worker[v].owner # c
  /\ missed \subseteq Slots /\ crossed \subseteq Slots /\ calls \in 0..Calls /\ faults \in 0..Faults

\* A change of a row whose event was taken for a repetition: the second mark of
\* a row for one reason, a close keyed by a snapshot that an earlier row held.
Skipped(es, i, from, to) ==
  \E k \in 1..i : /\ es[k].from = from /\ es[k].to = to
                  /\ \/ es[k].key[1] = "unverified" /\ es[k].row = es[i].row
                     \/ es[k].key[1] = "mirror" /\ to = "closed" /\ es[k].row # es[i].row

\* The state event i left its row in, or one the row reached by skipped events.
Reaches(es, i, state) ==
  \/ es[i].to = state
  \/ Skipped(es, i, es[i].to, state)
  \/ Skipped(es, i, es[i].to, "error") /\ Skipped(es, i, "error", state)

(* The event log tells the history of the rows: the events of one row follow
   each other and end in the row's state, and a row starts when the one before
   it is closed, whatever was repeated, refused, abandoned or committed late
   (what the parity report calls typed_event_state_lag).  The only gaps are
   those of Skipped. *)
EventsFollowRows ==
  \A s \in Slots :
    LET es == log[s] IN
    /\ row[s] # NoRow =>
         /\ es # <<>> /\ Last(es).row = row[s].born
         /\ Reaches(es, Len(es), row[s].state)
    /\ \A i \in 1..(Len(es) - 1) :
         IF es[i + 1].row = es[i].row THEN Reaches(es, i, es[i + 1].from)
         ELSE es[i + 1].from = "none" /\ Reaches(es, i, "closed")

(* No silent divergence: when nothing is under way for a slot, no write of it was
   reported as skipped or failed and no router's write overtook another's, the
   row is the JSON position's own lifetime, or both are closed: whatever the
   routers read before they wrote, and in whatever order the monitor got its
   transactions through. *)
RowOfPosition ==
  \A s \in Slots : Quiet(s) /\ s \notin missed \cup crossed =>
    IF Open(s) THEN Active(row[s]) /\ row[s].snap.order = position[s].order
    ELSE ~Active(row[s])

(* While the breaker is half open the database is tried by one call only. *)
ProbeAlone ==
  breaker.state = "HALF_OPEN" =>
    \A c, d \in Callers : {call[c].pc, call[d].pc} \subseteq {"waiting", "answered"} => c = d
=============================================================================
