---------------------------- MODULE PaperPosition ----------------------------
(***************************************************************************)
(* One account in paper mode.  Two files describe what it holds: the       *)
(* tracked position (paper_position.json) and the paper ledger             *)
(* (paper_portfolio.json).  Threads of the engine process change both:     *)
(*                                                                         *)
(*   entries   execution_router.route_entry_signal / route_reversal_signal *)
(*   exits     execution_router.route_exit_signal, reached by a signal, the*)
(*             manual panel, the square-offs or the option monitor         *)
(*   adjusts   routers/orders.py: add lots, partial exit, edit SL/TP       *)
(*   suggests  api/ws.py: arm the suggested S/R levels                     *)
(*                                                                         *)
(* Each read or compare-and-set of a file under state_store._LOCK is one   *)
(* step; nothing is locked from one step to the next.  A quantity is in    *)
(* lots, and prices, quotes and live P&L are left out.                     *)
(***************************************************************************)
EXTENDS Integers

CONSTANTS
    Entries,        \* BUY signals, each routed by a thread of its own
    Side,           \* the option side of an entry: "CE" or "PE"
    Lots,           \* the lots an entry buys
    Exits,          \* EXIT signals
    Monitored,      \* the exits the option monitor triggers
    Adjusts,        \* requests of the manual panel on the open position
    Change,         \* the lots a request adds; 0 edits the SL/TP levels
    Suggests,       \* requests to arm the suggested levels
    Locks,          \* per-user locks of the worker, per-strategy locks of the webhook
    LockOf,         \* the lock held while a signal is routed, if any
    MaxLots,        \* a request may not take a position beyond 20 lots
    MaxFaults,      \* bound: threads that die between two steps
    None

Signals == Entries \cup Exits
Threads == Signals \cup Adjusts \cup Suggests

Positions == [id : Entries, side : {"CE", "PE"}, version : Nat, lots : Nat \ {0},
              claim : Exits \cup {None}]
Trades == [entry : Entries, lots : Nat \ {0}]

Places == {"idle", "route", "evaluate", "reverse", "decide", "sell first", "clear", "buy",
           "open", "mark", "check", "identify", "claim", "sell", "release", "complete",
           "ledger", "patch", "book", "arm", "done", "lost"}

ASSUME PaperAssumption ==
    /\ Side \in [Entries -> {"CE", "PE"}]
    /\ Lots \in [Entries -> Nat \ {0}]
    /\ Monitored \subseteq Exits
    /\ Change \in [Adjusts -> Int]
    /\ LockOf \in [Signals -> Locks \cup {None}]
    /\ MaxLots \in Nat /\ MaxFaults \in Nat
    /\ None \notin Threads \cup Locks
    /\ None \notin Positions /\ None \notin Trades
    /\ Entries \cap Exits = {} /\ Signals \cap (Adjusts \cup Suggests) = {}
    /\ Adjusts \cap Suggests = {}

VARIABLES
    position,   \* paper_position.json: None when flat
    trade,      \* paper_portfolio.json open_trade: None when there is none
    bought,     \* lots bought by an entry, as booked in the ledger
    sold,       \* lots of it sold, as booked in closed_trades
    at,         \* where each thread is
    seen,       \* the position a thread has read
    lots,       \* the quantity a thread has decided to sell
    holder,     \* who holds each lock
    faults

files == <<position, trade, bought, sold>>
locals == <<at, seen, lots, holder>>
vars == <<files, locals, faults>>

Init ==
    /\ position = None
    /\ trade = None
    /\ bought = [e \in Entries |-> 0]
    /\ sold = [e \in Entries |-> 0]
    /\ at = [t \in Threads |-> "idle"]
    /\ seen = [t \in Threads |-> None]
    /\ lots = [t \in Threads |-> 0]
    /\ holder = [k \in Locks |-> None]
    /\ faults = 0

Goto(t, place) == at' = [at EXCEPT ![t] = place] /\ UNCHANGED holder

\* A thread that returns leaves its "with lock" block.
Leave(t, place) ==
    /\ at' = [at EXCEPT ![t] = place]
    /\ holder' = [k \in Locks |-> IF holder[k] = t THEN None ELSE holder[k]]

Return(t) == Leave(t, "done")

\* A signal is routed under its lock.
Acquire(t, place) ==
    /\ at' = [at EXCEPT ![t] = place]
    /\ \/ LockOf[t] = None /\ UNCHANGED holder
       \/ /\ LockOf[t] # None
          /\ holder[LockOf[t]] = None
          /\ holder' = [holder EXCEPT ![LockOf[t]] = t]

-----------------------------------------------------------------------------
(* The ledger: paper_portfolio, each operation under the runtime lock.     *)

\* Mutant: the exit does not look at the quantity.
AnyTrade(n) == trade # None
MatchingTrade(n) == trade # None /\ trade.lots = n

\* Mutant: the exit reduces the open trade and leaves it open.
BookExitAsReduction(n) ==
    /\ MatchingTrade(n)
    /\ sold' = [sold EXCEPT ![trade.entry] = @ + n]
    /\ trade' = [trade EXCEPT !.lots = @ - n]
    /\ UNCHANGED bought

\* apply_paper_exit: the whole trade, and only in its exact quantity.
BookExit(n) ==
    /\ MatchingTrade(n)
    /\ sold' = [sold EXCEPT ![trade.entry] = @ + n]
    /\ trade' = None
    /\ UNCHANGED bought

\* apply_paper_entry overwrites open_trade whatever it holds.
BookEntry(e) ==
    /\ trade' = [entry |-> e, lots |-> Lots[e]]
    /\ bought' = [bought EXCEPT ![e] = @ + Lots[e]]
    /\ UNCHANGED sold

\* apply_paper_add_fill and apply_paper_partial_exit change the trade that is
\* open now; without one, or if nothing would remain, they raise.
BookChange(n) ==
    IF trade # None /\ trade.lots + n > 0
    THEN /\ trade' = [trade EXCEPT !.lots = @ + n]
         /\ IF n > 0
            THEN bought' = [bought EXCEPT ![trade.entry] = @ + n] /\ UNCHANGED sold
            ELSE sold' = [sold EXCEPT ![trade.entry] = @ - n] /\ UNCHANGED bought
    ELSE UNCHANGED <<trade, bought, sold>>

-----------------------------------------------------------------------------
(* Compare-and-set primitives of state_store.                              *)

Matches(p) == position # None /\ position.id = p.id /\ position.version = p.version

\* patch_open_position_cas with reject_when_exit_pending.
MayPatch(p) == Matches(p) /\ position.claim = None

Bumped(p) == [p EXCEPT !.version = @ + 1]
Patched(n) == Bumped([position EXCEPT !.lots = @ + n])

\* claim_exit_operation refuses a position another exit owns.
MayClaimAnyway(p) == Matches(p)                         \* mutant
MayClaim(p) == Matches(p) /\ position.claim = None

Claimed(x) == Bumped([position EXCEPT !.claim = x])
Released == Bumped([position EXCEPT !.claim = None])

\* release_exit_operation and complete_exit_operation act for the owner only.
OwnsAsRead(x) == Matches(seen[x]) /\ position.claim = x  \* mutant: the claim has
                                                        \* changed the version
Owns(x) == position # None /\ position.id = seen[x].id /\ position.claim = x

-----------------------------------------------------------------------------
(* Entries.                                                                *)

StartEntry(e) ==
    /\ at[e] = "idle"
    /\ Acquire(e, "route")
    /\ UNCHANGED <<files, seen, lots, faults>>

Opposite(e) == position # None /\ position.side # Side[e]

\* _is_opposite_option_entry chooses the path.
RouteEntry(e) ==
    /\ at[e] = "route"
    /\ Goto(e, IF Opposite(e) THEN "reverse" ELSE "evaluate")
    /\ UNCHANGED <<files, seen, lots, faults>>

\* evaluate_entry: blocked while a position is open.
EvaluateEntry(e) ==
    /\ at[e] = "evaluate"
    /\ IF position = None THEN Goto(e, "buy") ELSE Return(e)
    /\ UNCHANGED <<files, seen, lots, faults>>

\* evaluate_reversal_entry, then evaluate_exit.
EvaluateReversal(e) ==
    /\ at[e] = "reverse"
    /\ IF Opposite(e) THEN Goto(e, "decide") ELSE Return(e)
    /\ UNCHANGED <<files, seen, lots, faults>>

DecideReversal(e) ==
    /\ at[e] = "decide"
    /\ IF position # None
       THEN Goto(e, "sell first") /\ lots' = [lots EXCEPT ![e] = position.lots]
       ELSE Return(e) /\ UNCHANGED lots
    /\ UNCHANGED <<files, seen, faults>>

\* The reversal sells without claiming the exit ...
ReversalSell(e) ==
    /\ at[e] = "sell first"
    /\ BookExit(lots[e])
    /\ Goto(e, "clear")
    /\ UNCHANGED <<position, seen, lots, faults>>

\* ... and clear_open_position writes a flat position over whatever is there.
ReversalClear(e) ==
    /\ at[e] = "clear"
    /\ position' = None
    /\ Goto(e, "buy")
    /\ UNCHANGED <<trade, bought, sold, seen, lots, faults>>

Buy(e) ==
    /\ at[e] = "buy"
    /\ BookEntry(e)
    /\ Goto(e, "open")
    /\ UNCHANGED <<position, seen, lots, faults>>

\* No quote, a closed market, a risk block or too little balance.
EntryRefused(e) ==
    /\ at[e] \in {"buy", "sell first"}
    /\ Return(e)
    /\ UNCHANGED <<files, seen, lots, faults>>

\* set_open_position(stamp_new_open_position(...)).
OpenPosition(e) ==
    /\ at[e] = "open"
    /\ position' = [id |-> e, side |-> Side[e], version |-> 1, lots |-> Lots[e],
                    claim |-> None]
    /\ Return(e)
    /\ UNCHANGED <<trade, bought, sold, seen, lots, faults>>

-----------------------------------------------------------------------------
(* Exits.                                                                  *)

\* The monitor only triggers on a position it has read; it resolves a quote
\* before it goes on.
StartExit(x) ==
    /\ at[x] = "idle"
    /\ IF x \in Monitored
       THEN position # None /\ Acquire(x, "mark") /\ seen' = [seen EXCEPT ![x] = position]
       ELSE Acquire(x, "check") /\ UNCHANGED seen
    /\ UNCHANGED <<files, lots, faults>>

\* _mark_exit_attempt: a stale or already claimed position ends the attempt.
MarkAttempt(x) ==
    /\ at[x] = "mark"
    /\ IF MayPatch(seen[x]) THEN Goto(x, "check") ELSE Return(x)
    /\ UNCHANGED <<files, seen, lots, faults>>

\* evaluate_exit decides the quantity.
EvaluateExit(x) ==
    /\ at[x] = "check"
    /\ IF position # None
       THEN Goto(x, "identify") /\ lots' = [lots EXCEPT ![x] = position.lots]
       ELSE Return(x) /\ UNCHANGED lots
    /\ UNCHANGED <<files, seen, faults>>

\* ensure_open_position_identity, read again; a flat position has no identity
\* to claim.
Identify(x) ==
    /\ at[x] = "identify"
    /\ IF position # None
       THEN Goto(x, "claim") /\ seen' = [seen EXCEPT ![x] = position]
       ELSE Return(x) /\ UNCHANGED seen
    /\ UNCHANGED <<files, lots, faults>>

Claim(x) ==
    /\ at[x] = "claim"
    /\ IF MayClaim(seen[x])
       THEN /\ position' = Claimed(x)
            /\ Goto(x, "sell")
       ELSE UNCHANGED position /\ Return(x)
    /\ UNCHANGED <<trade, bought, sold, seen, lots, faults>>

Sell(x) ==
    /\ at[x] = "sell"
    /\ BookExit(lots[x])
    /\ Goto(x, "complete")
    /\ UNCHANGED <<position, seen, lots, faults>>

\* The order is blocked or the ledger rejects it.
SellRefused(x) ==
    /\ at[x] = "sell"
    /\ Goto(x, "release")
    /\ UNCHANGED <<files, seen, lots, faults>>

Release(x) ==
    /\ at[x] = "release"
    /\ position' = IF Owns(x) THEN Released ELSE position
    /\ Return(x)
    /\ UNCHANGED <<trade, bought, sold, seen, lots, faults>>

\* Without the claim the outcome is RECONCILIATION_REQUIRED.
Complete(x) ==
    /\ at[x] = "complete"
    /\ position' = IF Owns(x) THEN None ELSE position
    /\ Return(x)
    /\ UNCHANGED <<trade, bought, sold, seen, lots, faults>>

-----------------------------------------------------------------------------
(* Requests on the open position.                                          *)

\* The limits of an addition and of a partial exit.
WithinLimits(n) == position.lots + n > 0 /\ (n > 0 => position.lots + n <= MaxLots)

\* A request that fails validation changes nothing and is left out.
StartAdjust(a) ==
    /\ at[a] = "idle"
    /\ position # None
    /\ Change[a] # 0 => position.claim = None /\ WithinLimits(Change[a])
    /\ seen' = [seen EXCEPT ![a] = position]
    /\ Goto(a, IF Change[a] = 0 THEN "patch" ELSE "ledger")
    /\ UNCHANGED <<files, lots, faults>>

\* The ledger must hold the tracked contract in the tracked quantity.
CheckLedger(a) ==
    /\ at[a] = "ledger"
    /\ IF trade # None /\ trade.lots = seen[a].lots /\ Side[trade.entry] = seen[a].side
       THEN Goto(a, "patch")
       ELSE Return(a)
    /\ UNCHANGED <<files, seen, lots, faults>>

\* Mutant: a full write of what was read in place of the compare-and-set.
PatchWithoutComparing(a) ==
    /\ at[a] = "patch"
    /\ position' = Bumped([seen[a] EXCEPT !.lots = @ + Change[a]])
    /\ Goto(a, IF Change[a] = 0 THEN "done" ELSE "book")
    /\ UNCHANGED <<trade, bought, sold, seen, lots, faults>>

\* After the fill is confirmed the position is patched first.
PatchPosition(a) ==
    /\ at[a] = "patch"
    /\ IF MayPatch(seen[a])
       THEN /\ position' = Patched(Change[a])
            /\ Goto(a, IF Change[a] = 0 THEN "done" ELSE "book")
       ELSE UNCHANGED position /\ Return(a)
    /\ UNCHANGED <<trade, bought, sold, seen, lots, faults>>

\* The ledger second; if it raises the request ends in RECONCILIATION_REQUIRED.
BookAdjust(a) ==
    /\ at[a] = "book"
    /\ BookChange(Change[a])
    /\ Return(a)
    /\ UNCHANGED <<position, seen, lots, faults>>

\* _apply_sr_suggestion reads the position ...
ReadSuggestion(s) ==
    /\ at[s] = "idle"
    /\ position # None
    /\ seen' = [seen EXCEPT ![s] = position]
    /\ Goto(s, "arm")
    /\ UNCHANGED <<files, lots, faults>>

\* ... and writes what it has read, with the levels, without comparing.
ArmSuggestion(s) ==
    /\ at[s] = "arm"
    /\ position' = seen[s]
    /\ Return(s)
    /\ UNCHANGED <<trade, bought, sold, seen, lots, faults>>

\* A thread dies between two steps: an exception, or the process is killed.
Interrupt(t) ==
    /\ faults < MaxFaults
    /\ at[t] \notin {"idle", "done", "lost"}
    /\ Leave(t, "lost")
    /\ faults' = faults + 1
    /\ UNCHANGED <<files, seen, lots>>

-----------------------------------------------------------------------------
Entry(e) ==
    \/ RouteEntry(e) \/ EvaluateEntry(e)
    \/ EvaluateReversal(e) \/ DecideReversal(e) \/ ReversalSell(e) \/ ReversalClear(e)
    \/ Buy(e) \/ EntryRefused(e) \/ OpenPosition(e)

Exit(x) ==
    \/ MarkAttempt(x) \/ EvaluateExit(x) \/ Identify(x) \/ Claim(x)
    \/ Sell(x) \/ SellRefused(x) \/ Release(x) \/ Complete(x)

Adjust(a) == CheckLedger(a) \/ PatchPosition(a) \/ BookAdjust(a)

Next ==
    \/ \E e \in Entries : StartEntry(e) \/ Entry(e)
    \/ \E x \in Exits : StartExit(x) \/ Exit(x)
    \/ \E a \in Adjusts : StartAdjust(a) \/ Adjust(a)
    \/ \E s \in Suggests : ReadSuggestion(s) \/ ArmSuggestion(s)
    \/ \E t \in Threads : Interrupt(t)

Spec == Init /\ [][Next]_vars

\* A thread that has been started keeps running.
FairSpec ==
    /\ Spec
    /\ \A e \in Entries : WF_vars(Entry(e))
    /\ \A x \in Exits : WF_vars(Exit(x))
    /\ \A a \in Adjusts : WF_vars(Adjust(a))
    /\ \A s \in Suggests : WF_vars(ArmSuggestion(s))

-----------------------------------------------------------------------------
(* Properties.                                                             *)

\* Every variable holds a value of its kind.
TypeOK ==
    /\ position \in Positions \cup {None}
    /\ trade \in Trades \cup {None}
    /\ bought \in [Entries -> Nat]
    /\ sold \in [Entries -> Nat]
    /\ at \in [Threads -> Places]
    /\ seen \in [Threads -> Positions \cup {None}]
    /\ lots \in [Threads -> Nat]
    /\ holder \in [Locks -> Signals \cup {None}]
    /\ faults \in Nat

\* The ledger neither loses nor doubles a lot: what an entry bought has been
\* sold once or is still held (the guards of paper_portfolio).
LotsConserved ==
    \A e \in Entries :
        bought[e] = sold[e] + (IF trade # None /\ trade.entry = e THEN trade.lots ELSE 0)

Quiescent == \A t \in Threads : at[t] \in {"idle", "done"}

\* When every request has returned, the tracked position and the ledger tell
\* the same story and no exit is left pending.
LedgerAgrees ==
    Quiescent =>
        IF position = None THEN trade = None
        ELSE /\ trade = [entry |-> position.id, lots |-> position.lots]
             /\ position.claim = None

\* A SELL is booked only while its thread owns the exit, and on the trade of
\* the position it owns ("exclusive ownership of an exit before any Paper SELL").
SellsWhatItClaimed ==
    [][\A x \in Exits : at[x] = "sell" /\ at'[x] = "complete" =>
          position # None /\ position.claim = x /\ position.id = trade.entry]_vars

\* A pending exit stays with the position until its own thread moves ("only
\* the matching operation may complete the position to confirmed-flat").
ClaimHeld ==
    [][position # None /\ position.claim # None /\ at'[position.claim] = at[position.claim]
          => position' = position]_vars

\* A position appears when its own entry opens it and never again: no late
\* write recreates one that was closed.
NeverRecreated ==
    [][position' # None /\ (position = None \/ position.id # position'.id)
          => at[position'.id] = "open"]_vars

\* Two additions at once do not take the position beyond the limit each of
\* them has checked ("a position cannot exceed 20 lots").
AddsWithinLimit ==
    [][\A a \in Adjusts : at[a] = "patch" /\ at'[a] = "book" /\ Change[a] > 0 =>
          position'.lots <= MaxLots]_vars

\* An exit that its thread has claimed is finally completed or released.
ClaimsResolved ==
    \A x \in Exits :
        position # None /\ position.claim = x /\ at[x] # "done"
            ~> position = None \/ position.claim # x

=============================================================================
