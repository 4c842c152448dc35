------------------------ MODULE PaperPositionProofs -------------------------
(* Proofs about PaperPosition for every set of threads and every bound.    *)
EXTENDS PaperPosition, TLAPS

\* Nobody writes a position back without comparing versions.
Compared == Suggests = {}

\* The limits an adjustment has checked hold for the position it has read.
Fitting(a) ==
    /\ seen[a] # None
    /\ seen[a].lots + Change[a] > 0
    /\ Change[a] > 0 => seen[a].lots + Change[a] <= MaxLots

\* Whoever is tracked or was read has been opened by an entry that returned.
SeenOpened ==
    /\ position # None => at[position.id] = "done"
    /\ \A t \in Threads : seen[t] # None => at[seen[t].id] = "done"

\* A version names one state of a position: whoever has read the current
\* version knows the current quantity.
VersionsName ==
    \A t \in Threads : seen[t] # None /\ position # None /\ seen[t].id = position.id =>
        /\ seen[t].version <= position.version
        /\ seen[t].version = position.version => seen[t].lots = position.lots

AdjustsFit == \A a \in Adjusts : at[a] \in {"ledger", "patch"} => Fitting(a)

VersionInv == SeenOpened /\ VersionsName /\ AdjustsFit

-----------------------------------------------------------------------------
LEMMA ThreadFacts ==
    /\ Entries \subseteq Signals /\ Exits \subseteq Signals
    /\ Signals \subseteq Threads /\ Adjusts \subseteq Threads /\ Suggests \subseteq Threads
    /\ \A t \in Threads : t # None
    /\ \A e \in Entries : e \notin Exits /\ e \notin Adjusts /\ e \notin Suggests
    /\ \A x \in Exits : x \notin Adjusts /\ x \notin Suggests
    /\ \A a \in Adjusts : a \notin Suggests
    /\ None \notin Positions /\ None \notin Trades
BY PaperAssumption DEF Signals, Threads

(* A step of a thread moves that thread only. *)
LEMMA Moving ==
    ASSUME TypeOK, NEW t \in Threads, NEW place \in Places,
           Goto(t, place) \/ Leave(t, place) \/ (t \in Signals /\ Acquire(t, place))
    PROVE  /\ at' \in [Threads -> Places]
           /\ holder' \in [Locks -> Signals \cup {None}]
           /\ at'[t] = place
           /\ \A u \in Threads : u # t => at'[u] = at[u]
<1> USE PaperAssumption DEF TypeOK
<1>1. CASE Goto(t, place)
    BY <1>1 DEF Goto
<1>2. CASE Leave(t, place)
    BY <1>2 DEF Leave
<1>3. CASE t \in Signals /\ Acquire(t, place)
    BY <1>3 DEF Acquire
<1> QED
    BY <1>1, <1>2, <1>3

(* The next version of a position differs in its version only. *)
LEMMA Bump ==
    ASSUME NEW p \in Positions
    PROVE  /\ Bumped(p) \in Positions
           /\ Bumped(p).id = p.id /\ Bumped(p).side = p.side
           /\ Bumped(p).lots = p.lots /\ Bumped(p).claim = p.claim
           /\ Bumped(p).version = p.version + 1
BY DEF Bumped, Positions

LEMMA ClaimedFacts ==
    ASSUME position \in Positions, NEW x \in Exits
    PROVE  /\ Claimed(x) \in Positions
           /\ Claimed(x).id = position.id /\ Claimed(x).side = position.side
           /\ Claimed(x).lots = position.lots /\ Claimed(x).claim = x
           /\ Claimed(x).version = position.version + 1
<1> DEFINE p == [position EXCEPT !.claim = x]
<1>1. /\ p \in Positions
      /\ p.id = position.id /\ p.side = position.side /\ p.lots = position.lots
      /\ p.version = position.version /\ p.claim = x
    BY DEF Positions
<1> HIDE DEF p
<1>2. Claimed(x) = Bumped(p)
    BY DEF Claimed, p
<1> QED
    BY <1>1, <1>2, Bump

LEMMA ReleasedFacts ==
    ASSUME position \in Positions
    PROVE  /\ Released \in Positions
           /\ Released.id = position.id /\ Released.side = position.side
           /\ Released.lots = position.lots /\ Released.claim = None
           /\ Released.version = position.version + 1
<1> DEFINE p == [position EXCEPT !.claim = None]
<1>1. /\ p \in Positions
      /\ p.id = position.id /\ p.side = position.side /\ p.lots = position.lots
      /\ p.version = position.version /\ p.claim = None
    BY DEF Positions
<1> HIDE DEF p
<1>2. Released = Bumped(p)
    BY DEF Released, p
<1> QED
    BY <1>1, <1>2, Bump

LEMMA PatchedFacts ==
    ASSUME position \in Positions, NEW n \in Int, position.lots + n > 0
    PROVE  /\ Patched(n) \in Positions
           /\ Patched(n).id = position.id /\ Patched(n).side = position.side
           /\ Patched(n).lots = position.lots + n /\ Patched(n).claim = position.claim
           /\ Patched(n).version = position.version + 1
<1> DEFINE p == [position EXCEPT !.lots = @ + n]
<1>1. /\ p \in Positions
      /\ p.id = position.id /\ p.side = position.side /\ p.lots = position.lots + n
      /\ p.version = position.version /\ p.claim = position.claim
    BY DEF Positions
<1> HIDE DEF p
<1>2. Patched(n) = Bumped(p)
    BY DEF Patched, p
<1> QED
    BY <1>1, <1>2, Bump


LEMMA TypeInit == Init => TypeOK /\ VersionInv
BY PaperAssumption DEF Init, TypeOK, Places, VersionInv, SeenOpened, VersionsName, AdjustsFit,
                       Signals, Threads

ControlOK ==
    /\ at \in [Threads -> Places]
    /\ holder \in [Locks -> Signals \cup {None}]

LEMMA ControlInductive == TypeOK /\ [Next]_vars => ControlOK'
<1> SUFFICES ASSUME TypeOK, [Next]_vars PROVE ControlOK'
    OBVIOUS
<1>0. /\ \A place \in {"route", "evaluate", "reverse", "decide", "sell first", "clear", "buy",
             "open", "mark", "check", "identify", "claim", "sell", "release", "complete",
             "ledger", "patch", "book", "arm", "done", "lost"} : place \in Places
      /\ ControlOK
    BY DEF Places, TypeOK, ControlOK
<1> USE <1>0, ThreadFacts, Moving DEF ControlOK, Return
<1>1. ASSUME NEW e \in Entries, StartEntry(e)
      PROVE  ControlOK'
    BY <1>1 DEF StartEntry
<1>2. ASSUME NEW e \in Entries, RouteEntry(e)
      PROVE  ControlOK'
    BY <1>2 DEF RouteEntry
<1>3. ASSUME NEW e \in Entries, EvaluateEntry(e)
      PROVE  ControlOK'
    BY <1>3 DEF EvaluateEntry
<1>4. ASSUME NEW e \in Entries, EvaluateReversal(e)
      PROVE  ControlOK'
    BY <1>4 DEF EvaluateReversal
<1>5. ASSUME NEW e \in Entries, DecideReversal(e)
      PROVE  ControlOK'
    BY <1>5 DEF DecideReversal
<1>6. ASSUME NEW e \in Entries, ReversalSell(e)
      PROVE  ControlOK'
    BY <1>6 DEF ReversalSell
<1>7. ASSUME NEW e \in Entries, ReversalClear(e)
      PROVE  ControlOK'
    BY <1>7 DEF ReversalClear
<1>8. ASSUME NEW e \in Entries, Buy(e)
      PROVE  ControlOK'
    BY <1>8 DEF Buy
<1>9. ASSUME NEW e \in Entries, EntryRefused(e)
      PROVE  ControlOK'
    BY <1>9 DEF EntryRefused
<1>10. ASSUME NEW e \in Entries, OpenPosition(e)
      PROVE  ControlOK'
    BY <1>10 DEF OpenPosition
<1>11. ASSUME NEW x \in Exits, StartExit(x)
      PROVE  ControlOK'
    BY <1>11 DEF StartExit
<1>12. ASSUME NEW x \in Exits, MarkAttempt(x)
      PROVE  ControlOK'
    BY <1>12 DEF MarkAttempt
<1>13. ASSUME NEW x \in Exits, EvaluateExit(x)
      PROVE  ControlOK'
    BY <1>13 DEF EvaluateExit
<1>14. ASSUME NEW x \in Exits, Identify(x)
      PROVE  ControlOK'
    BY <1>14 DEF Identify
<1>15. ASSUME NEW x \in Exits, Claim(x)
      PROVE  ControlOK'
    BY <1>15 DEF Claim
<1>16. ASSUME NEW x \in Exits, Sell(x)
      PROVE  ControlOK'
    BY <1>16 DEF Sell
<1>17. ASSUME NEW x \in Exits, SellRefused(x)
      PROVE  ControlOK'
    BY <1>17 DEF SellRefused
<1>18. ASSUME NEW x \in Exits, Release(x)
      PROVE  ControlOK'
    BY <1>18 DEF Release
<1>19. ASSUME NEW x \in Exits, Complete(x)
      PROVE  ControlOK'
    BY <1>19 DEF Complete
<1>20. ASSUME NEW a \in Adjusts, StartAdjust(a)
      PROVE  ControlOK'
    BY <1>20 DEF StartAdjust
<1>21. ASSUME NEW a \in Adjusts, CheckLedger(a)
      PROVE  ControlOK'
    BY <1>21 DEF CheckLedger
<1>22. ASSUME NEW a \in Adjusts, PatchPosition(a)
      PROVE  ControlOK'
    BY <1>22 DEF PatchPosition
<1>23. ASSUME NEW a \in Adjusts, BookAdjust(a)
      PROVE  ControlOK'
    BY <1>23 DEF BookAdjust
<1>24. ASSUME NEW s \in Suggests, ReadSuggestion(s)
      PROVE  ControlOK'
    BY <1>24 DEF ReadSuggestion
<1>25. ASSUME NEW s \in Suggests, ArmSuggestion(s)
      PROVE  ControlOK'
    BY <1>25 DEF ArmSuggestion
<1>26. ASSUME NEW t \in Threads, Interrupt(t)
      PROVE  ControlOK'
    BY <1>26 DEF Interrupt
<1>27. CASE UNCHANGED vars
    BY <1>27 DEF vars, files, locals
<1> QED
    BY <1>1, <1>2, <1>3, <1>4, <1>5, <1>6, <1>7, <1>8, <1>9, <1>10, <1>11, <1>12, <1>13, <1>14,
       <1>15, <1>16, <1>17, <1>18, <1>19, <1>20, <1>21, <1>22, <1>23, <1>24, <1>25, <1>26,
       <1>27
    DEF Next, Entry, Exit, Adjust

DataOK ==
    /\ position \in Positions \cup {None}
    /\ trade \in Trades \cup {None}
    /\ bought \in [Entries -> Nat]
    /\ sold \in [Entries -> Nat]
    /\ seen \in [Threads -> Positions \cup {None}]
    /\ lots \in [Threads -> Nat]
    /\ faults \in Nat

(* A patch that finds the version it has read adds to the quantity it has
   read. *)
LEMMA PatchNow ==
    ASSUME TypeOK, VersionInv, NEW a \in Adjusts, PatchPosition(a), MayPatch(seen[a])
    PROVE  /\ position \in Positions /\ seen[a].lots = position.lots
           /\ position' = Patched(Change[a])
           /\ position' \in Positions /\ position'.id = position.id
           /\ position'.side = position.side /\ position'.claim = position.claim
           /\ position'.lots = seen[a].lots + Change[a]
           /\ position'.version = position.version + 1
<1> USE PaperAssumption, ThreadFacts
<1>1. position \in Positions /\ Change[a] \in Int /\ a \in Threads
    BY DEF MayPatch, Matches, TypeOK
<1>2. seen[a].lots = position.lots /\ position.lots + Change[a] > 0
    BY <1>1 DEF PatchPosition, MayPatch, Matches, VersionInv, VersionsName, AdjustsFit, Fitting
<1>3. position' = Patched(Change[a])
    BY DEF PatchPosition
<1> QED
    BY <1>1, <1>2, <1>3, PatchedFacts

LEMMA PatchStep ==
    ASSUME TypeOK, VersionInv, NEW a \in Adjusts, PatchPosition(a)
    PROVE  \/ position' = position
           \/ /\ MayPatch(seen[a]) /\ position \in Positions /\ seen[a].lots = position.lots
              /\ position' \in Positions /\ position'.id = position.id
              /\ position'.side = position.side /\ position'.claim = position.claim
              /\ position'.lots = seen[a].lots + Change[a]
              /\ position'.version = position.version + 1
<1>1. CASE ~MayPatch(seen[a])
    BY <1>1 DEF PatchPosition
<1>2. CASE MayPatch(seen[a])
    BY <1>2, PatchNow
<1> QED
    BY <1>1, <1>2

LEMMA DataInductive ==
    Compared /\ TypeOK /\ VersionInv /\ [Next]_vars => DataOK'
<1> SUFFICES ASSUME Compared, TypeOK, DataOK, VersionInv, [Next]_vars PROVE DataOK'
    BY DEF TypeOK, DataOK
<1> USE PaperAssumption, ThreadFacts DEF DataOK, files
<1>1. ASSUME NEW e \in Entries, StartEntry(e)
      PROVE  DataOK'
    BY <1>1 DEF StartEntry
<1>2. ASSUME NEW e \in Entries, RouteEntry(e)
      PROVE  DataOK'
    BY <1>2 DEF RouteEntry
<1>3. ASSUME NEW e \in Entries, EvaluateEntry(e)
      PROVE  DataOK'
    BY <1>3 DEF EvaluateEntry
<1>4. ASSUME NEW e \in Entries, EvaluateReversal(e)
      PROVE  DataOK'
    BY <1>4 DEF EvaluateReversal
<1>5. ASSUME NEW e \in Entries, DecideReversal(e)
      PROVE  DataOK'
    <2>1. position # None => position.lots \in Nat
        BY DEF Positions
    <2>2. lots' \in [Threads -> Nat]
        BY <1>5, <2>1 DEF DecideReversal
    <2> QED
        BY <1>5, <2>2 DEF DecideReversal
<1>6. ASSUME NEW e \in Entries, ReversalSell(e)
      PROVE  DataOK'
    <2>1. trade \in Trades /\ trade.entry \in Entries
        BY <1>6 DEF ReversalSell, BookExit, MatchingTrade, Trades
    <2>2. lots[e] \in Nat
        OBVIOUS
    <2>3. sold' = [sold EXCEPT ![trade.entry] = sold[trade.entry] + lots[e]]
        BY <1>6 DEF ReversalSell, BookExit
    <2>4. sold' \in [Entries -> Nat]
        BY <2>1, <2>2, <2>3
    <2> QED
        BY <1>6, <2>4 DEF ReversalSell, BookExit
<1>7. ASSUME NEW e \in Entries, ReversalClear(e)
      PROVE  DataOK'
    BY <1>7 DEF ReversalClear
<1>8. ASSUME NEW e \in Entries, Buy(e)
      PROVE  DataOK'
    BY <1>8 DEF Buy, BookEntry, Trades
<1>9. ASSUME NEW e \in Entries, EntryRefused(e)
      PROVE  DataOK'
    BY <1>9 DEF EntryRefused
<1>10. ASSUME NEW e \in Entries, OpenPosition(e)
      PROVE  DataOK'
    BY <1>10 DEF OpenPosition, Positions
<1>11. ASSUME NEW x \in Exits, StartExit(x)
      PROVE  DataOK'
    BY <1>11 DEF StartExit
<1>12. ASSUME NEW x \in Exits, MarkAttempt(x)
      PROVE  DataOK'
    BY <1>12 DEF MarkAttempt
<1>13. ASSUME NEW x \in Exits, EvaluateExit(x)
      PROVE  DataOK'
    BY <1>13 DEF EvaluateExit, Positions
<1>14. ASSUME NEW x \in Exits, Identify(x)
      PROVE  DataOK'
    BY <1>14 DEF Identify
<1>15. ASSUME NEW x \in Exits, Claim(x)
      PROVE  DataOK'
    BY <1>15, ClaimedFacts DEF Claim, MayClaim, Matches
<1>16. ASSUME NEW x \in Exits, Sell(x)
      PROVE  DataOK'
    BY <1>16 DEF Sell, BookExit, MatchingTrade, Trades
<1>17. ASSUME NEW x \in Exits, SellRefused(x)
      PROVE  DataOK'
    BY <1>17 DEF SellRefused
<1>18. ASSUME NEW x \in Exits, Release(x)
      PROVE  DataOK'
    BY <1>18, ReleasedFacts DEF Release, Owns
<1>19. ASSUME NEW x \in Exits, Complete(x)
      PROVE  DataOK'
    BY <1>19 DEF Complete, Owns
<1>20. ASSUME NEW a \in Adjusts, StartAdjust(a)
      PROVE  DataOK'
    BY <1>20 DEF StartAdjust
<1>21. ASSUME NEW a \in Adjusts, CheckLedger(a)
      PROVE  DataOK'
    BY <1>21 DEF CheckLedger
<1>22. ASSUME NEW a \in Adjusts, PatchPosition(a)
      PROVE  DataOK'
    <2>1. position' \in Positions \cup {None}
        BY <1>22, PatchStep
    <2> QED
        BY <1>22, <2>1 DEF PatchPosition
<1>23. ASSUME NEW a \in Adjusts, BookAdjust(a)
      PROVE  DataOK'
    BY <1>23 DEF BookAdjust, BookChange, Trades
<1>24. ASSUME NEW s \in Suggests, ReadSuggestion(s)
      PROVE  DataOK'
    BY <1>24 DEF ReadSuggestion
<1>25. ASSUME NEW s \in Suggests, ArmSuggestion(s)
      PROVE  DataOK'
    BY <1>25 DEF ArmSuggestion, Compared
<1>26. ASSUME NEW t \in Threads, Interrupt(t)
      PROVE  DataOK'
    BY <1>26 DEF Interrupt
<1>27. CASE UNCHANGED vars
    BY <1>27 DEF vars, files, locals
<1> QED
    BY <1>1, <1>2, <1>3, <1>4, <1>5, <1>6, <1>7, <1>8, <1>9, <1>10, <1>11, <1>12, <1>13, <1>14,
       <1>15, <1>16, <1>17, <1>18, <1>19, <1>20, <1>21, <1>22, <1>23, <1>24, <1>25, <1>26,
       <1>27
    DEF Next, Entry, Exit, Adjust

(* A thread that has returned stays there. *)
LEMMA DoneStays ==
    TypeOK /\ [Next]_vars => \A t \in Threads : at[t] = "done" => at'[t] = "done"
<1> SUFFICES ASSUME TypeOK, [Next]_vars, NEW u \in Threads, at[u] = "done" PROVE at'[u] = "done"
    OBVIOUS
<1>0. \A place \in {"route", "evaluate", "reverse", "decide", "sell first", "clear", "buy",
             "open", "mark", "check", "identify", "claim", "sell", "release", "complete",
             "ledger", "patch", "book", "arm", "done", "lost"} : place \in Places
    BY DEF Places
<1> USE <1>0, ThreadFacts, Moving DEF Return
<1>1. ASSUME NEW e \in Entries, StartEntry(e)
      PROVE  at'[u] = "done"
    BY <1>1 DEF StartEntry
<1>2. ASSUME NEW e \in Entries, RouteEntry(e)
      PROVE  at'[u] = "done"
    BY <1>2 DEF RouteEntry
<1>3. ASSUME NEW e \in Entries, EvaluateEntry(e)
      PROVE  at'[u] = "done"
    BY <1>3 DEF EvaluateEntry
<1>4. ASSUME NEW e \in Entries, EvaluateReversal(e)
      PROVE  at'[u] = "done"
    BY <1>4 DEF EvaluateReversal
<1>5. ASSUME NEW e \in Entries, DecideReversal(e)
      PROVE  at'[u] = "done"
    BY <1>5 DEF DecideReversal
<1>6. ASSUME NEW e \in Entries, ReversalSell(e)
      PROVE  at'[u] = "done"
    BY <1>6 DEF ReversalSell
<1>7. ASSUME NEW e \in Entries, ReversalClear(e)
      PROVE  at'[u] = "done"
    BY <1>7 DEF ReversalClear
<1>8. ASSUME NEW e \in Entries, Buy(e)
      PROVE  at'[u] = "done"
    BY <1>8 DEF Buy
<1>9. ASSUME NEW e \in Entries, EntryRefused(e)
      PROVE  at'[u] = "done"
    BY <1>9 DEF EntryRefused
<1>10. ASSUME NEW e \in Entries, OpenPosition(e)
      PROVE  at'[u] = "done"
    BY <1>10 DEF OpenPosition
<1>11. ASSUME NEW x \in Exits, StartExit(x)
      PROVE  at'[u] = "done"
    BY <1>11 DEF StartExit
<1>12. ASSUME NEW x \in Exits, MarkAttempt(x)
      PROVE  at'[u] = "done"
    BY <1>12 DEF MarkAttempt
<1>13. ASSUME NEW x \in Exits, EvaluateExit(x)
      PROVE  at'[u] = "done"
    BY <1>13 DEF EvaluateExit
<1>14. ASSUME NEW x \in Exits, Identify(x)
      PROVE  at'[u] = "done"
    BY <1>14 DEF Identify
<1>15. ASSUME NEW x \in Exits, Claim(x)
      PROVE  at'[u] = "done"
    BY <1>15 DEF Claim
<1>16. ASSUME NEW x \in Exits, Sell(x)
      PROVE  at'[u] = "done"
    BY <1>16 DEF Sell
<1>17. ASSUME NEW x \in Exits, SellRefused(x)
      PROVE  at'[u] = "done"
    BY <1>17 DEF SellRefused
<1>18. ASSUME NEW x \in Exits, Release(x)
      PROVE  at'[u] = "done"
    BY <1>18 DEF Release
<1>19. ASSUME NEW x \in Exits, Complete(x)
      PROVE  at'[u] = "done"
    BY <1>19 DEF Complete
<1>20. ASSUME NEW a \in Adjusts, StartAdjust(a)
      PROVE  at'[u] = "done"
    BY <1>20 DEF StartAdjust
<1>21. ASSUME NEW a \in Adjusts, CheckLedger(a)
      PROVE  at'[u] = "done"
    BY <1>21 DEF CheckLedger
<1>22. ASSUME NEW a \in Adjusts, PatchPosition(a)
      PROVE  at'[u] = "done"
    BY <1>22 DEF PatchPosition
<1>23. ASSUME NEW a \in Adjusts, BookAdjust(a)
      PROVE  at'[u] = "done"
    BY <1>23 DEF BookAdjust
<1>24. ASSUME NEW s \in Suggests, ReadSuggestion(s)
      PROVE  at'[u] = "done"
    BY <1>24 DEF ReadSuggestion
<1>25. ASSUME NEW s \in Suggests, ArmSuggestion(s)
      PROVE  at'[u] = "done"
    BY <1>25 DEF ArmSuggestion
<1>26. ASSUME NEW t \in Threads, Interrupt(t)
      PROVE  at'[u] = "done"
    BY <1>26 DEF Interrupt
<1>27. CASE UNCHANGED vars
    BY <1>27 DEF vars, files, locals
<1> QED
    BY <1>1, <1>2, <1>3, <1>4, <1>5, <1>6, <1>7, <1>8, <1>9, <1>10, <1>11, <1>12, <1>13, <1>14,
       <1>15, <1>16, <1>17, <1>18, <1>19, <1>20, <1>21, <1>22, <1>23, <1>24, <1>25, <1>26,
       <1>27
    DEF Next, Entry, Exit, Adjust

LEMMA SeenOpenedInductive ==
    Compared /\ TypeOK /\ VersionInv /\ [Next]_vars => SeenOpened'
<1> SUFFICES ASSUME Compared, TypeOK, VersionInv, [Next]_vars PROVE SeenOpened'
    OBVIOUS
<1>0. /\ \A p \in Positions : p.id \in Threads
      /\ \A t \in Threads : at[t] = "done" => at'[t] = "done"
      /\ position \in Positions \cup {None} /\ seen \in [Threads -> Positions \cup {None}]
      /\ SeenOpened
    BY DoneStays, ThreadFacts DEF Positions, TypeOK, VersionInv
<1> USE <1>0, ThreadFacts DEF SeenOpened, files
<1>1. ASSUME NEW e \in Entries, StartEntry(e)
      PROVE  SeenOpened'
    BY <1>1 DEF StartEntry
<1>2. ASSUME NEW e \in Entries, RouteEntry(e)
      PROVE  SeenOpened'
    BY <1>2 DEF RouteEntry
<1>3. ASSUME NEW e \in Entries, EvaluateEntry(e)
      PROVE  SeenOpened'
    BY <1>3 DEF EvaluateEntry
<1>4. ASSUME NEW e \in Entries, EvaluateReversal(e)
      PROVE  SeenOpened'
    BY <1>4 DEF EvaluateReversal
<1>5. ASSUME NEW e \in Entries, DecideReversal(e)
      PROVE  SeenOpened'
    BY <1>5 DEF DecideReversal
<1>6. ASSUME NEW e \in Entries, ReversalSell(e)
      PROVE  SeenOpened'
    BY <1>6 DEF ReversalSell
<1>7. ASSUME NEW e \in Entries, ReversalClear(e)
      PROVE  SeenOpened'
    BY <1>7 DEF ReversalClear
<1>8. ASSUME NEW e \in Entries, Buy(e)
      PROVE  SeenOpened'
    BY <1>8 DEF Buy
<1>9. ASSUME NEW e \in Entries, EntryRefused(e)
      PROVE  SeenOpened'
    BY <1>9 DEF EntryRefused
<1>10. ASSUME NEW e \in Entries, OpenPosition(e)
      PROVE  SeenOpened'
    <2>1. at'[e] = "done"
        BY <1>10, Moving DEF OpenPosition, Return, Places
    <2>2. position'.id = e /\ seen' = seen
        BY <1>10 DEF OpenPosition
    <2> QED
        BY <2>1, <2>2
<1>11. ASSUME NEW x \in Exits, StartExit(x)
      PROVE  SeenOpened'
    BY <1>11 DEF StartExit
<1>12. ASSUME NEW x \in Exits, MarkAttempt(x)
      PROVE  SeenOpened'
    BY <1>12 DEF MarkAttempt
<1>13. ASSUME NEW x \in Exits, EvaluateExit(x)
      PROVE  SeenOpened'
    BY <1>13 DEF EvaluateExit
<1>14. ASSUME NEW x \in Exits, Identify(x)
      PROVE  SeenOpened'
    BY <1>14 DEF Identify
<1>15. ASSUME NEW x \in Exits, Claim(x)
      PROVE  SeenOpened'
    BY <1>15, ClaimedFacts DEF Claim, MayClaim, Matches
<1>16. ASSUME NEW x \in Exits, Sell(x)
      PROVE  SeenOpened'
    BY <1>16 DEF Sell
<1>17. ASSUME NEW x \in Exits, SellRefused(x)
      PROVE  SeenOpened'
    BY <1>17 DEF SellRefused
<1>18. ASSUME NEW x \in Exits, Release(x)
      PROVE  SeenOpened'
    BY <1>18, ReleasedFacts DEF Release, Owns
<1>19. ASSUME NEW x \in Exits, Complete(x)
      PROVE  SeenOpened'
    BY <1>19 DEF Complete
<1>20. ASSUME NEW a \in Adjusts, StartAdjust(a)
      PROVE  SeenOpened'
    BY <1>20 DEF StartAdjust
<1>21. ASSUME NEW a \in Adjusts, CheckLedger(a)
      PROVE  SeenOpened'
    BY <1>21 DEF CheckLedger
<1>22. ASSUME NEW a \in Adjusts, PatchPosition(a)
      PROVE  SeenOpened'
    <2>1. position' # None => position # None /\ position'.id = position.id
        BY <1>22, PatchStep DEF PatchPosition
    <2> QED
        BY <1>22, <2>1 DEF PatchPosition
<1>23. ASSUME NEW a \in Adjusts, BookAdjust(a)
      PROVE  SeenOpened'
    BY <1>23 DEF BookAdjust
<1>24. ASSUME NEW s \in Suggests, ReadSuggestion(s)
      PROVE  SeenOpened'
    BY <1>24 DEF ReadSuggestion
<1>25. ASSUME NEW s \in Suggests, ArmSuggestion(s)
      PROVE  SeenOpened'
    BY <1>25 DEF ArmSuggestion, Compared
<1>26. ASSUME NEW t \in Threads, Interrupt(t)
      PROVE  SeenOpened'
    BY <1>26 DEF Interrupt
<1>27. CASE UNCHANGED vars
    BY <1>27 DEF vars, files, locals
<1> QED
    BY <1>1, <1>2, <1>3, <1>4, <1>5, <1>6, <1>7, <1>8, <1>9, <1>10, <1>11, <1>12, <1>13, <1>14,
       <1>15, <1>16, <1>17, <1>18, <1>19, <1>20, <1>21, <1>22, <1>23, <1>24, <1>25, <1>26,
       <1>27
    DEF Next, Entry, Exit, Adjust

(* Only the thread that reads changes what it has seen, to the position as
   it is; a position changes to a later version of itself. *)
LEMMA VersionsNameInductive ==
    Compared /\ TypeOK /\ VersionInv /\ [Next]_vars => VersionsName'
<1> SUFFICES ASSUME Compared, TypeOK, VersionInv, [Next]_vars PROVE VersionsName'
    OBVIOUS
<1>0. /\ \A p \in Positions : p.version \in Nat /\ p.lots \in Nat
      /\ position \in Positions \cup {None} /\ seen \in [Threads -> Positions \cup {None}]
      /\ VersionsName /\ SeenOpened
    BY DEF Positions, TypeOK, VersionInv
<1> USE <1>0, ThreadFacts DEF VersionsName, files
<1>1. ASSUME NEW e \in Entries, StartEntry(e)
      PROVE  VersionsName'
    BY <1>1 DEF StartEntry
<1>2. ASSUME NEW e \in Entries, RouteEntry(e)
      PROVE  VersionsName'
    BY <1>2 DEF RouteEntry
<1>3. ASSUME NEW e \in Entries, EvaluateEntry(e)
      PROVE  VersionsName'
    BY <1>3 DEF EvaluateEntry
<1>4. ASSUME NEW e \in Entries, EvaluateReversal(e)
      PROVE  VersionsName'
    BY <1>4 DEF EvaluateReversal
<1>5. ASSUME NEW e \in Entries, DecideReversal(e)
      PROVE  VersionsName'
    BY <1>5 DEF DecideReversal
<1>6. ASSUME NEW e \in Entries, ReversalSell(e)
      PROVE  VersionsName'
    BY <1>6 DEF ReversalSell
<1>7. ASSUME NEW e \in Entries, ReversalClear(e)
      PROVE  VersionsName'
    BY <1>7 DEF ReversalClear
<1>8. ASSUME NEW e \in Entries, Buy(e)
      PROVE  VersionsName'
    BY <1>8 DEF Buy
<1>9. ASSUME NEW e \in Entries, EntryRefused(e)
      PROVE  VersionsName'
    BY <1>9 DEF EntryRefused
<1>10. ASSUME NEW e \in Entries, OpenPosition(e)
      PROVE  VersionsName'
    <2>1. position'.id = e /\ seen' = seen /\ at[e] # "done"
        BY <1>10 DEF OpenPosition
    <2>2. \A t \in Threads : seen[t] # None => seen[t].id # e
        BY <2>1 DEF SeenOpened
    <2> QED
        BY <2>1, <2>2
<1>11. ASSUME NEW x \in Exits, StartExit(x)
      PROVE  VersionsName'
    BY <1>11 DEF StartExit
<1>12. ASSUME NEW x \in Exits, MarkAttempt(x)
      PROVE  VersionsName'
    BY <1>12 DEF MarkAttempt
<1>13. ASSUME NEW x \in Exits, EvaluateExit(x)
      PROVE  VersionsName'
    BY <1>13 DEF EvaluateExit
<1>14. ASSUME NEW x \in Exits, Identify(x)
      PROVE  VersionsName'
    BY <1>14 DEF Identify
<1>15. ASSUME NEW x \in Exits, Claim(x)
      PROVE  VersionsName'
    BY <1>15, ClaimedFacts DEF Claim, MayClaim, Matches
<1>16. ASSUME NEW x \in Exits, Sell(x)
      PROVE  VersionsName'
    BY <1>16 DEF Sell
<1>17. ASSUME NEW x \in Exits, SellRefused(x)
      PROVE  VersionsName'
    BY <1>17 DEF SellRefused
<1>18. ASSUME NEW x \in Exits, Release(x)
      PROVE  VersionsName'
    BY <1>18, ReleasedFacts DEF Release, Owns
<1>19. ASSUME NEW x \in Exits, Complete(x)
      PROVE  VersionsName'
    BY <1>19 DEF Complete
<1>20. ASSUME NEW a \in Adjusts, StartAdjust(a)
      PROVE  VersionsName'
    BY <1>20 DEF StartAdjust
<1>21. ASSUME NEW a \in Adjusts, CheckLedger(a)
      PROVE  VersionsName'
    BY <1>21 DEF CheckLedger
<1>22. ASSUME NEW a \in Adjusts, PatchPosition(a)
      PROVE  VersionsName'
    <2>1. seen' = seen
        BY <1>22 DEF PatchPosition
    <2> QED
        BY <1>22, <2>1, PatchStep
<1>23. ASSUME NEW a \in Adjusts, BookAdjust(a)
      PROVE  VersionsName'
    BY <1>23 DEF BookAdjust
<1>24. ASSUME NEW s \in Suggests, ReadSuggestion(s)
      PROVE  VersionsName'
    BY <1>24 DEF ReadSuggestion
<1>25. ASSUME NEW s \in Suggests, ArmSuggestion(s)
      PROVE  VersionsName'
    BY <1>25 DEF ArmSuggestion, Compared
<1>26. ASSUME NEW t \in Threads, Interrupt(t)
      PROVE  VersionsName'
    BY <1>26 DEF Interrupt
<1>27. CASE UNCHANGED vars
    BY <1>27 DEF vars, files, locals
<1> QED
    BY <1>1, <1>2, <1>3, <1>4, <1>5, <1>6, <1>7, <1>8, <1>9, <1>10, <1>11, <1>12, <1>13, <1>14,
       <1>15, <1>16, <1>17, <1>18, <1>19, <1>20, <1>21, <1>22, <1>23, <1>24, <1>25, <1>26,
       <1>27
    DEF Next, Entry, Exit, Adjust

LEMMA AdjustsFitInductive ==
    TypeOK /\ VersionInv /\ [Next]_vars => AdjustsFit'
<1> SUFFICES ASSUME TypeOK, VersionInv, [Next]_vars PROVE AdjustsFit'
    OBVIOUS
<1>0. /\ \A p \in Positions : p.lots \in Nat \ {0}
      /\ position \in Positions \cup {None} /\ seen \in [Threads -> Positions \cup {None}]
      /\ AdjustsFit /\ Change \in [Adjusts -> Int]
      /\ \A place \in {"route", "evaluate", "reverse", "decide", "sell first", "clear", "buy",
             "open", "mark", "check", "identify", "claim", "sell", "release", "complete",
             "ledger", "patch", "book", "arm", "done", "lost"} : place \in Places
    BY PaperAssumption DEF Positions, TypeOK, VersionInv, Places
<1> USE <1>0, ThreadFacts, Moving DEF AdjustsFit, Fitting, Return
<1>1. ASSUME NEW e \in Entries, StartEntry(e)
      PROVE  AdjustsFit'
    BY <1>1 DEF StartEntry
<1>2. ASSUME NEW e \in Entries, RouteEntry(e)
      PROVE  AdjustsFit'
    BY <1>2 DEF RouteEntry
<1>3. ASSUME NEW e \in Entries, EvaluateEntry(e)
      PROVE  AdjustsFit'
    BY <1>3 DEF EvaluateEntry
<1>4. ASSUME NEW e \in Entries, EvaluateReversal(e)
      PROVE  AdjustsFit'
    BY <1>4 DEF EvaluateReversal
<1>5. ASSUME NEW e \in Entries, DecideReversal(e)
      PROVE  AdjustsFit'
    BY <1>5 DEF DecideReversal
<1>6. ASSUME NEW e \in Entries, ReversalSell(e)
      PROVE  AdjustsFit'
    BY <1>6 DEF ReversalSell
<1>7. ASSUME NEW e \in Entries, ReversalClear(e)
      PROVE  AdjustsFit'
    BY <1>7 DEF ReversalClear
<1>8. ASSUME NEW e \in Entries, Buy(e)
      PROVE  AdjustsFit'
    BY <1>8 DEF Buy
<1>9. ASSUME NEW e \in Entries, EntryRefused(e)
      PROVE  AdjustsFit'
    BY <1>9 DEF EntryRefused
<1>10. ASSUME NEW e \in Entries, OpenPosition(e)
      PROVE  AdjustsFit'
    BY <1>10 DEF OpenPosition
<1>11. ASSUME NEW x \in Exits, StartExit(x)
      PROVE  AdjustsFit'
    BY <1>11 DEF StartExit
<1>12. ASSUME NEW x \in Exits, MarkAttempt(x)
      PROVE  AdjustsFit'
    BY <1>12 DEF MarkAttempt
<1>13. ASSUME NEW x \in Exits, EvaluateExit(x)
      PROVE  AdjustsFit'
    BY <1>13 DEF EvaluateExit
<1>14. ASSUME NEW x \in Exits, Identify(x)
      PROVE  AdjustsFit'
    BY <1>14 DEF Identify
<1>15. ASSUME NEW x \in Exits, Claim(x)
      PROVE  AdjustsFit'
    BY <1>15 DEF Claim
<1>16. ASSUME NEW x \in Exits, Sell(x)
      PROVE  AdjustsFit'
    BY <1>16 DEF Sell
<1>17. ASSUME NEW x \in Exits, SellRefused(x)
      PROVE  AdjustsFit'
    BY <1>17 DEF SellRefused
<1>18. ASSUME NEW x \in Exits, Release(x)
      PROVE  AdjustsFit'
    BY <1>18 DEF Release
<1>19. ASSUME NEW x \in Exits, Complete(x)
      PROVE  AdjustsFit'
    BY <1>19 DEF Complete
<1>20. ASSUME NEW a \in Adjusts, StartAdjust(a)
      PROVE  AdjustsFit'
    <2>1. seen' = [seen EXCEPT ![a] = position] /\ position \in Positions
        BY <1>20 DEF StartAdjust
    <2>2. position.lots \in Nat /\ position.lots > 0 /\ Change[a] \in Int
        <3>1. Change[a] \in Int
            BY ONLY <1>0, <1>20
        <3>2. position.lots \in Nat \ {0}
            BY ONLY <1>0, <2>1
        <3> QED
            BY ONLY <3>1, <3>2
    <2>3. Change[a] # 0 => position.lots + Change[a] > 0
                           /\ (Change[a] > 0 => position.lots + Change[a] <= MaxLots)
        BY <1>20 DEF StartAdjust, WithinLimits
    <2>4. seen'[a] = position /\ \A u \in Threads : u # a => seen'[u] = seen[u] /\ at'[u] = at[u]
        BY <1>20, <2>1 DEF StartAdjust
    <2>5. position.lots + Change[a] > 0 /\ (Change[a] > 0 => position.lots + Change[a] <= MaxLots)
        BY ONLY <2>2, <2>3
    <2>6. ASSUME NEW b \in Adjusts, at'[b] \in {"ledger", "patch"} PROVE Fitting(b)'
        <3>1. CASE b = a
            BY <3>1, <2>1, <2>4, <2>5
        <3>2. CASE b # a
            BY <3>2, <2>4, <2>6
        <3> QED
            BY <3>1, <3>2
    <2> QED
        BY <2>6
<1>21. ASSUME NEW a \in Adjusts, CheckLedger(a)
      PROVE  AdjustsFit'
    BY <1>21 DEF CheckLedger
<1>22. ASSUME NEW a \in Adjusts, PatchPosition(a)
      PROVE  AdjustsFit'
    BY <1>22 DEF PatchPosition
<1>23. ASSUME NEW a \in Adjusts, BookAdjust(a)
      PROVE  AdjustsFit'
    BY <1>23 DEF BookAdjust
<1>24. ASSUME NEW s \in Suggests, ReadSuggestion(s)
      PROVE  AdjustsFit'
    BY <1>24 DEF ReadSuggestion
<1>25. ASSUME NEW s \in Suggests, ArmSuggestion(s)
      PROVE  AdjustsFit'
    BY <1>25 DEF ArmSuggestion
<1>26. ASSUME NEW t \in Threads, Interrupt(t)
      PROVE  AdjustsFit'
    BY <1>26 DEF Interrupt
<1>27. CASE UNCHANGED vars
    BY <1>27 DEF vars, files, locals
<1> QED
    BY <1>1, <1>2, <1>3, <1>4, <1>5, <1>6, <1>7, <1>8, <1>9, <1>10, <1>11, <1>12, <1>13, <1>14,
       <1>15, <1>16, <1>17, <1>18, <1>19, <1>20, <1>21, <1>22, <1>23, <1>24, <1>25, <1>26,
       <1>27
    DEF Next, Entry, Exit, Adjust

(* The versions of a position are never confused. *)
LEMMA VersionsHold == ASSUME Compared PROVE Spec => [](TypeOK /\ VersionInv)
<1>1. Init => TypeOK /\ VersionInv
    BY TypeInit
<1>2. TypeOK /\ VersionInv /\ [Next]_vars => (TypeOK /\ VersionInv)'
    <2> SUFFICES ASSUME TypeOK, VersionInv, [Next]_vars PROVE (TypeOK /\ VersionInv)'
        OBVIOUS
    <2>1. TypeOK'
        BY Compared, ControlInductive, DataInductive DEF TypeOK, ControlOK, DataOK
    <2>2. VersionInv'
        BY Compared, SeenOpenedInductive, VersionsNameInductive, AdjustsFitInductive
           DEF VersionInv
    <2> QED
        BY <2>1, <2>2
<1> QED
    BY <1>1, <1>2, PTL DEF Spec

(* When every writer compares before it writes, whatever threads there are,
   the tracked position and the ledger hold whole, positive quantities (the
   partial exit and the exit of state_store and paper_portfolio). *)
THEOREM TypeCorrect == ASSUME Compared PROVE Spec => []TypeOK
BY VersionsHold, PTL

AddFits ==
    \A a \in Adjusts : at[a] = "patch" /\ at'[a] = "book" /\ Change[a] > 0 =>
        position'.lots <= MaxLots

LEMMA AddFitsStep ==
    TypeOK /\ VersionInv /\ [Next]_vars => [AddFits]_vars
<1> SUFFICES ASSUME TypeOK, VersionInv, [Next]_vars,
                    NEW b \in Adjusts, at[b] = "patch", at'[b] = "book", Change[b] > 0
             PROVE  position'.lots <= MaxLots
    BY DEF AddFits
<1>0. /\ AdjustsFit
      /\ \A place \in {"route", "evaluate", "reverse", "decide", "sell first", "clear", "buy",
             "open", "mark", "check", "identify", "claim", "sell", "release", "complete",
             "ledger", "patch", "book", "arm", "done", "lost"} : place \in Places
    BY DEF VersionInv, Places
<1> USE <1>0, ThreadFacts, Moving DEF Return
<1>1. ASSUME NEW e \in Entries, StartEntry(e)
      PROVE  position'.lots <= MaxLots
    BY <1>1 DEF StartEntry
<1>2. ASSUME NEW e \in Entries, RouteEntry(e)
      PROVE  position'.lots <= MaxLots
    BY <1>2 DEF RouteEntry
<1>3. ASSUME NEW e \in Entries, EvaluateEntry(e)
      PROVE  position'.lots <= MaxLots
    BY <1>3 DEF EvaluateEntry
<1>4. ASSUME NEW e \in Entries, EvaluateReversal(e)
      PROVE  position'.lots <= MaxLots
    BY <1>4 DEF EvaluateReversal
<1>5. ASSUME NEW e \in Entries, DecideReversal(e)
      PROVE  position'.lots <= MaxLots
    BY <1>5 DEF DecideReversal
<1>6. ASSUME NEW e \in Entries, ReversalSell(e)
      PROVE  position'.lots <= MaxLots
    BY <1>6 DEF ReversalSell
<1>7. ASSUME NEW e \in Entries, ReversalClear(e)
      PROVE  position'.lots <= MaxLots
    BY <1>7 DEF ReversalClear
<1>8. ASSUME NEW e \in Entries, Buy(e)
      PROVE  position'.lots <= MaxLots
    BY <1>8 DEF Buy
<1>9. ASSUME NEW e \in Entries, EntryRefused(e)
      PROVE  position'.lots <= MaxLots
    BY <1>9 DEF EntryRefused
<1>10. ASSUME NEW e \in Entries, OpenPosition(e)
      PROVE  position'.lots <= MaxLots
    BY <1>10 DEF OpenPosition
<1>11. ASSUME NEW x \in Exits, StartExit(x)
      PROVE  position'.lots <= MaxLots
    BY <1>11 DEF StartExit
<1>12. ASSUME NEW x \in Exits, MarkAttempt(x)
      PROVE  position'.lots <= MaxLots
    BY <1>12 DEF MarkAttempt
<1>13. ASSUME NEW x \in Exits, EvaluateExit(x)
      PROVE  position'.lots <= MaxLots
    BY <1>13 DEF EvaluateExit
<1>14. ASSUME NEW x \in Exits, Identify(x)
      PROVE  position'.lots <= MaxLots
    BY <1>14 DEF Identify
<1>15. ASSUME NEW x \in Exits, Claim(x)
      PROVE  position'.lots <= MaxLots
    BY <1>15 DEF Claim
<1>16. ASSUME NEW x \in Exits, Sell(x)
      PROVE  position'.lots <= MaxLots
    BY <1>16 DEF Sell
<1>17. ASSUME NEW x \in Exits, SellRefused(x)
      PROVE  position'.lots <= MaxLots
    BY <1>17 DEF SellRefused
<1>18. ASSUME NEW x \in Exits, Release(x)
      PROVE  position'.lots <= MaxLots
    BY <1>18 DEF Release
<1>19. ASSUME NEW x \in Exits, Complete(x)
      PROVE  position'.lots <= MaxLots
    BY <1>19 DEF Complete
<1>20. ASSUME NEW a \in Adjusts, StartAdjust(a)
      PROVE  position'.lots <= MaxLots
    BY <1>20 DEF StartAdjust
<1>21. ASSUME NEW a \in Adjusts, CheckLedger(a)
      PROVE  position'.lots <= MaxLots
    BY <1>21 DEF CheckLedger
<1>22. ASSUME NEW a \in Adjusts, PatchPosition(a)
      PROVE  position'.lots <= MaxLots
    <2>1. CASE a = b
        <3>1. position' # position \/ MayPatch(seen[a])
            BY <1>22, <2>1 DEF PatchPosition
        <3>2. MayPatch(seen[a])
            BY <1>22, <2>1 DEF PatchPosition, Places
        <3>3. position' = Patched(Change[a]) /\ position \in Positions /\ seen[a].lots = position.lots
            BY <1>22, <3>2, PatchNow
        <3> QED
            BY <2>1, <3>3, PatchNow, <3>2, <1>22 DEF AdjustsFit, Fitting
    <2>2. CASE a # b
        BY <1>22, <2>2 DEF PatchPosition
    <2> QED
        BY <2>1, <2>2
<1>23. ASSUME NEW a \in Adjusts, BookAdjust(a)
      PROVE  position'.lots <= MaxLots
    BY <1>23 DEF BookAdjust
<1>24. ASSUME NEW s \in Suggests, ReadSuggestion(s)
      PROVE  position'.lots <= MaxLots
    BY <1>24 DEF ReadSuggestion
<1>25. ASSUME NEW s \in Suggests, ArmSuggestion(s)
      PROVE  position'.lots <= MaxLots
    BY <1>25 DEF ArmSuggestion
<1>26. ASSUME NEW t \in Threads, Interrupt(t)
      PROVE  position'.lots <= MaxLots
    BY <1>26 DEF Interrupt
<1>27. CASE UNCHANGED vars
    BY <1>27 DEF vars, files, locals
<1> QED
    BY <1>1, <1>2, <1>3, <1>4, <1>5, <1>6, <1>7, <1>8, <1>9, <1>10, <1>11, <1>12, <1>13, <1>14,
       <1>15, <1>16, <1>17, <1>18, <1>19, <1>20, <1>21, <1>22, <1>23, <1>24, <1>25, <1>26,
       <1>27
    DEF Next, Entry, Exit, Adjust

(* However many additions race, none of them takes the position beyond the
   limit it has checked (routers/orders.py: "a position cannot exceed 20
   lots"), as long as every writer compares. *)
THEOREM AddsBounded == ASSUME Compared PROVE Spec => AddsWithinLimit
<1>1. Spec => [][AddFits]_vars
    BY VersionsHold, AddFitsStep, PTL DEF Spec
<1> QED
    BY <1>1 DEF AddsWithinLimit, AddFits

OpenedOnce ==
    position' # None /\ (position = None \/ position.id # position'.id)
        => at[position'.id] = "open"

LEMMA OpenedOnceStep ==
    Compared /\ TypeOK /\ VersionInv /\ [Next]_vars => [OpenedOnce]_vars
<1> SUFFICES ASSUME Compared, TypeOK, VersionInv, [Next]_vars PROVE OpenedOnce
    OBVIOUS
<1>0. position \in Positions \cup {None}
    BY DEF TypeOK
<1> USE <1>0, ThreadFacts DEF OpenedOnce, files
<1>1. ASSUME NEW e \in Entries, StartEntry(e)
      PROVE  OpenedOnce
    BY <1>1 DEF StartEntry
<1>2. ASSUME NEW e \in Entries, RouteEntry(e)
      PROVE  OpenedOnce
    BY <1>2 DEF RouteEntry
<1>3. ASSUME NEW e \in Entries, EvaluateEntry(e)
      PROVE  OpenedOnce
    BY <1>3 DEF EvaluateEntry
<1>4. ASSUME NEW e \in Entries, EvaluateReversal(e)
      PROVE  OpenedOnce
    BY <1>4 DEF EvaluateReversal
<1>5. ASSUME NEW e \in Entries, DecideReversal(e)
      PROVE  OpenedOnce
    BY <1>5 DEF DecideReversal
<1>6. ASSUME NEW e \in Entries, ReversalSell(e)
      PROVE  OpenedOnce
    BY <1>6 DEF ReversalSell
<1>7. ASSUME NEW e \in Entries, ReversalClear(e)
      PROVE  OpenedOnce
    BY <1>7 DEF ReversalClear
<1>8. ASSUME NEW e \in Entries, Buy(e)
      PROVE  OpenedOnce
    BY <1>8 DEF Buy
<1>9. ASSUME NEW e \in Entries, EntryRefused(e)
      PROVE  OpenedOnce
    BY <1>9 DEF EntryRefused
<1>10. ASSUME NEW e \in Entries, OpenPosition(e)
      PROVE  OpenedOnce
    BY <1>10 DEF OpenPosition
<1>11. ASSUME NEW x \in Exits, StartExit(x)
      PROVE  OpenedOnce
    BY <1>11 DEF StartExit
<1>12. ASSUME NEW x \in Exits, MarkAttempt(x)
      PROVE  OpenedOnce
    BY <1>12 DEF MarkAttempt
<1>13. ASSUME NEW x \in Exits, EvaluateExit(x)
      PROVE  OpenedOnce
    BY <1>13 DEF EvaluateExit
<1>14. ASSUME NEW x \in Exits, Identify(x)
      PROVE  OpenedOnce
    BY <1>14 DEF Identify
<1>15. ASSUME NEW x \in Exits, Claim(x)
      PROVE  OpenedOnce
    BY <1>15, ClaimedFacts DEF Claim, MayClaim, Matches
<1>16. ASSUME NEW x \in Exits, Sell(x)
      PROVE  OpenedOnce
    BY <1>16 DEF Sell
<1>17. ASSUME NEW x \in Exits, SellRefused(x)
      PROVE  OpenedOnce
    BY <1>17 DEF SellRefused
<1>18. ASSUME NEW x \in Exits, Release(x)
      PROVE  OpenedOnce
    BY <1>18, ReleasedFacts DEF Release, Owns
<1>19. ASSUME NEW x \in Exits, Complete(x)
      PROVE  OpenedOnce
    BY <1>19 DEF Complete
<1>20. ASSUME NEW a \in Adjusts, StartAdjust(a)
      PROVE  OpenedOnce
    BY <1>20 DEF StartAdjust
<1>21. ASSUME NEW a \in Adjusts, CheckLedger(a)
      PROVE  OpenedOnce
    BY <1>21 DEF CheckLedger
<1>22. ASSUME NEW a \in Adjusts, PatchPosition(a)
      PROVE  OpenedOnce
    BY <1>22, PatchStep DEF PatchPosition
<1>23. ASSUME NEW a \in Adjusts, BookAdjust(a)
      PROVE  OpenedOnce
    BY <1>23 DEF BookAdjust
<1>24. ASSUME NEW s \in Suggests, ReadSuggestion(s)
      PROVE  OpenedOnce
    BY <1>24 DEF ReadSuggestion
<1>25. ASSUME NEW s \in Suggests, ArmSuggestion(s)
      PROVE  OpenedOnce
    BY <1>25 DEF ArmSuggestion, Compared
<1>26. ASSUME NEW t \in Threads, Interrupt(t)
      PROVE  OpenedOnce
    BY <1>26 DEF Interrupt
<1>27. CASE UNCHANGED vars
    BY <1>27 DEF vars, files, locals
<1> QED
    BY <1>1, <1>2, <1>3, <1>4, <1>5, <1>6, <1>7, <1>8, <1>9, <1>10, <1>11, <1>12, <1>13, <1>14,
       <1>15, <1>16, <1>17, <1>18, <1>19, <1>20, <1>21, <1>22, <1>23, <1>24, <1>25, <1>26,
       <1>27
    DEF Next, Entry, Exit, Adjust

(* A closed position never comes back: only the entry that opens a position
   writes one where there was none (state_store: a stale patch "must never
   resurrect a closed position"), as long as every writer compares. *)
THEOREM NoRecreation == ASSUME Compared PROVE Spec => NeverRecreated
<1>1. Spec => [][OpenedOnce]_vars
    BY VersionsHold, OpenedOnceStep, PTL DEF Spec
<1> QED
    BY <1>1 DEF NeverRecreated, OpenedOnce


=============================================================================
