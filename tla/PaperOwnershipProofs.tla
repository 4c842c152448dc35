------------------------ MODULE PaperOwnershipProofs ------------------------
(* Who may change the paper position, and the ledger with it, when the      *)
(* entries of an account are routed under one lock, on one option side, and *)
(* every writer compares.                                                   *)
EXTENDS PaperPositionProofs

\* One worker routes every entry under its user's lock, all on one side.
OneByOne ==
    /\ \A e \in Entries : LockOf[e] # None
    /\ \A e, f \in Entries : LockOf[e] = LockOf[f] /\ Side[e] = Side[f]

Serialized == Compared /\ OneByOne

Routing == {"route", "evaluate", "buy", "open"}

\* An entry that is being routed holds the lock.
Inside == \A e \in Entries : at[e] \in Routing => holder[LockOf[e]] = e

\* Nothing is reversed.
NoReversal ==
    \A e \in Entries :
        at[e] # "reverse" /\ at[e] # "decide" /\ at[e] # "sell first" /\ at[e] # "clear"

\* A position is on the side of the entry that opened it.
SideKept == position # None => position.side = Side[position.id]

\* The account stays flat while an entry buys.
FlatToBuy == \A e \in Entries : at[e] \in {"buy", "open"} => position = None

\* An exit on its way to the ledger and back owns the position.
Claimant ==
    \A x \in Exits : at[x] \in {"sell", "release", "complete"} =>
        position # None /\ position.claim = x

\* The trade is the one of the position, or of the entry that opens it next.
SameTrade == position # None /\ trade # None => trade.entry = position.id
NextTrade == \A e \in Entries : at[e] = "open" /\ trade # None => trade.entry = e

Ownership ==
    Inside /\ SideKept /\ NoReversal /\ FlatToBuy /\ Claimant /\ SameTrade /\ NextTrade

-----------------------------------------------------------------------------
(* A step of one thread takes no lock from another. *)
LEMMA Keeping ==
    ASSUME TypeOK, NEW t \in Threads, NEW place,
           Goto(t, place) \/ Leave(t, place) \/ (t \in Signals /\ Acquire(t, place))
    PROVE  /\ \A u \in Signals, k \in Locks : u # t /\ holder[k] = u => holder'[k] = u
           /\ Goto(t, place) => holder' = holder
           /\ t \in Signals /\ Acquire(t, place) /\ LockOf[t] # None => holder'[LockOf[t]] = t
<1> USE PaperAssumption, ThreadFacts DEF TypeOK
<1>1. \A u \in Signals, k \in Locks : u # t /\ holder[k] = u => holder'[k] = u
    <2>1. CASE Goto(t, place)
        BY <2>1 DEF Goto
    <2>2. CASE Leave(t, place)
        BY <2>2 DEF Leave
    <2>3. CASE t \in Signals /\ Acquire(t, place)
        BY <2>3 DEF Acquire
    <2> QED
        BY <2>1, <2>2, <2>3
<1>2. Goto(t, place) => holder' = holder
    BY DEF Goto
<1>3. t \in Signals /\ Acquire(t, place) /\ LockOf[t] # None => holder'[LockOf[t]] = t
    BY DEF Acquire
<1> QED
    BY <1>1, <1>2, <1>3

LEMMA InsideInductive ==
    Serialized /\ TypeOK /\ VersionInv /\ Ownership /\ [Next]_vars => Inside'
<1> SUFFICES ASSUME Serialized, TypeOK, VersionInv, Ownership, [Next]_vars,
                    NEW f \in Entries, at'[f] \in Routing
             PROVE  holder'[LockOf[f]] = f
    BY DEF Inside
<1>0. /\ LockOf[f] \in Locks /\ LockOf[f] # None
      /\ at[f] \in Routing => holder[LockOf[f]] = f
      /\ at[f] # "clear"
      /\ at \in [Threads -> Places] /\ holder \in [Locks -> Signals \cup {None}]
      /\ Suggests = {}
    BY PaperAssumption, ThreadFacts DEF TypeOK, Serialized, OneByOne, Ownership, Inside, NoReversal,
                                         Compared
<1> USE <1>0, ThreadFacts DEF Routing, Goto, Leave, Return, Acquire, files
<1>1. ASSUME NEW e \in Entries, StartEntry(e)
      PROVE  holder'[LockOf[f]] = f
    BY <1>1 DEF StartEntry
<1>2. ASSUME NEW e \in Entries, RouteEntry(e)
      PROVE  holder'[LockOf[f]] = f
    BY <1>2 DEF RouteEntry
<1>3. ASSUME NEW e \in Entries, EvaluateEntry(e)
      PROVE  holder'[LockOf[f]] = f
    BY <1>3 DEF EvaluateEntry
<1>4. ASSUME NEW e \in Entries, EvaluateReversal(e)
      PROVE  holder'[LockOf[f]] = f
    BY <1>4 DEF EvaluateReversal
<1>5. ASSUME NEW e \in Entries, DecideReversal(e)
      PROVE  holder'[LockOf[f]] = f
    BY <1>5 DEF DecideReversal
<1>6. ASSUME NEW e \in Entries, ReversalSell(e)
      PROVE  holder'[LockOf[f]] = f
    BY <1>6 DEF ReversalSell
<1>7. ASSUME NEW e \in Entries, ReversalClear(e)
      PROVE  holder'[LockOf[f]] = f
    BY <1>7 DEF ReversalClear
<1>8. ASSUME NEW e \in Entries, Buy(e)
      PROVE  holder'[LockOf[f]] = f
    BY <1>8 DEF Buy
<1>9. ASSUME NEW e \in Entries, EntryRefused(e)
      PROVE  holder'[LockOf[f]] = f
    BY <1>9 DEF EntryRefused
<1>10. ASSUME NEW e \in Entries, OpenPosition(e)
      PROVE  holder'[LockOf[f]] = f
    BY <1>10 DEF OpenPosition
<1>11. ASSUME NEW x \in Exits, StartExit(x)
      PROVE  holder'[LockOf[f]] = f
    BY <1>11 DEF StartExit
<1>12. ASSUME NEW x \in Exits, MarkAttempt(x)
      PROVE  holder'[LockOf[f]] = f
    BY <1>12 DEF MarkAttempt
<1>13. ASSUME NEW x \in Exits, EvaluateExit(x)
      PROVE  holder'[LockOf[f]] = f
    BY <1>13 DEF EvaluateExit
<1>14. ASSUME NEW x \in Exits, Identify(x)
      PROVE  holder'[LockOf[f]] = f
    BY <1>14 DEF Identify
<1>15. ASSUME NEW x \in Exits, Claim(x)
      PROVE  holder'[LockOf[f]] = f
    BY <1>15 DEF Claim
<1>16. ASSUME NEW x \in Exits, Sell(x)
      PROVE  holder'[LockOf[f]] = f
    BY <1>16 DEF Sell
<1>17. ASSUME NEW x \in Exits, SellRefused(x)
      PROVE  holder'[LockOf[f]] = f
    BY <1>17 DEF SellRefused
<1>18. ASSUME NEW x \in Exits, Release(x)
      PROVE  holder'[LockOf[f]] = f
    BY <1>18 DEF Release
<1>19. ASSUME NEW x \in Exits, Complete(x)
      PROVE  holder'[LockOf[f]] = f
    BY <1>19 DEF Complete
<1>20. ASSUME NEW a \in Adjusts, StartAdjust(a)
      PROVE  holder'[LockOf[f]] = f
    BY <1>20 DEF StartAdjust
<1>21. ASSUME NEW a \in Adjusts, CheckLedger(a)
      PROVE  holder'[LockOf[f]] = f
    BY <1>21 DEF CheckLedger
<1>22. ASSUME NEW a \in Adjusts, PatchPosition(a)
      PROVE  holder'[LockOf[f]] = f
    BY <1>22 DEF PatchPosition
<1>23. ASSUME NEW a \in Adjusts, BookAdjust(a)
      PROVE  holder'[LockOf[f]] = f
    BY <1>23 DEF BookAdjust
<1>24. ASSUME NEW s \in Suggests, ReadSuggestion(s)
      PROVE  holder'[LockOf[f]] = f
    BY <1>24 DEF ReadSuggestion
<1>25. ASSUME NEW s \in Suggests, ArmSuggestion(s)
      PROVE  holder'[LockOf[f]] = f
    BY <1>25 DEF ArmSuggestion
<1>26. ASSUME NEW t \in Threads, Interrupt(t)
      PROVE  holder'[LockOf[f]] = f
    BY <1>26 DEF Interrupt
<1>27. CASE UNCHANGED vars
    BY <1>27 DEF vars, files, locals
<1> QED
    BY <1>1, <1>2, <1>3, <1>4, <1>5, <1>6, <1>7, <1>8, <1>9, <1>10, <1>11, <1>12, <1>13, <1>14,
       <1>15, <1>16, <1>17, <1>18, <1>19, <1>20, <1>21, <1>22, <1>23, <1>24, <1>25, <1>26,
       <1>27
    DEF Next, Entry, Exit, Adjust

LEMMA SideKeptInductive ==
    Serialized /\ TypeOK /\ VersionInv /\ Ownership /\ [Next]_vars => SideKept'
<1> SUFFICES ASSUME Serialized, TypeOK, VersionInv, Ownership, [Next]_vars, position' # None
             PROVE  position'.side = Side[position'.id]
    BY DEF SideKept
<1>0. /\ position \in Positions \cup {None} /\ Suggests = {}
      /\ position # None => position.side = Side[position.id]
    BY PaperAssumption, ThreadFacts DEF TypeOK, Serialized, OneByOne, Ownership, Compared,
                                   SideKept, Positions
<1> USE <1>0, ThreadFacts DEF Goto, Leave, Return, Acquire, files
<1>1. ASSUME NEW e \in Entries, StartEntry(e)
      PROVE  position'.side = Side[position'.id]
    BY <1>1 DEF StartEntry
<1>2. ASSUME NEW e \in Entries, RouteEntry(e)
      PROVE  position'.side = Side[position'.id]
    BY <1>2 DEF RouteEntry
<1>3. ASSUME NEW e \in Entries, EvaluateEntry(e)
      PROVE  position'.side = Side[position'.id]
    BY <1>3 DEF EvaluateEntry
<1>4. ASSUME NEW e \in Entries, EvaluateReversal(e)
      PROVE  position'.side = Side[position'.id]
    BY <1>4 DEF EvaluateReversal
<1>5. ASSUME NEW e \in Entries, DecideReversal(e)
      PROVE  position'.side = Side[position'.id]
    BY <1>5 DEF DecideReversal
<1>6. ASSUME NEW e \in Entries, ReversalSell(e)
      PROVE  position'.side = Side[position'.id]
    BY <1>6 DEF ReversalSell
<1>7. ASSUME NEW e \in Entries, ReversalClear(e)
      PROVE  position'.side = Side[position'.id]
    BY <1>7 DEF ReversalClear
<1>8. ASSUME NEW e \in Entries, Buy(e)
      PROVE  position'.side = Side[position'.id]
    BY <1>8 DEF Buy
<1>9. ASSUME NEW e \in Entries, EntryRefused(e)
      PROVE  position'.side = Side[position'.id]
    BY <1>9 DEF EntryRefused
<1>10. ASSUME NEW e \in Entries, OpenPosition(e)
      PROVE  position'.side = Side[position'.id]
    BY <1>10 DEF OpenPosition
<1>11. ASSUME NEW x \in Exits, StartExit(x)
      PROVE  position'.side = Side[position'.id]
    BY <1>11 DEF StartExit
<1>12. ASSUME NEW x \in Exits, MarkAttempt(x)
      PROVE  position'.side = Side[position'.id]
    BY <1>12 DEF MarkAttempt
<1>13. ASSUME NEW x \in Exits, EvaluateExit(x)
      PROVE  position'.side = Side[position'.id]
    BY <1>13 DEF EvaluateExit
<1>14. ASSUME NEW x \in Exits, Identify(x)
      PROVE  position'.side = Side[position'.id]
    BY <1>14 DEF Identify
<1>15. ASSUME NEW x \in Exits, Claim(x)
      PROVE  position'.side = Side[position'.id]
    BY <1>15, ClaimedFacts DEF Claim, MayClaim, Matches
<1>16. ASSUME NEW x \in Exits, Sell(x)
      PROVE  position'.side = Side[position'.id]
    BY <1>16 DEF Sell
<1>17. ASSUME NEW x \in Exits, SellRefused(x)
      PROVE  position'.side = Side[position'.id]
    BY <1>17 DEF SellRefused
<1>18. ASSUME NEW x \in Exits, Release(x)
      PROVE  position'.side = Side[position'.id]
    BY <1>18, ReleasedFacts DEF Release, Owns
<1>19. ASSUME NEW x \in Exits, Complete(x)
      PROVE  position'.side = Side[position'.id]
    BY <1>19 DEF Complete
<1>20. ASSUME NEW a \in Adjusts, StartAdjust(a)
      PROVE  position'.side = Side[position'.id]
    BY <1>20 DEF StartAdjust
<1>21. ASSUME NEW a \in Adjusts, CheckLedger(a)
      PROVE  position'.side = Side[position'.id]
    BY <1>21 DEF CheckLedger
<1>22. ASSUME NEW a \in Adjusts, PatchPosition(a)
      PROVE  position'.side = Side[position'.id]
    BY <1>22, PatchStep DEF PatchPosition
<1>23. ASSUME NEW a \in Adjusts, BookAdjust(a)
      PROVE  position'.side = Side[position'.id]
    BY <1>23 DEF BookAdjust
<1>24. ASSUME NEW s \in Suggests, ReadSuggestion(s)
      PROVE  position'.side = Side[position'.id]
    BY <1>24 DEF ReadSuggestion
<1>25. ASSUME NEW s \in Suggests, ArmSuggestion(s)
      PROVE  position'.side = Side[position'.id]
    BY <1>25 DEF ArmSuggestion
<1>26. ASSUME NEW t \in Threads, Interrupt(t)
      PROVE  position'.side = Side[position'.id]
    BY <1>26 DEF Interrupt
<1>27. CASE UNCHANGED vars
    BY <1>27 DEF vars, files, locals
<1> QED
    BY <1>1, <1>2, <1>3, <1>4, <1>5, <1>6, <1>7, <1>8, <1>9, <1>10, <1>11, <1>12, <1>13, <1>14,
       <1>15, <1>16, <1>17, <1>18, <1>19, <1>20, <1>21, <1>22, <1>23, <1>24, <1>25, <1>26,
       <1>27
    DEF Next, Entry, Exit, Adjust

LEMMA NoReversalInductive ==
    Serialized /\ TypeOK /\ VersionInv /\ Ownership /\ [Next]_vars => NoReversal'
<1> SUFFICES ASSUME Serialized, TypeOK, VersionInv, Ownership, [Next]_vars, NEW f \in Entries
             PROVE  /\ at'[f] # "reverse" /\ at'[f] # "decide"
                    /\ at'[f] # "sell first" /\ at'[f] # "clear"
    BY DEF NoReversal
<1>0. /\ Suggests = {} /\ \A e \in Entries : Side[e] = Side[f]
      /\ position # None => position.id \in Entries /\ position.side = Side[position.id]
      /\ at[f] # "reverse" /\ at[f] # "decide" /\ at[f] # "sell first" /\ at[f] # "clear"
      /\ at \in [Threads -> Places]
    BY PaperAssumption, ThreadFacts DEF TypeOK, Serialized, OneByOne, Ownership, Compared,
                                   NoReversal, SideKept, Positions
<1> USE <1>0, ThreadFacts DEF Goto, Leave, Return, Acquire, files, Opposite
<1>1. ASSUME NEW e \in Entries, StartEntry(e)
      PROVE  /\ at'[f] # "reverse" /\ at'[f] # "decide"
                    /\ at'[f] # "sell first" /\ at'[f] # "clear"
    BY <1>1 DEF StartEntry
<1>2. ASSUME NEW e \in Entries, RouteEntry(e)
      PROVE  /\ at'[f] # "reverse" /\ at'[f] # "decide"
                    /\ at'[f] # "sell first" /\ at'[f] # "clear"
    BY <1>2 DEF RouteEntry
<1>3. ASSUME NEW e \in Entries, EvaluateEntry(e)
      PROVE  /\ at'[f] # "reverse" /\ at'[f] # "decide"
                    /\ at'[f] # "sell first" /\ at'[f] # "clear"
    BY <1>3 DEF EvaluateEntry
<1>4. ASSUME NEW e \in Entries, EvaluateReversal(e)
      PROVE  /\ at'[f] # "reverse" /\ at'[f] # "decide"
                    /\ at'[f] # "sell first" /\ at'[f] # "clear"
    BY <1>4 DEF EvaluateReversal
<1>5. ASSUME NEW e \in Entries, DecideReversal(e)
      PROVE  /\ at'[f] # "reverse" /\ at'[f] # "decide"
                    /\ at'[f] # "sell first" /\ at'[f] # "clear"
    BY <1>5 DEF DecideReversal
<1>6. ASSUME NEW e \in Entries, ReversalSell(e)
      PROVE  /\ at'[f] # "reverse" /\ at'[f] # "decide"
                    /\ at'[f] # "sell first" /\ at'[f] # "clear"
    BY <1>6 DEF ReversalSell
<1>7. ASSUME NEW e \in Entries, ReversalClear(e)
      PROVE  /\ at'[f] # "reverse" /\ at'[f] # "decide"
                    /\ at'[f] # "sell first" /\ at'[f] # "clear"
    BY <1>7 DEF ReversalClear
<1>8. ASSUME NEW e \in Entries, Buy(e)
      PROVE  /\ at'[f] # "reverse" /\ at'[f] # "decide"
                    /\ at'[f] # "sell first" /\ at'[f] # "clear"
    BY <1>8 DEF Buy
<1>9. ASSUME NEW e \in Entries, EntryRefused(e)
      PROVE  /\ at'[f] # "reverse" /\ at'[f] # "decide"
                    /\ at'[f] # "sell first" /\ at'[f] # "clear"
    BY <1>9 DEF EntryRefused
<1>10. ASSUME NEW e \in Entries, OpenPosition(e)
      PROVE  /\ at'[f] # "reverse" /\ at'[f] # "decide"
                    /\ at'[f] # "sell first" /\ at'[f] # "clear"
    BY <1>10 DEF OpenPosition
<1>11. ASSUME NEW x \in Exits, StartExit(x)
      PROVE  /\ at'[f] # "reverse" /\ at'[f] # "decide"
                    /\ at'[f] # "sell first" /\ at'[f] # "clear"
    BY <1>11 DEF StartExit
<1>12. ASSUME NEW x \in Exits, MarkAttempt(x)
      PROVE  /\ at'[f] # "reverse" /\ at'[f] # "decide"
                    /\ at'[f] # "sell first" /\ at'[f] # "clear"
    BY <1>12 DEF MarkAttempt
<1>13. ASSUME NEW x \in Exits, EvaluateExit(x)
      PROVE  /\ at'[f] # "reverse" /\ at'[f] # "decide"
                    /\ at'[f] # "sell first" /\ at'[f] # "clear"
    BY <1>13 DEF EvaluateExit
<1>14. ASSUME NEW x \in Exits, Identify(x)
      PROVE  /\ at'[f] # "reverse" /\ at'[f] # "decide"
                    /\ at'[f] # "sell first" /\ at'[f] # "clear"
    BY <1>14 DEF Identify
<1>15. ASSUME NEW x \in Exits, Claim(x)
      PROVE  /\ at'[f] # "reverse" /\ at'[f] # "decide"
                    /\ at'[f] # "sell first" /\ at'[f] # "clear"
    BY <1>15 DEF Claim
<1>16. ASSUME NEW x \in Exits, Sell(x)
      PROVE  /\ at'[f] # "reverse" /\ at'[f] # "decide"
                    /\ at'[f] # "sell first" /\ at'[f] # "clear"
    BY <1>16 DEF Sell
<1>17. ASSUME NEW x \in Exits, SellRefused(x)
      PROVE  /\ at'[f] # "reverse" /\ at'[f] # "decide"
                    /\ at'[f] # "sell first" /\ at'[f] # "clear"
    BY <1>17 DEF SellRefused
<1>18. ASSUME NEW x \in Exits, Release(x)
      PROVE  /\ at'[f] # "reverse" /\ at'[f] # "decide"
                    /\ at'[f] # "sell first" /\ at'[f] # "clear"
    BY <1>18 DEF Release
<1>19. ASSUME NEW x \in Exits, Complete(x)
      PROVE  /\ at'[f] # "reverse" /\ at'[f] # "decide"
                    /\ at'[f] # "sell first" /\ at'[f] # "clear"
    BY <1>19 DEF Complete
<1>20. ASSUME NEW a \in Adjusts, StartAdjust(a)
      PROVE  /\ at'[f] # "reverse" /\ at'[f] # "decide"
                    /\ at'[f] # "sell first" /\ at'[f] # "clear"
    BY <1>20 DEF StartAdjust
<1>21. ASSUME NEW a \in Adjusts, CheckLedger(a)
      PROVE  /\ at'[f] # "reverse" /\ at'[f] # "decide"
                    /\ at'[f] # "sell first" /\ at'[f] # "clear"
    BY <1>21 DEF CheckLedger
<1>22. ASSUME NEW a \in Adjusts, PatchPosition(a)
      PROVE  /\ at'[f] # "reverse" /\ at'[f] # "decide"
                    /\ at'[f] # "sell first" /\ at'[f] # "clear"
    BY <1>22 DEF PatchPosition
<1>23. ASSUME NEW a \in Adjusts, BookAdjust(a)
      PROVE  /\ at'[f] # "reverse" /\ at'[f] # "decide"
                    /\ at'[f] # "sell first" /\ at'[f] # "clear"
    BY <1>23 DEF BookAdjust
<1>24. ASSUME NEW s \in Suggests, ReadSuggestion(s)
      PROVE  /\ at'[f] # "reverse" /\ at'[f] # "decide"
                    /\ at'[f] # "sell first" /\ at'[f] # "clear"
    BY <1>24 DEF ReadSuggestion
<1>25. ASSUME NEW s \in Suggests, ArmSuggestion(s)
      PROVE  /\ at'[f] # "reverse" /\ at'[f] # "decide"
                    /\ at'[f] # "sell first" /\ at'[f] # "clear"
    BY <1>25 DEF ArmSuggestion
<1>26. ASSUME NEW t \in Threads, Interrupt(t)
      PROVE  /\ at'[f] # "reverse" /\ at'[f] # "decide"
                    /\ at'[f] # "sell first" /\ at'[f] # "clear"
    BY <1>26 DEF Interrupt
<1>27. CASE UNCHANGED vars
    BY <1>27 DEF vars, files, locals
<1> QED
    BY <1>1, <1>2, <1>3, <1>4, <1>5, <1>6, <1>7, <1>8, <1>9, <1>10, <1>11, <1>12, <1>13, <1>14,
       <1>15, <1>16, <1>17, <1>18, <1>19, <1>20, <1>21, <1>22, <1>23, <1>24, <1>25, <1>26,
       <1>27
    DEF Next, Entry, Exit, Adjust

(* Two entries never buy at once: each would hold the lock. *)
LEMMA FlatToBuyInductive ==
    Serialized /\ TypeOK /\ VersionInv /\ Ownership /\ [Next]_vars => FlatToBuy'
<1> SUFFICES ASSUME Serialized, TypeOK, VersionInv, Ownership, [Next]_vars, NEW f \in Entries,
                    at'[f] = "buy" \/ at'[f] = "open"
             PROVE  position' = None
    BY DEF FlatToBuy
<1>0. /\ \A e \in Entries : e # f => LockOf[e] = LockOf[f] /\ LockOf[f] # None
      /\ LockOf[f] \in Locks /\ Suggests = {}
      /\ \A e \in Entries : at[e] \in Routing => holder[LockOf[e]] = e
      /\ \A e \in Entries : at[e] # "clear"
      /\ at[f] = "buy" \/ at[f] = "open" => position = None
      /\ at \in [Threads -> Places]
    BY PaperAssumption, ThreadFacts DEF TypeOK, Serialized, OneByOne, Ownership, Compared,
                                   FlatToBuy, NoReversal, Inside
<1> USE <1>0, ThreadFacts DEF Goto, Leave, Return, Acquire, files, Routing
<1>1. ASSUME NEW e \in Entries, StartEntry(e)
      PROVE  position' = None
    BY <1>1 DEF StartEntry
<1>2. ASSUME NEW e \in Entries, RouteEntry(e)
      PROVE  position' = None
    BY <1>2 DEF RouteEntry
<1>3. ASSUME NEW e \in Entries, EvaluateEntry(e)
      PROVE  position' = None
    BY <1>3 DEF EvaluateEntry
<1>4. ASSUME NEW e \in Entries, EvaluateReversal(e)
      PROVE  position' = None
    BY <1>4 DEF EvaluateReversal
<1>5. ASSUME NEW e \in Entries, DecideReversal(e)
      PROVE  position' = None
    BY <1>5 DEF DecideReversal
<1>6. ASSUME NEW e \in Entries, ReversalSell(e)
      PROVE  position' = None
    BY <1>6 DEF ReversalSell
<1>7. ASSUME NEW e \in Entries, ReversalClear(e)
      PROVE  position' = None
    BY <1>7 DEF ReversalClear
<1>8. ASSUME NEW e \in Entries, Buy(e)
      PROVE  position' = None
    BY <1>8 DEF Buy
<1>9. ASSUME NEW e \in Entries, EntryRefused(e)
      PROVE  position' = None
    BY <1>9 DEF EntryRefused
<1>10. ASSUME NEW e \in Entries, OpenPosition(e)
      PROVE  position' = None
    BY <1>10 DEF OpenPosition
<1>11. ASSUME NEW x \in Exits, StartExit(x)
      PROVE  position' = None
    BY <1>11 DEF StartExit
<1>12. ASSUME NEW x \in Exits, MarkAttempt(x)
      PROVE  position' = None
    BY <1>12 DEF MarkAttempt
<1>13. ASSUME NEW x \in Exits, EvaluateExit(x)
      PROVE  position' = None
    BY <1>13 DEF EvaluateExit
<1>14. ASSUME NEW x \in Exits, Identify(x)
      PROVE  position' = None
    BY <1>14 DEF Identify
<1>15. ASSUME NEW x \in Exits, Claim(x)
      PROVE  position' = None
    BY <1>15 DEF Claim, MayClaim, Matches
<1>16. ASSUME NEW x \in Exits, Sell(x)
      PROVE  position' = None
    BY <1>16 DEF Sell
<1>17. ASSUME NEW x \in Exits, SellRefused(x)
      PROVE  position' = None
    BY <1>17 DEF SellRefused
<1>18. ASSUME NEW x \in Exits, Release(x)
      PROVE  position' = None
    BY <1>18 DEF Release, Owns
<1>19. ASSUME NEW x \in Exits, Complete(x)
      PROVE  position' = None
    BY <1>19 DEF Complete
<1>20. ASSUME NEW a \in Adjusts, StartAdjust(a)
      PROVE  position' = None
    BY <1>20 DEF StartAdjust
<1>21. ASSUME NEW a \in Adjusts, CheckLedger(a)
      PROVE  position' = None
    BY <1>21 DEF CheckLedger
<1>22. ASSUME NEW a \in Adjusts, PatchPosition(a)
      PROVE  position' = None
    BY <1>22 DEF PatchPosition, MayPatch, Matches
<1>23. ASSUME NEW a \in Adjusts, BookAdjust(a)
      PROVE  position' = None
    BY <1>23 DEF BookAdjust
<1>24. ASSUME NEW s \in Suggests, ReadSuggestion(s)
      PROVE  position' = None
    BY <1>24 DEF ReadSuggestion
<1>25. ASSUME NEW s \in Suggests, ArmSuggestion(s)
      PROVE  position' = None
    BY <1>25 DEF ArmSuggestion
<1>26. ASSUME NEW t \in Threads, Interrupt(t)
      PROVE  position' = None
    BY <1>26 DEF Interrupt
<1>27. CASE UNCHANGED vars
    BY <1>27 DEF vars, files, locals
<1> QED
    BY <1>1, <1>2, <1>3, <1>4, <1>5, <1>6, <1>7, <1>8, <1>9, <1>10, <1>11, <1>12, <1>13, <1>14,
       <1>15, <1>16, <1>17, <1>18, <1>19, <1>20, <1>21, <1>22, <1>23, <1>24, <1>25, <1>26,
       <1>27
    DEF Next, Entry, Exit, Adjust

(* Nobody takes the position from an exit that has claimed it. *)
LEMMA ClaimantInductive ==
    Serialized /\ TypeOK /\ VersionInv /\ Ownership /\ [Next]_vars => Claimant'
<1> SUFFICES ASSUME Serialized, TypeOK, VersionInv, Ownership, [Next]_vars, NEW y \in Exits,
                    at'[y] = "sell" \/ at'[y] = "release" \/ at'[y] = "complete"
             PROVE  position' # None /\ position'.claim = y
    BY DEF Claimant
<1>0. /\ position \in Positions \cup {None} /\ Suggests = {}
      /\ at[y] = "sell" \/ at[y] = "release" \/ at[y] = "complete" =>
            position # None /\ position.claim = y
      /\ \A e \in Entries : at[e] # "clear" /\ (at[e] = "open" => position = None)
      /\ at \in [Threads -> Places]
    BY PaperAssumption, ThreadFacts DEF TypeOK, Serialized, OneByOne, Ownership, Compared,
                                   Claimant, NoReversal, FlatToBuy, Positions
<1> USE <1>0, ThreadFacts DEF Goto, Leave, Return, Acquire, files
<1>1. ASSUME NEW e \in Entries, StartEntry(e)
      PROVE  position' # None /\ position'.claim = y
    BY <1>1 DEF StartEntry
<1>2. ASSUME NEW e \in Entries, RouteEntry(e)
      PROVE  position' # None /\ position'.claim = y
    BY <1>2 DEF RouteEntry
<1>3. ASSUME NEW e \in Entries, EvaluateEntry(e)
      PROVE  position' # None /\ position'.claim = y
    BY <1>3 DEF EvaluateEntry
<1>4. ASSUME NEW e \in Entries, EvaluateReversal(e)
      PROVE  position' # None /\ position'.claim = y
    BY <1>4 DEF EvaluateReversal
<1>5. ASSUME NEW e \in Entries, DecideReversal(e)
      PROVE  position' # None /\ position'.claim = y
    BY <1>5 DEF DecideReversal
<1>6. ASSUME NEW e \in Entries, ReversalSell(e)
      PROVE  position' # None /\ position'.claim = y
    BY <1>6 DEF ReversalSell
<1>7. ASSUME NEW e \in Entries, ReversalClear(e)
      PROVE  position' # None /\ position'.claim = y
    BY <1>7 DEF ReversalClear
<1>8. ASSUME NEW e \in Entries, Buy(e)
      PROVE  position' # None /\ position'.claim = y
    BY <1>8 DEF Buy
<1>9. ASSUME NEW e \in Entries, EntryRefused(e)
      PROVE  position' # None /\ position'.claim = y
    BY <1>9 DEF EntryRefused
<1>10. ASSUME NEW e \in Entries, OpenPosition(e)
      PROVE  position' # None /\ position'.claim = y
    BY <1>10 DEF OpenPosition
<1>11. ASSUME NEW x \in Exits, StartExit(x)
      PROVE  position' # None /\ position'.claim = y
    BY <1>11 DEF StartExit
<1>12. ASSUME NEW x \in Exits, MarkAttempt(x)
      PROVE  position' # None /\ position'.claim = y
    BY <1>12 DEF MarkAttempt
<1>13. ASSUME NEW x \in Exits, EvaluateExit(x)
      PROVE  position' # None /\ position'.claim = y
    BY <1>13 DEF EvaluateExit
<1>14. ASSUME NEW x \in Exits, Identify(x)
      PROVE  position' # None /\ position'.claim = y
    BY <1>14 DEF Identify
<1>15. ASSUME NEW x \in Exits, Claim(x)
      PROVE  position' # None /\ position'.claim = y
    BY <1>15, ClaimedFacts DEF Claim, MayClaim, Matches
<1>16. ASSUME NEW x \in Exits, Sell(x)
      PROVE  position' # None /\ position'.claim = y
    BY <1>16 DEF Sell
<1>17. ASSUME NEW x \in Exits, SellRefused(x)
      PROVE  position' # None /\ position'.claim = y
    BY <1>17 DEF SellRefused
<1>18. ASSUME NEW x \in Exits, Release(x)
      PROVE  position' # None /\ position'.claim = y
    BY <1>18 DEF Release, Owns
<1>19. ASSUME NEW x \in Exits, Complete(x)
      PROVE  position' # None /\ position'.claim = y
    BY <1>19 DEF Complete, Owns
<1>20. ASSUME NEW a \in Adjusts, StartAdjust(a)
      PROVE  position' # None /\ position'.claim = y
    BY <1>20 DEF StartAdjust
<1>21. ASSUME NEW a \in Adjusts, CheckLedger(a)
      PROVE  position' # None /\ position'.claim = y
    BY <1>21 DEF CheckLedger
<1>22. ASSUME NEW a \in Adjusts, PatchPosition(a)
      PROVE  position' # None /\ position'.claim = y
    BY <1>22, PatchStep DEF PatchPosition, MayPatch, Matches
<1>23. ASSUME NEW a \in Adjusts, BookAdjust(a)
      PROVE  position' # None /\ position'.claim = y
    BY <1>23 DEF BookAdjust
<1>24. ASSUME NEW s \in Suggests, ReadSuggestion(s)
      PROVE  position' # None /\ position'.claim = y
    BY <1>24 DEF ReadSuggestion
<1>25. ASSUME NEW s \in Suggests, ArmSuggestion(s)
      PROVE  position' # None /\ position'.claim = y
    BY <1>25 DEF ArmSuggestion
<1>26. ASSUME NEW t \in Threads, Interrupt(t)
      PROVE  position' # None /\ position'.claim = y
    BY <1>26 DEF Interrupt
<1>27. CASE UNCHANGED vars
    BY <1>27 DEF vars, files, locals
<1> QED
    BY <1>1, <1>2, <1>3, <1>4, <1>5, <1>6, <1>7, <1>8, <1>9, <1>10, <1>11, <1>12, <1>13, <1>14,
       <1>15, <1>16, <1>17, <1>18, <1>19, <1>20, <1>21, <1>22, <1>23, <1>24, <1>25, <1>26,
       <1>27
    DEF Next, Entry, Exit, Adjust

LEMMA SameTradeInductive ==
    Serialized /\ TypeOK /\ VersionInv /\ Ownership /\ [Next]_vars => SameTrade'
<1> SUFFICES ASSUME Serialized, TypeOK, VersionInv, Ownership, [Next]_vars,
                    position' # None, trade' # None
             PROVE  trade'.entry = position'.id
    BY DEF SameTrade
<1>0. /\ position \in Positions \cup {None} /\ trade \in Trades \cup {None} /\ Suggests = {}
      /\ \A e \in Entries : at[e] # "sell first" /\ (at[e] = "buy" => position = None)
      /\ position # None /\ trade # None => trade.entry = position.id
      /\ \A e \in Entries : at[e] = "open" /\ trade # None => trade.entry = e
    BY PaperAssumption, ThreadFacts DEF TypeOK, Serialized, OneByOne, Ownership, Compared,
                                   SameTrade, NoReversal, FlatToBuy, NextTrade, Positions
<1> USE <1>0, ThreadFacts DEF Goto, Leave, Return, Acquire, files, Trades
<1>1. ASSUME NEW e \in Entries, StartEntry(e)
      PROVE  trade'.entry = position'.id
    BY <1>1 DEF StartEntry
<1>2. ASSUME NEW e \in Entries, RouteEntry(e)
      PROVE  trade'.entry = position'.id
    BY <1>2 DEF RouteEntry
<1>3. ASSUME NEW e \in Entries, EvaluateEntry(e)
      PROVE  trade'.entry = position'.id
    BY <1>3 DEF EvaluateEntry
<1>4. ASSUME NEW e \in Entries, EvaluateReversal(e)
      PROVE  trade'.entry = position'.id
    BY <1>4 DEF EvaluateReversal
<1>5. ASSUME NEW e \in Entries, DecideReversal(e)
      PROVE  trade'.entry = position'.id
    BY <1>5 DEF DecideReversal
<1>6. ASSUME NEW e \in Entries, ReversalSell(e)
      PROVE  trade'.entry = position'.id
    BY <1>6 DEF ReversalSell
<1>7. ASSUME NEW e \in Entries, ReversalClear(e)
      PROVE  trade'.entry = position'.id
    BY <1>7 DEF ReversalClear
<1>8. ASSUME NEW e \in Entries, Buy(e)
      PROVE  trade'.entry = position'.id
    BY <1>8 DEF Buy, BookEntry
<1>9. ASSUME NEW e \in Entries, EntryRefused(e)
      PROVE  trade'.entry = position'.id
    BY <1>9 DEF EntryRefused
<1>10. ASSUME NEW e \in Entries, OpenPosition(e)
      PROVE  trade'.entry = position'.id
    BY <1>10 DEF OpenPosition
<1>11. ASSUME NEW x \in Exits, StartExit(x)
      PROVE  trade'.entry = position'.id
    BY <1>11 DEF StartExit
<1>12. ASSUME NEW x \in Exits, MarkAttempt(x)
      PROVE  trade'.entry = position'.id
    BY <1>12 DEF MarkAttempt
<1>13. ASSUME NEW x \in Exits, EvaluateExit(x)
      PROVE  trade'.entry = position'.id
    BY <1>13 DEF EvaluateExit
<1>14. ASSUME NEW x \in Exits, Identify(x)
      PROVE  trade'.entry = position'.id
    BY <1>14 DEF Identify
<1>15. ASSUME NEW x \in Exits, Claim(x)
      PROVE  trade'.entry = position'.id
    <2>1. position # None /\ trade' = trade
        BY <1>15 DEF Claim, MayClaim, Matches
    <2>2. Claimed(x).id = position.id
        BY <2>1, ClaimedFacts
    <2>3. position' = position \/ position' = Claimed(x)
        BY <1>15 DEF Claim
    <2> QED
        BY <2>1, <2>2, <2>3
<1>16. ASSUME NEW x \in Exits, Sell(x)
      PROVE  trade'.entry = position'.id
    BY <1>16 DEF Sell, BookExit
<1>17. ASSUME NEW x \in Exits, SellRefused(x)
      PROVE  trade'.entry = position'.id
    BY <1>17 DEF SellRefused
<1>18. ASSUME NEW x \in Exits, Release(x)
      PROVE  trade'.entry = position'.id
    BY <1>18, ReleasedFacts DEF Release, Owns
<1>19. ASSUME NEW x \in Exits, Complete(x)
      PROVE  trade'.entry = position'.id
    BY <1>19 DEF Complete, Owns
<1>20. ASSUME NEW a \in Adjusts, StartAdjust(a)
      PROVE  trade'.entry = position'.id
    BY <1>20 DEF StartAdjust
<1>21. ASSUME NEW a \in Adjusts, CheckLedger(a)
      PROVE  trade'.entry = position'.id
    BY <1>21 DEF CheckLedger
<1>22. ASSUME NEW a \in Adjusts, PatchPosition(a)
      PROVE  trade'.entry = position'.id
    BY <1>22, PatchStep DEF PatchPosition, MayPatch, Matches
<1>23. ASSUME NEW a \in Adjusts, BookAdjust(a)
      PROVE  trade'.entry = position'.id
    BY <1>23 DEF BookAdjust, BookChange
<1>24. ASSUME NEW s \in Suggests, ReadSuggestion(s)
      PROVE  trade'.entry = position'.id
    BY <1>24 DEF ReadSuggestion
<1>25. ASSUME NEW s \in Suggests, ArmSuggestion(s)
      PROVE  trade'.entry = position'.id
    BY <1>25 DEF ArmSuggestion
<1>26. ASSUME NEW t \in Threads, Interrupt(t)
      PROVE  trade'.entry = position'.id
    BY <1>26 DEF Interrupt
<1>27. CASE UNCHANGED vars
    BY <1>27 DEF vars, files, locals
<1> QED
    BY <1>1, <1>2, <1>3, <1>4, <1>5, <1>6, <1>7, <1>8, <1>9, <1>10, <1>11, <1>12, <1>13, <1>14,
       <1>15, <1>16, <1>17, <1>18, <1>19, <1>20, <1>21, <1>22, <1>23, <1>24, <1>25, <1>26,
       <1>27
    DEF Next, Entry, Exit, Adjust

LEMMA NextTradeInductive ==
    Serialized /\ TypeOK /\ VersionInv /\ Ownership /\ [Next]_vars => NextTrade'
<1> SUFFICES ASSUME Serialized, TypeOK, VersionInv, Ownership, [Next]_vars, NEW f \in Entries,
                    at'[f] = "open", trade' # None
             PROVE  trade'.entry = f
    BY DEF NextTrade
<1>0. /\ trade \in Trades \cup {None} /\ Suggests = {}
      /\ \A e \in Entries : e # f => LockOf[e] = LockOf[f] /\ LockOf[f] # None
      /\ \A e \in Entries : at[e] \in Routing => holder[LockOf[e]] = e
      /\ \A e \in Entries : at[e] # "sell first"
      /\ at[f] = "open" /\ trade # None => trade.entry = f
      /\ at \in [Threads -> Places]
    BY PaperAssumption, ThreadFacts DEF TypeOK, Serialized, OneByOne, Ownership, Compared,
                                   NextTrade, NoReversal, Inside
<1> USE <1>0, ThreadFacts DEF Goto, Leave, Return, Acquire, files, Routing, Trades
<1>1. ASSUME NEW e \in Entries, StartEntry(e)
      PROVE  trade'.entry = f
    BY <1>1 DEF StartEntry
<1>2. ASSUME NEW e \in Entries, RouteEntry(e)
      PROVE  trade'.entry = f
    BY <1>2 DEF RouteEntry
<1>3. ASSUME NEW e \in Entries, EvaluateEntry(e)
      PROVE  trade'.entry = f
    BY <1>3 DEF EvaluateEntry
<1>4. ASSUME NEW e \in Entries, EvaluateReversal(e)
      PROVE  trade'.entry = f
    BY <1>4 DEF EvaluateReversal
<1>5. ASSUME NEW e \in Entries, DecideReversal(e)
      PROVE  trade'.entry = f
    BY <1>5 DEF DecideReversal
<1>6. ASSUME NEW e \in Entries, ReversalSell(e)
      PROVE  trade'.entry = f
    BY <1>6 DEF ReversalSell
<1>7. ASSUME NEW e \in Entries, ReversalClear(e)
      PROVE  trade'.entry = f
    BY <1>7 DEF ReversalClear
<1>8. ASSUME NEW e \in Entries, Buy(e)
      PROVE  trade'.entry = f
    BY <1>8 DEF Buy, BookEntry
<1>9. ASSUME NEW e \in Entries, EntryRefused(e)
      PROVE  trade'.entry = f
    BY <1>9 DEF EntryRefused
<1>10. ASSUME NEW e \in Entries, OpenPosition(e)
      PROVE  trade'.entry = f
    BY <1>10 DEF OpenPosition
<1>11. ASSUME NEW x \in Exits, StartExit(x)
      PROVE  trade'.entry = f
    BY <1>11 DEF StartExit
<1>12. ASSUME NEW x \in Exits, MarkAttempt(x)
      PROVE  trade'.entry = f
    BY <1>12 DEF MarkAttempt
<1>13. ASSUME NEW x \in Exits, EvaluateExit(x)
      PROVE  trade'.entry = f
    BY <1>13 DEF EvaluateExit
<1>14. ASSUME NEW x \in Exits, Identify(x)
      PROVE  trade'.entry = f
    BY <1>14 DEF Identify
<1>15. ASSUME NEW x \in Exits, Claim(x)
      PROVE  trade'.entry = f
    BY <1>15 DEF Claim
<1>16. ASSUME NEW x \in Exits, Sell(x)
      PROVE  trade'.entry = f
    BY <1>16 DEF Sell, BookExit
<1>17. ASSUME NEW x \in Exits, SellRefused(x)
      PROVE  trade'.entry = f
    BY <1>17 DEF SellRefused
<1>18. ASSUME NEW x \in Exits, Release(x)
      PROVE  trade'.entry = f
    BY <1>18 DEF Release
<1>19. ASSUME NEW x \in Exits, Complete(x)
      PROVE  trade'.entry = f
    BY <1>19 DEF Complete
<1>20. ASSUME NEW a \in Adjusts, StartAdjust(a)
      PROVE  trade'.entry = f
    BY <1>20 DEF StartAdjust
<1>21. ASSUME NEW a \in Adjusts, CheckLedger(a)
      PROVE  trade'.entry = f
    BY <1>21 DEF CheckLedger
<1>22. ASSUME NEW a \in Adjusts, PatchPosition(a)
      PROVE  trade'.entry = f
    BY <1>22 DEF PatchPosition
<1>23. ASSUME NEW a \in Adjusts, BookAdjust(a)
      PROVE  trade'.entry = f
    BY <1>23 DEF BookAdjust, BookChange
<1>24. ASSUME NEW s \in Suggests, ReadSuggestion(s)
      PROVE  trade'.entry = f
    BY <1>24 DEF ReadSuggestion
<1>25. ASSUME NEW s \in Suggests, ArmSuggestion(s)
      PROVE  trade'.entry = f
    BY <1>25 DEF ArmSuggestion
<1>26. ASSUME NEW t \in Threads, Interrupt(t)
      PROVE  trade'.entry = f
    BY <1>26 DEF Interrupt
<1>27. CASE UNCHANGED vars
    BY <1>27 DEF vars, files, locals
<1> QED
    BY <1>1, <1>2, <1>3, <1>4, <1>5, <1>6, <1>7, <1>8, <1>9, <1>10, <1>11, <1>12, <1>13, <1>14,
       <1>15, <1>16, <1>17, <1>18, <1>19, <1>20, <1>21, <1>22, <1>23, <1>24, <1>25, <1>26,
       <1>27
    DEF Next, Entry, Exit, Adjust

(* While entries are routed one by one, ownership is preserved. *)
LEMMA OwnershipHolds == ASSUME Serialized PROVE Spec => [](TypeOK /\ VersionInv /\ Ownership)
<1>1. Init => Ownership
    BY ThreadFacts DEF Init, Ownership, Inside, Routing, SideKept, NoReversal, FlatToBuy,
                       Claimant, SameTrade, NextTrade
<1>2. TypeOK /\ VersionInv /\ Ownership /\ [Next]_vars => Ownership'
    BY Serialized, InsideInductive, SideKeptInductive, NoReversalInductive, FlatToBuyInductive,
       ClaimantInductive, SameTradeInductive, NextTradeInductive DEF Ownership
<1>3. Spec => [](TypeOK /\ VersionInv)
    BY Serialized, VersionsHold DEF Serialized
<1> QED
    BY <1>1, <1>2, <1>3, PTL DEF Spec

Undisturbed ==
    position # None /\ position.claim # None /\ at'[position.claim] = at[position.claim]
        => position' = position

LEMMA UndisturbedStep ==
    Serialized /\ TypeOK /\ VersionInv /\ Ownership /\ [Next]_vars => [Undisturbed]_vars
<1> SUFFICES ASSUME Serialized, TypeOK, VersionInv, Ownership, [Next]_vars,
                    position # None, position.claim # None,
                    at'[position.claim] = at[position.claim]
             PROVE  position' = position
    BY DEF Undisturbed
<1>0. /\ FlatToBuy /\ NoReversal /\ Suggests = {}
      /\ at \in [Threads -> Places]
    BY DEF TypeOK, Ownership, Serialized, Compared
<1> USE <1>0, ThreadFacts DEF FlatToBuy, NoReversal, Goto, Leave, Return, Acquire, files
<1>1. ASSUME NEW e \in Entries, StartEntry(e)
      PROVE  position' = position
    BY <1>1 DEF StartEntry
<1>2. ASSUME NEW e \in Entries, RouteEntry(e)
      PROVE  position' = position
    BY <1>2 DEF RouteEntry
<1>3. ASSUME NEW e \in Entries, EvaluateEntry(e)
      PROVE  position' = position
    BY <1>3 DEF EvaluateEntry
<1>4. ASSUME NEW e \in Entries, EvaluateReversal(e)
      PROVE  position' = position
    BY <1>4 DEF EvaluateReversal
<1>5. ASSUME NEW e \in Entries, DecideReversal(e)
      PROVE  position' = position
    BY <1>5 DEF DecideReversal
<1>6. ASSUME NEW e \in Entries, ReversalSell(e)
      PROVE  position' = position
    BY <1>6 DEF ReversalSell
<1>7. ASSUME NEW e \in Entries, ReversalClear(e)
      PROVE  position' = position
    BY <1>7 DEF ReversalClear
<1>8. ASSUME NEW e \in Entries, Buy(e)
      PROVE  position' = position
    BY <1>8 DEF Buy
<1>9. ASSUME NEW e \in Entries, EntryRefused(e)
      PROVE  position' = position
    BY <1>9 DEF EntryRefused
<1>10. ASSUME NEW e \in Entries, OpenPosition(e)
      PROVE  position' = position
    BY <1>10 DEF OpenPosition
<1>11. ASSUME NEW x \in Exits, StartExit(x)
      PROVE  position' = position
    BY <1>11 DEF StartExit
<1>12. ASSUME NEW x \in Exits, MarkAttempt(x)
      PROVE  position' = position
    BY <1>12 DEF MarkAttempt
<1>13. ASSUME NEW x \in Exits, EvaluateExit(x)
      PROVE  position' = position
    BY <1>13 DEF EvaluateExit
<1>14. ASSUME NEW x \in Exits, Identify(x)
      PROVE  position' = position
    BY <1>14 DEF Identify
<1>15. ASSUME NEW x \in Exits, Claim(x)
      PROVE  position' = position
    BY <1>15 DEF Claim, MayClaim, Matches
<1>16. ASSUME NEW x \in Exits, Sell(x)
      PROVE  position' = position
    BY <1>16 DEF Sell
<1>17. ASSUME NEW x \in Exits, SellRefused(x)
      PROVE  position' = position
    BY <1>17 DEF SellRefused
<1>18. ASSUME NEW x \in Exits, Release(x)
      PROVE  position' = position
    BY <1>18 DEF Release, Owns
<1>19. ASSUME NEW x \in Exits, Complete(x)
      PROVE  position' = position
    BY <1>19 DEF Complete, Owns
<1>20. ASSUME NEW a \in Adjusts, StartAdjust(a)
      PROVE  position' = position
    BY <1>20 DEF StartAdjust
<1>21. ASSUME NEW a \in Adjusts, CheckLedger(a)
      PROVE  position' = position
    BY <1>21 DEF CheckLedger
<1>22. ASSUME NEW a \in Adjusts, PatchPosition(a)
      PROVE  position' = position
    BY <1>22 DEF PatchPosition, MayPatch, Matches
<1>23. ASSUME NEW a \in Adjusts, BookAdjust(a)
      PROVE  position' = position
    BY <1>23 DEF BookAdjust
<1>24. ASSUME NEW s \in Suggests, ReadSuggestion(s)
      PROVE  position' = position
    BY <1>24 DEF ReadSuggestion
<1>25. ASSUME NEW s \in Suggests, ArmSuggestion(s)
      PROVE  position' = position
    BY <1>25 DEF ArmSuggestion
<1>26. ASSUME NEW t \in Threads, Interrupt(t)
      PROVE  position' = position
    BY <1>26 DEF Interrupt
<1>27. CASE UNCHANGED vars
    BY <1>27 DEF vars, files, locals
<1> QED
    BY <1>1, <1>2, <1>3, <1>4, <1>5, <1>6, <1>7, <1>8, <1>9, <1>10, <1>11, <1>12, <1>13, <1>14,
       <1>15, <1>16, <1>17, <1>18, <1>19, <1>20, <1>21, <1>22, <1>23, <1>24, <1>25, <1>26,
       <1>27
    DEF Next, Entry, Exit, Adjust

(* Once claimed, a position is changed by the exit that claimed it only
   (state_store: "only the matching operation may complete the position"):
   every other writer sees the claim or is kept out by the lock. *)
THEOREM ClaimsHold == ASSUME Serialized PROVE Spec => ClaimHeld
<1>1. Spec => [][Undisturbed]_vars
    BY OwnershipHolds, UndisturbedStep, Serialized, PTL DEF Spec
<1> QED
    BY <1>1 DEF ClaimHeld, Undisturbed

OwnSale ==
    \A x \in Exits : at[x] = "sell" /\ at'[x] = "complete" =>
        position # None /\ position.claim = x /\ position.id = trade.entry

LEMMA OwnSaleStep ==
    Serialized /\ TypeOK /\ VersionInv /\ Ownership /\ [Next]_vars => [OwnSale]_vars
<1> SUFFICES ASSUME TypeOK, VersionInv, Ownership, [Next]_vars,
                    NEW y \in Exits, at[y] = "sell", at'[y] = "complete"
             PROVE  position # None /\ position.claim = y /\ position.id = trade.entry
    BY DEF OwnSale
<1>1. position # None /\ position.claim = y
    BY DEF Ownership, Claimant
<1>2. trade # None
    <2>0. at \in [Threads -> Places]
        BY DEF TypeOK
    <2> USE <2>0, ThreadFacts DEF Goto, Leave, Return, Acquire, files
    <2>1. ASSUME NEW e \in Entries, StartEntry(e)
          PROVE  trade # None
        BY <2>1 DEF StartEntry
    <2>2. ASSUME NEW e \in Entries, RouteEntry(e)
          PROVE  trade # None
        BY <2>2 DEF RouteEntry
    <2>3. ASSUME NEW e \in Entries, EvaluateEntry(e)
          PROVE  trade # None
        BY <2>3 DEF EvaluateEntry
    <2>4. ASSUME NEW e \in Entries, EvaluateReversal(e)
          PROVE  trade # None
        BY <2>4 DEF EvaluateReversal
    <2>5. ASSUME NEW e \in Entries, DecideReversal(e)
          PROVE  trade # None
        BY <2>5 DEF DecideReversal
    <2>6. ASSUME NEW e \in Entries, ReversalSell(e)
          PROVE  trade # None
        BY <2>6 DEF ReversalSell
    <2>7. ASSUME NEW e \in Entries, ReversalClear(e)
          PROVE  trade # None
        BY <2>7 DEF ReversalClear
    <2>8. ASSUME NEW e \in Entries, Buy(e)
          PROVE  trade # None
        BY <2>8 DEF Buy
    <2>9. ASSUME NEW e \in Entries, EntryRefused(e)
          PROVE  trade # None
        BY <2>9 DEF EntryRefused
    <2>10. ASSUME NEW e \in Entries, OpenPosition(e)
          PROVE  trade # None
        BY <2>10 DEF OpenPosition
    <2>11. ASSUME NEW x \in Exits, StartExit(x)
          PROVE  trade # None
        BY <2>11 DEF StartExit
    <2>12. ASSUME NEW x \in Exits, MarkAttempt(x)
          PROVE  trade # None
        BY <2>12 DEF MarkAttempt
    <2>13. ASSUME NEW x \in Exits, EvaluateExit(x)
          PROVE  trade # None
        BY <2>13 DEF EvaluateExit
    <2>14. ASSUME NEW x \in Exits, Identify(x)
          PROVE  trade # None
        BY <2>14 DEF Identify
    <2>15. ASSUME NEW x \in Exits, Claim(x)
          PROVE  trade # None
        BY <2>15 DEF Claim
    <2>16. ASSUME NEW x \in Exits, Sell(x)
          PROVE  trade # None
        BY <2>16 DEF Sell, BookExit, MatchingTrade
    <2>17. ASSUME NEW x \in Exits, SellRefused(x)
          PROVE  trade # None
        BY <2>17 DEF SellRefused
    <2>18. ASSUME NEW x \in Exits, Release(x)
          PROVE  trade # None
        BY <2>18 DEF Release
    <2>19. ASSUME NEW x \in Exits, Complete(x)
          PROVE  trade # None
        BY <2>19 DEF Complete
    <2>20. ASSUME NEW a \in Adjusts, StartAdjust(a)
          PROVE  trade # None
        BY <2>20 DEF StartAdjust
    <2>21. ASSUME NEW a \in Adjusts, CheckLedger(a)
          PROVE  trade # None
        BY <2>21 DEF CheckLedger
    <2>22. ASSUME NEW a \in Adjusts, PatchPosition(a)
          PROVE  trade # None
        BY <2>22 DEF PatchPosition
    <2>23. ASSUME NEW a \in Adjusts, BookAdjust(a)
          PROVE  trade # None
        BY <2>23 DEF BookAdjust
    <2>24. ASSUME NEW s \in Suggests, ReadSuggestion(s)
          PROVE  trade # None
        BY <2>24 DEF ReadSuggestion
    <2>25. ASSUME NEW s \in Suggests, ArmSuggestion(s)
          PROVE  trade # None
        BY <2>25 DEF ArmSuggestion
    <2>26. ASSUME NEW t \in Threads, Interrupt(t)
          PROVE  trade # None
        BY <2>26 DEF Interrupt
    <2>27. CASE UNCHANGED vars
        BY <2>27 DEF vars, files, locals
    <2> QED
        BY <2>1, <2>2, <2>3, <2>4, <2>5, <2>6, <2>7, <2>8, <2>9, <2>10, <2>11, <2>12, <2>13, <2>14,
           <2>15, <2>16, <2>17, <2>18, <2>19, <2>20, <2>21, <2>22, <2>23, <2>24, <2>25, <2>26,
           <2>27
        DEF Next, Entry, Exit, Adjust
<1> QED
    BY <1>1, <1>2 DEF Ownership, SameTrade

(* A SELL is booked by the exit that owns the position, on the trade of that
   position: two exits never sell it twice. *)
THEOREM SalesOwned == ASSUME Serialized PROVE Spec => SellsWhatItClaimed
<1>1. Spec => [][OwnSale]_vars
    BY OwnershipHolds, OwnSaleStep, Serialized, PTL DEF Spec
<1> QED
    BY <1>1 DEF SellsWhatItClaimed, OwnSale

-----------------------------------------------------------------------------
\* No thread has died.
Alive == \A t \in Threads : at[t] # "lost"

\* While nobody dies the ledger holds a trade from the buy to the sale only.
BuysFlat == \A e \in Entries : at[e] = "buy" => trade = None
SoldOut == \A x \in Exits : at[x] = "complete" => trade = None
TradeTracked ==
    position = None /\ trade # None => \E e \in Entries : at[e] = "open"

Booked == BuysFlat /\ SoldOut /\ TradeTracked

LEMMA BuysFlatInductive ==
    Serialized /\ TypeOK /\ VersionInv /\ Ownership /\ BuysFlat /\ TradeTracked /\ [Next]_vars
        => BuysFlat'
<1> SUFFICES ASSUME Serialized, TypeOK, VersionInv, Ownership, BuysFlat, TradeTracked,
                    [Next]_vars, NEW f \in Entries, at'[f] = "buy"
             PROVE  trade' = None
    BY DEF BuysFlat
<1>0. /\ Suggests = {} /\ LockOf[f] \in Locks /\ LockOf[f] # None
      /\ \A e \in Entries : LockOf[e] = LockOf[f]
      /\ \A e \in Entries : at[e] \in Routing => holder[LockOf[e]] = e
      /\ \A e \in Entries : at[e] # "sell first" /\ at[e] # "clear"
      /\ position = None /\ trade # None => \E e \in Entries : at[e] = "open"
      /\ at[f] = "buy" => trade = None
      /\ at \in [Threads -> Places]
    BY PaperAssumption, ThreadFacts DEF TypeOK, Serialized, OneByOne, Ownership, Compared,
                                   BuysFlat, TradeTracked, NoReversal, Inside
<1> USE <1>0, ThreadFacts DEF Goto, Leave, Return, Acquire, files, Routing
<1>1. ASSUME NEW e \in Entries, StartEntry(e)
      PROVE  trade' = None
    BY <1>1 DEF StartEntry
<1>2. ASSUME NEW e \in Entries, RouteEntry(e)
      PROVE  trade' = None
    BY <1>2 DEF RouteEntry
<1>3. ASSUME NEW e \in Entries, EvaluateEntry(e)
      PROVE  trade' = None
    BY <1>3 DEF EvaluateEntry
<1>4. ASSUME NEW e \in Entries, EvaluateReversal(e)
      PROVE  trade' = None
    BY <1>4 DEF EvaluateReversal
<1>5. ASSUME NEW e \in Entries, DecideReversal(e)
      PROVE  trade' = None
    BY <1>5 DEF DecideReversal
<1>6. ASSUME NEW e \in Entries, ReversalSell(e)
      PROVE  trade' = None
    BY <1>6 DEF ReversalSell
<1>7. ASSUME NEW e \in Entries, ReversalClear(e)
      PROVE  trade' = None
    BY <1>7 DEF ReversalClear
<1>8. ASSUME NEW e \in Entries, Buy(e)
      PROVE  trade' = None
    BY <1>8 DEF Buy, BookEntry
<1>9. ASSUME NEW e \in Entries, EntryRefused(e)
      PROVE  trade' = None
    BY <1>9 DEF EntryRefused
<1>10. ASSUME NEW e \in Entries, OpenPosition(e)
      PROVE  trade' = None
    BY <1>10 DEF OpenPosition
<1>11. ASSUME NEW x \in Exits, StartExit(x)
      PROVE  trade' = None
    BY <1>11 DEF StartExit
<1>12. ASSUME NEW x \in Exits, MarkAttempt(x)
      PROVE  trade' = None
    BY <1>12 DEF MarkAttempt
<1>13. ASSUME NEW x \in Exits, EvaluateExit(x)
      PROVE  trade' = None
    BY <1>13 DEF EvaluateExit
<1>14. ASSUME NEW x \in Exits, Identify(x)
      PROVE  trade' = None
    BY <1>14 DEF Identify
<1>15. ASSUME NEW x \in Exits, Claim(x)
      PROVE  trade' = None
    BY <1>15 DEF Claim
<1>16. ASSUME NEW x \in Exits, Sell(x)
      PROVE  trade' = None
    BY <1>16 DEF Sell, BookExit
<1>17. ASSUME NEW x \in Exits, SellRefused(x)
      PROVE  trade' = None
    BY <1>17 DEF SellRefused
<1>18. ASSUME NEW x \in Exits, Release(x)
      PROVE  trade' = None
    BY <1>18 DEF Release
<1>19. ASSUME NEW x \in Exits, Complete(x)
      PROVE  trade' = None
    BY <1>19 DEF Complete
<1>20. ASSUME NEW a \in Adjusts, StartAdjust(a)
      PROVE  trade' = None
    BY <1>20 DEF StartAdjust
<1>21. ASSUME NEW a \in Adjusts, CheckLedger(a)
      PROVE  trade' = None
    BY <1>21 DEF CheckLedger
<1>22. ASSUME NEW a \in Adjusts, PatchPosition(a)
      PROVE  trade' = None
    BY <1>22 DEF PatchPosition
<1>23. ASSUME NEW a \in Adjusts, BookAdjust(a)
      PROVE  trade' = None
    BY <1>23 DEF BookAdjust, BookChange
<1>24. ASSUME NEW s \in Suggests, ReadSuggestion(s)
      PROVE  trade' = None
    BY <1>24 DEF ReadSuggestion
<1>25. ASSUME NEW s \in Suggests, ArmSuggestion(s)
      PROVE  trade' = None
    BY <1>25 DEF ArmSuggestion
<1>26. ASSUME NEW t \in Threads, Interrupt(t)
      PROVE  trade' = None
    BY <1>26 DEF Interrupt
<1>27. CASE UNCHANGED vars
    BY <1>27 DEF vars, files, locals
<1> QED
    BY <1>1, <1>2, <1>3, <1>4, <1>5, <1>6, <1>7, <1>8, <1>9, <1>10, <1>11, <1>12, <1>13, <1>14,
       <1>15, <1>16, <1>17, <1>18, <1>19, <1>20, <1>21, <1>22, <1>23, <1>24, <1>25, <1>26,
       <1>27
    DEF Next, Entry, Exit, Adjust

LEMMA SoldOutInductive ==
    Serialized /\ TypeOK /\ VersionInv /\ Ownership /\ SoldOut /\ [Next]_vars
        => SoldOut'
<1> SUFFICES ASSUME Serialized, TypeOK, VersionInv, Ownership, SoldOut,
                    [Next]_vars, NEW y \in Exits, at'[y] = "complete"
             PROVE  trade' = None
    BY DEF SoldOut
<1>0. /\ Suggests = {}
      /\ \A e \in Entries : at[e] # "sell first" /\ (at[e] = "buy" => position = None)
      /\ at[y] = "complete" => position # None /\ trade = None
      /\ at \in [Threads -> Places]
    BY PaperAssumption, ThreadFacts DEF TypeOK, Serialized, OneByOne, Ownership, Compared,
                                   SoldOut, NoReversal, FlatToBuy, Claimant
<1> USE <1>0, ThreadFacts DEF Goto, Leave, Return, Acquire, files
<1>1. ASSUME NEW e \in Entries, StartEntry(e)
      PROVE  trade' = None
    BY <1>1 DEF StartEntry
<1>2. ASSUME NEW e \in Entries, RouteEntry(e)
      PROVE  trade' = None
    BY <1>2 DEF RouteEntry
<1>3. ASSUME NEW e \in Entries, EvaluateEntry(e)
      PROVE  trade' = None
    BY <1>3 DEF EvaluateEntry
<1>4. ASSUME NEW e \in Entries, EvaluateReversal(e)
      PROVE  trade' = None
    BY <1>4 DEF EvaluateReversal
<1>5. ASSUME NEW e \in Entries, DecideReversal(e)
      PROVE  trade' = None
    BY <1>5 DEF DecideReversal
<1>6. ASSUME NEW e \in Entries, ReversalSell(e)
      PROVE  trade' = None
    BY <1>6 DEF ReversalSell
<1>7. ASSUME NEW e \in Entries, ReversalClear(e)
      PROVE  trade' = None
    BY <1>7 DEF ReversalClear
<1>8. ASSUME NEW e \in Entries, Buy(e)
      PROVE  trade' = None
    BY <1>8 DEF Buy, BookEntry
<1>9. ASSUME NEW e \in Entries, EntryRefused(e)
      PROVE  trade' = None
    BY <1>9 DEF EntryRefused
<1>10. ASSUME NEW e \in Entries, OpenPosition(e)
      PROVE  trade' = None
    BY <1>10 DEF OpenPosition
<1>11. ASSUME NEW x \in Exits, StartExit(x)
      PROVE  trade' = None
    BY <1>11 DEF StartExit
<1>12. ASSUME NEW x \in Exits, MarkAttempt(x)
      PROVE  trade' = None
    BY <1>12 DEF MarkAttempt
<1>13. ASSUME NEW x \in Exits, EvaluateExit(x)
      PROVE  trade' = None
    BY <1>13 DEF EvaluateExit
<1>14. ASSUME NEW x \in Exits, Identify(x)
      PROVE  trade' = None
    BY <1>14 DEF Identify
<1>15. ASSUME NEW x \in Exits, Claim(x)
      PROVE  trade' = None
    BY <1>15 DEF Claim
<1>16. ASSUME NEW x \in Exits, Sell(x)
      PROVE  trade' = None
    BY <1>16 DEF Sell, BookExit
<1>17. ASSUME NEW x \in Exits, SellRefused(x)
      PROVE  trade' = None
    BY <1>17 DEF SellRefused
<1>18. ASSUME NEW x \in Exits, Release(x)
      PROVE  trade' = None
    BY <1>18 DEF Release
<1>19. ASSUME NEW x \in Exits, Complete(x)
      PROVE  trade' = None
    BY <1>19 DEF Complete
<1>20. ASSUME NEW a \in Adjusts, StartAdjust(a)
      PROVE  trade' = None
    BY <1>20 DEF StartAdjust
<1>21. ASSUME NEW a \in Adjusts, CheckLedger(a)
      PROVE  trade' = None
    BY <1>21 DEF CheckLedger
<1>22. ASSUME NEW a \in Adjusts, PatchPosition(a)
      PROVE  trade' = None
    BY <1>22 DEF PatchPosition
<1>23. ASSUME NEW a \in Adjusts, BookAdjust(a)
      PROVE  trade' = None
    BY <1>23 DEF BookAdjust, BookChange
<1>24. ASSUME NEW s \in Suggests, ReadSuggestion(s)
      PROVE  trade' = None
    BY <1>24 DEF ReadSuggestion
<1>25. ASSUME NEW s \in Suggests, ArmSuggestion(s)
      PROVE  trade' = None
    BY <1>25 DEF ArmSuggestion
<1>26. ASSUME NEW t \in Threads, Interrupt(t)
      PROVE  trade' = None
    BY <1>26 DEF Interrupt
<1>27. CASE UNCHANGED vars
    BY <1>27 DEF vars, files, locals
<1> QED
    BY <1>1, <1>2, <1>3, <1>4, <1>5, <1>6, <1>7, <1>8, <1>9, <1>10, <1>11, <1>12, <1>13, <1>14,
       <1>15, <1>16, <1>17, <1>18, <1>19, <1>20, <1>21, <1>22, <1>23, <1>24, <1>25, <1>26,
       <1>27
    DEF Next, Entry, Exit, Adjust

LEMMA Opened ==
    ASSUME NEW e \in Entries
    PROVE  [id |-> e, side |-> Side[e], version |-> 1, lots |-> Lots[e], claim |-> None]
               \in Positions
BY PaperAssumption DEF Positions

LEMMA TradeTrackedInductive ==
    ASSUME Serialized, TypeOK, VersionInv, Ownership, SoldOut, TradeTracked, [Next]_vars,
           Alive' \/ MaxFaults = 0
    PROVE  TradeTracked'
<1> SUFFICES ASSUME position' = None, trade' # None
             PROVE  \E f \in Entries : at'[f] = "open"
    BY DEF TradeTracked
<1>0. /\ Suggests = {} /\ position \in Positions \cup {None} /\ trade \in Trades \cup {None}
      /\ faults \in Nat
      /\ \A e \in Entries : at[e] # "sell first" /\ at[e] # "clear"
      /\ position = None /\ trade # None => \E e \in Entries : at[e] = "open"
      /\ \A x \in Exits : at[x] = "complete" => trade = None
      /\ at \in [Threads -> Places]
    BY PaperAssumption, ThreadFacts DEF TypeOK, Serialized, OneByOne, Ownership, Compared,
                                   TradeTracked, NoReversal, SoldOut, Positions
<1> USE <1>0, ThreadFacts DEF Goto, Leave, Return, Acquire, files
<1>1. ASSUME NEW e \in Entries, StartEntry(e)
      PROVE  \E f \in Entries : at'[f] = "open"
    BY <1>1 DEF StartEntry
<1>2. ASSUME NEW e \in Entries, RouteEntry(e)
      PROVE  \E f \in Entries : at'[f] = "open"
    BY <1>2 DEF RouteEntry
<1>3. ASSUME NEW e \in Entries, EvaluateEntry(e)
      PROVE  \E f \in Entries : at'[f] = "open"
    BY <1>3 DEF EvaluateEntry
<1>4. ASSUME NEW e \in Entries, EvaluateReversal(e)
      PROVE  \E f \in Entries : at'[f] = "open"
    BY <1>4 DEF EvaluateReversal
<1>5. ASSUME NEW e \in Entries, DecideReversal(e)
      PROVE  \E f \in Entries : at'[f] = "open"
    BY <1>5 DEF DecideReversal
<1>6. ASSUME NEW e \in Entries, ReversalSell(e)
      PROVE  \E f \in Entries : at'[f] = "open"
    BY <1>6 DEF ReversalSell
<1>7. ASSUME NEW e \in Entries, ReversalClear(e)
      PROVE  \E f \in Entries : at'[f] = "open"
    BY <1>7 DEF ReversalClear
<1>8. ASSUME NEW e \in Entries, Buy(e)
      PROVE  \E f \in Entries : at'[f] = "open"
    BY <1>8 DEF Buy, BookEntry
<1>9. ASSUME NEW e \in Entries, EntryRefused(e)
      PROVE  \E f \in Entries : at'[f] = "open"
    BY <1>9 DEF EntryRefused
<1>10. ASSUME NEW e \in Entries, OpenPosition(e)
      PROVE  \E f \in Entries : at'[f] = "open"
    <2>1. position' \in Positions
        BY <1>10, Opened DEF OpenPosition
    <2> QED
        BY <2>1
<1>11. ASSUME NEW x \in Exits, StartExit(x)
      PROVE  \E f \in Entries : at'[f] = "open"
    BY <1>11 DEF StartExit
<1>12. ASSUME NEW x \in Exits, MarkAttempt(x)
      PROVE  \E f \in Entries : at'[f] = "open"
    BY <1>12 DEF MarkAttempt
<1>13. ASSUME NEW x \in Exits, EvaluateExit(x)
      PROVE  \E f \in Entries : at'[f] = "open"
    BY <1>13 DEF EvaluateExit
<1>14. ASSUME NEW x \in Exits, Identify(x)
      PROVE  \E f \in Entries : at'[f] = "open"
    BY <1>14 DEF Identify
<1>15. ASSUME NEW x \in Exits, Claim(x)
      PROVE  \E f \in Entries : at'[f] = "open"
    BY <1>15, ClaimedFacts DEF Claim, MayClaim, Matches
<1>16. ASSUME NEW x \in Exits, Sell(x)
      PROVE  \E f \in Entries : at'[f] = "open"
    BY <1>16 DEF Sell, BookExit
<1>17. ASSUME NEW x \in Exits, SellRefused(x)
      PROVE  \E f \in Entries : at'[f] = "open"
    BY <1>17 DEF SellRefused
<1>18. ASSUME NEW x \in Exits, Release(x)
      PROVE  \E f \in Entries : at'[f] = "open"
    BY <1>18, ReleasedFacts DEF Release, Owns
<1>19. ASSUME NEW x \in Exits, Complete(x)
      PROVE  \E f \in Entries : at'[f] = "open"
    BY <1>19 DEF Complete, Owns
<1>20. ASSUME NEW a \in Adjusts, StartAdjust(a)
      PROVE  \E f \in Entries : at'[f] = "open"
    BY <1>20 DEF StartAdjust
<1>21. ASSUME NEW a \in Adjusts, CheckLedger(a)
      PROVE  \E f \in Entries : at'[f] = "open"
    BY <1>21 DEF CheckLedger
<1>22. ASSUME NEW a \in Adjusts, PatchPosition(a)
      PROVE  \E f \in Entries : at'[f] = "open"
    BY <1>22, PatchStep DEF PatchPosition
<1>23. ASSUME NEW a \in Adjusts, BookAdjust(a)
      PROVE  \E f \in Entries : at'[f] = "open"
    BY <1>23 DEF BookAdjust, BookChange
<1>24. ASSUME NEW s \in Suggests, ReadSuggestion(s)
      PROVE  \E f \in Entries : at'[f] = "open"
    BY <1>24 DEF ReadSuggestion
<1>25. ASSUME NEW s \in Suggests, ArmSuggestion(s)
      PROVE  \E f \in Entries : at'[f] = "open"
    BY <1>25 DEF ArmSuggestion
<1>26. ASSUME NEW t \in Threads, Interrupt(t)
      PROVE  \E f \in Entries : at'[f] = "open"
    <2>1. faults < MaxFaults
        BY <1>26 DEF Interrupt
    <2>2. faults \in Nat
        BY DEF TypeOK
    <2>3. t \in Threads /\ at'[t] = "lost"
        BY <1>26 DEF Interrupt
    <2> QED
        BY ONLY <2>1, <2>2, <2>3, Alive' \/ MaxFaults = 0 DEF Alive
<1>27. CASE UNCHANGED vars
    BY <1>27 DEF vars, files, locals
<1> QED
    BY <1>1, <1>2, <1>3, <1>4, <1>5, <1>6, <1>7, <1>8, <1>9, <1>10, <1>11, <1>12, <1>13, <1>14,
       <1>15, <1>16, <1>17, <1>18, <1>19, <1>20, <1>21, <1>22, <1>23, <1>24, <1>25, <1>26,
       <1>27
    DEF Next, Entry, Exit, Adjust

LEMMA Added ==
    ASSUME NEW g \in [Entries -> Nat], NEW h, NEW e \in Entries, NEW n \in Int,
           h = [g EXCEPT ![e] = @ + n]
    PROVE  \A f \in Entries : (e = f => h[f] = g[f] + n) /\ (e # f => h[f] = g[f])
OBVIOUS

LEMMA Taken ==
    ASSUME NEW g \in [Entries -> Nat], NEW h, NEW e \in Entries, NEW n \in Int,
           h = [g EXCEPT ![e] = @ - n]
    PROVE  \A f \in Entries : (e = f => h[f] = g[f] - n) /\ (e # f => h[f] = g[f])
OBVIOUS

LEMMA Resized ==
    ASSUME NEW t \in Trades, NEW u, NEW n \in Int, t.lots + n > 0,
           u = [t EXCEPT !.lots = @ + n]
    PROVE  u # None /\ u.entry = t.entry /\ u.lots = t.lots + n
<1>1. u \in Trades /\ u.entry = t.entry /\ u.lots = t.lots + n
    BY DEF Trades
<1> QED
    BY <1>1, PaperAssumption

LEMMA TradeFacts == \A t \in Trades : t.entry \in Entries /\ t.lots \in Nat
BY DEF Trades

LEMMA NewTrade ==
    ASSUME NEW e \in Entries
    PROVE  /\ [entry |-> e, lots |-> Lots[e]] \in Trades /\ Lots[e] \in Int
           /\ [entry |-> e, lots |-> Lots[e]] # None
BY PaperAssumption DEF Trades

\* LotsConserved, case by case.
Balance(e) ==
    /\ trade # None /\ trade.entry = e => bought[e] = sold[e] + trade.lots
    /\ trade = None \/ trade.entry # e => bought[e] = sold[e]

LEMMA Balances ==
    ASSUME TypeOK PROVE LotsConserved <=> \A e \in Entries : Balance(e)
<1>1. \A e \in Entries : sold[e] \in Nat
    BY DEF TypeOK
<1> QED
    BY <1>1 DEF LotsConserved, Balance

LEMMA BalanceInductive ==
    Serialized /\ TypeOK /\ VersionInv /\ Ownership /\ Booked /\ [Next]_vars
        => \A e \in Entries : Balance(e) => Balance(e)'
<1> SUFFICES ASSUME Serialized, TypeOK, VersionInv, Ownership, Booked,
                    [Next]_vars, NEW f \in Entries, Balance(f)
             PROVE  Balance(f)'
    OBVIOUS
<1>a. trade # None => trade \in Trades /\ trade.entry \in Entries /\ trade.lots \in Nat
    BY TradeFacts DEF TypeOK
<1>b. bought \in [Entries -> Nat] /\ sold \in [Entries -> Nat]
    BY DEF TypeOK
<1>c. \A e \in Entries : at[e] # "sell first" /\ (at[e] = "buy" => trade = None)
    BY DEF Ownership, NoReversal, Booked, BuysFlat
<1>d. Suggests = {}
    BY DEF Serialized, Compared
<1>e. bought[f] \in Nat /\ sold[f] \in Nat
    BY <1>b
<1> USE <1>c, <1>d DEF Balance, files
<1>1. ASSUME NEW e \in Entries, StartEntry(e)
      PROVE  Balance(f)'
    BY <1>1 DEF StartEntry
<1>2. ASSUME NEW e \in Entries, RouteEntry(e)
      PROVE  Balance(f)'
    BY <1>2 DEF RouteEntry
<1>3. ASSUME NEW e \in Entries, EvaluateEntry(e)
      PROVE  Balance(f)'
    BY <1>3 DEF EvaluateEntry
<1>4. ASSUME NEW e \in Entries, EvaluateReversal(e)
      PROVE  Balance(f)'
    BY <1>4 DEF EvaluateReversal
<1>5. ASSUME NEW e \in Entries, DecideReversal(e)
      PROVE  Balance(f)'
    BY <1>5 DEF DecideReversal
<1>6. ASSUME NEW e \in Entries, ReversalSell(e)
      PROVE  Balance(f)'
    BY <1>6 DEF ReversalSell
<1>7. ASSUME NEW e \in Entries, ReversalClear(e)
      PROVE  Balance(f)'
    BY <1>7 DEF ReversalClear
<1>8. ASSUME NEW e \in Entries, Buy(e)
      PROVE  Balance(f)'
    <2>1. trade = None /\ sold' = sold
        BY ONLY <1>c, <1>8 DEF Buy, BookEntry
    <2>2. trade' = [entry |-> e, lots |-> Lots[e]] /\ bought' = [bought EXCEPT ![e] = @ + Lots[e]]
        BY ONLY <1>8 DEF Buy, BookEntry
    <2>3. trade' # None /\ trade'.entry = e /\ trade'.lots = Lots[e] /\ Lots[e] \in Int
        BY ONLY <2>2, e \in Entries, NewTrade
    <2>4. (e = f => bought'[f] = bought[f] + Lots[e]) /\ (e # f => bought'[f] = bought[f])
        BY ONLY <1>b, <2>2, <2>3, e \in Entries, f \in Entries, Added
    <2> QED
        BY ONLY <2>1, <2>3, <2>4, Balance(f) DEF Balance
<1>9. ASSUME NEW e \in Entries, EntryRefused(e)
      PROVE  Balance(f)'
    BY <1>9 DEF EntryRefused
<1>10. ASSUME NEW e \in Entries, OpenPosition(e)
      PROVE  Balance(f)'
    BY <1>10 DEF OpenPosition
<1>11. ASSUME NEW x \in Exits, StartExit(x)
      PROVE  Balance(f)'
    BY <1>11 DEF StartExit
<1>12. ASSUME NEW x \in Exits, MarkAttempt(x)
      PROVE  Balance(f)'
    BY <1>12 DEF MarkAttempt
<1>13. ASSUME NEW x \in Exits, EvaluateExit(x)
      PROVE  Balance(f)'
    BY <1>13 DEF EvaluateExit
<1>14. ASSUME NEW x \in Exits, Identify(x)
      PROVE  Balance(f)'
    BY <1>14 DEF Identify
<1>15. ASSUME NEW x \in Exits, Claim(x)
      PROVE  Balance(f)'
    BY <1>15 DEF Claim
<1>16. ASSUME NEW x \in Exits, Sell(x)
      PROVE  Balance(f)'
    <2>1. trade # None /\ trade.lots = lots[x] /\ trade' = None /\ bought' = bought
        BY ONLY <1>16 DEF Sell, BookExit, MatchingTrade
    <2>2. sold' = [sold EXCEPT ![trade.entry] = @ + lots[x]]
        BY ONLY <1>16 DEF Sell, BookExit
    <2>3. lots[x] \in Int /\ trade.entry \in Entries
        BY ONLY <2>1, <1>a
    <2>4. /\ trade.entry = f => sold'[f] = sold[f] + lots[x]
          /\ trade.entry # f => sold'[f] = sold[f]
        BY ONLY <1>b, <2>2, <2>3, Added, f \in Entries
    <2> QED
        BY ONLY <2>1, <2>4, Balance(f) DEF Balance
<1>17. ASSUME NEW x \in Exits, SellRefused(x)
      PROVE  Balance(f)'
    BY <1>17 DEF SellRefused
<1>18. ASSUME NEW x \in Exits, Release(x)
      PROVE  Balance(f)'
    BY <1>18 DEF Release
<1>19. ASSUME NEW x \in Exits, Complete(x)
      PROVE  Balance(f)'
    BY <1>19 DEF Complete
<1>20. ASSUME NEW a \in Adjusts, StartAdjust(a)
      PROVE  Balance(f)'
    BY <1>20 DEF StartAdjust
<1>21. ASSUME NEW a \in Adjusts, CheckLedger(a)
      PROVE  Balance(f)'
    BY <1>21 DEF CheckLedger
<1>22. ASSUME NEW a \in Adjusts, PatchPosition(a)
      PROVE  Balance(f)'
    BY <1>22 DEF PatchPosition
<1>23. ASSUME NEW a \in Adjusts, BookAdjust(a)
      PROVE  Balance(f)'
    <2>1. Change[a] \in Int
        BY ONLY PaperAssumption, a \in Adjusts
    <2>2. CASE ~(trade # None /\ trade.lots + Change[a] > 0)
        BY ONLY <1>23, <2>2, Balance(f) DEF BookAdjust, BookChange, Balance
    <2>3. CASE trade # None /\ trade.lots + Change[a] > 0
        <3>1. /\ trade' = [trade EXCEPT !.lots = @ + Change[a]]
              /\ \/ bought' = [bought EXCEPT ![trade.entry] = @ + Change[a]] /\ sold' = sold
                 \/ sold' = [sold EXCEPT ![trade.entry] = @ - Change[a]] /\ bought' = bought
            BY ONLY <1>23, <2>3 DEF BookAdjust, BookChange
        <3>2. trade' # None /\ trade'.entry = trade.entry /\ trade'.lots = trade.lots + Change[a]
            BY ONLY <1>a, <2>1, <2>3, <3>1, Resized
        <3>3. CASE bought' = [bought EXCEPT ![trade.entry] = @ + Change[a]] /\ sold' = sold
            <4>1. /\ trade.entry = f => bought'[f] = bought[f] + Change[a]
                  /\ trade.entry # f => bought'[f] = bought[f]
                BY ONLY <1>a, <1>b, <2>1, <2>3, <3>3, f \in Entries, Added
            <4> QED
                BY ONLY <1>a, <1>e, <2>1, <2>3, <3>2, <3>3, <4>1, Balance(f) DEF Balance
        <3>4. CASE sold' = [sold EXCEPT ![trade.entry] = @ - Change[a]] /\ bought' = bought
            <4>1. /\ trade.entry = f => sold'[f] = sold[f] - Change[a]
                  /\ trade.entry # f => sold'[f] = sold[f]
                BY ONLY <1>a, <1>b, <2>1, <2>3, <3>4, f \in Entries, Taken
            <4> QED
                BY ONLY <1>a, <1>e, <2>1, <2>3, <3>2, <3>4, <4>1, Balance(f) DEF Balance
        <3> QED
            BY <3>1, <3>3, <3>4
    <2> QED
        BY <2>2, <2>3
<1>24. ASSUME NEW s \in Suggests, ReadSuggestion(s)
      PROVE  Balance(f)'
    BY <1>24 DEF ReadSuggestion
<1>25. ASSUME NEW s \in Suggests, ArmSuggestion(s)
      PROVE  Balance(f)'
    BY <1>25 DEF ArmSuggestion
<1>26. ASSUME NEW t \in Threads, Interrupt(t)
      PROVE  Balance(f)'
    BY <1>26 DEF Interrupt
<1>27. CASE UNCHANGED vars
    BY <1>27 DEF vars, files, locals
<1> QED
    BY <1>1, <1>2, <1>3, <1>4, <1>5, <1>6, <1>7, <1>8, <1>9, <1>10, <1>11, <1>12, <1>13, <1>14,
       <1>15, <1>16, <1>17, <1>18, <1>19, <1>20, <1>21, <1>22, <1>23, <1>24, <1>25, <1>26,
       <1>27
    DEF Next, Entry, Exit, Adjust

(* No lot is lost or sold twice in the ledger, whatever the interleaving of
   entries, exits and panel requests, as long as no thread dies between the
   buy and the tracked position. *)
THEOREM LotsKept ==
    ASSUME Serialized, MaxFaults = 0 PROVE Spec => []LotsConserved
<1> DEFINE Balanced == \A e \in Entries : Balance(e)
<1>1. Init => Booked /\ Balanced
    BY ThreadFacts DEF Init, Booked, BuysFlat, SoldOut, TradeTracked, Balance
<1>2. TypeOK /\ VersionInv /\ Ownership /\ Booked /\ Balanced /\ [Next]_vars
        => (Booked /\ Balanced)'
    BY Serialized, MaxFaults = 0, BuysFlatInductive, SoldOutInductive, TradeTrackedInductive,
       BalanceInductive DEF Booked
<1>3. TypeOK /\ Balanced => LotsConserved
    BY Balances
<1> HIDE DEF Balanced
<1> QED
    BY <1>1, <1>2, <1>3, OwnershipHolds, Serialized, PTL DEF Spec

-----------------------------------------------------------------------------
(* The tracked position and the ledger, when every thread has returned.     *)

\* Where a thread has something to finish.
Handling == {"open", "sell", "release", "complete", "book", "lost"}

\* A step that neither changes the files nor enters or leaves these places.
Quiet ==
    /\ position' = position /\ trade' = trade
    /\ \A t \in Threads :
          /\ at[t] \in Handling => at'[t] = at[t] /\ seen'[t] = seen[t]
          /\ at[t] \notin Handling => at'[t] \notin Handling
    /\ \A a \in Adjusts : at'[a] = "patch" /\ Change[a] # 0 =>
          at[a] = "patch" /\ seen'[a] = seen[a]

Loud ==
    \/ \E e \in Entries : Buy(e) \/ OpenPosition(e)
    \/ \E x \in Exits : Claim(x) \/ Sell(x) \/ SellRefused(x) \/ Release(x) \/ Complete(x)
    \/ \E a \in Adjusts : CheckLedger(a) \/ PatchPosition(a) \/ BookAdjust(a)
    \/ \E t \in Threads : Interrupt(t)

LEMMA QuietOrLoud ==
    Serialized /\ TypeOK /\ Ownership /\ [Next]_vars => Quiet \/ Loud
<1> SUFFICES ASSUME Serialized, TypeOK, Ownership, [Next]_vars PROVE Quiet \/ Loud
    OBVIOUS
<1>0. /\ Suggests = {} /\ at \in [Threads -> Places]
      /\ seen \in [Threads -> Positions \cup {None}]
      /\ \A e \in Entries : at[e] # "sell first" /\ at[e] # "clear"
    BY DEF TypeOK, Serialized, Compared, Ownership, NoReversal
<1> USE <1>0, ThreadFacts DEF Quiet, Handling, Goto, Leave, Return, Acquire, files
<1>1. ASSUME NEW e \in Entries, StartEntry(e)
      PROVE  Quiet \/ Loud
    BY <1>1 DEF StartEntry
<1>2. ASSUME NEW e \in Entries, RouteEntry(e)
      PROVE  Quiet \/ Loud
    BY <1>2 DEF RouteEntry
<1>3. ASSUME NEW e \in Entries, EvaluateEntry(e)
      PROVE  Quiet \/ Loud
    BY <1>3 DEF EvaluateEntry
<1>4. ASSUME NEW e \in Entries, EvaluateReversal(e)
      PROVE  Quiet \/ Loud
    BY <1>4 DEF EvaluateReversal
<1>5. ASSUME NEW e \in Entries, DecideReversal(e)
      PROVE  Quiet \/ Loud
    BY <1>5 DEF DecideReversal
<1>6. ASSUME NEW e \in Entries, ReversalSell(e)
      PROVE  Quiet \/ Loud
    BY <1>6 DEF ReversalSell
<1>7. ASSUME NEW e \in Entries, ReversalClear(e)
      PROVE  Quiet \/ Loud
    BY <1>7 DEF ReversalClear
<1>8. ASSUME NEW e \in Entries, Buy(e)
      PROVE  Quiet \/ Loud
    BY <1>8 DEF Loud
<1>9. ASSUME NEW e \in Entries, EntryRefused(e)
      PROVE  Quiet \/ Loud
    BY <1>9 DEF EntryRefused
<1>10. ASSUME NEW e \in Entries, OpenPosition(e)
      PROVE  Quiet \/ Loud
    BY <1>10 DEF Loud
<1>11. ASSUME NEW x \in Exits, StartExit(x)
      PROVE  Quiet \/ Loud
    BY <1>11 DEF StartExit
<1>12. ASSUME NEW x \in Exits, MarkAttempt(x)
      PROVE  Quiet \/ Loud
    BY <1>12 DEF MarkAttempt
<1>13. ASSUME NEW x \in Exits, EvaluateExit(x)
      PROVE  Quiet \/ Loud
    BY <1>13 DEF EvaluateExit
<1>14. ASSUME NEW x \in Exits, Identify(x)
      PROVE  Quiet \/ Loud
    BY <1>14 DEF Identify
<1>15. ASSUME NEW x \in Exits, Claim(x)
      PROVE  Quiet \/ Loud
    BY <1>15 DEF Loud
<1>16. ASSUME NEW x \in Exits, Sell(x)
      PROVE  Quiet \/ Loud
    BY <1>16 DEF Loud
<1>17. ASSUME NEW x \in Exits, SellRefused(x)
      PROVE  Quiet \/ Loud
    BY <1>17 DEF Loud
<1>18. ASSUME NEW x \in Exits, Release(x)
      PROVE  Quiet \/ Loud
    BY <1>18 DEF Loud
<1>19. ASSUME NEW x \in Exits, Complete(x)
      PROVE  Quiet \/ Loud
    BY <1>19 DEF Loud
<1>20. ASSUME NEW a \in Adjusts, StartAdjust(a)
      PROVE  Quiet \/ Loud
    BY <1>20 DEF StartAdjust
<1>21. ASSUME NEW a \in Adjusts, CheckLedger(a)
      PROVE  Quiet \/ Loud
    BY <1>21 DEF Loud
<1>22. ASSUME NEW a \in Adjusts, PatchPosition(a)
      PROVE  Quiet \/ Loud
    BY <1>22 DEF Loud
<1>23. ASSUME NEW a \in Adjusts, BookAdjust(a)
      PROVE  Quiet \/ Loud
    BY <1>23 DEF Loud
<1>24. ASSUME NEW s \in Suggests, ReadSuggestion(s)
      PROVE  Quiet \/ Loud
    BY <1>24 DEF ReadSuggestion
<1>25. ASSUME NEW s \in Suggests, ArmSuggestion(s)
      PROVE  Quiet \/ Loud
    BY <1>25 DEF ArmSuggestion
<1>26. ASSUME NEW t \in Threads, Interrupt(t)
      PROVE  Quiet \/ Loud
    BY <1>26 DEF Loud
<1>27. CASE UNCHANGED vars
    BY <1>27 DEF vars, files, locals
<1> QED
    BY <1>1, <1>2, <1>3, <1>4, <1>5, <1>6, <1>7, <1>8, <1>9, <1>10, <1>11, <1>12, <1>13, <1>14,
       <1>15, <1>16, <1>17, <1>18, <1>19, <1>20, <1>21, <1>22, <1>23, <1>24, <1>25, <1>26,
       <1>27
    DEF Next, Entry, Exit, Adjust

\* An exit on its way to the ledger and back owns the position it has read.
ClaimantSees ==
    \A x \in Exits : at[x] \in {"sell", "release", "complete"} =>
        position # None /\ position.id = seen[x].id

\* A request that still has to book its change has read a position.
Booking == \A a \in Adjusts : at[a] = "book" => seen[a] # None /\ Change[a] # 0

\* The requests that have patched the position and not yet booked the change.
Pending == {a \in Adjusts : at[a] = "book"}

\* The trade an entry is about to open a position for is its own, whole.
OpenedTrade ==
    \A e \in Entries : at[e] = "open" =>
        trade = [entry |-> e, lots |-> Lots[e]] /\ Pending = {}

\* No entry buys while a request has yet to book its change of the position
\* before: that change would be booked on the trade of the new one.
Apart == \A e \in Entries : at[e] \in {"buy", "open"} => Pending = {}

Bookkeeping == SoldOut /\ ClaimantSees /\ Booking /\ OpenedTrade

LEMMA ClaimantSeesInductive ==
    Serialized /\ TypeOK /\ VersionInv /\ Ownership /\ ClaimantSees /\ [Next]_vars
        => ClaimantSees'
<1> SUFFICES ASSUME Serialized, TypeOK, VersionInv, Ownership, ClaimantSees, [Next]_vars,
                    NEW y \in Exits, at'[y] = "sell" \/ at'[y] = "release" \/ at'[y] = "complete"
             PROVE  position' # None /\ position'.id = seen'[y].id
    BY DEF ClaimantSees
<1>0. /\ position \in Positions \cup {None} /\ at \in [Threads -> Places] /\ y \in Threads
      /\ at[y] = "sell" \/ at[y] = "release" \/ at[y] = "complete" =>
            position # None /\ position.claim = y /\ position.id = seen[y].id
      /\ \A e \in Entries : at[e] = "open" => position = None
    BY ThreadFacts DEF TypeOK, Ownership, Claimant, ClaimantSees, FlatToBuy
<1> USE <1>0, ThreadFacts DEF Goto, Leave, Return, files
<1>q. CASE Quiet
    BY <1>q DEF Quiet, Handling
<1>1. ASSUME NEW e \in Entries, Buy(e)
      PROVE  position' # None /\ position'.id = seen'[y].id
    BY <1>1 DEF Buy
<1>2. ASSUME NEW e \in Entries, OpenPosition(e)
      PROVE  position' # None /\ position'.id = seen'[y].id
    BY <1>2 DEF OpenPosition
<1>3. ASSUME NEW x \in Exits, Claim(x)
      PROVE  position' # None /\ position'.id = seen'[y].id
    BY <1>3, ClaimedFacts DEF Claim, MayClaim, Matches
<1>4. ASSUME NEW x \in Exits, Sell(x)
      PROVE  position' # None /\ position'.id = seen'[y].id
    BY <1>4 DEF Sell
<1>5. ASSUME NEW x \in Exits, SellRefused(x)
      PROVE  position' # None /\ position'.id = seen'[y].id
    BY <1>5 DEF SellRefused
<1>6. ASSUME NEW x \in Exits, Release(x)
      PROVE  position' # None /\ position'.id = seen'[y].id
    BY <1>6 DEF Release, Owns
<1>7. ASSUME NEW x \in Exits, Complete(x)
      PROVE  position' # None /\ position'.id = seen'[y].id
    BY <1>7 DEF Complete, Owns
<1>8. ASSUME NEW a \in Adjusts, CheckLedger(a)
      PROVE  position' # None /\ position'.id = seen'[y].id
    BY <1>8 DEF CheckLedger
<1>9. ASSUME NEW a \in Adjusts, PatchPosition(a)
      PROVE  position' # None /\ position'.id = seen'[y].id
    BY <1>9, PatchStep DEF PatchPosition, MayPatch, Matches
<1>10. ASSUME NEW a \in Adjusts, BookAdjust(a)
      PROVE  position' # None /\ position'.id = seen'[y].id
    BY <1>10 DEF BookAdjust
<1>11. ASSUME NEW t \in Threads, Interrupt(t)
      PROVE  position' # None /\ position'.id = seen'[y].id
    BY <1>11 DEF Interrupt
<1> QED
    BY QuietOrLoud, <1>q, <1>1, <1>2, <1>3, <1>4, <1>5, <1>6, <1>7, <1>8, <1>9, <1>10, <1>11
    DEF Loud

LEMMA BookingInductive ==
    Serialized /\ TypeOK /\ VersionInv /\ Ownership /\ Booking /\ [Next]_vars => Booking'
<1> SUFFICES ASSUME Serialized, TypeOK, VersionInv, Ownership, Booking, [Next]_vars,
                    NEW b \in Adjusts, at'[b] = "book"
             PROVE  seen'[b] # None /\ Change[b] # 0
    BY DEF Booking
<1>0. /\ at \in [Threads -> Places] /\ b \in Threads
      /\ at[b] = "book" => seen[b] # None /\ Change[b] # 0
      /\ at[b] = "patch" => seen[b] # None
    BY ThreadFacts DEF TypeOK, Booking, VersionInv, AdjustsFit, Fitting
<1> USE <1>0, ThreadFacts DEF Goto, Leave, Return, files
<1>q. CASE Quiet
    BY <1>q DEF Quiet, Handling
<1>1. ASSUME NEW e \in Entries, Buy(e)
      PROVE  seen'[b] # None /\ Change[b] # 0
    BY <1>1 DEF Buy
<1>2. ASSUME NEW e \in Entries, OpenPosition(e)
      PROVE  seen'[b] # None /\ Change[b] # 0
    BY <1>2 DEF OpenPosition
<1>3. ASSUME NEW x \in Exits, Claim(x)
      PROVE  seen'[b] # None /\ Change[b] # 0
    BY <1>3 DEF Claim
<1>4. ASSUME NEW x \in Exits, Sell(x)
      PROVE  seen'[b] # None /\ Change[b] # 0
    BY <1>4 DEF Sell
<1>5. ASSUME NEW x \in Exits, SellRefused(x)
      PROVE  seen'[b] # None /\ Change[b] # 0
    BY <1>5 DEF SellRefused
<1>6. ASSUME NEW x \in Exits, Release(x)
      PROVE  seen'[b] # None /\ Change[b] # 0
    BY <1>6 DEF Release
<1>7. ASSUME NEW x \in Exits, Complete(x)
      PROVE  seen'[b] # None /\ Change[b] # 0
    BY <1>7 DEF Complete
<1>8. ASSUME NEW a \in Adjusts, CheckLedger(a)
      PROVE  seen'[b] # None /\ Change[b] # 0
    BY <1>8 DEF CheckLedger
<1>9. ASSUME NEW a \in Adjusts, PatchPosition(a)
      PROVE  seen'[b] # None /\ Change[b] # 0
    BY <1>9 DEF PatchPosition
<1>10. ASSUME NEW a \in Adjusts, BookAdjust(a)
      PROVE  seen'[b] # None /\ Change[b] # 0
    BY <1>10 DEF BookAdjust
<1>11. ASSUME NEW t \in Threads, Interrupt(t)
      PROVE  seen'[b] # None /\ Change[b] # 0
    BY <1>11 DEF Interrupt
<1> QED
    BY QuietOrLoud, <1>q, <1>1, <1>2, <1>3, <1>4, <1>5, <1>6, <1>7, <1>8, <1>9, <1>10, <1>11
    DEF Loud

LEMMA OpenedTradeInductive ==
    Serialized /\ Apart /\ TypeOK /\ Ownership /\ OpenedTrade /\ [Next]_vars => OpenedTrade'
<1> SUFFICES ASSUME Serialized, Apart, TypeOK, Ownership, OpenedTrade, [Next]_vars,
                    NEW f \in Entries, at'[f] = "open"
             PROVE  trade' = [entry |-> f, lots |-> Lots[f]] /\ Pending' = {}
    BY DEF OpenedTrade
<1>0. /\ at \in [Threads -> Places] /\ f \in Threads
      /\ at[f] = "open" =>
            /\ trade = [entry |-> f, lots |-> Lots[f]] /\ Pending = {}
            /\ position = None
      /\ \A x \in Exits : at[x] = "sell" => position # None
    BY ThreadFacts DEF TypeOK, OpenedTrade, Ownership, FlatToBuy, Claimant
<1>f. \A e \in Entries : at[e] \in Routing /\ at[f] \in Routing => e = f
    BY DEF Serialized, OneByOne, Ownership, Inside
<1> USE <1>0, ThreadFacts DEF Pending, Goto, Leave, Return, files
<1>q. CASE Quiet
    BY <1>q DEF Quiet, Handling
<1>1. ASSUME NEW e \in Entries, Buy(e)
      PROVE  trade' = [entry |-> f, lots |-> Lots[f]] /\ Pending' = {}
    <2>1. at[e] = "buy" /\ Pending = {}
        BY <1>1 DEF Buy, Apart
    <2>2. e = f
        BY <1>1, <1>f, <2>1 DEF Buy, Routing
    <2>3. trade' = [entry |-> e, lots |-> Lots[e]] /\ \A a \in Adjusts : at'[a] = at[a]
        BY <1>1 DEF Buy, BookEntry
    <2> QED
        BY <2>1, <2>2, <2>3 DEF Pending
<1>2. ASSUME NEW e \in Entries, OpenPosition(e)
      PROVE  trade' = [entry |-> f, lots |-> Lots[f]] /\ Pending' = {}
    BY <1>2 DEF OpenPosition
<1>3. ASSUME NEW x \in Exits, Claim(x)
      PROVE  trade' = [entry |-> f, lots |-> Lots[f]] /\ Pending' = {}
    BY <1>3 DEF Claim
<1>4. ASSUME NEW x \in Exits, Sell(x)
      PROVE  trade' = [entry |-> f, lots |-> Lots[f]] /\ Pending' = {}
    BY <1>4 DEF Sell
<1>5. ASSUME NEW x \in Exits, SellRefused(x)
      PROVE  trade' = [entry |-> f, lots |-> Lots[f]] /\ Pending' = {}
    BY <1>5 DEF SellRefused
<1>6. ASSUME NEW x \in Exits, Release(x)
      PROVE  trade' = [entry |-> f, lots |-> Lots[f]] /\ Pending' = {}
    BY <1>6 DEF Release
<1>7. ASSUME NEW x \in Exits, Complete(x)
      PROVE  trade' = [entry |-> f, lots |-> Lots[f]] /\ Pending' = {}
    BY <1>7 DEF Complete
<1>8. ASSUME NEW a \in Adjusts, CheckLedger(a)
      PROVE  trade' = [entry |-> f, lots |-> Lots[f]] /\ Pending' = {}
    BY <1>8 DEF CheckLedger
<1>9. ASSUME NEW a \in Adjusts, PatchPosition(a)
      PROVE  trade' = [entry |-> f, lots |-> Lots[f]] /\ Pending' = {}
    BY <1>9 DEF PatchPosition, MayPatch, Matches
<1>10. ASSUME NEW a \in Adjusts, BookAdjust(a)
      PROVE  trade' = [entry |-> f, lots |-> Lots[f]] /\ Pending' = {}
    BY <1>10 DEF BookAdjust
<1>11. ASSUME NEW t \in Threads, Interrupt(t)
      PROVE  trade' = [entry |-> f, lots |-> Lots[f]] /\ Pending' = {}
    BY <1>11 DEF Interrupt
<1> QED
    BY QuietOrLoud, <1>q, <1>1, <1>2, <1>3, <1>4, <1>5, <1>6, <1>7, <1>8, <1>9, <1>10, <1>11
    DEF Loud


\* A pending exit is on its way.
ClaimAlive ==
    position # None =>
        position.claim = None \/ at[position.claim] \in {"sell", "release", "complete"}

\* A position without a trade has been sold by the exit that owns it.
SoldTracked ==
    position # None /\ trade = None => position.claim # None /\ at[position.claim] = "complete"

\* The trade has the quantity of the position, but for the one request that has
\* patched the position and not yet booked its change.
SameLots ==
    position # None /\ trade # None =>
        \/ Pending = {} /\ trade.lots = position.lots
        \/ \E a \in Adjusts : Pending = {a} /\ position.lots = trade.lots + Change[a]

\* Whoever may patch the quantity has seen the ledger agree with it.
Checked ==
    \A a \in Adjusts : at[a] = "patch" /\ Change[a] # 0 /\ MayPatch(seen[a]) =>
        trade # None /\ trade.lots = position.lots /\ Pending = {}

Tallied == TradeTracked /\ ClaimAlive /\ SoldTracked /\ SameLots /\ Checked

LEMMA StaysAlive ==
    ASSUME Serialized, TypeOK, Ownership, [Next]_vars, Alive' PROVE Alive
<1> SUFFICES ASSUME NEW u \in Threads, at[u] = "lost" PROVE at'[u] = "lost"
    BY DEF Alive
<1>0. at \in [Threads -> Places]
    BY DEF TypeOK
<1> USE <1>0, ThreadFacts DEF Goto, Leave, Return
<1>q. CASE Quiet
    BY <1>q DEF Quiet, Handling
<1>1. ASSUME NEW e \in Entries, Buy(e)
      PROVE  at'[u] = "lost"
    BY <1>1 DEF Buy
<1>2. ASSUME NEW e \in Entries, OpenPosition(e)
      PROVE  at'[u] = "lost"
    BY <1>2 DEF OpenPosition
<1>3. ASSUME NEW x \in Exits, Claim(x)
      PROVE  at'[u] = "lost"
    BY <1>3 DEF Claim
<1>4. ASSUME NEW x \in Exits, Sell(x)
      PROVE  at'[u] = "lost"
    BY <1>4 DEF Sell
<1>5. ASSUME NEW x \in Exits, SellRefused(x)
      PROVE  at'[u] = "lost"
    BY <1>5 DEF SellRefused
<1>6. ASSUME NEW x \in Exits, Release(x)
      PROVE  at'[u] = "lost"
    BY <1>6 DEF Release
<1>7. ASSUME NEW x \in Exits, Complete(x)
      PROVE  at'[u] = "lost"
    BY <1>7 DEF Complete
<1>8. ASSUME NEW a \in Adjusts, CheckLedger(a)
      PROVE  at'[u] = "lost"
    BY <1>8 DEF CheckLedger
<1>9. ASSUME NEW a \in Adjusts, PatchPosition(a)
      PROVE  at'[u] = "lost"
    BY <1>9 DEF PatchPosition
<1>10. ASSUME NEW a \in Adjusts, BookAdjust(a)
      PROVE  at'[u] = "lost"
    BY <1>10 DEF BookAdjust
<1>11. ASSUME NEW t \in Threads, Interrupt(t)
      PROVE  at'[u] = "lost"
    BY <1>11 DEF Interrupt
<1> QED
    BY QuietOrLoud, <1>q, <1>1, <1>2, <1>3, <1>4, <1>5, <1>6, <1>7, <1>8, <1>9, <1>10, <1>11
    DEF Loud

LEMMA ClaimAliveInductive ==
    ASSUME Serialized, TypeOK, VersionInv, Ownership, ClaimantSees, ClaimAlive, [Next]_vars,
           Alive'
    PROVE  ClaimAlive'
<1> SUFFICES ASSUME position' # None, position'.claim # None
             PROVE  at'[position'.claim] \in {"sell", "release", "complete"}
    BY DEF ClaimAlive
<1>0. /\ position \in Positions \cup {None} /\ at \in [Threads -> Places]
      /\ position # None /\ position.claim # None =>
            /\ position.claim \in Exits
            /\ at[position.claim] \in {"sell", "release", "complete"}
      /\ \A x \in Exits : at[x] \in {"sell", "release", "complete"} =>
            position # None /\ position.claim = x /\ position.id = seen[x].id
    BY DEF TypeOK, Positions, ClaimAlive, Ownership, Claimant, ClaimantSees
<1> USE <1>0, ThreadFacts DEF Goto, Leave, Return, files
<1>q. CASE Quiet
    BY <1>q DEF Quiet, Handling
<1>1. ASSUME NEW e \in Entries, Buy(e)
      PROVE  at'[position'.claim] \in {"sell", "release", "complete"}
    BY <1>1 DEF Buy
<1>2. ASSUME NEW e \in Entries, OpenPosition(e)
      PROVE  at'[position'.claim] \in {"sell", "release", "complete"}
    <2>1. position'.claim = None
        BY <1>2 DEF OpenPosition
    <2> QED
        BY <2>1
<1>3. ASSUME NEW x \in Exits, Claim(x)
      PROVE  at'[position'.claim] \in {"sell", "release", "complete"}
    <2>1. CASE MayClaim(seen[x])
        <3>1. position \in Positions /\ position' = Claimed(x) /\ at'[x] = "sell"
            BY <1>3, <2>1 DEF Claim, MayClaim, Matches
        <3> QED
            BY <3>1, ClaimedFacts
    <2>2. CASE ~MayClaim(seen[x])
        BY <1>3, <2>2 DEF Claim
    <2> QED
        BY <2>1, <2>2
<1>4. ASSUME NEW x \in Exits, Sell(x)
      PROVE  at'[position'.claim] \in {"sell", "release", "complete"}
    BY <1>4 DEF Sell
<1>5. ASSUME NEW x \in Exits, SellRefused(x)
      PROVE  at'[position'.claim] \in {"sell", "release", "complete"}
    BY <1>5 DEF SellRefused
<1>6. ASSUME NEW x \in Exits, Release(x)
      PROVE  at'[position'.claim] \in {"sell", "release", "complete"}
    <2>1. at[x] = "release" /\ position' = (IF Owns(x) THEN Released ELSE position)
        BY <1>6 DEF Release
    <2>2. position \in Positions /\ Owns(x)
        BY <2>1 DEF Owns
    <2> QED
        BY <2>1, <2>2, ReleasedFacts
<1>7. ASSUME NEW x \in Exits, Complete(x)
      PROVE  at'[position'.claim] \in {"sell", "release", "complete"}
    BY <1>7 DEF Complete, Owns
<1>8. ASSUME NEW a \in Adjusts, CheckLedger(a)
      PROVE  at'[position'.claim] \in {"sell", "release", "complete"}
    BY <1>8 DEF CheckLedger
<1>9. ASSUME NEW a \in Adjusts, PatchPosition(a)
      PROVE  at'[position'.claim] \in {"sell", "release", "complete"}
    <2>1. position' = position \/ position'.claim = None
        BY <1>9, PatchStep DEF MayPatch
    <2> QED
        BY <1>9, <2>1 DEF PatchPosition
<1>10. ASSUME NEW a \in Adjusts, BookAdjust(a)
      PROVE  at'[position'.claim] \in {"sell", "release", "complete"}
    BY <1>10 DEF BookAdjust
<1>11. ASSUME NEW t \in Threads, Interrupt(t)
      PROVE  at'[position'.claim] \in {"sell", "release", "complete"}
    <2>1. position' = position /\ t \in Threads /\ at' = [at EXCEPT ![t] = "lost"]
        BY <1>11 DEF Interrupt
    <2>2. FALSE
        BY <2>1 DEF Alive
    <2> QED
        BY <2>2
<1> QED
    BY QuietOrLoud, <1>q, <1>1, <1>2, <1>3, <1>4, <1>5, <1>6, <1>7, <1>8, <1>9, <1>10, <1>11
    DEF Loud

LEMMA SoldTrackedInductive ==
    ASSUME Serialized, TypeOK, VersionInv, Ownership, Bookkeeping, SoldTracked, [Next]_vars,
           Alive'
    PROVE  SoldTracked'
<1> SUFFICES ASSUME position' # None, trade' = None
             PROVE  position'.claim # None /\ at'[position'.claim] = "complete"
    BY DEF SoldTracked
<1>0. /\ position \in Positions \cup {None} /\ at \in [Threads -> Places]
      /\ trade \in Trades \cup {None}
      /\ position # None /\ trade = None =>
            /\ position.claim \in Exits /\ position.claim # None
            /\ at[position.claim] = "complete"
      /\ \A x \in Exits : at[x] \in {"sell", "release", "complete"} =>
            position # None /\ position.claim = x /\ position.id = seen[x].id
      /\ \A e \in Entries : at[e] = "open" => trade # None
    BY NewTrade DEF TypeOK, Positions, SoldTracked, Ownership, Claimant, Bookkeeping,
                    ClaimantSees, OpenedTrade
<1> USE <1>0, ThreadFacts DEF Goto, Leave, Return, files
<1>q. CASE Quiet
    BY <1>q DEF Quiet, Handling
<1>1. ASSUME NEW e \in Entries, Buy(e)
      PROVE  position'.claim # None /\ at'[position'.claim] = "complete"
    BY <1>1, NewTrade DEF Buy, BookEntry
<1>2. ASSUME NEW e \in Entries, OpenPosition(e)
      PROVE  position'.claim # None /\ at'[position'.claim] = "complete"
    BY <1>2 DEF OpenPosition
<1>3. ASSUME NEW x \in Exits, Claim(x)
      PROVE  position'.claim # None /\ at'[position'.claim] = "complete"
    <2>1. trade = None /\ position # None
        BY <1>3 DEF Claim, MayClaim, Matches
    <2>2. ~MayClaim(seen[x])
        BY <2>1 DEF MayClaim
    <2> QED
        BY <1>3, <2>1, <2>2 DEF Claim
<1>4. ASSUME NEW x \in Exits, Sell(x)
      PROVE  position'.claim # None /\ at'[position'.claim] = "complete"
    BY <1>4 DEF Sell, BookExit
<1>5. ASSUME NEW x \in Exits, SellRefused(x)
      PROVE  position'.claim # None /\ at'[position'.claim] = "complete"
    BY <1>5 DEF SellRefused
<1>6. ASSUME NEW x \in Exits, Release(x)
      PROVE  position'.claim # None /\ at'[position'.claim] = "complete"
    BY <1>6 DEF Release, Owns
<1>7. ASSUME NEW x \in Exits, Complete(x)
      PROVE  position'.claim # None /\ at'[position'.claim] = "complete"
    BY <1>7 DEF Complete, Owns
<1>8. ASSUME NEW a \in Adjusts, CheckLedger(a)
      PROVE  position'.claim # None /\ at'[position'.claim] = "complete"
    BY <1>8 DEF CheckLedger
<1>9. ASSUME NEW a \in Adjusts, PatchPosition(a)
      PROVE  position'.claim # None /\ at'[position'.claim] = "complete"
    <2>1. trade = None /\ position # None
        BY <1>9 DEF PatchPosition, MayPatch, Matches
    <2>2. ~MayPatch(seen[a])
        BY <2>1 DEF MayPatch
    <2> QED
        BY <1>9, <2>1, <2>2 DEF PatchPosition
<1>10. ASSUME NEW a \in Adjusts, BookAdjust(a)
      PROVE  position'.claim # None /\ at'[position'.claim] = "complete"
    <2>1. trade = None
        <3>1. Change[a] \in Int
            BY <1>10, PaperAssumption
        <3>2. CASE trade # None /\ trade.lots + Change[a] > 0
            <4>1. trade' = [trade EXCEPT !.lots = @ + Change[a]]
                BY <1>10, <3>2 DEF BookAdjust, BookChange
            <4> QED
                BY ONLY <1>0, <3>1, <3>2, <4>1, Resized, trade' = None
        <3>3. CASE ~(trade # None /\ trade.lots + Change[a] > 0)
            BY <1>10, <3>3 DEF BookAdjust, BookChange
        <3> QED
            BY <3>2, <3>3
    <2> QED
        BY <1>10, <2>1 DEF BookAdjust
<1>11. ASSUME NEW t \in Threads, Interrupt(t)
      PROVE  position'.claim # None /\ at'[position'.claim] = "complete"
    <2>1. position' = position /\ t \in Threads /\ at' = [at EXCEPT ![t] = "lost"]
        BY <1>11 DEF Interrupt
    <2>2. FALSE
        BY <2>1 DEF Alive
    <2> QED
        BY <2>2
<1> QED
    BY QuietOrLoud, <1>q, <1>1, <1>2, <1>3, <1>4, <1>5, <1>6, <1>7, <1>8, <1>9, <1>10, <1>11
    DEF Loud


LEMMA SameLotsInductive ==
    ASSUME Serialized, TypeOK, VersionInv, Ownership, Bookkeeping, SameLots, Checked,
           [Next]_vars, Alive'
    PROVE  SameLots'
<1> DEFINE Same(p, t, P) ==
        \/ P = {} /\ t.lots = p.lots
        \/ \E a \in Adjusts : P = {a} /\ p.lots = t.lots + Change[a]
<1> SUFFICES ASSUME position' # None, trade' # None PROVE Same(position', trade', Pending')
    BY DEF SameLots
<1>0. /\ position \in Positions \cup {None} /\ at \in [Threads -> Places]
      /\ trade \in Trades \cup {None}
      /\ position # None /\ trade # None => Same(position, trade, Pending)
      /\ \A x \in Exits : at[x] = "complete" => trade = None
      /\ \A e \in Entries : at[e] = "buy" => position = None
      /\ \A e \in Entries : at[e] = "open" =>
            trade = [entry |-> e, lots |-> Lots[e]] /\ Pending = {}
    BY DEF TypeOK, SameLots, Ownership, Bookkeeping, FlatToBuy, OpenedTrade, SoldOut
<1>s. ASSUME position # None, trade' = trade, position'.lots = position.lots,
             Pending' = Pending
      PROVE  Same(position', trade', Pending')
    BY <1>0, <1>s
<1>d. \A a \in Adjusts : Change[a] \in Int /\ (at[a] = "book" => Change[a] # 0)
    BY PaperAssumption DEF Bookkeeping, Booking
<1> HIDE DEF Same
<1> USE <1>0, ThreadFacts DEF Goto, Leave, Return, files
<1>q. CASE Quiet
    <2>1. Pending' = Pending
        BY <1>q DEF Quiet, Handling, Pending
    <2> QED
        BY <1>q, <1>s, <2>1 DEF Quiet
<1>1. ASSUME NEW e \in Entries, Buy(e)
      PROVE  Same(position', trade', Pending')
    BY <1>1 DEF Buy
<1>2. ASSUME NEW e \in Entries, OpenPosition(e)
      PROVE  Same(position', trade', Pending')
    <2>1. at[e] = "open" /\ trade' = trade /\ at' = [at EXCEPT ![e] = "done"]
        BY <1>2 DEF OpenPosition
    <2>2. position'.lots = Lots[e]
        BY <1>2 DEF OpenPosition
    <2>3. trade'.lots = Lots[e] /\ Pending' = {}
        BY <2>1 DEF Pending
    <2> QED
        BY <2>2, <2>3 DEF Same
<1>3. ASSUME NEW x \in Exits, Claim(x)
      PROVE  Same(position', trade', Pending')
    <2>1. Pending' = Pending
        BY <1>3 DEF Claim, Pending
    <2>2. position # None /\ trade' = trade /\ position'.lots = position.lots
        BY <1>3, ClaimedFacts DEF Claim, MayClaim, Matches
    <2> QED
        BY <1>s, <2>1, <2>2
<1>4. ASSUME NEW x \in Exits, Sell(x)
      PROVE  Same(position', trade', Pending')
    BY <1>4 DEF Sell, BookExit
<1>5. ASSUME NEW x \in Exits, SellRefused(x)
      PROVE  Same(position', trade', Pending')
    <2>1. Pending' = Pending
        BY <1>5 DEF SellRefused, Pending
    <2>2. position # None /\ trade' = trade /\ position'.lots = position.lots
        BY <1>5 DEF SellRefused
    <2> QED
        BY <1>s, <2>1, <2>2
<1>6. ASSUME NEW x \in Exits, Release(x)
      PROVE  Same(position', trade', Pending')
    <2>1. Pending' = Pending
        BY <1>6 DEF Release, Pending
    <2>2. position # None /\ trade' = trade /\ position'.lots = position.lots
        BY <1>6, ReleasedFacts DEF Release, Owns
    <2> QED
        BY <1>s, <2>1, <2>2
<1>7. ASSUME NEW x \in Exits, Complete(x)
      PROVE  Same(position', trade', Pending')
    BY <1>7 DEF Complete
<1>8. ASSUME NEW a \in Adjusts, CheckLedger(a)
      PROVE  Same(position', trade', Pending')
    <2>1. Pending' = Pending
        BY <1>8 DEF CheckLedger, Pending
    <2>2. position # None /\ trade' = trade /\ position'.lots = position.lots
        BY <1>8 DEF CheckLedger
    <2> QED
        BY <1>s, <2>1, <2>2
<1>9. ASSUME NEW a \in Adjusts, PatchPosition(a)
      PROVE  Same(position', trade', Pending')
    <2>0. trade' = trade /\ Change[a] \in Int
        BY <1>9, <1>d DEF PatchPosition
    <2>1. CASE ~MayPatch(seen[a])
        <3>1. position' = position /\ at' = [at EXCEPT ![a] = "done"] /\ at[a] = "patch"
            BY <1>9, <2>1 DEF PatchPosition
        <3>2. Pending' = Pending
            BY <3>1 DEF Pending
        <3> QED
            BY <1>s, <2>0, <3>1, <3>2
    <2>2. CASE MayPatch(seen[a])
        <3>1. position \in Positions /\ position'.lots = position.lots + Change[a]
            BY <1>9, <2>2, PatchNow
        <3>2. /\ at[a] = "patch"
              /\ at' = [at EXCEPT ![a] = IF Change[a] = 0 THEN "done" ELSE "book"]
            BY <1>9, <2>2 DEF PatchPosition
        <3>3. CASE Change[a] = 0
            <4>1. Pending' = Pending
                BY <3>2, <3>3 DEF Pending
            <4>2. position.lots \in Nat
                BY <3>1 DEF Positions
            <4> QED
                BY <1>s, <2>0, <3>1, <3>3, <4>1, <4>2
        <3>4. CASE Change[a] # 0
            <4>1. trade.lots = position.lots /\ Pending = {}
                BY <2>2, <3>2, <3>4 DEF Checked
            <4>2. Pending' = {a}
                BY <3>2, <3>4, <4>1 DEF Pending
            <4> QED
                BY <2>0, <3>1, <4>1, <4>2 DEF Same
        <3> QED
            BY <3>3, <3>4
    <2> QED
        BY <2>1, <2>2
<1>10. ASSUME NEW a \in Adjusts, BookAdjust(a)
      PROVE  Same(position', trade', Pending')
    <2>1. /\ a \in Pending /\ position' = position
          /\ at' = [at EXCEPT ![a] = "done"] /\ BookChange(Change[a])
        BY <1>10 DEF BookAdjust, Pending
    <2>2. trade # None
        BY <2>1 DEF BookChange
    <2>3. Pending = {a} /\ position.lots = trade.lots + Change[a]
        BY <2>1, <2>2 DEF Same
    <2>4. Pending' = {}
        BY <2>1, <2>3 DEF Pending
    <2>5. position \in Positions /\ position.lots \in Nat \ {0}
        BY <2>1 DEF Positions
    <2>6. trade.lots + Change[a] > 0
        BY ONLY <2>3, <2>5
    <2>7. trade' = [trade EXCEPT !.lots = @ + Change[a]]
        BY <2>1, <2>2, <2>6 DEF BookChange
    <2>8. trade'.lots = trade.lots + Change[a]
        BY ONLY <1>0, <1>d, <2>2, <2>6, <2>7, Resized, a \in Adjusts
    <2> QED
        BY <2>1, <2>3, <2>4, <2>8 DEF Same
<1>11. ASSUME NEW t \in Threads, Interrupt(t)
      PROVE  Same(position', trade', Pending')
    <2>1. t \in Threads /\ at' = [at EXCEPT ![t] = "lost"]
        BY <1>11 DEF Interrupt
    <2>2. FALSE
        BY <2>1 DEF Alive
    <2> QED
        BY <2>2
<1> QED
    BY QuietOrLoud, <1>q, <1>1, <1>2, <1>3, <1>4, <1>5, <1>6, <1>7, <1>8, <1>9, <1>10, <1>11
    DEF Loud


LEMMA CheckedInductive ==
    ASSUME Serialized, TypeOK, VersionInv, Ownership, Bookkeeping, SameLots, Checked,
           [Next]_vars, Alive'
    PROVE  Checked'
<1> DEFINE Agreed(p, t, P) == t # None /\ t.lots = p.lots /\ P = {}
<1> DEFINE Able(p, q) ==
        p # None /\ p.id = q.id /\ p.version = q.version /\ p.claim = None
<1> SUFFICES ASSUME NEW b \in Adjusts, at'[b] = "patch", Change[b] # 0,
                    Able(position', seen'[b])
             PROVE  Agreed(position', trade', Pending')
    BY DEF Checked, MayPatch, Matches
<1>0. /\ position \in Positions \cup {None} /\ at \in [Threads -> Places]
      /\ trade \in Trades \cup {None} /\ b \in Threads
      /\ seen \in [Threads -> Positions \cup {None}]
      /\ \A e \in Entries : at[e] = "buy" => position = None
      /\ \A x \in Exits : at[x] \in {"sell", "release", "complete"} =>
            position # None /\ position.claim = x /\ position.id = seen[x].id
    BY ThreadFacts DEF TypeOK, Ownership, Bookkeeping, FlatToBuy, Claimant, ClaimantSees
<1>c. at[b] = "patch" /\ Able(position, seen[b]) => Agreed(position, trade, Pending)
    BY DEF Checked, MayPatch, Matches
<1>v. /\ at[b] \in {"ledger", "patch"} => seen[b] \in Positions
      /\ seen[b] \in Positions /\ position \in Positions /\ seen[b].id = position.id =>
            /\ seen[b].version \in Nat /\ position.version \in Nat
            /\ seen[b].version <= position.version
            /\ seen[b].version = position.version => seen[b].lots = position.lots
    BY <1>0, ThreadFacts DEF VersionInv, AdjustsFit, Fitting, VersionsName, Positions
<1>s. ASSUME at[b] = "patch", seen'[b] = seen[b], position' = position, trade' = trade,
             Pending' = Pending
      PROVE  Agreed(position', trade', Pending')
    BY <1>c, <1>s
<1>n. ASSUME at[b] = "patch", seen'[b] = seen[b], position \in Positions,
             position'.id = position.id, position'.version = position.version + 1
      PROVE  FALSE
    BY <1>n, <1>v
<1> HIDE DEF Agreed
<1> USE <1>0, ThreadFacts DEF Goto, Leave, Return, files
<1>q. CASE Quiet
    <2>1. Pending' = Pending
        BY <1>q DEF Quiet, Handling, Pending
    <2> QED
        BY <1>q, <1>s, <2>1 DEF Quiet
<1>1. ASSUME NEW e \in Entries, Buy(e)
      PROVE  Agreed(position', trade', Pending')
    BY <1>1 DEF Buy
<1>2. ASSUME NEW e \in Entries, OpenPosition(e)
      PROVE  Agreed(position', trade', Pending')
    <2>1. at[b] = "patch" /\ seen' = seen /\ at[e] = "open" /\ position'.id = e
        BY <1>2 DEF OpenPosition
    <2>2. at[seen[b].id] = "done"
        BY <1>v, <2>1 DEF VersionInv, SeenOpened
    <2> QED
        BY <2>1, <2>2
<1>3. ASSUME NEW x \in Exits, Claim(x)
      PROVE  Agreed(position', trade', Pending')
    <2>0. at[b] = "patch" /\ seen' = seen /\ trade' = trade
        BY <1>3 DEF Claim
    <2>1. CASE MayClaim(seen[x])
        BY <1>3, <2>1, ClaimedFacts DEF Claim, MayClaim, Matches
    <2>2. CASE ~MayClaim(seen[x])
        <3>1. position' = position /\ Pending' = Pending
            BY <1>3, <2>2 DEF Claim, Pending
        <3> QED
            BY <1>s, <2>0, <3>1
    <2> QED
        BY <2>1, <2>2
<1>4. ASSUME NEW x \in Exits, Sell(x)
      PROVE  Agreed(position', trade', Pending')
    BY <1>4 DEF Sell
<1>5. ASSUME NEW x \in Exits, SellRefused(x)
      PROVE  Agreed(position', trade', Pending')
    BY <1>5 DEF SellRefused
<1>6. ASSUME NEW x \in Exits, Release(x)
      PROVE  Agreed(position', trade', Pending')
    <2>1. at[b] = "patch" /\ seen' = seen /\ position \in Positions /\ position' = Released
        BY <1>6 DEF Release, Owns
    <2> QED
        BY <1>n, <2>1, ReleasedFacts
<1>7. ASSUME NEW x \in Exits, Complete(x)
      PROVE  Agreed(position', trade', Pending')
    BY <1>7 DEF Complete, Owns
<1>8. ASSUME NEW a \in Adjusts, CheckLedger(a)
      PROVE  Agreed(position', trade', Pending')
    <2>0. UNCHANGED <<position, trade, seen>>
        BY <1>8 DEF CheckLedger
    <2>1. Pending' = Pending
        BY <1>8 DEF CheckLedger, Pending
    <2>2. CASE a # b
        BY <1>8, <1>s, <2>0, <2>1, <2>2 DEF CheckLedger
    <2>3. CASE a = b
        <3>1. at[b] = "ledger" /\ trade # None /\ trade.lots = seen[b].lots
            BY <1>8, <2>3 DEF CheckLedger
        <3>2. position \in Positions /\ trade.lots = position.lots
            BY <1>v, <2>0, <3>1
        <3>3. Pending = {}
            <4>1. SUFFICES ASSUME NEW c \in Adjusts, Pending = {c},
                                  position.lots = trade.lots + Change[c]
                           PROVE  FALSE
                BY <3>1, <3>2 DEF SameLots
            <4>2. Change[c] # 0 /\ Change[c] \in Int
                BY <4>1, PaperAssumption DEF Pending, Bookkeeping, Booking
            <4>3. position.lots \in Nat /\ trade.lots \in Nat
                BY <3>1, <3>2, TradeFacts DEF Positions
            <4> QED
                BY ONLY <3>2, <4>1, <4>2, <4>3
        <3> QED
            BY <2>0, <2>1, <3>1, <3>2, <3>3 DEF Agreed
    <2> QED
        BY <2>2, <2>3
<1>9. ASSUME NEW a \in Adjusts, PatchPosition(a)
      PROVE  Agreed(position', trade', Pending')
    <2>0. at[b] = "patch" /\ seen' = seen /\ trade' = trade /\ a # b
        BY <1>9 DEF PatchPosition
    <2>1. CASE MayPatch(seen[a])
        BY <1>9, <1>n, <2>0, <2>1, PatchNow
    <2>2. CASE ~MayPatch(seen[a])
        <3>1. position' = position /\ at' = [at EXCEPT ![a] = "done"] /\ at[a] = "patch"
            BY <1>9, <2>2 DEF PatchPosition
        <3>2. Pending' = Pending
            BY <3>1 DEF Pending
        <3> QED
            BY <1>s, <2>0, <3>1, <3>2
    <2> QED
        BY <2>1, <2>2
<1>10. ASSUME NEW a \in Adjusts, BookAdjust(a)
      PROVE  Agreed(position', trade', Pending')
    <2>1. /\ a \in Pending /\ at[b] = "patch" /\ seen' = seen /\ position' = position
        BY <1>10 DEF BookAdjust, Pending
    <2> QED
        BY <1>c, <2>1 DEF Agreed
<1>11. ASSUME NEW t \in Threads, Interrupt(t)
      PROVE  Agreed(position', trade', Pending')
    <2>1. t \in Threads /\ at' = [at EXCEPT ![t] = "lost"]
        BY <1>11 DEF Interrupt
    <2>2. FALSE
        BY <2>1 DEF Alive
    <2> QED
        BY <2>2
<1> QED
    BY QuietOrLoud, <1>q, <1>1, <1>2, <1>3, <1>4, <1>5, <1>6, <1>7, <1>8, <1>9, <1>10, <1>11
    DEF Loud

(* When every thread has returned, the tracked position and the ledger tell
   the same story, and no exit is left pending: whatever was interrupted is
   not at rest, and whatever has ended has put both files right.  The one way
   to part them is an entry that buys before an earlier request has booked. *)
THEOREM LedgerKeptApart ==
    ASSUME Serialized PROVE Spec /\ []Apart => []LedgerAgrees
<1> DEFINE LedgerInv == Bookkeeping /\ (Alive => Tallied)
<1>1. Init => LedgerInv
    BY ThreadFacts DEF Init, Bookkeeping, SoldOut, ClaimantSees, Booking, OpenedTrade, Tallied,
                       TradeTracked, ClaimAlive, SoldTracked, SameLots, Checked
<1>2. TypeOK /\ VersionInv /\ Ownership /\ Apart /\ LedgerInv /\ [Next]_vars => LedgerInv'
    <2> SUFFICES ASSUME Apart, TypeOK, VersionInv, Ownership, LedgerInv, [Next]_vars
                 PROVE  LedgerInv'
        OBVIOUS
    <2>1. Bookkeeping'
        BY Serialized, SoldOutInductive, ClaimantSeesInductive, BookingInductive,
           OpenedTradeInductive DEF Bookkeeping
    <2>2. ASSUME Alive' PROVE Tallied'
        <3>1. Tallied
            BY Serialized, StaysAlive, <2>2
        <3>2. TradeTracked' /\ ClaimAlive'
            BY Serialized, <2>2, <3>1, TradeTrackedInductive, ClaimAliveInductive
            DEF Tallied, Bookkeeping
        <3>3. SoldTracked'
            BY Serialized, <2>2, <3>1, SoldTrackedInductive DEF Tallied
        <3>4. SameLots' /\ Checked'
            BY Serialized, <2>2, <3>1, SameLotsInductive, CheckedInductive DEF Tallied
        <3> QED
            BY <3>2, <3>3, <3>4 DEF Tallied
    <2> QED
        BY <2>1, <2>2
<1>3. TypeOK /\ Ownership /\ LedgerInv => LedgerAgrees
    <2> SUFFICES ASSUME TypeOK, Ownership, LedgerInv, Quiescent
                 PROVE  IF position = None THEN trade = None
                        ELSE /\ trade = [entry |-> position.id, lots |-> position.lots]
                             /\ position.claim = None
        BY DEF LedgerAgrees
    <2>1. /\ \A t \in Threads : at[t] \in {"idle", "done"}
          /\ position \in Positions \cup {None} /\ trade \in Trades \cup {None}
        BY DEF Quiescent, TypeOK
    <2>2. Tallied /\ Pending = {}
        BY <2>1, ThreadFacts DEF Alive, Pending
    <2>3. CASE position = None
        BY <2>1, <2>2, <2>3, ThreadFacts DEF Tallied, TradeTracked
    <2>4. CASE position # None
        <3>1. position.claim \in Exits \cup {None}
            BY <2>1, <2>4 DEF Positions
        <3>2. position.claim = None
            BY <2>1, <2>2, <2>4, <3>1, ThreadFacts DEF Tallied, ClaimAlive
        <3>3. trade \in Trades
            BY <2>1, <2>2, <2>4, <3>2 DEF Tallied, SoldTracked
        <3>4. trade.entry = position.id
            BY <2>4, <3>3, ThreadFacts DEF Ownership, SameTrade
        <3>5. trade.lots = position.lots
            BY <2>2, <2>4, <3>3, ThreadFacts DEF Tallied, SameLots
        <3> QED
            BY <2>4, <3>2, <3>3, <3>4, <3>5 DEF Trades
    <2> QED
        BY <2>3, <2>4
<1> HIDE DEF LedgerInv
<1> QED
    BY <1>1, <1>2, <1>3, OwnershipHolds, Serialized, PTL DEF Spec

\* Either one entry is routed, or no request changes the quantity.
Undivided == (\A e, f \in Entries : e = f) \/ (\A a \in Adjusts : Change[a] = 0)

(* A request that is booking has read the only position there was, or there
   is no such request. *)
LEMMA NobodyBooks ==
    Undivided /\ VersionInv /\ TypeOK /\ Booking => Apart
<1> SUFFICES ASSUME Undivided, VersionInv, TypeOK, Booking, NEW e \in Entries,
                    at[e] \in {"buy", "open"}, NEW a \in Adjusts, at[a] = "book"
             PROVE  FALSE
    BY DEF Apart, Pending
<1>1. a \in Threads /\ seen[a] # None /\ Change[a] # 0
    BY ThreadFacts DEF Booking
<1>2. seen[a].id \in Entries /\ at[seen[a].id] = "done"
    BY <1>1 DEF TypeOK, Positions, VersionInv, SeenOpened
<1>3. seen[a].id = e
    BY <1>1, <1>2 DEF Undivided
<1> QED
    BY <1>2, <1>3

(* So one position after another keeps its ledger whatever its exits do, and
   one position whatever its exits and the requests on it do. *)
THEOREM LedgerKept ==
    ASSUME Serialized, Undivided PROVE Spec => []LedgerAgrees
<1>1. Init => Booking
    BY ThreadFacts DEF Init, Booking
<1>2. Spec => []Apart
    BY <1>1, BookingInductive, NobodyBooks, OwnershipHolds, Serialized, Undivided, PTL DEF Spec
<1> QED
    BY <1>2, LedgerKeptApart, Serialized, PTL

=============================================================================
