--------------------------- MODULE MCPaperPosition ---------------------------
(* Instances of PaperPosition for TLC.                                     *)
EXTENDS PaperPosition, TLC

CONSTANTS e1, e2, x1, x2, a1, a2, a3, a4, a5, s1, lock

OneSide == [e \in Entries |-> "CE"]
BothSides == [e \in Entries |-> IF e = e1 THEN "CE" ELSE "PE"]
TwoLots == [e \in Entries |-> 2]
TwoThenOne == [e \in Entries |-> IF e = e1 THEN 2 ELSE 1]

\* a1 and a4 add a lot, a2 and a5 sell one, a3 edits the protection levels.
PanelChanges ==
    [a \in Adjusts |-> IF a \in {a1, a4} THEN 1 ELSE IF a \in {a2, a5} THEN -1 ELSE 0]

\* Signals of one strategy worker are routed under the user's lock, the manual
\* panel, the square-offs and the monitor under none.
EntriesLocked == [t \in Signals |-> IF t \in Entries THEN lock ELSE None]
FirstExitLocked == [t \in Signals |-> IF t \in Entries \cup {x1} THEN lock ELSE None]

=============================================================================
