----------------------------- MODULE MCPayments -----------------------------
(* Instances of Payments for TLC.                                          *)
EXTENDS Payments, TLC

CONSTANTS e1, e2, e3, e4, s1, s2

\* e1 and e2 activate the bundle, e3 ends it and e4 buys paper trading.
PlanOf == [e \in Events |-> IF e = e4 THEN Paper ELSE Premium]
BringsOf == [e \in Events |-> IF e = e3 THEN "cancelled" ELSE "active"]
EndOf == [e \in Events |-> IF e = e1 THEN 5 ELSE 15]
=============================================================================
