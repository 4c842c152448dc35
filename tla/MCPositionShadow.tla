------------------------- MODULE MCPositionShadow -------------------------
(* One user's slot, two threads that route its orders and the monitor.  Permits
   and routers are alike. *)
EXTENDS PositionShadow, TLC
Threads == Permutations(Permits) \cup Permutations(Routers)
=============================================================================
