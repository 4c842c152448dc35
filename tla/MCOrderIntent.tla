--------------------------- MODULE MCOrderIntent ---------------------------
(* Repetitions of one operation, of each kind. *)
EXTENDS OrderIntent, TLC
CONSTANTS r1, r2, r3, op
Same == [r \in Requests |-> op]
Repetitions == Permutations(Requests)
=============================================================================
