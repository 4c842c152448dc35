-------------------------- MODULE MCPrivateAlerts --------------------------
(* One alert; each of its deliveries is an entry or a hold. *)
EXTENDS PrivateAlerts, TLC
CONSTANTS c1, c2, key, d1, d2, buy
OneKey == [c \in Callers |-> key]
Alert == [d \in Deliveries |-> buy]
EntryOrHold == [d \in Deliveries |-> {"entry", "hold"}]
EntryOnly == [d \in Deliveries |-> {"entry"}]
Asked == [c \in Callers |-> IF c = c1 THEN {<<"start", "live">>}
                           ELSE {<<"square_off", "paper">>, <<"switch", "live">>}]
Stopped == [c \in Callers |-> {<<"stop", "paper">>}]
Repetitions == Permutations({d1, d2})
=============================================================================
