------------------------- MODULE MCStrategyPipeline -------------------------
(* Instances of StrategyPipeline for TLC.                                  *)
EXTENDS StrategyPipeline, TLC

CONSTANTS s1, u1, u2, d1, d2, b1, n1

\* One alert delivered twice with the same body, to two subscribers.
SignalOfTwins == (d1 :> s1) @@ (d2 :> s1)
BodyOfTwins == (d1 :> b1) @@ (d2 :> b1)
NonceOfTwins == (d1 :> n1) @@ (d2 :> n1)

\* One alert, delivered at most once.
SignalOfSingle == d1 :> s1
BodyOfSingle == d1 :> b1
NonceOfSingle == d1 :> n1

PaperAndSignal == {"signal_only", "paper_live_data"}
RealOnly == {"real_orders"}

\* Users are interchangeable, and so are the twin deliveries.
TwinSymmetry == Permutations({u1, u2}) \cup Permutations({d1, d2})

=============================================================================
