--------------------------- MODULE MCSubgraphEngine ---------------------------
(* An instance of SubgraphEngine for TLC.                                   *)
EXTENDS SubgraphEngine, TLC

CONSTANTS small, odd, tall, large

\* Two shapes of one output (a stride of two rounds both down), two of one input
\* size and different outputs, and a largest one.
FourShapes == {small, odd, tall, large}
InSizes == (small :> 1) @@ (odd :> 2) @@ (tall :> 2) @@ (large :> 3)
OutShapes == (small :> "o1") @@ (odd :> "o1") @@ (tall :> "o2") @@ (large :> "o3")
OutSizes == (small :> 1) @@ (odd :> 1) @@ (tall :> 2) @@ (large :> 3)
=============================================================================
