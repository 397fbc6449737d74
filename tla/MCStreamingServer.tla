------------------------- MODULE MCStreamingServer -------------------------
(* Instances of StreamingServer for TLC.  The cfg files give the constants; *)
(* no instance uses symmetry, since all of them check liveness.            *)
EXTENDS StreamingServer

\* An account that holds a stock or none and has not traded.
OneHolding == [p \in Pollers |-> IF p = "holdings" THEN 1 ELSE 0]
=============================================================================
