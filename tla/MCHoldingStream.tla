--------------------------- MODULE MCHoldingStream ---------------------------
(* Instances of HoldingStream for TLC.  The cfg files give the constants;   *)
(* no instance uses symmetry, since the passing one checks liveness.        *)
EXTENDS HoldingStream
=============================================================================
