----------------------------- MODULE MCPrevClose -----------------------------
(* The instance of PrevClose for TLC: see prevclose.cfg.                    *)
EXTENDS PrevClose
=============================================================================
