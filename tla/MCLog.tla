-------------------------------- MODULE MCLog --------------------------------
(* The instance of Log for TLC: see log.cfg.                                *)
EXTENDS Log
=============================================================================
