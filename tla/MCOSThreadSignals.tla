-------------------------- MODULE MCOSThreadSignals --------------------------
(* Small instances of OSThreadSignals for TLC: the constants are in the      *)
(* configuration.                                                           *)
EXTENDS OSThreadSignals
=============================================================================
