------------------------- MODULE MCOSThreadLifecycle -------------------------
(* Small instances of OSThreadLifecycle for TLC: the constants are in the   *)
(* configurations.                                                          *)
EXTENDS OSThreadLifecycle
=============================================================================
