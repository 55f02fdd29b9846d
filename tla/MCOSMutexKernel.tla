--------------------------- MODULE MCOSMutexKernel ---------------------------
(* Small instances of OSMutexKernel for TLC: the constants are in the       *)
(* configurations.                                                          *)
EXTENDS OSMutexKernel
=============================================================================
