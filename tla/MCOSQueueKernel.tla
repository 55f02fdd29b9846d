--------------------------- MODULE MCOSQueueKernel ---------------------------
(* Small instances of OSQueueKernel for TLC: the constants are in the       *)
(* configurations.                                                          *)
EXTENDS OSQueueKernel
=============================================================================
