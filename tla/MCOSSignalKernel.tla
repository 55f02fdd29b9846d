--------------------------- MODULE MCOSSignalKernel ---------------------------
(* Small instances of OSSignalKernel for TLC: the constants are in the       *)
(* configurations.                                                          *)
EXTENDS OSSignalKernel
=============================================================================
