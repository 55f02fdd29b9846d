------------------------- MODULE MCOSSemaphoreKernel -------------------------
(* Small instances of OSSemaphoreKernel for TLC: the constants are in the   *)
(* configurations.                                                          *)
EXTENDS OSSemaphoreKernel
=============================================================================
