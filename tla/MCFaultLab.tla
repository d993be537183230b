----------------------------- MODULE MCFaultLab -----------------------------
(* Two visitors, any two scenarios.                                          *)
EXTENDS FaultLab

CONSTANTS r1, r2
=============================================================================
