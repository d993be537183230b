---------------------------- MODULE MCMonitoring ----------------------------
(* One rule watched by two processes, in step or out of step.               *)
EXTENDS Monitoring

CONSTANTS p1, p2, x1, k1, i1, i2

MCOneRule == <<k1>>
=============================================================================
