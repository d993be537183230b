------------------------- MODULE MCRemediationLoop -------------------------
(* One control-plane process, with signals, evidence threads and a clock.    *)
EXTENDS Remediation

CONSTANTS p1, q1, q2, i1, s1, c1, k1, k2

MCAsset == [i \in Ids |-> "lab-api"]

(* One step is enough where the steps do not matter.                          *)
MCSteps == [i \in Stored |-> <<Head(DefaultSteps("lab-api"))>>]

Ask(i, k) == [plan |-> i, key |-> k, intact |-> TRUE, admin |-> FALSE]

(* Two approvals of one plan; the plan of the signal stays unapproved.       *)
MCRequests == {Ask(i1, k1), Ask(i1, k2)}
=============================================================================
