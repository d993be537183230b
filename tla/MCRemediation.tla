--------------------------- MODULE MCRemediation ---------------------------
(* Two control-plane processes on one database, small enough for TLC.        *)
EXTENDS Remediation, TLC

CONSTANTS p1, p2, q1, q2, i1, i2, k1, k2

(* One plan of two steps that can be undone, on different containers: the    *)
(* agent takes a step under plan, action and target, whatever its arguments. *)
(* The other ends with a step that cannot.                                   *)
Stop(a) == [action |-> "stop_container", target |-> a, args |-> "",
            undo |-> "restart_container", undoArgs |-> "grace_seconds=10"]
Check(a) == [action |-> "health_check", target |-> a, args |-> "",
             undo |-> "none", undoArgs |-> ""]
MCStoredSteps == [i \in Stored |-> <<Stop("lab-api"),
                     IF i = i1 THEN Stop("lab-redis") ELSE Check("lab-api")>>]

MCAsset == [i \in Ids |-> "lab-api"]

Ask(i, k) == [plan |-> i, key |-> k, intact |-> TRUE, admin |-> FALSE]

(* A plan under either key, another under one of them, and a stale hash.     *)
MCRequests == {Ask(i1, k1), Ask(i1, k2), Ask(i2, k2), [Ask(i1, k1) EXCEPT !.intact = FALSE]}

MCSymmetry == Permutations(Procs) \cup Permutations(Reqs)
=============================================================================
