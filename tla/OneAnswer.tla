----------------------------- MODULE OneAnswer -----------------------------
(***************************************************************************)
(* What an idempotent action service promises its callers: per key there   *)
(* is one decision, it is taken once, and every caller that is given a     *)
(* result is given the decision of the key it asked for.  A caller may be  *)
(* refused at any time.  The service may forget everything it decided, and *)
(* then drops whoever still waits.                                         *)
(***************************************************************************)
CONSTANTS Reqs, Keys, Nil

VARIABLES
    asks,     \* the key a caller asks for, Nil before it asks
    decided,  \* the decision of each key: "open", "ok" or "failed"
    told      \* what each caller has been told, "none" at first

vars == <<asks, decided, told>>

Init ==
    /\ asks = [r \in Reqs |-> Nil]
    /\ decided = [k \in Keys |-> "open"]
    /\ told = [r \in Reqs |-> "none"]

Tell(r, a) ==
    /\ told[r] = "none"
    /\ told' = [told EXCEPT ![r] = a]

Ask(r, k) ==
    /\ asks[r] = Nil
    /\ asks' = [asks EXCEPT ![r] = k]
    /\ UNCHANGED told \/ \E a \in {"unauthenticated", "rejected"} : Tell(r, a)
    /\ UNCHANGED decided

Decide(k, res) ==
    /\ decided[k] = "open"
    /\ \E r \in Reqs : asks[r] = k
    /\ decided' = [decided EXCEPT ![k] = res]
    /\ UNCHANGED <<asks, told>>

Report(r) ==
    /\ asks[r] # Nil
    /\ decided[asks[r]] # "open"
    /\ Tell(r, decided[asks[r]])
    /\ UNCHANGED <<asks, decided>>

Refuse(r) ==
    /\ asks[r] # Nil
    /\ \E a \in {"unauthenticated", "rejected", "cancelled"} : Tell(r, a)
    /\ UNCHANGED <<asks, decided>>

Forget ==
    /\ decided' = [k \in Keys |-> "open"]
    /\ told' = [r \in Reqs |-> IF asks[r] # Nil /\ told[r] = "none"
                               THEN "lost" ELSE told[r]]
    /\ UNCHANGED asks

Next ==
    \/ Forget
    \/ \E k \in Keys : \E res \in {"ok", "failed"} : Decide(k, res)
    \/ \E r \in Reqs : Report(r) \/ Refuse(r) \/ \E k \in Keys : Ask(r, k)

Spec == Init /\ [][Next]_vars
=============================================================================
