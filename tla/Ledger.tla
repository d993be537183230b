------------------------------- MODULE Ledger -------------------------------
(***************************************************************************)
(* What approved remediation promises the people who ask for it.  A        *)
(* request is for a plan and under an idempotency key.  Per key there is   *)
(* one row, written once, by a request whose approval is on record; only   *)
(* its owner acts, and only while the row is open; the row ends once, and  *)
(* after something was done.  Whoever is told a result, the owner or a     *)
(* request that repeats it, is told that of the row of its key.            *)
(***************************************************************************)
CONSTANTS Reqs, Keys, Plans, Nil

VARIABLES
    asks,      \* the plan and the key a request is for, Nil before it comes
    approved,  \* approvals on record, by plan and request
    rows,      \* the row of each key, Nil when there is none
    acted,     \* requests that had a step carried out
    told       \* the result each request was told, "none" at first

vars == <<asks, approved, rows, acted, told>>

Results == {"SUCCEEDED", "ROLLED_BACK", "FAILED"}

Init ==
    /\ asks = [r \in Reqs |-> Nil]
    /\ approved = {}
    /\ rows = [k \in Keys |-> Nil]
    /\ acted = {}
    /\ told = [r \in Reqs |-> "none"]

Approval(r) == [plan |-> asks[r].plan, req |-> r]

Owns(r) ==
    /\ asks[r] # Nil
    /\ rows[asks[r].key] # Nil
    /\ rows[asks[r].key].owner = r

Ask(r, p, k) ==
    /\ asks[r] = Nil
    /\ asks' = [asks EXCEPT ![r] = [plan |-> p, key |-> k]]
    /\ UNCHANGED <<approved, rows, acted, told>>

Approve(r) ==
    /\ asks[r] # Nil
    /\ approved' = approved \cup {Approval(r)}
    /\ UNCHANGED <<asks, rows, acted, told>>

Begin(r) ==
    /\ asks[r] # Nil
    /\ Approval(r) \in approved
    /\ rows[asks[r].key] = Nil
    /\ rows' = [rows EXCEPT ![asks[r].key] =
                  [plan |-> asks[r].plan, owner |-> r, status |-> "RUNNING"]]
    /\ UNCHANGED <<asks, approved, acted, told>>

Act(r) ==
    /\ Owns(r)
    /\ rows[asks[r].key].status = "RUNNING"
    /\ acted' = acted \cup {r}
    /\ UNCHANGED <<asks, approved, rows, told>>

End(r, result) ==
    /\ Owns(r)
    /\ rows[asks[r].key].status = "RUNNING"
    /\ r \in acted
    /\ rows' = [rows EXCEPT ![asks[r].key].status = result]
    /\ UNCHANGED <<asks, approved, acted, told>>

Tell(r) ==
    /\ asks[r] # Nil
    /\ rows[asks[r].key] # Nil
    /\ rows[asks[r].key].status \in Results
    /\ told[r] = "none"
    /\ told' = [told EXCEPT ![r] = rows[asks[r].key].status]
    /\ UNCHANGED <<asks, approved, rows, acted>>

Next ==
    \E r \in Reqs :
        \/ \E p \in Plans, k \in Keys : Ask(r, p, k)
        \/ Approve(r) \/ Begin(r) \/ Act(r) \/ Tell(r)
        \/ \E result \in Results : End(r, result)

Spec == Init /\ [][Next]_vars
=============================================================================
