--------------------------- MODULE MCAgentAction ---------------------------
(* Deliveries of the agent's action service, small enough for TLC.           *)
EXTENDS AgentAction

CONSTANTS r1, r2, r3, k1, k2, n1, n2, n3, b1, b2

Deliver(k, n, e, b, act, tgt) ==
    [key |-> k, nonce |-> n, expires |-> e, body |-> b, action |-> act,
     target |-> tgt, signed |-> TRUE, hashed |-> TRUE]

(* A task; the same task signed again; the key with other content; the nonce *)
(* with another key, for a read-only action on a real asset.                 *)
MCTaskSeq == <<
    Deliver(k1, n1, 1, b1, "restart_container", "lab"),
    Deliver(k1, n2, 2, b1, "restart_container", "lab"),
    Deliver(k1, n3, 2, b2, "restart_container", "lab"),
    Deliver(k2, n1, 1, b1, "health_check", "devops-lab") >>

MCTasks == {MCTaskSeq[i] : i \in DOMAIN MCTaskSeq}

(* Goroutines are interchangeable, so tasks are handed out in the order of    *)
(* MCTaskSeq.  Among the 20 ordered triples these have every pair of tasks    *)
(* that shares a key or a nonce, every such pair with a third task that       *)
(* competes with both, and three copies of one task.                          *)
MCTriples == {<<1, 1, 1>>, <<1, 1, 2>>, <<1, 2, 3>>, <<1, 3, 3>>, <<1, 2, 4>>,
              <<1, 3, 4>>, <<1, 4, 4>>}

MCDeliveries ==
    {[r \in Reqs |-> MCTaskSeq[IF r = r1 THEN t[1] ELSE IF r = r2 THEN t[2] ELSE t[3]]] :
        t \in MCTriples}
=============================================================================
