--------------------------- MODULE KubernetesPlugin --------------------------
(***************************************************************************)
(* The Kubernetes plugin (plugins/kubernetes/plugin.py) called through the *)
(* plugin runtime: what becomes of the replicas of one Deployment.         *)
(*                                                                         *)
(* The control plane waits five seconds for a plugin and the plugin eight  *)
(* for the cluster, in a thread of its own.  A call the control plane has  *)
(* given up therefore goes on, and so does a request the plugin had sent   *)
(* when its process died.                                                  *)
(***************************************************************************)
EXTENDS PluginRuntime

CONSTANTS
    Calls,         \* calls that may be under way at a time
    Payloads,      \* what is asked: the RPC, the form of the approval hash,
                   \* the namespace, the action and the replica count
    Allowed,       \* AIOPS_KUBERNETES_NAMESPACES
    First          \* the replicas the Deployment starts with

ASSUME KubernetesAssumption == "kubernetes" \in Plugins /\ First \in Nat

VARIABLES
    call,          \* call[k]: a call on its way through plugin and cluster
    replicas,      \* spec.replicas, as the cluster has it
    word,          \* the replicas of the last call answered with ok
    unsure         \* the replicas of permitted calls that were answered with a
                   \* failure and may have taken effect since a call that was
                   \* waited for last did

vars == <<runtime, call, replicas, word, unsure>>

(* rollback is execute with the action forced to scale.                    *)
Action(q) == IF q.method = "Rollback" THEN "scale" ELSE q.action
Writes == {"Execute", "Rollback"}
(* What a handler insists on before it asks the cluster anything; it raises *)
(* ValueError otherwise.  A count that is missing reads as -1.              *)
InNamespace(q) == q.namespace \in Allowed
Typed(q) == Action(q) \in {"scale", "rollout_restart"}
Permitted(q) ==
    \/ q.method \in {"Describe", "Health"}
    \/ q.method \in {"Discover", "Analyze", "Verify"} /\ InNamespace(q)
    \/ q.method = "Plan" /\ InNamespace(q) /\ Typed(q)
    \/ /\ q.method \in Writes /\ InNamespace(q) /\ Typed(q) /\ q.hash
       /\ Action(q) = "scale" => q.replicas \in 0..10
(* The requests a handler makes: nodes, pods and Deployments, one of them,  *)
(* or none.                                                                 *)
Requests(q) == CASE q.method = "Discover" -> 3
                 [] q.method \in {"Describe", "Health", "Plan"} -> 0
                 [] OTHER -> 1
(* The calls whose PATCH carries a replica count, and what they may set.   *)
Scales(q) == Permitted(q) /\ q.method \in Writes /\ Action(q) = "scale"
Counts(q) == IF Scales(q) THEN {q.replicas} ELSE {}

Set(counts, before) == IF counts = {} THEN before ELSE CHOOSE n \in counts : TRUE

NoCall == [step |-> "none", awaited |-> FALSE]
Active(k) == call[k] # NoCall
Awaited == {k \in Calls : call[k].awaited}

(* What the calls nobody waits for any more may still set.                  *)
Adrift == UNION {call[k].counts : k \in {j \in Calls \ Awaited : Active(j)}}

(* A call as the plugin process p takes it up; left counts its requests.   *)
Begun(q, p) == [step |-> "running", awaited |-> TRUE, proc |-> p, fine |-> Permitted(q),
                left |-> IF Permitted(q) THEN Requests(q) ELSE 0, counts |-> Counts(q)]

(* What is left of a call when nobody waits for it any more.  One that      *)
(* carries no count leaves no trace then and is forgotten.                  *)
Alone(c) == CASE c.counts # {} /\ c.step = "running" -> [c EXCEPT !.awaited = FALSE]
              [] c.counts # {} /\ c.step = "sent" -> [c EXCEPT !.awaited = FALSE, !.proc = Nil]
              [] OTHER -> NoCall
Proceed(k, step) ==
    LET c == [call[k] EXCEPT !.step = step]
    IN  call' = [call EXCEPT ![k] = IF k \in Awaited THEN c ELSE Alone(c)]

Init == /\ RuntimeInit
        /\ call = [k \in Calls |-> NoCall]
        /\ replicas = First /\ word = First
        /\ unsure = {}

(* Mutant of Call: the route runs in a thread of its own.                  *)
CallThreaded(k, q) ==
    LET p == registry["kubernetes"]
        h == Path(plugin[p])
    IN  /\ mode = "up" /\ ~Active(k) /\ p # Nil /\ Reach(h) # Nil
        /\ call' = [call EXCEPT ![k] = Begun(q, Reach(h))]
        /\ conn' = [conn EXCEPT ![h] = Reach(h)]
        /\ UNCHANGED <<plugin, stage, socket, registry, task, mode, twins,
                       replicas, word, unsure>>

(* GrpcPluginRuntime.call: the event loop waits for the answer.            *)
Call(k, q) ==
    LET p == registry["kubernetes"]
        h == Path(plugin[p])
    IN  /\ Free /\ ~Active(k) /\ p # Nil /\ Reach(h) # Nil
        /\ call' = [call EXCEPT ![k] = Begun(q, Reach(h))]
        /\ conn' = [conn EXCEPT ![h] = Reach(h)]
        /\ task' = [kind |-> "call", proc |-> p]
        /\ UNCHANGED <<plugin, stage, socket, registry, mode, twins,
                       replicas, word, unsure>>

(* The plugin is done with a call; whether anybody hears of it depends on  *)
(* whether the control plane still waits.                                  *)
Answer(k, ok) ==
    LET n == call[k].counts
    IN  /\ call[k].proc # Nil
        /\ call' = [call EXCEPT ![k] = NoCall]
        /\ task' = IF k \in Awaited THEN NoTask ELSE task
        /\ word' = IF k \in Awaited /\ ok THEN Set(n, word) ELSE word
        /\ unsure' = IF k \in Awaited /\ ~ok THEN unsure \cup n ELSE unsure
        /\ UNCHANGED <<plugin, stage, socket, conn, registry, mode, twins, replicas>>

(* A ValueError, or no token: nothing is sent and INTERNAL is answered.    *)
Refuse(k) == Active(k) /\ call[k].step = "running" /\ Answer(k, FALSE)

(* describe, health and plan answer by themselves.                         *)
Reply(k) == /\ Active(k) /\ call[k].step = "running" /\ call[k].fine /\ call[k].left = 0
            /\ Answer(k, TRUE)

(* The plugin sends its next request, unless the payload is refused.       *)
Send(k) ==
    /\ Active(k) /\ call[k].step = "running" /\ call[k].left > 0
    /\ Proceed(k, "sent")
    /\ UNCHANGED <<runtime, replicas, word, unsure>>

(* The cluster carries the request out: a merge patch of the one field.     *)
(* What took effect before is overwritten; what is still adrift is not.     *)
Apply(k) ==
    LET n == call[k].counts
    IN  /\ call[k].step = "sent"
        /\ Proceed(k, "applied")
        /\ replicas' = Set(n, replicas)
        /\ unsure' = IF k \in Awaited /\ n # {} THEN Adrift ELSE unsure
        /\ UNCHANGED <<runtime, word>>

(* The cluster's answer arrives, or is lost on its way: an error.          *)
Succeed(k) == call[k].step = "applied" /\ call[k].left = 1 /\ Answer(k, TRUE)
Lose(k) == call[k].step = "applied" /\ Answer(k, FALSE)

(* discover reads on.                                                      *)
ReadOn(k) ==
    /\ call[k].step = "applied" /\ call[k].left > 1
    /\ call' = [call EXCEPT ![k].step = "running", ![k].left = @ - 1]
    /\ UNCHANGED <<runtime, replicas, word, unsure>>

(* A request nobody waits for may never be carried out.                    *)
Vanish(k) ==
    /\ call[k].step = "sent" /\ ~call[k].awaited
    /\ call' = [call EXCEPT ![k] = NoCall]
    /\ UNCHANGED <<runtime, replicas, word, unsure>>

(* The control plane's five seconds pass, or the plugin reports an error   *)
(* for a request that is still on its way: the caller is told of a failure *)
(* and the call goes on.                                                   *)
GiveUp(k) ==
    /\ k \in Awaited
    /\ call' = [call EXCEPT ![k] = Alone(@)]
    /\ task' = NoTask
    /\ unsure' = unsure \cup call[k].counts
    /\ UNCHANGED <<plugin, stage, socket, conn, registry, mode, twins, replicas, word>>

(* Dying processes take their handlers with them, and whoever waited is    *)
(* told of a failure; what they had sent goes on.                          *)
Orphan(dead) ==
    LET of == {k \in Calls : Active(k) /\ call[k].proc \in dead}
    IN  /\ call' = [k \in Calls |->
             CASE k \notin of -> call[k]
               [] k \in of /\ call[k].step = "running" -> NoCall
               [] OTHER -> Alone(call[k])]
        /\ unsure' = unsure \cup UNION {call[k].counts : k \in of \cap Awaited}
        /\ UNCHANGED <<replicas, word>>
Abandoned(p) == \E k \in Awaited : call[k].proc = p

ProcessEnds(p) == /\ Exit(p) /\ Orphan({p})
                  /\ task' = IF Abandoned(p) THEN NoTask ELSE task
StopEnds(p) == Reaped(p) /\ Orphan({p})
ControlPlaneRestarts == Restart /\ Orphan(Procs)

Next == \/ RuntimeNext /\ UNCHANGED <<call, replicas, word, unsure>>
        \/ \E p \in Procs : ProcessEnds(p) \/ StopEnds(p)
        \/ \E k \in Calls : \/ \E q \in Payloads : Call(k, q)
                             \/ Refuse(k) \/ Reply(k) \/ Send(k) \/ Apply(k) \/ ReadOn(k)
                             \/ Succeed(k) \/ Lose(k) \/ Vanish(k) \/ GiveUp(k)
        \/ ControlPlaneRestarts

Spec == Init /\ [][Next]_vars
------------------------------------------------------------------------------
CallType == [step: {"running", "sent", "applied"}, awaited: BOOLEAN, fine: BOOLEAN,
             proc: Procs \cup {Nil}, left: 0..3, counts: {{}} \cup {{n} : n \in 0..10}]

(* Types.                                                                  *)
TypeOK ==
    /\ RuntimeTypeOK
    /\ call \in [Calls -> CallType \cup {NoCall}]
    /\ replicas \in Nat /\ word \in Nat
    /\ unsure \subseteq Nat

(* A scaling that was confirmed stands (execute, rollback): the Deployment  *)
(* has the replicas confirmed last, or those of the one call under way that *)
(* has taken effect and not been answered, or those of a call answered with *)
(* a failure since, or before and still adrift in the cluster when the      *)
(* confirmed one took effect.  A call confirmed and then overtaken never    *)
(* comes back, nor does one given up that was over before.                  *)
LastWordStands ==
    \/ replicas \in {word} \cup unsure
    \/ \E k \in Awaited : call[k].step = "applied" /\ replicas \in call[k].counts
==============================================================================
