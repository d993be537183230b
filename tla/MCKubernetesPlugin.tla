-------------------------- MODULE MCKubernetesPlugin -------------------------
(* Two versions of the Kubernetes plugin, another plugin, and manifests    *)
(* that are refused, each for a reason of its own; calls that are          *)
(* permitted, and calls refused at each of the plugin's checks.            *)
EXTENDS KubernetesPlugin, TLC
CONSTANTS p1, p2, k1, k2
Good == [id |-> "kubernetes", version |-> 1, api |-> "v1", capabilities |-> "known",
         permissions |-> "known", schema |-> "object", file |-> "inside",
         entry |-> "inside", checksum |-> TRUE]
MCManifests == {Good, [Good EXCEPT !.version = 2],
                [Good EXCEPT !.id = "http-nginx", !.schema = "none"],
                [Good EXCEPT !.api = "v2"], [Good EXCEPT !.capabilities = "unknown"],
                [Good EXCEPT !.permissions = "unknown"], [Good EXCEPT !.schema = "array"],
                [Good EXCEPT !.file = "outside"], [Good EXCEPT !.entry = "outside"],
                [Good EXCEPT !.checksum = FALSE]}
Scale(n) == [method |-> "Execute", hash |-> TRUE, namespace |-> "aiops-lab",
             action |-> "scale", replicas |-> n]
MCPayloads == {Scale(10), Scale(11), [Scale(0) EXCEPT !.method = "Rollback", !.action = "delete"],
               [Scale(-1) EXCEPT !.method = "Rollback"],
               [Scale(3) EXCEPT !.hash = FALSE], [Scale(3) EXCEPT !.namespace = "prod"],
               [Scale(3) EXCEPT !.action = "delete"],
               [Scale(3) EXCEPT !.action = "rollout_restart"],
               [Scale(3) EXCEPT !.method = "Verify"],
               [Scale(3) EXCEPT !.method = "Discover"],
               [Scale(3) EXCEPT !.method = "Analyze", !.namespace = "prod"],
               [Scale(3) EXCEPT !.method = "Plan"],
               [Scale(3) EXCEPT !.method = "Plan", !.action = "delete"],
               [Scale(3) EXCEPT !.method = "Describe", !.namespace = "none"]}
MCAllowed == {"aiops-lab"}
Symmetry == Permutations(Procs) \cup Permutations(Calls)
==============================================================================
