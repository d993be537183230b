----------------------- MODULE KubernetesPluginProofs -----------------------
(***************************************************************************)
(* Proofs about the plugin runtime and the Kubernetes plugin called        *)
(* through it, for every set of processes, manifests, calls and payloads.  *)
(***************************************************************************)
EXTENDS KubernetesPlugin, TLAPS

(* The process install has started and not yet judged, and the one the      *)
(* event loop works on.                                                     *)
Candidate == IF task.kind = "probe" THEN {task.proc} ELSE {}
Around == Registered \cup (IF task.kind \in {"probe", "stop"} THEN {task.proc} ELSE {})

(* The event loop does one thing at a time, and only the thing it does is   *)
(* about a process that is not registered.                                  *)
TaskInv ==
    /\ task.kind = "idle" => task = NoTask
    /\ task.kind \in {"probe", "stop"} =>
         task.proc \in Procs /\ task.proc \notin Registered /\ plugin[task.proc] # Nil
    /\ mode = "closed" => Registered = {} /\ task = NoTask

(* Where processes are: who runs is registered or a candidate, who ends is  *)
(* being stopped, and each under its own manifest.                          *)
StageInv ==
    /\ Running \subseteq Registered \cup Candidate
    /\ \A p \in Procs : stage[p] = "ending" => task = [kind |-> "stop", proc |-> p]
    /\ \A p \in Registered \cup Candidate : stage[p] \in {"none", "starting", "serving"}
    /\ \A p \in Procs : stage[p] # "none" => plugin[p] # Nil
    /\ \A i \in Plugins : registry[i] # Nil =>
         plugin[registry[i]] # Nil /\ plugin[registry[i]].id = i

(* Connections lead to processes that serve, sockets to ones that listened, *)
(* both under their own path.                                               *)
PathInv ==
    \A h \in Paths :
        /\ conn[h] # Nil => stage[conn[h]] = "serving" /\ Path(plugin[conn[h]]) = h
        /\ socket[h] # Nil => /\ stage[socket[h]] \in {"serving", "ending", "stuck"}
                              /\ Path(plugin[socket[h]]) = h

(* Whoever is no twin has its path to itself, and its socket is there.      *)
TwinInv ==
    \A p \in (Registered \cup Candidate) \ twins :
        /\ stage[p] = "serving" => socket[Path(plugin[p])] = p
        /\ \A q \in Around \ {p} : Path(plugin[q]) # Path(plugin[p])

(* The control plane waits for one call at a time; a count nobody waits for *)
(* is among the unsure; a count that was applied is still there, or an      *)
(* unsure one after it.                                                     *)
CallInv ==
    /\ \A k \in Awaited : task.kind = "call" /\ call[k].proc \in Procs
    /\ \A j, k \in Awaited : j = k
    /\ \A k \in Calls : Active(k) =>
         /\ call[k].counts # {} => call[k].left = 1
         /\ ~call[k].awaited => call[k].counts # {} /\ call[k].counts \subseteq unsure
         /\ call[k].awaited /\ call[k].step = "applied" /\ call[k].counts # {} =>
              replicas \in call[k].counts \cup unsure

RuntimeInv == RuntimeTypeOK /\ TaskInv /\ StageInv /\ PathInv /\ TwinInv

IInv == TypeOK /\ TaskInv /\ StageInv /\ PathInv /\ TwinInv /\ CallInv /\ LastWordStands

-----------------------------------------------------------------------------
(* Processes, paths and who answers                                         *)

LEMMA Places ==
    ASSUME RuntimeTypeOK
    PROVE  /\ \A p : p \in Registered <=> p # Nil /\ \E i \in Plugins : registry[i] = p
           /\ Registered \subseteq Procs
           /\ \A p \in Procs : plugin[p] # Nil => plugin[p] \in Manifests
           /\ \A m \in Manifests : Path(m) \in Paths /\ m.id \in Plugins
  BY DEF RuntimeTypeOK, Registered, Paths, Plugins

LEMMA SamePath ==
    ASSUME NEW m, NEW n
    PROVE  Path(m) = Path(n) <=> m.id = n.id /\ m.version = n.version
  BY DEF Path

LEMMA Known ==
    ASSUME RuntimeInv
    PROVE  \A p \in Registered \cup Candidate : p \in Procs /\ plugin[p] \in Manifests
                                               /\ Path(plugin[p]) \in Paths
<1>1. RuntimeTypeOK /\ TaskInv /\ StageInv
  BY DEF RuntimeInv
<1>2. \A p \in Registered : plugin[p] # Nil
  BY <1>1, Places DEF StageInv
<1>3. \A p \in Candidate : p \in Procs /\ plugin[p] # Nil
  BY <1>1 DEF TaskInv, Candidate
<1> QED
  BY <1>1, <1>2, <1>3, Places

(* A request ends at somebody known who serves under this path.             *)
LEMMA Reached ==
    ASSUME RuntimeInv, NEW h \in Paths, Reach(h) # Nil
    PROVE  /\ Reach(h) \in Serving /\ Path(plugin[Reach(h)]) = h
           /\ Reach(h) \in Registered \cup Candidate
<1>1. RuntimeTypeOK /\ StageInv /\ PathInv
  BY DEF RuntimeInv
<1>2. Nil \notin Serving
  BY RuntimeAssumption DEF Serving
<1>3. CASE conn[h] \in Serving
  <2>1. Reach(h) = conn[h]
    BY <1>3 DEF Reach
  <2> QED
    BY <1>1, <1>2, <1>3, <2>1 DEF PathInv, StageInv, Running, Serving
<1>4. CASE conn[h] \notin Serving /\ socket[h] \in Serving
  <2>1. Reach(h) = socket[h]
    BY <1>4 DEF Reach
  <2> QED
    BY <1>1, <1>2, <1>4, <2>1 DEF PathInv, StageInv, Running, Serving
<1>5. CASE conn[h] \notin Serving /\ socket[h] \notin Serving
  BY <1>5 DEF Reach
<1> QED
  BY <1>3, <1>4, <1>5

(* Whoever is no twin and serves is the one its path leads to.              *)
LEMMA OwnPath ==
    ASSUME RuntimeInv, NEW p \in (Registered \cup Candidate) \ twins, stage[p] = "serving"
    PROVE  Reach(Path(plugin[p])) = p
<1> DEFINE h == Path(plugin[p])
<1>1. p \in Procs /\ h \in Paths
  BY Known
<1>2. socket[h] = p /\ \A q \in Around \ {p} : Path(plugin[q]) # h
  BY DEF RuntimeInv, TwinInv
<1>3. p \in Serving /\ Nil \notin Serving
  BY <1>1, RuntimeAssumption DEF Serving
<1>4. Reach(h) # Nil
  <2>1. CASE conn[h] \in Serving
    BY <1>3, <2>1 DEF Reach
  <2>2. CASE conn[h] \notin Serving
    BY <1>1, <1>2, <1>3, <2>2, RuntimeAssumption DEF Reach
  <2> QED
    BY <2>1, <2>2
<1>5. Reach(h) \in Registered \cup Candidate /\ Path(plugin[Reach(h)]) = h
  BY <1>1, <1>4, Reached
<1>6. Registered \cup Candidate \subseteq Around
  BY DEF Around, Candidate
<1> QED
  BY <1>2, <1>5, <1>6

-----------------------------------------------------------------------------
(* The runtime, step by step                                                *)

LEMMA InstallStep ==
    ASSUME RuntimeInv, NEW c \in Procs, NEW m \in Manifests, Install(c, m)
    PROVE  RuntimeInv'
<1>1. RuntimeTypeOK /\ TaskInv /\ StageInv /\ PathInv /\ TwinInv
  BY DEF RuntimeInv
<1>2. /\ task = NoTask /\ mode = "up" /\ stage[c] = "none" /\ c \notin Registered
      /\ socket' = [socket EXCEPT ![Path(m)] = Nil]
      /\ plugin' = [plugin EXCEPT ![c] = m]
      /\ stage' = [stage EXCEPT ![c] = "starting"]
      /\ task' = [kind |-> "probe", proc |-> c]
      /\ twins' = IF Twin(m) = {} THEN twins ELSE twins \cup Twin(m) \cup {c}
      /\ conn' = conn /\ registry' = registry /\ mode' = mode
  BY <1>1 DEF Install, Free, Idle, TaskInv
<1>3. /\ Registered' = Registered /\ Candidate = {} /\ Around = Registered
      /\ Candidate' = {c} /\ Around' = Registered \cup {c}
  BY <1>2 DEF Registered, Candidate, Around, NoTask
<1>4. m # Nil /\ Path(m) \in Paths /\ c # Nil
  BY <1>1, Places, RuntimeAssumption
<1>5. /\ plugin'[c] = m /\ stage'[c] = "starting"
      /\ \A p \in Procs : p # c => plugin'[p] = plugin[p] /\ stage'[p] = stage[p]
  BY <1>1, <1>2 DEF RuntimeTypeOK
<1>6. RuntimeTypeOK'
  <2>1. Twin(m) \subseteq Procs
    BY <1>1, Places DEF Twin
  <2> QED
    BY <1>1, <1>2, <2>1 DEF RuntimeTypeOK
<1>7. TaskInv'
  BY <1>2, <1>3, <1>4, <1>5 DEF TaskInv
<1>8. StageInv'
  <2>1. Running' = Running \cup {c}
    BY <1>5 DEF Running
  <2>2. \A p \in Procs : stage[p] # "ending"
    BY <1>1, <1>2 DEF StageInv, NoTask
  <2>3. \A p \in Registered : p \in Procs /\ p # c
    BY <1>1, <1>2, Places
  <2>4. \A i \in Plugins : registry[i] # Nil => registry[i] \in Registered
    BY <1>1, Places
  <2> QED
    BY <1>1, <1>2, <1>3, <1>4, <1>5, <2>1, <2>2, <2>3, <2>4 DEF StageInv
<1>9. PathInv'
  <2>1. \A h \in Paths : conn[h] # c /\ socket[h] # c
    BY <1>1, <1>2, <1>4 DEF PathInv
  <2>2. \A h \in Paths : (conn[h] # Nil => conn[h] \in Procs) /\ (socket[h] # Nil => socket[h] \in Procs)
    BY <1>1 DEF RuntimeTypeOK
  <2>3. \A h \in Paths : conn'[h] = conn[h] /\ (socket'[h] = Nil \/ socket'[h] = socket[h])
    BY <1>1, <1>2 DEF RuntimeTypeOK
  <2> QED
    BY <1>1, <1>5, <2>1, <2>2, <2>3 DEF PathInv
<1>10. TwinInv'
  <2>1. \A p \in Registered : p \in Procs /\ p # c /\ p # Nil
    BY <1>1, <1>2, Places
  <2>2. twins \subseteq twins'
    BY <1>2
  <2>3. \A p \in Registered : Path(plugin[p]) = Path(m) => p \in twins' /\ c \in twins'
    <3>1. \A p \in Registered : Path(plugin[p]) = Path(m) => p \in Twin(m)
      BY SamePath DEF Twin
    <3> QED
      BY <1>2, <3>1
  <2>4. \A p \in Registered \ twins' : socket'[Path(plugin[p])] = socket[Path(plugin[p])]
    <3>1. \A p \in Registered \ twins' : Path(plugin[p]) # Path(m) /\ Path(plugin[p]) \in Paths
      BY <2>3, Known
    <3> QED
      BY <1>1, <1>2, <3>1 DEF RuntimeTypeOK
  <2> QED
    BY <1>1, <1>3, <1>5, <2>1, <2>2, <2>3, <2>4 DEF TwinInv
<1> QED
  BY <1>6, <1>7, <1>8, <1>9, <1>10 DEF RuntimeInv

LEMMA ListenStep ==
    ASSUME RuntimeInv, NEW p \in Procs, Listen(p)
    PROVE  RuntimeInv'
<1>1. RuntimeTypeOK /\ TaskInv /\ StageInv /\ PathInv /\ TwinInv
  BY DEF RuntimeInv
<1>2. /\ stage[p] = "starting" /\ stage' = [stage EXCEPT ![p] = "serving"]
      /\ socket' = [socket EXCEPT ![Path(plugin[p])] = p]
      /\ plugin' = plugin /\ conn' = conn /\ registry' = registry /\ task' = task
      /\ mode' = mode /\ twins' = twins
  BY DEF Listen
<1>3. Registered' = Registered /\ Candidate' = Candidate /\ Around' = Around
  BY <1>2 DEF Registered, Candidate, Around
<1>4. stage'[p] = "serving" /\ \A q \in Procs : q # p => stage'[q] = stage[q]
  BY <1>1, <1>2 DEF RuntimeTypeOK
<1>5. p \in Registered \cup Candidate /\ p # Nil /\ Path(plugin[p]) \in Paths
  <2>1. p \in Running
    BY <1>2 DEF Running
  <2> QED
    BY <1>1, <2>1, Known, RuntimeAssumption DEF StageInv
<1>6. socket'[Path(plugin[p])] = p /\ \A h \in Paths : h # Path(plugin[p]) => socket'[h] = socket[h]
  BY <1>1, <1>2, <1>5 DEF RuntimeTypeOK
<1>7. RuntimeTypeOK'
  BY <1>1, <1>2 DEF RuntimeTypeOK
<1>8. TaskInv'
  BY <1>1, <1>2, <1>3 DEF TaskInv
<1>9. StageInv'
  <2>1. Running' = Running
    BY <1>2, <1>4 DEF Running
  <2>2. \A q \in Registered \cup Candidate : q \in Procs
    BY Known
  <2> QED
    BY <1>1, <1>2, <1>3, <1>4, <2>1, <2>2 DEF StageInv
<1>10. PathInv'
  <2>1. \A h \in Paths : (conn[h] # Nil => conn[h] \in Procs) /\ (socket[h] # Nil => socket[h] \in Procs)
    BY <1>1 DEF RuntimeTypeOK
  <2> QED
    BY <1>1, <1>2, <1>4, <1>6, <2>1 DEF PathInv
<1>11. TwinInv'
  <2>1. Registered \cup Candidate \subseteq Around
    BY DEF Around, Candidate
  <2>2. \A q \in Registered \cup Candidate : q \in Procs /\ Path(plugin[q]) \in Paths
    BY Known
  <2>3. \A q \in (Registered \cup Candidate) \ twins : q # p => Path(plugin[q]) # Path(plugin[p])
    BY <1>1, <1>5, <2>1 DEF TwinInv
  <2> QED
    BY <1>1, <1>2, <1>3, <1>4, <1>6, <2>2, <2>3 DEF TwinInv
<1> QED
  BY <1>7, <1>8, <1>9, <1>10, <1>11 DEF RuntimeInv

(* The event loop turns to stopping p, which is registered or a candidate   *)
(* no more: _stop, and the exchange of a plugin for its predecessor.        *)
LEMMA StopStep ==
    ASSUME RuntimeInv, NEW p \in Registered \cup Candidate, task.kind # "stop",
           p \notin Registered', Registered' \subseteq Registered \cup Candidate,
           Running \ {p} \subseteq Registered',
           registry' \in [Plugins -> Procs \cup {Nil}],
           \A i \in Plugins : registry'[i] # Nil =>
             plugin[registry'[i]] # Nil /\ plugin[registry'[i]].id = i,
           stage' = [stage EXCEPT ![p] = IF @ = "none" THEN @ ELSE "ending"],
           task' = [kind |-> "stop", proc |-> p],
           conn' \in [Paths -> Procs \cup {Nil}],
           \A h \in Paths : conn'[h] # Nil =>
             conn'[h] # p /\ stage[conn'[h]] = "serving" /\ Path(plugin[conn'[h]]) = h,
           mode' = mode, mode # "closed", UNCHANGED <<plugin, socket, twins>>
    PROVE  RuntimeInv'
<1>1. RuntimeTypeOK /\ TaskInv /\ StageInv /\ PathInv /\ TwinInv
  BY DEF RuntimeInv
<1>2. p \in Procs /\ plugin[p] \in Manifests /\ plugin[p] # Nil
  BY Known, RuntimeAssumption
<1>3. Candidate' = {} /\ Around' = Registered' \cup {p}
  BY DEF Candidate, Around
<1>4. /\ stage'[p] = IF stage[p] = "none" THEN "none" ELSE "ending"
      /\ \A q \in Procs : q # p => stage'[q] = stage[q]
  BY <1>1, <1>2 DEF RuntimeTypeOK
<1>5. RuntimeTypeOK'
  BY <1>1, <1>2 DEF RuntimeTypeOK
<1>6. TaskInv'
  BY <1>2, <1>3 DEF TaskInv
<1>7. StageInv'
  <2>1. Running' \subseteq Running \ {p}
    BY <1>4 DEF Running
  <2>2. \A q \in Procs : stage[q] # "ending"
    BY <1>1 DEF StageInv
  <2>3. \A q \in Registered' : q \in Procs /\ q # p
    BY Known
  <2>4. \A q \in Registered' : stage'[q] \in {"none", "starting", "serving"}
    BY <1>1, <1>4, <2>3 DEF StageInv
  <2>5. \A q \in Procs : stage'[q] # "none" => stage[q] # "none"
    BY <1>4
  <2> QED
    BY <1>1, <1>2, <1>3, <1>4, <2>1, <2>2, <2>4, <2>5 DEF StageInv
<1>8. PathInv'
  <2>1. \A h \in Paths : conn'[h] # Nil => stage'[conn'[h]] = "serving"
    BY <1>4
  <2>2. ASSUME NEW h \in Paths, socket'[h] # Nil
        PROVE  stage'[socket'[h]] \in {"serving", "ending", "stuck"} /\ Path(plugin'[socket'[h]]) = h
    <3>1. socket[h] \in Procs /\ socket'[h] = socket[h]
      BY <1>1, <2>2 DEF RuntimeTypeOK
    <3> QED
      BY <1>1, <1>4, <2>2, <3>1 DEF PathInv
  <2> QED
    BY <2>1, <2>2 DEF PathInv
<1>9. TwinInv'
  <2>1. p \in Around /\ Registered' \subseteq Around
    BY DEF Around, Candidate
  <2>2. \A q \in Registered' : q \in Procs /\ q # p
    BY Known
  <2> QED
    BY <1>1, <1>3, <1>4, <2>1, <2>2 DEF TwinInv
<1> QED
  BY <1>5, <1>6, <1>7, <1>8, <1>9 DEF RuntimeInv

(* What _stop does to the connections.                                      *)
LEMMA Unconnected ==
    ASSUME RuntimeInv, NEW p \in Registered \cup Candidate, Terminate(p)
    PROVE  /\ conn' \in [Paths -> Procs \cup {Nil}]
           /\ \A h \in Paths : conn'[h] # Nil =>
                conn'[h] # p /\ stage[conn'[h]] = "serving" /\ Path(plugin[conn'[h]]) = h
<1>1. RuntimeTypeOK /\ PathInv /\ Path(plugin[p]) \in Paths
  BY Known DEF RuntimeInv
<1>2. PICK users : conn' = [conn EXCEPT ![Path(plugin[p])] = IF @ = p \/ users = {} THEN Nil ELSE @]
  BY DEF Terminate
<1>3. \A h \in Paths : conn'[h] = Nil \/ conn'[h] = conn[h]
  BY <1>1, <1>2 DEF RuntimeTypeOK
<1>4. \A h \in Paths : conn[h] = p => h = Path(plugin[p])
  <2>1. p # Nil
    BY Known, RuntimeAssumption
  <2> QED
    BY <1>1, <2>1 DEF PathInv
<1>5. \A h \in Paths : conn[h] = p => conn'[h] = Nil
  BY <1>1, <1>2, <1>4 DEF RuntimeTypeOK
<1>6. conn' \in [Paths -> Procs \cup {Nil}]
  BY <1>1, <1>2 DEF RuntimeTypeOK
<1> QED
  BY <1>1, <1>3, <1>5, <1>6 DEF PathInv

LEMMA RejectStep ==
    ASSUME RuntimeInv, NEW c \in Procs, Reject(c)
    PROVE  RuntimeInv'
<1>1. RuntimeTypeOK /\ TaskInv /\ StageInv
  BY DEF RuntimeInv
<1>2. /\ task = [kind |-> "probe", proc |-> c] /\ Terminate(c)
      /\ plugin' = plugin /\ socket' = socket /\ registry' = registry /\ mode' = mode
      /\ twins' = twins
  BY DEF Reject
<1>3. Registered' = Registered /\ Candidate = {c} /\ c \notin Registered
  BY <1>1, <1>2 DEF Registered, Candidate, TaskInv
<1>4. stage' = [stage EXCEPT ![c] = IF @ = "none" THEN @ ELSE "ending"]
      /\ task' = [kind |-> "stop", proc |-> c]
  BY <1>2 DEF Terminate
<1>5. Running \ {c} \subseteq Registered'
  BY <1>1, <1>3 DEF StageInv
<1>6. mode # "closed"
  BY <1>1, <1>2 DEF TaskInv, NoTask
<1>7. registry' \in [Plugins -> Procs \cup {Nil}] /\
      \A i \in Plugins : registry'[i] # Nil =>
        plugin[registry'[i]] # Nil /\ plugin[registry'[i]].id = i
  BY <1>1, <1>2 DEF StageInv, RuntimeTypeOK
<1>8. task.kind # "stop" /\ c \in Registered \cup Candidate
  BY <1>2, <1>3
<1> QED
  BY <1>2, <1>3, <1>4, <1>5, <1>6, <1>7, <1>8, Unconnected, StopStep

LEMMA UninstallStep ==
    ASSUME RuntimeInv, NEW i \in Plugins, Uninstall(i)
    PROVE  RuntimeInv'
<1>1. RuntimeTypeOK /\ TaskInv /\ StageInv
  BY DEF RuntimeInv
<1>2. PICK p : p = registry[i]
  OBVIOUS
<1>3. /\ task = NoTask /\ mode = "closing" /\ p # Nil
      /\ registry' = [registry EXCEPT ![i] = Nil] /\ Terminate(p)
      /\ plugin' = plugin /\ socket' = socket /\ mode' = mode /\ twins' = twins
  BY <1>1, <1>2 DEF Uninstall, Idle, TaskInv
<1>4. p \in Registered /\ Candidate = {}
  BY <1>1, <1>2, <1>3, Places DEF Candidate, NoTask
<1>5. registry' \in [Plugins -> Procs \cup {Nil}] /\ registry'[i] = Nil
      /\ \A j \in Plugins : j # i => registry'[j] = registry[j]
  BY <1>1, <1>3 DEF RuntimeTypeOK
<1>6. \A j \in Plugins : registry[j] = p => j = i
  BY <1>1, <1>2, <1>3 DEF StageInv
<1>7. Registered' = Registered \ {p}
  <2>1. Registered' = {registry'[j] : j \in Plugins} \ {Nil}
    BY DEF Registered
  <2> QED
    BY <1>2, <1>5, <1>6, <2>1 DEF Registered
<1>8. \A j \in Plugins : registry'[j] # Nil =>
        plugin[registry'[j]] # Nil /\ plugin[registry'[j]].id = j
  BY <1>1, <1>5 DEF StageInv
<1>9. Running \ {p} \subseteq Registered'
  BY <1>1, <1>4, <1>7 DEF StageInv
<1>10. stage' = [stage EXCEPT ![p] = IF @ = "none" THEN @ ELSE "ending"]
       /\ task' = [kind |-> "stop", proc |-> p]
  BY <1>3 DEF Terminate
<1>11. task.kind # "stop" /\ mode # "closed"
  BY <1>3 DEF NoTask
<1>12. p \in Registered \cup Candidate /\ p \notin Registered'
       /\ Registered' \subseteq Registered \cup Candidate
  BY <1>4, <1>7
<1> QED
  BY <1>3, <1>5, <1>8, <1>9, <1>10, <1>11, <1>12, Unconnected, StopStep

LEMMA RegisterStep ==
    ASSUME RuntimeInv, NEW c \in Procs, Register(c)
    PROVE  RuntimeInv'
<1>1. RuntimeTypeOK /\ TaskInv /\ StageInv /\ PathInv /\ TwinInv
  BY DEF RuntimeInv
<1>2. task = [kind |-> "probe", proc |-> c] /\ Candidate = {c} /\ c \notin Registered
      /\ c # Nil /\ mode # "closed"
  BY <1>1, RuntimeAssumption DEF Register, TaskInv, Candidate, NoTask
<1>3. plugin[c] \in Manifests /\ Path(plugin[c]) \in Paths /\ plugin[c].id \in Plugins
  BY <1>1, <1>2, Known, Places
<1>4. PICK i \in Plugins : i = plugin[c].id
  BY <1>3
<1>5. PICK h \in Paths : h = Path(plugin[c])
  BY <1>3
<1>6. PICK r : r = Reach(h)
  OBVIOUS
<1>7. PICK previous : previous = registry[i]
  OBVIOUS
<1>8. /\ registry' = [registry EXCEPT ![i] = c] /\ r # Nil
      /\ plugin' = plugin /\ socket' = socket /\ mode' = mode /\ twins' = twins
  BY <1>4, <1>5, <1>6 DEF Register, Healthy
<1>9. r \in Procs /\ stage[r] = "serving" /\ Path(plugin[r]) = h
  BY <1>6, <1>8, Reached DEF Serving
<1>10. registry' \in [Plugins -> Procs \cup {Nil}] /\ registry'[i] = c
       /\ \A j \in Plugins : j # i => registry'[j] = registry[j]
  BY <1>1, <1>8 DEF RuntimeTypeOK
<1>11. \A j \in Plugins : registry[j] = previous /\ previous # Nil => j = i
  BY <1>1, <1>7 DEF StageInv
<1>12. Registered' = (Registered \ {previous}) \cup {c}
  <2>1. Registered' = {registry'[j] : j \in Plugins} \ {Nil}
    BY DEF Registered
  <2> QED
    BY <1>2, <1>7, <1>10, <1>11, <2>1 DEF Registered
<1>13. \A j \in Plugins : registry'[j] # Nil =>
         plugin[registry'[j]] # Nil /\ plugin[registry'[j]].id = j
  BY <1>1, <1>3, <1>4, <1>10, RuntimeAssumption DEF StageInv
<1>14. CASE previous = Nil
  <2>1. /\ conn' = [conn EXCEPT ![h] = r] /\ task' = NoTask /\ stage' = stage
    BY <1>4, <1>5, <1>6, <1>7, <1>14 DEF Register
  <2>2. /\ Registered' = Registered \cup {c} /\ Candidate' = {}
        /\ Around' = Registered \cup {c} /\ Around = Registered \cup {c}
    <3>1. Nil \notin Registered
      BY <1>1, Places
    <3>2. Registered' = Registered \cup {c}
      BY <1>12, <1>14, <3>1
    <3> QED
      BY <1>2, <2>1, <3>2 DEF Candidate, Around, NoTask
  <2>3. RuntimeTypeOK'
    BY <1>1, <1>8, <1>9, <1>10, <2>1 DEF RuntimeTypeOK, NoTask
  <2>4. TaskInv'
    BY <1>2, <1>8, <2>1 DEF TaskInv, NoTask
  <2>5. StageInv'
    <3>1. Running' = Running
      BY <2>1 DEF Running
    <3>2. \A q \in Procs : stage[q] # "ending"
      BY <1>1, <1>2 DEF StageInv
    <3> QED
      BY <1>1, <1>2, <1>8, <1>13, <2>1, <2>2, <3>1, <3>2 DEF StageInv
  <2>6. PathInv'
    <3>1. conn'[h] = r /\ \A g \in Paths : g # h => conn'[g] = conn[g]
      BY <1>1, <2>1 DEF RuntimeTypeOK
    <3> QED
      BY <1>1, <1>8, <1>9, <2>1, <3>1 DEF PathInv
  <2>7. TwinInv'
    BY <1>1, <1>2, <1>8, <2>1, <2>2 DEF TwinInv
  <2> QED
    BY <2>3, <2>4, <2>5, <2>6, <2>7 DEF RuntimeInv
<1>15. CASE previous # Nil
  <2>1. previous \in Registered /\ previous # c
    BY <1>1, <1>2, <1>7, <1>15, Places
  <2>2. PICK g \in Paths : g = Path(plugin[previous])
    BY <2>1, Known
  <2>3. /\ stage' = [stage EXCEPT ![previous] = IF @ = "none" THEN @ ELSE "ending"]
        /\ conn' = [conn EXCEPT ![g] = Nil, ![h] = IF r = previous THEN Nil ELSE r]
        /\ task' = [kind |-> "stop", proc |-> previous]
    BY <1>4, <1>5, <1>6, <1>7, <1>15, <2>2 DEF Register
  <2>4. conn' \in [Paths -> Procs \cup {Nil}]
    BY <1>1, <1>9, <2>3 DEF RuntimeTypeOK
  <2>5. /\ conn'[h] = IF r = previous THEN Nil ELSE r
        /\ g # h => conn'[g] = Nil
        /\ \A f \in Paths : f # g /\ f # h => conn'[f] = conn[f]
    BY <1>1, <2>3 DEF RuntimeTypeOK
  <2>6. \A f \in Paths : conn[f] = previous => f = g
    BY <1>1, <1>15, <2>2 DEF PathInv
  <2>7. \A f \in Paths : conn'[f] # Nil =>
          conn'[f] # previous /\ stage[conn'[f]] = "serving" /\ Path(plugin[conn'[f]]) = f
    BY <1>1, <1>9, <2>5, <2>6 DEF PathInv
  <2>8. Running \ {previous} \subseteq Registered'
    BY <1>1, <1>2, <1>12 DEF StageInv
  <2>9. /\ previous \notin Registered' /\ Registered' \subseteq Registered \cup Candidate
        /\ previous \in Registered \cup Candidate /\ task.kind # "stop"
    BY <1>2, <1>12, <2>1
  <2> QED
    BY <1>2, <1>8, <1>10, <1>13, <2>3, <2>4, <2>7, <2>8, <2>9, StopStep
<1> QED
  BY <1>14, <1>15

LEMMA StuckStep ==
    ASSUME RuntimeInv, NEW p \in Procs, Stuck(p)
    PROVE  RuntimeInv'
<1>1. RuntimeTypeOK /\ TaskInv /\ StageInv /\ PathInv /\ TwinInv
  BY DEF RuntimeInv
<1>2. /\ task = [kind |-> "stop", proc |-> p] /\ stage[p] = "ending"
      /\ stage' = [stage EXCEPT ![p] = "stuck"] /\ task' = NoTask
      /\ mode' = IF mode = "closing" THEN "aborted" ELSE mode
      /\ plugin' = plugin /\ socket' = socket /\ conn' = conn /\ registry' = registry
      /\ twins' = twins
  BY DEF Stuck
<1>3. /\ Registered' = Registered /\ Candidate = {} /\ Candidate' = {}
      /\ Around' = Registered /\ Around = Registered \cup {p} /\ p \notin Registered
  BY <1>1, <1>2 DEF Registered, Candidate, Around, NoTask, TaskInv
<1>4. stage'[p] = "stuck" /\ \A q \in Procs : q # p => stage'[q] = stage[q]
  BY <1>1, <1>2 DEF RuntimeTypeOK
<1>5. \A q \in Registered : q \in Procs /\ q # p
  BY <1>1, <1>3, Places
<1>6. RuntimeTypeOK'
  BY <1>1, <1>2 DEF RuntimeTypeOK, NoTask
<1>7. TaskInv'
  BY <1>1, <1>2, <1>3 DEF TaskInv, NoTask
<1>8. StageInv'
  <2>1. Running' = Running
    BY <1>2, <1>4 DEF Running
  <2>2. \A q \in Procs : stage'[q] # "ending"
    BY <1>1, <1>2, <1>4 DEF StageInv
  <2> QED
    BY <1>1, <1>2, <1>3, <1>4, <1>5, <2>1, <2>2 DEF StageInv
<1>9. PathInv'
  <2>1. \A h \in Paths : (conn[h] # Nil => conn[h] \in Procs) /\ (socket[h] # Nil => socket[h] \in Procs)
    BY <1>1 DEF RuntimeTypeOK
  <2>2. \A h \in Paths : conn[h] # Nil => conn[h] # p
    BY <1>1, <1>2 DEF PathInv
  <2> QED
    BY <1>1, <1>2, <1>4, <2>1, <2>2 DEF PathInv
<1>10. TwinInv'
  BY <1>1, <1>2, <1>3, <1>4, <1>5 DEF TwinInv
<1> QED
  BY <1>6, <1>7, <1>8, <1>9, <1>10 DEF RuntimeInv

(* Steps that leave the processes and the registry alone: connections come  *)
(* and go, the event loop waits for a call, the container closes.           *)
LEMMA QuietStep ==
    ASSUME RuntimeInv, UNCHANGED <<plugin, stage, socket, registry, twins>>,
           mode' \in {"up", "closing", "closed", "aborted"}, TaskInv',
           task' = task \/ (/\ task.kind \in {"idle", "call"}
                            /\ task' \in [kind: {"idle", "call"}, proc: Procs \cup {Nil}]),
           conn' \in [Paths -> Procs \cup {Nil}],
           \A h \in Paths : conn'[h] # Nil /\ conn'[h] # conn[h] =>
             stage[conn'[h]] = "serving" /\ Path(plugin[conn'[h]]) = h
    PROVE  RuntimeInv'
<1>1. RuntimeTypeOK /\ TaskInv /\ StageInv /\ PathInv /\ TwinInv
  BY DEF RuntimeInv
<1>2. Registered' = Registered /\ Running' = Running
  BY DEF Registered, Running
<1>3. Candidate' = Candidate /\ Around' = Around
  BY <1>2 DEF Candidate, Around
<1>4. RuntimeTypeOK'
  BY <1>1 DEF RuntimeTypeOK
<1>5. StageInv'
  <2>1. \A p \in Procs : stage[p] = "ending" => task' = task
    BY <1>1 DEF StageInv
  <2> QED
    BY <1>1, <1>2, <1>3, <2>1 DEF StageInv
<1>6. PathInv'
  BY <1>1 DEF PathInv
<1>7. TwinInv'
  BY <1>1, <1>2, <1>3 DEF TwinInv
<1> QED
  BY <1>4, <1>5, <1>6, <1>7 DEF RuntimeInv

LEMMA DisconnectStep ==
    ASSUME RuntimeInv, NEW h \in Paths, Disconnect(h)
    PROVE  RuntimeInv'
<1>1. RuntimeTypeOK /\ TaskInv
  BY DEF RuntimeInv
<1>2. /\ conn' = [conn EXCEPT ![h] = Nil]
      /\ UNCHANGED <<plugin, stage, socket, registry, twins, task, mode>>
  BY DEF Disconnect
<1>3. TaskInv'
  BY <1>1, <1>2 DEF TaskInv, Registered
<1>4. /\ conn' \in [Paths -> Procs \cup {Nil}]
      /\ \A g \in Paths : conn'[g] = Nil \/ conn'[g] = conn[g]
  BY <1>1, <1>2 DEF RuntimeTypeOK
<1>5. mode' \in {"up", "closing", "closed", "aborted"}
  BY <1>1, <1>2 DEF RuntimeTypeOK
<1> QED
  BY <1>2, <1>3, <1>4, <1>5, QuietStep

LEMMA CloseStep ==
    ASSUME RuntimeInv, BeginClose \/ CloseEnd
    PROVE  RuntimeInv'
<1>1. RuntimeTypeOK /\ TaskInv
  BY DEF RuntimeInv
<1>2. /\ UNCHANGED <<plugin, stage, socket, conn, registry, twins, task>>
      /\ mode' \in {"closing", "closed"} /\ task = NoTask
      /\ mode' = "closed" => Registered = {}
  BY <1>1 DEF BeginClose, CloseEnd, Free, Idle, TaskInv
<1>3. TaskInv'
  BY <1>1, <1>2 DEF TaskInv, Registered
<1>4. conn' \in [Paths -> Procs \cup {Nil}] /\ conn' = conn
  BY <1>1, <1>2 DEF RuntimeTypeOK
<1> QED
  BY <1>2, <1>3, <1>4, QuietStep

(* A process ends by itself; a call it served may end with it.              *)
LEMMA ExitStep ==
    ASSUME RuntimeInv, NEW p \in Procs, Exit(p),
           task' = task \/ (task.kind = "call" /\ task' = NoTask)
    PROVE  RuntimeInv'
<1>1. RuntimeTypeOK /\ TaskInv /\ StageInv /\ PathInv /\ TwinInv
  BY DEF RuntimeInv
<1>2. stage[p] \in {"starting", "serving"}
  BY <1>1 DEF Exit, StageInv
<1>3. PICK h \in Paths : h = Path(plugin[p])
  <2>1. p \in Running
    BY <1>2 DEF Running
  <2> QED
    BY <1>1, <2>1, Known DEF StageInv
<1>4. PICK sweep \in BOOLEAN : Gone(p, sweep)
  BY DEF Exit
<1>5. /\ stage' = [stage EXCEPT ![p] = "none"]
      /\ socket' = [socket EXCEPT ![h] = IF sweep \/ @ = p THEN Nil ELSE @]
      /\ conn' = [conn EXCEPT ![h] = IF @ = p THEN Nil ELSE @]
      /\ plugin' = plugin /\ registry' = registry /\ mode' = mode /\ twins' = twins
  BY <1>3, <1>4 DEF Gone, Exit
<1>6. /\ Registered' = Registered /\ Candidate' = Candidate /\ Around' = Around
  BY <1>5 DEF Registered, Candidate, Around, NoTask
<1>7. p \in Registered \cup Candidate /\ p \in Around /\ Registered \cup Candidate \subseteq Around
  BY <1>1, <1>2 DEF StageInv, Running, Around, Candidate
<1>8. stage'[p] = "none" /\ \A q \in Procs : q # p => stage'[q] = stage[q]
  BY <1>1, <1>5 DEF RuntimeTypeOK
<1>9. /\ \A g \in Paths : g # h => socket'[g] = socket[g] /\ conn'[g] = conn[g]
      /\ socket'[h] \in {socket[h], Nil} /\ socket'[h] # p
      /\ conn'[h] \in {conn[h], Nil} /\ conn'[h] # p
  BY <1>1, <1>5, RuntimeAssumption DEF RuntimeTypeOK
<1>10. RuntimeTypeOK'
  BY <1>1, <1>5 DEF RuntimeTypeOK, NoTask
<1>11. TaskInv'
  BY <1>1, <1>5, <1>6 DEF TaskInv, NoTask
<1>12. StageInv'
  <2>1. Running' \subseteq Running
    BY <1>8 DEF Running
  <2>2. \A q \in Procs : stage'[q] = "ending" => task' = [kind |-> "stop", proc |-> q]
    BY <1>1, <1>8 DEF StageInv
  <2>3. \A q \in Registered \cup Candidate : q \in Procs
    BY Known
  <2> QED
    BY <1>1, <1>5, <1>6, <1>7, <1>8, <2>1, <2>2, <2>3 DEF StageInv, Running
<1>13. PathInv'
  <2>1. \A g \in Paths : g # h => conn[g] # p /\ socket[g] # p
    BY <1>1, <1>3, RuntimeAssumption DEF PathInv
  <2>2. \A g \in Paths : (conn[g] # Nil => conn[g] \in Procs) /\ (socket[g] # Nil => socket[g] \in Procs)
    BY <1>1 DEF RuntimeTypeOK
  <2> QED
    BY <1>1, <1>5, <1>8, <1>9, <2>1, <2>2 DEF PathInv
<1>14. TwinInv'
  <2>1. \A q \in (Registered \cup Candidate) \ twins : q # p => Path(plugin[q]) # h
    BY <1>1, <1>3, <1>7 DEF TwinInv
  <2>2. \A q \in Registered \cup Candidate : q \in Procs /\ Path(plugin[q]) \in Paths
    BY Known
  <2>3. ASSUME NEW q \in (Registered \cup Candidate) \ twins
        PROVE  stage'[q] = "serving" => socket'[Path(plugin[q])] = q
    BY <1>1, <1>8, <1>9, <2>1, <2>2 DEF TwinInv
  <2> QED
    BY <1>1, <1>5, <1>6, <2>3 DEF TwinInv
<1> QED
  BY <1>10, <1>11, <1>12, <1>13, <1>14 DEF RuntimeInv

LEMMA ReapedStep ==
    ASSUME RuntimeInv, NEW p \in Procs, Reaped(p)
    PROVE  RuntimeInv'
<1>1. RuntimeTypeOK /\ TaskInv /\ StageInv /\ PathInv /\ TwinInv
  BY DEF RuntimeInv
<1>2. task = [kind |-> "stop", proc |-> p]
  BY DEF Reaped
<1>3. plugin[p] \in Manifests /\ p \notin Registered /\ p # Nil
  BY <1>1, <1>2, Places, RuntimeAssumption DEF TaskInv
<1>4. PICK h \in Paths : h = Path(plugin[p])
  BY <1>1, <1>3, Places
<1>5. /\ stage' = [stage EXCEPT ![p] = "none"]
      /\ socket' = [socket EXCEPT ![h] = Nil]
      /\ conn' = [conn EXCEPT ![h] = IF @ = p THEN Nil ELSE @]
      /\ task' = NoTask /\ plugin' = [plugin EXCEPT ![p] = Nil] /\ twins' = twins \ {p}
      /\ registry' = registry /\ mode' = mode
  BY <1>4 DEF Reaped, Gone
<1>6. /\ Registered' = Registered /\ Candidate = {} /\ Candidate' = {}
      /\ Around' = Registered /\ Around = Registered \cup {p}
  BY <1>2, <1>5 DEF Registered, Candidate, Around, NoTask
<1>7. /\ stage'[p] = "none"
      /\ \A q \in Procs : q # p => stage'[q] = stage[q] /\ plugin'[q] = plugin[q]
  BY <1>1, <1>5 DEF RuntimeTypeOK
<1>8. \A q \in Registered : q \in Procs /\ q # p /\ q # Nil /\ Path(plugin[q]) \in Paths
  BY <1>1, <1>3, Places, Known
<1>9. /\ \A g \in Paths : g # h => socket'[g] = socket[g] /\ conn'[g] = conn[g]
      /\ socket'[h] = Nil /\ conn'[h] \in {conn[h], Nil} /\ conn'[h] # p
  BY <1>1, <1>3, <1>5 DEF RuntimeTypeOK
<1>10. RuntimeTypeOK'
  BY <1>1, <1>5 DEF RuntimeTypeOK, NoTask
<1>11. TaskInv'
  BY <1>1, <1>2, <1>5, <1>6 DEF TaskInv, NoTask
<1>12. StageInv'
  <2>1. Running' \subseteq Running /\ Running \subseteq Registered
    BY <1>1, <1>6, <1>7 DEF Running, StageInv
  <2>2. \A q \in Procs : stage'[q] # "ending"
    BY <1>1, <1>2, <1>7 DEF StageInv
  <2>3. \A i \in Plugins : registry[i] # Nil => registry[i] \in Registered
    BY <1>1, Places
  <2> QED
    BY <1>1, <1>5, <1>6, <1>7, <1>8, <2>1, <2>2, <2>3 DEF StageInv
<1>13. PathInv'
  <2>1. \A g \in Paths : g # h => conn[g] # p /\ socket[g] # p
    BY <1>1, <1>3, <1>4 DEF PathInv
  <2>2. \A g \in Paths : (conn[g] # Nil => conn[g] \in Procs) /\ (socket[g] # Nil => socket[g] \in Procs)
    BY <1>1 DEF RuntimeTypeOK
  <2> QED
    BY <1>1, <1>7, <1>9, <2>1, <2>2 DEF PathInv
<1>14. TwinInv'
  <2>1. Registered \ twins' = Registered \ twins
    BY <1>5, <1>8
  <2>2. \A q \in Registered \ twins : Path(plugin[q]) # h
    BY <1>1, <1>4, <1>6, <1>8 DEF TwinInv
  <2>3. \A q \in Registered \ twins : stage'[q] = "serving" => socket'[Path(plugin[q])] = q
    BY <1>1, <1>7, <1>8, <1>9, <2>2 DEF TwinInv
  <2> QED
    BY <1>1, <1>6, <1>7, <1>8, <2>1, <2>3 DEF TwinInv
<1> QED
  BY <1>10, <1>11, <1>12, <1>13, <1>14 DEF RuntimeInv

(* The runtime at its start, and the control plane's again.                 *)
LEMMA Fresh ==
    RuntimeInit => RuntimeInv
<1> SUFFICES ASSUME RuntimeInit PROVE RuntimeInv
  OBVIOUS
<1> USE DEF RuntimeInit
<1>1. RuntimeTypeOK
  BY DEF RuntimeTypeOK, NoTask
<1>2. Registered = {} /\ Candidate = {} /\ Around = {} /\ Running = {}
  BY DEF Registered, Candidate, Around, NoTask, Running
<1>3. TaskInv
  BY <1>2 DEF TaskInv, NoTask
<1>4. StageInv /\ PathInv /\ TwinInv
  BY <1>2 DEF StageInv, PathInv, TwinInv
<1> QED
  BY <1>1, <1>3, <1>4 DEF RuntimeInv

LEMMA RestartStep == Restart => RuntimeInv'
<1>1. Restart => RuntimeInit'
  BY DEF Restart, RuntimeInit
<1>2. RuntimeInit' => RuntimeInv'
  BY Fresh, PTL
<1> QED
  BY <1>1, <1>2

-----------------------------------------------------------------------------
(* Calls and what they leave                                                *)

LEMMA NothingCalled == NoCall \notin CallType
  BY DEF NoCall, CallType

LEMMA CallShape ==
    ASSUME NEW c \in CallType
    PROVE  /\ c = [step |-> c.step, awaited |-> c.awaited, fine |-> c.fine, proc |-> c.proc,
                   left |-> c.left, counts |-> c.counts]
           /\ c.counts = {} \/ \E n \in 0..10 : c.counts = {n}
           /\ c # NoCall
  BY NothingCalled DEF CallType

LEMMA SetValue ==
    ASSUME NEW n, NEW before
    PROVE  Set({n}, before) = n /\ Set({}, before) = before
<1>1. (CHOOSE x \in {n} : TRUE) = n
  OBVIOUS
<1> QED
  BY <1>1 DEF Set

LEMMA Setting ==
    ASSUME NEW c \in CallType, NEW before \in Nat
    PROVE  /\ Set(c.counts, before) \in Nat
           /\ c.counts # {} => Set(c.counts, before) \in c.counts
           /\ c.counts = {} => Set(c.counts, before) = before
<1>1. CASE c.counts = {}
  BY <1>1, SetValue
<1>2. CASE c.counts # {}
  <2>1. PICK n \in 0..10 : c.counts = {n}
    BY <1>2, CallShape
  <2>2. Set({n}, before) = n
    BY SetValue
  <2>3. Set(c.counts, before) = n
    BY <2>1, <2>2
  <2> QED
    BY <1>2, <2>1, <2>3
<1> QED
  BY <1>1, <1>2

(* What is left of a call that nobody waits for has a count, and no more    *)
(* requests than before.                                                    *)
LEMMA LeftAlone ==
    ASSUME NEW c \in CallType
    PROVE  \/ Alone(c) = NoCall
           \/ /\ Alone(c) \in CallType
              /\ ~Alone(c).awaited /\ Alone(c).counts = c.counts /\ c.counts # {}
              /\ Alone(c).left = c.left /\ Alone(c).step = c.step /\ c.step # "applied"
<1>1. CASE c.counts # {} /\ c.step = "running"
  <2>1. Alone(c) = [c EXCEPT !.awaited = FALSE]
    BY <1>1 DEF Alone
  <2> QED
    BY <1>1, <2>1 DEF CallType
<1>2. CASE c.counts # {} /\ c.step = "sent"
  <2>1. Alone(c) = [c EXCEPT !.awaited = FALSE, !.proc = Nil]
    BY <1>2 DEF Alone
  <2> QED
    BY <1>2, <2>1 DEF CallType
<1>3. CASE ~(c.counts # {} /\ c.step \in {"running", "sent"})
  BY <1>3 DEF Alone
<1> QED
  BY <1>1, <1>2, <1>3

(* What a call in force satisfies, of its own.                              *)
CallOK(k) ==
    /\ call[k].counts # {} => call[k].left = 1
    /\ ~call[k].awaited => call[k].counts # {} /\ call[k].counts \subseteq unsure
    /\ call[k].awaited /\ call[k].step = "applied" /\ call[k].counts # {} =>
         replicas \in call[k].counts \cup unsure

LEMMA CallFacts ==
    ASSUME IInv, NEW k \in Calls
    PROVE  /\ Active(k) <=> call[k] \in CallType
           /\ Active(k) => CallOK(k)
           /\ k \in Awaited => Active(k)
           /\ k \in Awaited <=> call[k].awaited
<1>1. call[k] \in CallType \cup {NoCall}
  BY DEF IInv, TypeOK
<1>2. Active(k) <=> call[k] \in CallType
  BY <1>1, NothingCalled DEF Active
<1>3. NoCall.awaited = FALSE
  BY DEF NoCall
<1> QED
  BY <1>2, <1>3 DEF IInv, CallInv, CallOK, Awaited, Active

(* A step that changes one call, and not the others.                        *)
LEMMA OneCall ==
    ASSUME IInv, RuntimeInv', NEW k \in Calls, NEW c \in CallType \cup {NoCall},
           call' = [call EXCEPT ![k] = c],
           \/ unsure \subseteq unsure'
           \/ /\ Awaited \subseteq {k}
              /\ \A j \in Calls : j # k /\ Active(j) => call[j].counts \subseteq unsure',
           unsure' \subseteq Nat, replicas' \in Nat, word' \in Nat,
           c # NoCall => CallOK(k)',
           c # NoCall /\ c.awaited => task'.kind = "call" /\ c.proc \in Procs /\ Awaited \subseteq {k},
           \A j \in Awaited : j # k => task' = task /\ replicas' \in {replicas} \cup unsure',
           \/ replicas' \in {word'} \cup unsure'
           \/ c # NoCall /\ c.awaited /\ c.step = "applied" /\ replicas' \in c.counts
           \/ k \notin Awaited /\ replicas' = replicas /\ word' = word /\ unsure \subseteq unsure'
    PROVE  IInv'
<1>1. TypeOK /\ CallInv
  BY DEF IInv
<1>2. call'[k] = c /\ \A j \in Calls : j # k => call'[j] = call[j]
  BY <1>1 DEF TypeOK
<1>3. TypeOK'
  BY <1>1 DEF TypeOK, RuntimeInv
<1>4. \A j \in Calls : j # k => (j \in Awaited' <=> j \in Awaited)
  BY <1>2 DEF Awaited
<1>5. k \in Awaited' => c # NoCall /\ c.awaited
  BY <1>2 DEF Awaited, NoCall
<1>6. \A j \in Awaited' : task'.kind = "call" /\ call'[j].proc \in Procs
  <2>1. SUFFICES ASSUME NEW j \in Awaited' PROVE task'.kind = "call" /\ call'[j].proc \in Procs
    OBVIOUS
  <2>2. j \in Calls
    BY DEF Awaited
  <2>3. CASE j = k
    BY <1>2, <1>5, <2>1, <2>3
  <2>4. CASE j # k
    BY <1>1, <1>2, <1>4, <2>1, <2>2, <2>4 DEF CallInv
  <2> QED
    BY <2>3, <2>4
<1>7. \A i, j \in Awaited' : i = j
  <2>1. SUFFICES ASSUME NEW i \in Awaited', NEW j \in Awaited', i # j PROVE FALSE
    OBVIOUS
  <2>2. i \in Calls /\ j \in Calls
    BY DEF Awaited
  <2>3. CASE i # k /\ j # k
    BY <1>1, <1>4, <2>1, <2>2, <2>3 DEF CallInv
  <2>4. CASE i = k \/ j = k
    BY <1>4, <1>5, <2>1, <2>2, <2>4
  <2> QED
    BY <2>3, <2>4
<1>8. \A j \in Calls : Active(j)' => CallOK(j)'
  <2>1. SUFFICES ASSUME NEW j \in Calls, Active(j)' PROVE CallOK(j)'
    OBVIOUS
  <2>2. CASE j = k
    BY <1>2, <2>1, <2>2 DEF Active
  <2>3. CASE j # k
    <3>1. call'[j] = call[j] /\ Active(j) /\ CallOK(j)
      BY <1>2, <2>1, <2>3, CallFacts DEF Active
    <3>2. call[j].awaited => j \in Awaited
      BY DEF Awaited
    <3> QED
      BY <2>3, <3>1, <3>2 DEF CallOK
  <2> QED
    BY <2>2, <2>3
<1>9. CallInv'
  BY <1>6, <1>7, <1>8 DEF CallInv, CallOK
<1>10. LastWordStands'
  <2>1. CASE replicas' \in {word'} \cup unsure'
    BY <2>1 DEF LastWordStands
  <2>2. CASE c # NoCall /\ c.awaited /\ c.step = "applied" /\ replicas' \in c.counts
    <3>1. k \in Awaited'
      BY <1>2, <2>2 DEF Awaited
    <3> QED
      BY <1>2, <2>2, <3>1 DEF LastWordStands
  <2>3. CASE k \notin Awaited /\ replicas' = replicas /\ word' = word /\ unsure \subseteq unsure'
    <3>1. \A j \in Awaited : j \in Awaited' /\ call'[j] = call[j]
      BY <1>2, <1>4, <2>3 DEF Awaited
    <3> QED
      BY <2>3, <3>1 DEF LastWordStands, IInv
  <2> QED
    BY <2>1, <2>2, <2>3
<1> QED
  BY <1>3, <1>9, <1>10 DEF IInv, RuntimeInv

(* Where the replicas are, if the awaited call is left out.                 *)
LEMMA Replicas ==
    ASSUME IInv
    PROVE  replicas \in {word} \cup unsure \cup UNION {call[j].counts : j \in Awaited}
  BY DEF IInv, LastWordStands


(* The steps of a handler that nobody but its call notices.                 *)
LEMMA RuntimeSame ==
    ASSUME RuntimeInv, UNCHANGED runtime
    PROVE  RuntimeInv'
<1>1. /\ UNCHANGED <<plugin, stage, socket, registry, twins, conn, task, mode>>
  BY DEF runtime
<1>2. RuntimeTypeOK /\ TaskInv
  BY DEF RuntimeInv
<1>3. TaskInv'
  BY <1>1, <1>2 DEF TaskInv, Registered
<1>4. conn' \in [Paths -> Procs \cup {Nil}] /\ mode' \in {"up", "closing", "closed", "aborted"}
  BY <1>1, <1>2 DEF RuntimeTypeOK
<1> QED
  BY <1>1, <1>3, <1>4, QuietStep

LEMMA Halves ==
    ASSUME IInv
    PROVE  RuntimeInv /\ TypeOK /\ CallInv /\ LastWordStands
  BY DEF IInv, RuntimeInv, TypeOK

(* What a call asks for has the right shape.                                *)
LEMMA BegunShape ==
    ASSUME NEW q, NEW p \in Procs
    PROVE  /\ Begun(q, p) \in CallType
           /\ Begun(q, p).awaited /\ Begun(q, p).step = "running" /\ Begun(q, p).proc = p
           /\ Begun(q, p).counts # {} => Begun(q, p).left = 1
<1>1. PICK b \in BOOLEAN : b = Permitted(q)
  BY DEF Permitted
<1>2. PICK s \in {{}} \cup {{n} : n \in 0..10} : s = Counts(q)
  <2>1. Scales(q) => q.replicas \in 0..10
    BY DEF Scales, Permitted, Writes
  <2> QED
    BY <2>1 DEF Counts
<1>3. PICK l \in 0..3 : l = (IF b THEN Requests(q) ELSE 0)
  <2>1. Requests(q) \in {0, 1, 3}
    <3>1. CASE q.method = "Discover"
      BY <3>1 DEF Requests
    <3>2. CASE q.method \in {"Describe", "Health", "Plan"}
      BY <3>2 DEF Requests
    <3>3. CASE q.method \notin {"Discover", "Describe", "Health", "Plan"}
      BY <3>3 DEF Requests
    <3> QED
      BY <3>1, <3>2, <3>3
  <2> QED
    BY <2>1
<1>4. s # {} => l = 1
  <2>1. SUFFICES ASSUME s # {} PROVE l = 1
    OBVIOUS
  <2>2. Scales(q)
    BY <1>2, <2>1 DEF Counts
  <2>3. b /\ q.method \in {"Execute", "Rollback"}
    BY <1>1, <2>2 DEF Scales, Writes
  <2>4. Requests(q) = 1
    BY <2>3 DEF Requests
  <2> QED
    BY <1>3, <2>3, <2>4
<1>5. Begun(q, p) = [step |-> "running", awaited |-> TRUE, proc |-> p, fine |-> b,
                     left |-> l, counts |-> s]
  BY <1>1, <1>2, <1>3 DEF Begun
<1> QED
  BY <1>4, <1>5 DEF CallType

LEMMA CallStep ==
    ASSUME IInv, NEW k \in Calls, NEW q \in Payloads, Call(k, q)
    PROVE  IInv'
<1>1. RuntimeInv /\ RuntimeTypeOK /\ TaskInv /\ StageInv /\ TypeOK /\ CallInv
  BY Halves DEF RuntimeInv
<1>2. PICK p : p = registry["kubernetes"]
  OBVIOUS
<1>3. task = NoTask /\ mode = "up" /\ p # Nil
  BY <1>1, <1>2 DEF Call, Free, Idle, TaskInv
<1>4. p \in Registered /\ p \in Procs /\ Path(plugin[p]) \in Paths
  <2>1. p \in Registered
    BY <1>1, <1>2, <1>3, Places, KubernetesAssumption
  <2> QED
    BY <1>1, <2>1, Known
<1>5. PICK h \in Paths : h = Path(plugin[p])
  BY <1>4
<1>6. PICK r : r = Reach(h)
  OBVIOUS
<1>7. /\ r # Nil
      /\ call' = [call EXCEPT ![k] = Begun(q, r)]
      /\ conn' = [conn EXCEPT ![h] = r]
      /\ task' = [kind |-> "call", proc |-> p]
      /\ UNCHANGED <<plugin, stage, socket, registry, mode, twins, replicas, word, unsure>>
  BY <1>2, <1>5, <1>6 DEF Call
<1>8. r \in Procs /\ stage[r] = "serving" /\ Path(plugin[r]) = h
  BY <1>1, <1>6, <1>7, Reached DEF Serving
<1>9. RuntimeInv'
  <2>1. TaskInv'
    BY <1>1, <1>3, <1>7 DEF TaskInv, Registered
  <2>2. conn' \in [Paths -> Procs \cup {Nil}] /\ mode' \in {"up", "closing", "closed", "aborted"}
    BY <1>1, <1>7, <1>8 DEF RuntimeTypeOK
  <2>3. \A g \in Paths : conn'[g] # Nil /\ conn'[g] # conn[g] =>
          stage[conn'[g]] = "serving" /\ Path(plugin[conn'[g]]) = g
    BY <1>1, <1>7, <1>8 DEF RuntimeTypeOK
  <2>4. task.kind = "idle" /\ task' \in [kind: {"idle", "call"}, proc: Procs \cup {Nil}]
    BY <1>3, <1>4, <1>7 DEF NoTask
  <2> QED
    BY <1>1, <1>7, <2>1, <2>2, <2>3, <2>4, QuietStep
<1>10. Awaited = {}
  BY <1>1, <1>3 DEF CallInv, NoTask
<1>11. PICK c \in CallType : c = Begun(q, r)
  BY <1>8, BegunShape
<1>12. c.awaited /\ c.step = "running" /\ c.proc = r /\ (c.counts # {} => c.left = 1)
  BY <1>8, <1>11, BegunShape
<1>13. call'[k] = c
  BY <1>1, <1>7, <1>11 DEF TypeOK
<1>14. CallOK(k)'
  BY <1>12, <1>13 DEF CallOK
<1>15. replicas \in {word} \cup unsure
  BY <1>1, <1>10 DEF LastWordStands, IInv
<1>16. unsure \subseteq Nat /\ replicas \in Nat /\ word \in Nat
  BY <1>1 DEF TypeOK
<1>17. task'.kind = "call"
  BY <1>7
<1> QED
  BY <1>7, <1>8, <1>9, <1>10, <1>11, <1>12, <1>14, <1>15, <1>16, <1>17, OneCall

(* While a call is awaited the event loop waits.                            *)
LEMMA WaitEnds ==
    ASSUME RuntimeInv, task.kind = "call", task' = NoTask,
           UNCHANGED <<plugin, stage, socket, conn, registry, mode, twins>>
    PROVE  RuntimeInv'
<1>1. RuntimeTypeOK /\ TaskInv
  BY DEF RuntimeInv
<1>2. mode # "closed"
  BY <1>1 DEF TaskInv, NoTask
<1>3. TaskInv'
  BY <1>2 DEF TaskInv, NoTask
<1>4. conn' \in [Paths -> Procs \cup {Nil}] /\ mode' \in {"up", "closing", "closed", "aborted"}
      /\ task' \in [kind: {"idle", "call"}, proc: Procs \cup {Nil}]
  BY <1>1 DEF RuntimeTypeOK, NoTask
<1> QED
  BY <1>3, <1>4, QuietStep

(* An answer: a count confirmed is the cluster's, or an unsure one is.      *)
LEMMA AnswerStep ==
    ASSUME IInv, NEW k \in Calls, NEW ok \in BOOLEAN, Active(k), Answer(k, ok),
           ok /\ call[k].counts # {} => call[k].step = "applied"
    PROVE  IInv'
<1>1. RuntimeInv /\ TypeOK /\ CallInv
  BY Halves
<1>2. PICK c \in CallType : c = call[k]
  BY CallFacts
<1>3. /\ call' = [call EXCEPT ![k] = NoCall]
      /\ task' = IF k \in Awaited THEN NoTask ELSE task
      /\ word' = IF k \in Awaited /\ ok THEN Set(c.counts, word) ELSE word
      /\ unsure' = IF k \in Awaited /\ ~ok THEN unsure \cup c.counts ELSE unsure
      /\ UNCHANGED <<plugin, stage, socket, conn, registry, mode, twins, replicas>>
  BY <1>2 DEF Answer
<1>4. RuntimeInv'
  <2>1. CASE k \in Awaited
    BY <1>1, <1>3, <2>1, WaitEnds DEF CallInv
  <2>2. CASE k \notin Awaited
    BY <1>1, <1>3, <2>2, RuntimeSame DEF runtime
  <2> QED
    BY <2>1, <2>2
<1>5. /\ unsure \subseteq Nat /\ replicas \in Nat /\ word \in Nat
      /\ c.counts \subseteq Nat /\ Set(c.counts, word) \in Nat
  <2>1. unsure \subseteq Nat /\ replicas \in Nat /\ word \in Nat
    BY <1>1 DEF TypeOK
  <2>2. c.counts \subseteq Nat
    BY CallShape
  <2> QED
    BY <2>1, <2>2, Setting
<1>6. k \in Awaited => \A j \in Awaited : j = k
  BY <1>1 DEF CallInv
<1>7. k \in Awaited => replicas \in {word} \cup unsure \cup c.counts
  BY <1>2, <1>6, Replicas
<1>8. k \in Awaited => replicas' \in {word'} \cup unsure'
  <2>1. CASE ~ok
    BY <1>3, <1>7, <2>1
  <2>2. CASE ok /\ c.counts = {}
    BY <1>3, <1>5, <1>7, <2>2, Setting
  <2>3. CASE ok /\ c.counts # {}
    <3>1. k \in Awaited => replicas \in c.counts \cup unsure
      BY <1>2, <2>3, CallFacts DEF CallOK
    <3>2. \A x \in c.counts : x = Set(c.counts, word)
      <4>1. PICK n \in 0..10 : c.counts = {n}
        BY <2>3, CallShape
      <4>2. Set({n}, word) = n
        BY SetValue
      <4>3. Set(c.counts, word) = n
        BY <4>1, <4>2
      <4> QED
        BY <4>1, <4>3
    <3> QED
      BY <1>3, <2>3, <3>1, <3>2
  <2> QED
    BY <2>1, <2>2, <2>3
<1>9. unsure \subseteq unsure' /\ unsure' \subseteq Nat /\ word' \in Nat
  BY <1>3, <1>5
<1>10. \A j \in Awaited : j # k => task' = task /\ replicas' = replicas
  BY <1>3, <1>6
<1>11. k \notin Awaited => word' = word /\ replicas' = replicas
  BY <1>3
<1> QED
  BY <1>3, <1>4, <1>5, <1>8, <1>9, <1>10, <1>11, OneCall

LEMMA AnswersStep ==
    ASSUME IInv, NEW k \in Calls, Refuse(k) \/ Reply(k) \/ Succeed(k) \/ Lose(k)
    PROVE  IInv'
<1>1. CASE Refuse(k)
  BY <1>1, AnswerStep DEF Refuse
<1>2. CASE Reply(k)
  <2>1. Active(k) /\ call[k].left = 0 /\ Answer(k, TRUE)
    BY <1>2 DEF Reply
  <2>2. call[k].counts = {}
    BY <2>1, CallFacts DEF CallOK
  <2> QED
    BY <2>1, <2>2, AnswerStep
<1>3. CASE Succeed(k) \/ Lose(k)
  <2>1. call[k].step = "applied"
    BY <1>3 DEF Succeed, Lose
  <2>2. Active(k)
    BY <2>1 DEF Active, NoCall
  <2> QED
    BY <1>3, <2>1, <2>2, AnswerStep DEF Succeed, Lose
<1> QED
  BY <1>1, <1>2, <1>3

(* A request goes out or is carried out, whether or not somebody waits.     *)
LEMMA HandlerStep ==
    ASSUME IInv, NEW k \in Calls, NEW s \in {"sent", "applied"}, Active(k), Proceed(k, s),
           call[k].step # "applied", UNCHANGED <<runtime, word>>,
           replicas' = IF s = "applied" THEN Set(call[k].counts, replicas) ELSE replicas,
           unsure' = IF s = "applied" /\ k \in Awaited /\ call[k].counts # {} THEN Adrift ELSE unsure
    PROVE  IInv'
<1>1. RuntimeInv /\ TypeOK /\ CallInv
  BY Halves
<1>2. RuntimeInv'
  BY <1>1, RuntimeSame
<1>3. PICK b \in CallType : b = call[k]
  BY CallFacts
<1>4. PICK d \in CallType : d = [b EXCEPT !.step = s]
  BY DEF CallType
<1>5. /\ d.step = s /\ d.awaited = b.awaited /\ d.counts = b.counts /\ d.left = b.left
      /\ d.proc = b.proc /\ d # NoCall
  BY <1>4, NothingCalled DEF CallType
<1>6. CallOK(k) /\ (k \in Awaited <=> b.awaited)
  BY <1>3, CallFacts
<1>7. /\ word' = word /\ task' = task
      /\ unsure \subseteq Nat /\ word \in Nat /\ replicas \in Nat
  BY <1>1 DEF TypeOK, runtime
<1>8. replicas' \in Nat
  BY <1>3, <1>7, Setting
<1>9. k \in Awaited => \A j \in Awaited : j = k
  BY <1>1 DEF CallInv
<1>10. CASE k \in Awaited
  <2>1. call' = [call EXCEPT ![k] = d]
    BY <1>3, <1>4, <1>10 DEF Proceed
  <2>2. call'[k] = d
    BY <1>1, <2>1 DEF TypeOK
  <2>3. task.kind = "call" /\ d.proc \in Procs /\ d.awaited
    BY <1>1, <1>3, <1>5, <1>6, <1>10 DEF CallInv
  <2>4. Awaited \subseteq {k}
    BY <1>9, <1>10
  <2>5. d.counts # {} => d.left = 1
    BY <1>3, <1>5, <1>6 DEF CallOK
  <2>6. CASE s = "applied" /\ b.counts # {}
    <3>1. replicas' \in d.counts
      BY <1>3, <1>5, <1>7, <2>6, Setting
    <3>2. unsure' = Adrift
      BY <1>3, <1>10, <2>6
    <3>3. CallOK(k)'
      BY <2>2, <2>3, <2>5, <3>1 DEF CallOK
    <3>4. \A j \in Calls : j # k /\ Active(j) => call[j].counts \subseteq unsure'
      BY <2>4, <3>2 DEF Adrift
    <3>5. unsure' \subseteq Nat
      <4>1. SUFFICES ASSUME NEW j \in Calls, Active(j) PROVE call[j].counts \subseteq Nat
        BY <3>2 DEF Adrift
      <4>2. PICK e \in CallType : e = call[j]
        BY <4>1, CallFacts
      <4> QED
        BY <4>2, CallShape
    <3> QED
      BY <1>2, <1>5, <1>7, <1>8, <2>1, <2>3, <2>4, <2>6, <3>1, <3>3, <3>4, <3>5, OneCall
  <2>7. CASE ~(s = "applied" /\ b.counts # {})
    <3>1. replicas' = replicas /\ unsure' = unsure
      BY <1>3, <1>7, <2>7, Setting
    <3>2. replicas \in {word} \cup unsure
      BY <1>1, <1>9, <1>10 DEF LastWordStands, IInv
    <3>3. CallOK(k)'
      BY <1>5, <2>2, <2>3, <2>5, <2>7 DEF CallOK
    <3> QED
      BY <1>2, <1>5, <1>7, <1>8, <2>1, <2>3, <2>4, <3>1, <3>2, <3>3, OneCall
  <2> QED
    BY <2>6, <2>7
<1>11. CASE k \notin Awaited
  <2>0. unsure' = unsure
    BY <1>11
  <2>1. PICK c \in CallType \cup {NoCall} : c = Alone(d)
    BY LeftAlone
  <2>2. call' = [call EXCEPT ![k] = c]
    BY <1>3, <1>4, <1>11, <2>1 DEF Proceed
  <2>3. call'[k] = c
    BY <1>1, <2>2 DEF TypeOK
  <2>4. b.counts # {} /\ b.counts \subseteq unsure
    BY <1>3, <1>6, <1>11 DEF CallOK
  <2>5. c # NoCall => /\ ~c.awaited /\ c.counts = b.counts /\ c.left = b.left /\ s # "applied"
    BY <1>5, <2>1, LeftAlone
  <2>6. c # NoCall => CallOK(k)'
    <3>1. b.left = 1
      BY <1>3, <1>6, <2>4 DEF CallOK
    <3> QED
      BY <2>3, <2>4, <2>5, <2>0, <3>1 DEF CallOK
  <2>7. s = "applied" => replicas' \in unsure
    <3>1. s = "applied" => replicas' \in b.counts
      BY <1>3, <1>7, <2>4, Setting
    <3> QED
      BY <2>4, <3>1
  <2>8. s # "applied" => replicas' = replicas
    OBVIOUS
  <2>9. replicas' \in {replicas} \cup unsure'
    BY <1>7, <2>7, <2>8, <2>0
  <2>10. replicas' \in {word'} \cup unsure' \/ (replicas' = replicas /\ word' = word)
    BY <1>7, <2>7, <2>8, <2>0
  <2> QED
    BY <1>2, <1>7, <1>8, <1>11, <2>2, <2>5, <2>6, <2>9, <2>10, <2>0, OneCall
<1> QED
  BY <1>10, <1>11

LEMMA RequestStep ==
    ASSUME IInv, NEW k \in Calls, Send(k) \/ Apply(k)
    PROVE  IInv'
<1>1. CASE Send(k)
  <2>1. Active(k) /\ call[k].step # "applied"
    BY <1>1 DEF Send
  <2> QED
    BY <1>1, <2>1, HandlerStep DEF Send
<1>2. CASE Apply(k)
  <2>1. Active(k) /\ call[k].step # "applied"
    BY <1>2 DEF Apply, Active, NoCall
  <2> QED
    BY <1>2, <2>1, HandlerStep DEF Apply
<1> QED
  BY <1>1, <1>2

LEMMA ReadOnStep ==
    ASSUME IInv, NEW k \in Calls, ReadOn(k)
    PROVE  IInv'
<1>1. RuntimeInv /\ TypeOK /\ CallInv
  BY Halves
<1>2. Active(k) /\ call[k].left > 1
  BY DEF ReadOn, Active, NoCall
<1>3. PICK b \in CallType : b = call[k]
  BY <1>2, CallFacts
<1>4. b.counts = {} /\ b.awaited /\ k \in Awaited
  BY <1>2, <1>3, CallFacts DEF CallOK
<1>5. b.left \in 0..3 /\ b.left > 1
  BY <1>2, <1>3 DEF CallType
<1>6. PICK c \in CallType : c = [b EXCEPT !.step = "running", !.left = b.left - 1]
  <2>1. PICK l \in 0..3 : l = b.left - 1
    BY <1>5
  <2>2. [b EXCEPT !.step = "running", !.left = l] \in CallType
    BY <2>1 DEF CallType
  <2> QED
    BY <2>1, <2>2
<1>7. c.counts = {} /\ c.awaited /\ c.proc = b.proc
  BY <1>4, <1>6 DEF CallType
<1>8. call' = [call EXCEPT ![k] = c]
  BY <1>1, <1>3, <1>6 DEF ReadOn, TypeOK
<1>9. call'[k] = c
  BY <1>1, <1>8 DEF TypeOK
<1>10. CallOK(k)'
  BY <1>7, <1>9 DEF CallOK
<1>11. /\ task.kind = "call" /\ c.proc \in Procs /\ \A j \in Awaited : j = k
  BY <1>1, <1>3, <1>4, <1>7 DEF CallInv
<1>12. /\ UNCHANGED runtime /\ task' = task /\ replicas' = replicas /\ word' = word
       /\ unsure' = unsure
  BY DEF ReadOn, runtime
<1>13. RuntimeInv'
  BY <1>1, <1>12, RuntimeSame
<1>14. replicas \in {word} \cup unsure
  BY <1>3, <1>4, <1>11, Replicas
<1>15. unsure \subseteq Nat /\ replicas \in Nat /\ word \in Nat
  BY <1>1 DEF TypeOK
<1> QED
  BY <1>8, <1>10, <1>11, <1>12, <1>13, <1>14, <1>15, OneCall

LEMMA VanishStep ==
    ASSUME IInv, NEW k \in Calls, Vanish(k)
    PROVE  IInv'
<1>1. RuntimeInv /\ TypeOK
  BY Halves
<1>2. /\ UNCHANGED runtime /\ replicas' = replicas /\ word' = word /\ unsure' = unsure
      /\ call' = [call EXCEPT ![k] = NoCall] /\ task' = task /\ k \notin Awaited
  BY DEF Vanish, runtime, Awaited
<1>3. RuntimeInv'
  BY <1>1, <1>2, RuntimeSame
<1>4. unsure \subseteq Nat /\ replicas \in Nat /\ word \in Nat
  BY <1>1 DEF TypeOK
<1> QED
  BY <1>2, <1>3, <1>4, OneCall

LEMMA GiveUpStep ==
    ASSUME IInv, NEW k \in Calls, GiveUp(k)
    PROVE  IInv'
<1>1. RuntimeInv /\ TypeOK /\ CallInv
  BY Halves
<1>2. k \in Awaited
  BY DEF GiveUp
<1>3. PICK b \in CallType : b = call[k]
  BY <1>2, CallFacts
<1>4. PICK c \in CallType \cup {NoCall} : c = Alone(b)
  BY LeftAlone
<1>5. /\ call' = [call EXCEPT ![k] = c] /\ task' = NoTask
      /\ unsure' = unsure \cup b.counts /\ replicas' = replicas /\ word' = word
      /\ UNCHANGED <<plugin, stage, socket, conn, registry, mode, twins>>
  BY <1>1, <1>3, <1>4 DEF GiveUp, TypeOK
<1>6. RuntimeInv'
  BY <1>1, <1>2, <1>5, WaitEnds DEF CallInv
<1>7. call'[k] = c
  BY <1>1, <1>5 DEF TypeOK
<1>8. c # NoCall => ~c.awaited /\ c.counts = b.counts /\ c.counts # {} /\ c.left = b.left
  BY <1>4, LeftAlone
<1>9. c # NoCall => CallOK(k)'
  <2>1. b.counts # {} => b.left = 1
    BY <1>2, <1>3, CallFacts DEF CallOK
  <2> QED
    BY <1>5, <1>7, <1>8, <2>1 DEF CallOK
<1>10. \A j \in Awaited : j = k
  BY <1>1, <1>2 DEF CallInv
<1>11. replicas' \in {word'} \cup unsure'
  BY <1>2, <1>3, <1>5, <1>10, Replicas
<1>12. unsure \subseteq unsure' /\ unsure' \subseteq Nat /\ replicas' \in Nat /\ word' \in Nat
  <2>1. b.counts \subseteq Nat
    BY CallShape
  <2> QED
    BY <1>1, <1>5, <2>1 DEF TypeOK
<1> QED
  BY <1>5, <1>6, <1>8, <1>9, <1>10, <1>11, <1>12, OneCall

(* Processes die with their handlers; what they had sent goes on alone.     *)
LEMMA OrphanStep ==
    ASSUME IInv, RuntimeInv', NEW dead, Orphan(dead),
           \A k \in Awaited : call[k].proc \notin dead => task' = task
    PROVE  IInv'
<1>1. RuntimeInv /\ TypeOK /\ CallInv
  BY Halves
<1>2. PICK of : of = {k \in Calls : Active(k) /\ call[k].proc \in dead}
  OBVIOUS
<1>3. /\ call' = [k \in Calls |->
             CASE k \notin of -> call[k]
               [] k \in of /\ call[k].step = "running" -> NoCall
               [] OTHER -> Alone(call[k])]
      /\ unsure' = unsure \cup UNION {call[k].counts : k \in of \cap Awaited}
      /\ replicas' = replicas /\ word' = word
  BY <1>2 DEF Orphan
<1>4. \A k \in Calls : k \notin of => call'[k] = call[k]
  BY <1>3
<1>5. \A k \in of : k \in Calls /\ (call'[k] = NoCall \/ call'[k] = Alone(call[k]))
  <2>1. SUFFICES ASSUME NEW k \in of PROVE k \in Calls /\ (call'[k] = NoCall \/ call'[k] = Alone(call[k]))
    OBVIOUS
  <2>2. k \in Calls
    BY <1>2
  <2>3. CASE call[k].step = "running"
    BY <1>3, <2>2, <2>3
  <2>4. CASE call[k].step # "running"
    BY <1>3, <2>2, <2>4
  <2> QED
    BY <2>2, <2>3, <2>4
<1>6. ASSUME NEW k \in of
      PROVE  /\ call[k] \in CallType
             /\ \/ call'[k] = NoCall
                \/ /\ call'[k] \in CallType /\ ~call'[k].awaited
                   /\ call'[k].counts = call[k].counts /\ call[k].counts # {}
                   /\ call'[k].left = call[k].left
  <2>1. PICK b \in CallType : b = call[k]
    BY <1>2, CallFacts
  <2>2. call'[k] = NoCall \/ call'[k] = Alone(b)
    BY <1>5, <2>1
  <2> QED
    BY <2>1, <2>2, LeftAlone
<1>7. \A k \in Calls : k \in of => ~call'[k].awaited
  <2>1. ~NoCall.awaited
    BY DEF NoCall
  <2> QED
    BY <1>6, <2>1
<1>8. Awaited' = Awaited \ of /\ Awaited \subseteq Calls
  BY <1>4, <1>7 DEF Awaited
<1>9. unsure \subseteq unsure' /\ \A k \in of \cap Awaited : call[k].counts \subseteq unsure'
  BY <1>3
<1>10. unsure' \subseteq Nat
  <2>1. \A k \in of : call[k].counts \subseteq Nat
    <3>1. SUFFICES ASSUME NEW k \in of PROVE call[k].counts \subseteq Nat
      OBVIOUS
    <3>2. PICK b \in CallType : b = call[k]
      BY <1>6
    <3> QED
      BY <3>2, CallShape
  <2> QED
    BY <1>1, <1>3, <2>1 DEF TypeOK
<1>11. call' \in [Calls -> CallType \cup {NoCall}]
  <2>1. \A k \in Calls : call'[k] \in CallType \cup {NoCall}
    BY <1>1, <1>4, <1>6 DEF TypeOK
  <2> QED
    BY <1>3, <2>1
<1>12. TypeOK'
  BY <1>1, <1>3, <1>10, <1>11 DEF TypeOK, RuntimeInv
<1>13. \A k \in Calls : Active(k)' => CallOK(k)'
  <2>1. SUFFICES ASSUME NEW k \in Calls, Active(k)' PROVE CallOK(k)'
    OBVIOUS
  <2>2. CASE k \notin of
    <3>1. call'[k] = call[k] /\ Active(k) /\ CallOK(k)
      BY <1>4, <2>1, <2>2, CallFacts DEF Active
    <3> QED
      BY <1>3, <1>9, <3>1 DEF CallOK
  <2>3. CASE k \in of
    <3>1. /\ call[k].counts # {} /\ ~call'[k].awaited /\ call'[k].counts = call[k].counts
          /\ call'[k].left = call[k].left
      BY <1>6, <2>1, <2>3 DEF Active
    <3>2. CallOK(k) /\ (k \in Awaited <=> call[k].awaited)
      BY <1>2, <2>3, CallFacts
    <3>3. call[k].counts \subseteq unsure'
      <4>1. CASE k \in Awaited
        BY <1>9, <2>3, <4>1
      <4>2. CASE k \notin Awaited
        BY <1>9, <3>2, <4>2 DEF CallOK
      <4> QED
        BY <4>1, <4>2
    <3> QED
      BY <3>1, <3>2, <3>3 DEF CallOK
  <2> QED
    BY <2>2, <2>3
<1>14. CallInv'
  <2>1. \A k \in Awaited' : task' = task /\ call'[k] = call[k] /\ k \in Awaited
    <3>1. SUFFICES ASSUME NEW k \in Awaited' PROVE task' = task /\ call'[k] = call[k] /\ k \in Awaited
      OBVIOUS
    <3>2. k \in Awaited /\ k \notin of /\ k \in Calls
      BY <1>8
    <3>3. Active(k)
      BY <3>2, CallFacts
    <3> QED
      BY <1>2, <1>4, <3>2, <3>3
  <2> QED
    BY <1>1, <1>13, <2>1 DEF CallInv, CallOK
<1>15. LastWordStands'
  <2>1. \A k \in Awaited : k \in of \/ (k \in Awaited' /\ call'[k] = call[k])
    BY <1>4, <1>8
  <2>2. CASE replicas \in {word} \cup unsure
    BY <1>3, <1>9, <2>2 DEF LastWordStands
  <2>3. CASE \E k \in Awaited : call[k].step = "applied" /\ replicas \in call[k].counts
    BY <1>3, <1>9, <2>1, <2>3 DEF LastWordStands
  <2> QED
    BY <2>2, <2>3 DEF LastWordStands, IInv
<1> QED
  BY <1>12, <1>14, <1>15 DEF IInv, RuntimeInv

LEMMA DeathStep ==
    ASSUME IInv,
           ControlPlaneRestarts \/ \E p \in Procs : ProcessEnds(p) \/ StopEnds(p)
    PROVE  IInv'
<1>1. RuntimeInv /\ CallInv
  BY Halves
<1>2. ASSUME NEW p \in Procs, ProcessEnds(p) PROVE IInv'
  <2>1. /\ Exit(p) /\ Orphan({p})
        /\ task' = IF Abandoned(p) THEN NoTask ELSE task
    BY <1>2 DEF ProcessEnds
  <2>2. Abandoned(p) => task.kind = "call" /\ \A k \in Awaited : call[k].proc = p
    BY <1>1 DEF Abandoned, CallInv
  <2>3. RuntimeInv'
    BY <1>1, <2>1, <2>2, ExitStep
  <2> QED
    BY <2>1, <2>2, <2>3, OrphanStep
<1>3. ASSUME NEW p \in Procs, StopEnds(p) PROVE IInv'
  <2>1. RuntimeInv' /\ Orphan({p})
    BY <1>1, <1>3, ReapedStep DEF StopEnds
  <2>2. Awaited = {}
    BY <1>1, <1>3 DEF StopEnds, Reaped, CallInv
  <2> QED
    BY <2>1, <2>2, OrphanStep
<1>4. CASE ControlPlaneRestarts
  <2>1. RuntimeInv' /\ Orphan(Procs)
    BY <1>4, RestartStep DEF ControlPlaneRestarts
  <2>2. \A k \in Awaited : call[k].proc \in Procs
    BY <1>1 DEF CallInv
  <2> QED
    BY <2>1, <2>2, OrphanStep
<1> QED
  BY <1>2, <1>3, <1>4

(* The runtime's own steps happen while no call is awaited, or leave the    *)
(* event loop waiting.                                                      *)
LEMMA RuntimeStep ==
    ASSUME IInv, RuntimeNext, UNCHANGED <<call, replicas, word, unsure>>
    PROVE  IInv'
<1>1. RuntimeInv /\ TypeOK /\ CallInv
  BY Halves
<1>2. RuntimeInv'
  BY <1>1, InstallStep, ListenStep, RegisterStep, RejectStep, StuckStep, DisconnectStep,
     CloseStep, UninstallStep DEF RuntimeNext, Install, Accepted
<1>3. task' = task \/ task.kind # "call"
  BY DEF RuntimeNext, Install, Listen, Register, Reject, Stuck, Disconnect, BeginClose,
         Uninstall, CloseEnd, Free, Idle
<1>4. Awaited' = Awaited /\ \A k \in Calls : Active(k)' <=> Active(k)
  BY DEF Awaited, Active
<1>5. TypeOK'
  BY <1>1, <1>2 DEF TypeOK, RuntimeInv
<1>6. CallInv'
  BY <1>1, <1>3, <1>4 DEF CallInv
<1>7. LastWordStands'
  BY <1>4 DEF LastWordStands, IInv
<1> QED
  BY <1>2, <1>5, <1>6, <1>7 DEF IInv, RuntimeInv

-----------------------------------------------------------------------------
LEMMA InitInv == Init => IInv
<1> SUFFICES ASSUME Init PROVE IInv
  OBVIOUS
<1>1. RuntimeInv
  BY Fresh DEF Init
<1>2. Awaited = {} /\ \A k \in Calls : ~Active(k)
  BY DEF Init, Awaited, Active, NoCall
<1>3. TypeOK
  BY <1>1, KubernetesAssumption DEF Init, TypeOK, RuntimeInv
<1>4. CallInv /\ LastWordStands
  BY <1>2 DEF CallInv, LastWordStands, Init
<1> QED
  BY <1>1, <1>3, <1>4 DEF IInv, RuntimeInv

LEMMA StepInv == IInv /\ [Next]_vars => IInv'
<1> SUFFICES ASSUME IInv, [Next]_vars PROVE IInv'
  OBVIOUS
<1>1. CASE RuntimeNext /\ UNCHANGED <<call, replicas, word, unsure>>
  BY <1>1, RuntimeStep
<1>2. CASE ControlPlaneRestarts \/ \E p \in Procs : ProcessEnds(p) \/ StopEnds(p)
  BY <1>2, DeathStep
<1>3. ASSUME NEW k \in Calls,
             \/ \E q \in Payloads : Call(k, q)
             \/ Refuse(k) \/ Reply(k) \/ Send(k) \/ Apply(k) \/ ReadOn(k)
             \/ Succeed(k) \/ Lose(k) \/ Vanish(k) \/ GiveUp(k)
      PROVE  IInv'
  BY <1>3, CallStep, AnswersStep, RequestStep, ReadOnStep, VanishStep, GiveUpStep
<1>4. CASE UNCHANGED vars
  <2>1. UNCHANGED runtime /\ UNCHANGED <<call, replicas, word, unsure>>
    BY <1>4 DEF vars
  <2>2. RuntimeInv' /\ task' = task
    BY <2>1, Halves, RuntimeSame DEF runtime
  <2>3. Awaited' = Awaited /\ \A k \in Calls : Active(k)' <=> Active(k)
    BY <2>1 DEF Awaited, Active
  <2>4. TypeOK' /\ CallInv' /\ LastWordStands'
    BY <2>1, <2>2, <2>3 DEF TypeOK, CallInv, LastWordStands, IInv, RuntimeInv
  <2> QED
    BY <2>2, <2>4 DEF IInv, RuntimeInv
<1> QED
  BY <1>1, <1>2, <1>3, <1>4 DEF Next

(* What processes, paths and calls say of each other holds in every         *)
(* reachable state (GrpcPluginRuntime, KubernetesPlugin).                   *)
THEOREM Invariance == Spec => []IInv
  BY InitInv, StepInv, PTL DEF Spec

-----------------------------------------------------------------------------
(* What follows                                                             *)

(* Every reachable state is well typed.                                     *)
THEOREM PluginTyped == Spec => []TypeOK
<1>1. IInv => TypeOK
  BY DEF IInv
<1> QED
  BY <1>1, Invariance, PTL

(* A plugin that serves is reached under its path by its own requests,      *)
(* whatever was installed, refused, replaced or died beside it (install).   *)
THEOREM ServingIsReachable == Spec => []StaysReachable
<1>1. IInv => StaysReachable
  BY Halves, OwnPath DEF StaysReachable
<1> QED
  BY <1>1, Invariance, PTL

(* Between two requests the processes that run are the registered ones, and *)
(* none is left after close (install's except branch, _stop).               *)
THEOREM NothingLeaks == Spec => []NoLeak
<1>1. ASSUME IInv PROVE NoLeak
  <2>1. TaskInv /\ StageInv
    BY <1>1 DEF IInv
  <2>2. Idle => Candidate = {}
    BY DEF Idle, Candidate
  <2>3. mode = "closed" => Idle /\ Registered = {}
    BY <2>1 DEF TaskInv, Idle, NoTask
  <2> QED
    BY <2>1, <2>2, <2>3 DEF NoLeak, StageInv, Free
<1> QED
  BY <1>1, Invariance, PTL

(* The health check that registers a process was answered by that process   *)
(* (install).                                                               *)
THEOREM OwnHealth == Spec => HealthIsOwn
<1>1. ASSUME IInv, Next,
             NEW i \in Plugins, registry'[i] # registry[i], registry'[i] # Nil,
             registry'[i] \notin twins
      PROVE  Reach(Path(plugin[registry'[i]])) = registry'[i]
  <2>1. RuntimeInv /\ RuntimeTypeOK /\ TaskInv
    BY <1>1, Halves DEF RuntimeInv
  <2>2. PICK c \in Procs : Register(c)
    <3>1. \A j \in Plugins : Uninstall(j) => registry'[i] = registry[i] \/ registry'[i] = Nil
      BY <2>1 DEF Uninstall, RuntimeTypeOK
    <3>2. Restart => registry'[i] = Nil
      BY DEF Restart
    <3>3. CASE RuntimeNext
      BY <1>1, <3>1, <3>3 DEF RuntimeNext, Install, Listen, Reject, Stuck, Disconnect,
                              BeginClose, CloseEnd
    <3>4. CASE \E p \in Procs : ProcessEnds(p) \/ StopEnds(p)
      BY <1>1, <3>4 DEF ProcessEnds, Exit, StopEnds, Reaped
    <3>5. CASE ControlPlaneRestarts
      BY <1>1, <3>2, <3>5 DEF ControlPlaneRestarts
    <3>6. ASSUME NEW k \in Calls,
                 \/ \E q \in Payloads : Call(k, q)
                 \/ Refuse(k) \/ Reply(k) \/ Send(k) \/ Apply(k) \/ ReadOn(k)
                 \/ Succeed(k) \/ Lose(k) \/ Vanish(k) \/ GiveUp(k)
          PROVE  FALSE
      BY <1>1, <3>6 DEF Call, Refuse, Reply, Send, Apply, ReadOn, Succeed, Lose, Vanish,
                        GiveUp, Answer, runtime
    <3> QED
      BY <1>1, <3>3, <3>4, <3>5, <3>6 DEF Next
  <2>3. registry' = [registry EXCEPT ![plugin[c].id] = c] /\ task = [kind |-> "probe", proc |-> c]
    BY <2>2 DEF Register
  <2>4. registry'[i] = c
    BY <1>1, <2>1, <2>3 DEF RuntimeTypeOK
  <2>5. c \in Candidate
    BY <2>3 DEF Candidate
  <2>6. PICK h \in Paths : h = Path(plugin[c])
    BY <2>1, <2>5, Known
  <2>7. Reach(h) # Nil /\ c \in (Registered \cup Candidate) \ twins
    BY <1>1, <2>2, <2>4, <2>5, <2>6 DEF Register, Healthy
  <2>8. Reach(h) \in Serving /\ Path(plugin[Reach(h)]) = h /\ Reach(h) \in Registered \cup Candidate
    BY <2>1, <2>6, <2>7, Reached
  <2>9. Registered \cup Candidate \subseteq Around
    BY DEF Around, Candidate
  <2>10. \A q \in Around \ {c} : Path(plugin[q]) # h
    BY <2>1, <2>6, <2>7 DEF RuntimeInv, TwinInv
  <2> QED
    BY <2>4, <2>6, <2>8, <2>9, <2>10
<1>2. IInv /\ [Next]_vars =>
        [\A i \in Plugins :
           registry'[i] # registry[i] /\ registry'[i] # Nil /\ registry'[i] \notin twins
             => Reach(Path(plugin[registry'[i]])) = registry'[i]]_runtime
  <2>1. UNCHANGED vars => UNCHANGED runtime
    BY DEF vars
  <2> QED
    BY <1>1, <2>1
<1> QED
  BY <1>2, Invariance, PTL DEF Spec, HealthIsOwn

(* The replicas of the Deployment are those of the call confirmed last, or  *)
(* of a permitted call without a confirmation (execute, rollback).          *)
THEOREM WordIsKept == Spec => []LastWordStands
<1>1. IInv => LastWordStands
  BY DEF IInv
<1> QED
  BY <1>1, Invariance, PTL
=============================================================================
