---------------------------- MODULE PluginRuntime ----------------------------
(***************************************************************************)
(* The plugin runtime of the control plane (grpc_plugin_runtime.py), the   *)
(* routes and the shutdown that drive it, and what the plugin SDKs do in   *)
(* the plugin processes.                                                   *)
(*                                                                         *)
(* install, call and close run on the event loop without an await, so one  *)
(* of them runs at a time ("task"); what interleaves with it is the        *)
(* plugin processes, which start to listen, answer, hang and die when they *)
(* like, and the gRPC channels, which drop idle connections.  Channels of  *)
(* one process to one address share one connection, so a connection        *)
(* belongs to a socket path and not to a plugin.                           *)
(***************************************************************************)
EXTENDS Integers, FiniteSets

CONSTANTS
    Procs,        \* plugin processes that may exist at a time
    Manifests,    \* the plugin.yaml files under the plugin directory
    Nil           \* no process

ASSUME RuntimeAssumption == Nil \notin Procs \cup Manifests

Plugins == {m.id : m \in Manifests}

VARIABLES
    plugin,       \* plugin[p]: the manifest process p was started from, or Nil
    stage,        \* stage[p]: how far the process has come
    socket,       \* socket[path]: the process that answers a connect there
    conn,         \* conn[path]: the process at the other end of a connection
    registry,     \* registry[id]: _plugins, the registered process
    task,         \* what the event loop is doing
    mode,         \* the life of the control plane
    twins         \* processes whose identity was installed a second time
                  \* while they were registered (a history variable)

runtime == <<plugin, stage, socket, conn, registry, task, mode, twins>>

(* Mutant of Path: one socket for every version of a plugin.               *)
PathById(m) == <<m.id, "any">>

(* The candidate's own socket: a hash of plugin_id:version.                *)
Path(m) == <<m.id, m.version>>
Paths == {Path(m) : m \in Manifests}

(* What install insists on before it starts anything: the file lies in the *)
(* plugin directory, the entry point in the plugin's own, the API version, *)
(* capabilities and permissions are known, the checksum is right.          *)
Loads(m) == /\ m.api = "v1"
            /\ m.capabilities = "known"
            /\ m.permissions = "known"
            /\ m.schema \in {"none", "object"}
Accepted(m) == m.file = "inside" /\ Loads(m) /\ m.entry = "inside" /\ m.checksum

Registered == {registry[i] : i \in Plugins} \ {Nil}
Running == {p \in Procs : stage[p] \in {"starting", "serving"}}
Serving == {p \in Procs : stage[p] = "serving"}
Idle == task.kind = "idle"
NoTask == [kind |-> "idle", proc |-> Nil]
Free == Idle /\ mode = "up"

(* The process a request over a channel to this path ends at.              *)
Reach(path) == CASE conn[path] \in Serving -> conn[path]
                 [] conn[path] \notin Serving /\ socket[path] \in Serving -> socket[path]
                 [] OTHER -> Nil

RuntimeInit ==
    /\ plugin = [p \in Procs |-> Nil]
    /\ stage = [p \in Procs |-> "none"]
    /\ socket = [h \in Paths |-> Nil]
    /\ conn = [h \in Paths |-> Nil]
    /\ registry = [i \in Plugins |-> Nil]
    /\ task = NoTask
    /\ mode = "up"
    /\ twins = {}

Twin(m) == {q \in Registered : plugin[q].id = m.id /\ plugin[q].version = m.version}

(* install up to the health check: the socket path is cleared and the      *)
(* process started.  A manifest that is not accepted changes nothing.      *)
Install(c, m) ==
    /\ Free /\ stage[c] = "none" /\ c \notin Registered /\ Accepted(m)
    /\ socket' = [socket EXCEPT ![Path(m)] = Nil]
    /\ plugin' = [plugin EXCEPT ![c] = m]
    /\ stage' = [stage EXCEPT ![c] = "starting"]
    /\ task' = [kind |-> "probe", proc |-> c]
    /\ twins' = IF Twin(m) = {} THEN twins ELSE twins \cup Twin(m) \cup {c}
    /\ UNCHANGED <<conn, registry, mode>>

(* The SDK's serve: a stale socket is removed and the server listens.      *)
Listen(p) ==
    /\ stage[p] = "starting"
    /\ stage' = [stage EXCEPT ![p] = "serving"]
    /\ socket' = [socket EXCEPT ![Path(plugin[p])] = p]
    /\ UNCHANGED <<plugin, conn, registry, task, mode, twins>>

(* A process ends, by itself or because it was told to.  The Go SDK        *)
(* removes the socket path on its way out, whoever listens there by then.  *)
Gone(p, sweep) ==
    LET h == Path(plugin[p])
    IN  /\ stage' = [stage EXCEPT ![p] = "none"]
        /\ socket' = [socket EXCEPT ![h] = IF sweep \/ @ = p THEN Nil ELSE @]
        /\ conn' = [conn EXCEPT ![h] = IF @ = p THEN Nil ELSE @]
Exit(p) ==
    /\ stage[p] \in {"starting", "serving", "ending"}
    /\ task # [kind |-> "stop", proc |-> p]
    /\ \E sweep \in BOOLEAN : (sweep => stage[p] # "starting") /\ Gone(p, sweep)
    /\ UNCHANGED <<plugin, registry, mode, twins>>

(* A channel that was not used for long drops its connection.              *)
Disconnect(h) ==
    /\ conn[h] # Nil
    /\ conn' = [conn EXCEPT ![h] = Nil]
    /\ UNCHANGED <<plugin, stage, socket, registry, task, mode, twins>>

(* _stop begins: the channel is closed and the process gets SIGTERM.  The  *)
(* connection goes with the last channel to its path.                      *)
Terminate(p) ==
    LET h == Path(plugin[p])
        users == {q \in (Registered \cup {task.proc}) \ {p, Nil} : Path(plugin[q]) = h}
    IN  /\ stage' = [stage EXCEPT ![p] = IF @ = "none" THEN @ ELSE "ending"]
        /\ conn' = [conn EXCEPT ![h] = IF @ = p \/ users = {} THEN Nil ELSE @]
        /\ task' = [kind |-> "stop", proc |-> p]

(* A health check is answered with ok while poll() says the candidate      *)
(* lives: the references are exchanged and the previous process stopped.   *)
Healthy(c) == stage[c] # "none" /\ Reach(Path(plugin[c])) # Nil
Register(c) ==
    /\ task = [kind |-> "probe", proc |-> c] /\ Healthy(c)
    /\ LET i == plugin[c].id
           previous == registry[i]
           h == Path(plugin[c])
       IN  /\ registry' = [registry EXCEPT ![i] = c]
           /\ IF previous = Nil
              THEN /\ conn' = [conn EXCEPT ![h] = Reach(h)]
                   /\ task' = NoTask
                   /\ UNCHANGED stage
              ELSE /\ stage' = [stage EXCEPT ![previous] = IF @ = "none" THEN @ ELSE "ending"]
                   /\ conn' = [conn EXCEPT
                        ![Path(plugin[previous])] = Nil,
                        ![h] = IF Reach(h) = previous THEN Nil ELSE Reach(h)]
                   /\ task' = [kind |-> "stop", proc |-> previous]
    /\ UNCHANGED <<plugin, socket, mode, twins>>

(* Mutant of Reject: the except branch raises and leaves the process.      *)
RejectAndRaise(c) ==
    /\ task = [kind |-> "probe", proc |-> c]
    /\ task' = NoTask
    /\ UNCHANGED <<plugin, stage, socket, conn, registry, mode, twins>>

(* The candidate exits, or eight seconds pass: it is stopped.              *)
Reject(c) ==
    /\ task = [kind |-> "probe", proc |-> c]
    /\ Terminate(c)
    /\ UNCHANGED <<plugin, socket, registry, mode, twins>>

(* The rest of _stop: the process is reaped, after SIGKILL if it must be,  *)
(* and its socket path is unlinked.                                        *)
Reaped(p) ==
    /\ task = [kind |-> "stop", proc |-> p]
    /\ Gone(p, TRUE)
    /\ task' = NoTask
    /\ plugin' = [plugin EXCEPT ![p] = Nil]
    /\ twins' = twins \ {p}
    /\ UNCHANGED <<registry, mode>>

(* A process that outlives SIGKILL by three seconds: _stop raises.  The    *)
(* request fails, or close does, with what it had not come to left undone. *)
Stuck(p) ==
    /\ task = [kind |-> "stop", proc |-> p] /\ stage[p] = "ending"
    /\ stage' = [stage EXCEPT ![p] = "stuck"]
    /\ task' = NoTask
    /\ mode' = IF mode = "closing" THEN "aborted" ELSE mode
    /\ UNCHANGED <<plugin, socket, conn, registry, twins>>

(* ApplicationContainer.close: every plugin is taken out of the registry   *)
(* and stopped, one after the other.                                       *)
BeginClose == /\ Free
              /\ mode' = "closing"
              /\ UNCHANGED <<plugin, stage, socket, conn, registry, task, twins>>
Uninstall(i) ==
    /\ Idle /\ mode = "closing" /\ registry[i] # Nil
    /\ registry' = [registry EXCEPT ![i] = Nil]
    /\ Terminate(registry[i])
    /\ UNCHANGED <<plugin, socket, mode, twins>>
CloseEnd == /\ Idle /\ mode = "closing" /\ Registered = {}
            /\ mode' = "closed"
            /\ UNCHANGED <<plugin, stage, socket, conn, registry, task, twins>>

(* The control plane is process 1 of its container: when it ends, every    *)
(* plugin process ends, and the container starts again with none.          *)
Restart == /\ stage' = [p \in Procs |-> "none"]
           /\ socket' = [h \in Paths |-> Nil]
           /\ conn' = [h \in Paths |-> Nil]
           /\ registry' = [i \in Plugins |-> Nil]
           /\ task' = NoTask
           /\ mode' = "up"
           /\ twins' = {}
           /\ plugin' = [p \in Procs |-> Nil]

RuntimeNext ==
    \/ \E c \in Procs, m \in Manifests : Install(c, m)
    \/ \E p \in Procs : Listen(p) \/ Register(p) \/ Reject(p) \/ Stuck(p)
    \/ \E h \in Paths : Disconnect(h)
    \/ BeginClose \/ (\E i \in Plugins : Uninstall(i)) \/ CloseEnd

------------------------------------------------------------------------------
(* Types.                                                                  *)
RuntimeTypeOK ==
    /\ plugin \in [Procs -> Manifests \cup {Nil}]
    /\ stage \in [Procs -> {"none", "starting", "serving", "ending", "stuck"}]
    /\ socket \in [Paths -> Procs \cup {Nil}]
    /\ conn \in [Paths -> Procs \cup {Nil}]
    /\ registry \in [Plugins -> Procs \cup {Nil}]
    /\ task \in [kind: {"idle", "probe", "stop", "call"}, proc: Procs \cup {Nil}]
    /\ mode \in {"up", "closing", "closed", "aborted"}
    /\ twins \subseteq Procs

(* A registered plugin that still serves can be called, whatever was       *)
(* installed, refused, stopped or restarted since: its requests reach it   *)
(* and no other process.  Only a plugin installed again under the version  *)
(* it already has may lose its socket (install, _stop).                    *)
StaysReachable ==
    \A p \in Registered \ twins : stage[p] = "serving" => Reach(Path(plugin[p])) = p

(* No plugin process outlives its registration: between two requests the   *)
(* processes that run are the registered ones, and none is left after      *)
(* close (install's except branch, the exchange, uninstall).               *)
NoLeak == /\ Free => Running \subseteq Registered
          /\ mode = "closed" => Running = {}

(* A plugin is registered only on the strength of its own health check:    *)
(* the process that said ok is the one that was started (install).         *)
HealthIsOwn ==
    [][\A i \in Plugins :
         registry'[i] # registry[i] /\ registry'[i] # Nil /\ registry'[i] \notin twins
           => Reach(Path(plugin[registry'[i]])) = registry'[i]]_runtime
==============================================================================
