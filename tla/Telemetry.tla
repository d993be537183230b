----------------------------- MODULE Telemetry -----------------------------
(***************************************************************************)
(* The telemetry feed: the agent collects a snapshot, sends it under a     *)
(* sequence number over its mTLS stream and waits for the acknowledgement  *)
(* (agent/internal/transport/grpcstream); the control plane drops sequence *)
(* numbers it knows, keeps metrics in memory and saves the node, the       *)
(* assets and the topology in PostgreSQL (AgentIngestionService).  Streams *)
(* break, the agent and the control plane restart, saves fail; what a      *)
(* broken stream had in flight may still be handled.                       *)
(***************************************************************************)
EXTENDS Naturals, Sequences, FiniteSets

CONSTANTS
    MaxShots,    \* bound of the snapshots collected
    MaxStreams,  \* bound of the connections made
    MaxAgents,   \* bound of the agent's instances
    MaxServers,  \* bound of the control plane's lives
    MaxFaults    \* bound of broken streams and failed saves

ASSUME TelemetryAssumption ==
    /\ MaxShots \in Nat
    /\ MaxStreams \in Nat
    /\ MaxAgents \in Nat \ {0}
    /\ MaxServers \in Nat \ {0}
    /\ MaxFaults \in Nat

Shots == 1..MaxShots
Streams == 1..MaxStreams
Instances == 1..MaxAgents
Lives == 1..MaxServers

(* Frames from the agent; a snapshot is known by when it was collected.     *)
Hello == [kind: {"hello"}, inst: Instances]
Batch == [kind: {"telemetry"}, seq: Shots, shot: Shots]

VARIABLES
    faults,     \* broken streams and failed saves so far
    shots,      \* snapshots collected so far
    inst,       \* the agent's instance_id
    seq,        \* the agent's next sequence number
    phase,      \* "offline", "ready" or "waiting"
    stream,     \* the agent's current stream, 0 before the first
    streams,    \* streams made so far
    up,         \* frames on their way to the control plane, per stream
    down,       \* acknowledgements on their way to the agent, per stream
    serving,    \* streams whose handler runs in the control plane
    node,       \* the instance each handler has accepted in hello, 0 before
    life,       \* the control plane's life
    sequences,  \* AgentMetricStore._sequences, per instance
    metrics,    \* AgentMetricStore._metrics: whose snapshot they are from
    heartbeat,  \* table agent_nodes: the instance last saved
    assets,     \* table assets: the snapshot last saved
    topology,   \* table topology_edges: the snapshot last saved
    accepted    \* history: every batch accept_batch took, with the life

agent == <<shots, inst, seq, phase, stream, streams>>
network == <<up, down>>
memory == <<sequences, metrics>>
tables == <<heartbeat, assets, topology>>
vars == <<faults, agent, network, serving, node, life, memory, tables, accepted>>

Init ==
    /\ faults = 0
    /\ shots = 0
    /\ inst = 1
    /\ seq = 1
    /\ phase = "offline"
    /\ stream = 0
    /\ streams = 0
    /\ up = [s \in Streams |-> <<>>]
    /\ down = [s \in Streams |-> <<>>]
    /\ serving = {}
    /\ node = [s \in Streams |-> 0]
    /\ life = 1
    /\ sequences = [i \in Instances |-> 0]
    /\ metrics = [inst |-> 0, shot |-> 0]
    /\ heartbeat = 0
    /\ assets = 0
    /\ topology = 0
    /\ accepted = {}

-----------------------------------------------------------------------------
(* The agent: Run, runConnection, sendTelemetry.                            *)

Connect ==
    /\ phase = "offline"
    /\ streams < MaxStreams
    /\ streams' = streams + 1
    /\ stream' = streams'
    /\ up' = [up EXCEPT ![streams'] = <<[kind |-> "hello", inst |-> inst]>>]
    /\ serving' = serving \cup {streams'}
    /\ phase' = "ready"
    /\ UNCHANGED <<faults, shots, inst, seq, down, node, life, memory, tables, accepted>>

(* Mutant: the sequence number advances when the batch is sent.             *)
SendAndAdvance ==
    /\ phase = "ready"
    /\ shots < MaxShots
    /\ shots' = shots + 1
    /\ up' = [up EXCEPT ![stream] =
                Append(@, [kind |-> "telemetry", seq |-> seq, shot |-> shots'])]
    /\ seq' = seq + 1
    /\ phase' = "waiting"
    /\ UNCHANGED <<faults, inst, stream, streams, down, serving, node, life, memory, tables,
                   accepted>>

(* A resend carries the old sequence number and a new snapshot.             *)
Send ==
    /\ phase = "ready"
    /\ shots < MaxShots
    /\ shots' = shots + 1
    /\ up' = [up EXCEPT ![stream] =
                Append(@, [kind |-> "telemetry", seq |-> seq, shot |-> shots'])]
    /\ phase' = "waiting"
    /\ UNCHANGED <<faults, inst, seq, stream, streams, down, serving, node, life, memory,
                   tables, accepted>>

ReceiveAck ==
    /\ phase = "waiting"
    /\ down[stream] # <<>>
    /\ down' = [down EXCEPT ![stream] = Tail(@)]
    /\ seq' = IF Head(down[stream]) >= seq THEN Head(down[stream]) + 1 ELSE seq
    /\ phase' = "ready"
    /\ UNCHANGED <<faults, shots, inst, stream, streams, up, serving, node, life, memory,
                   tables, accepted>>

(* The stream is gone: its handler ended, and the agent finds out.          *)
Notice ==
    /\ phase # "offline"
    /\ stream \notin serving
    /\ phase' = "offline"
    /\ UNCHANGED <<faults, shots, inst, seq, stream, streams, network, serving, node, life,
                   memory, tables, accepted>>

(* The agent gives a stream up: a collection or the connection failed.      *)
Break ==
    /\ faults < MaxFaults
    /\ phase # "offline"
    /\ faults' = faults + 1
    /\ phase' = "offline"
    /\ UNCHANGED <<shots, inst, seq, stream, streams, network, serving, node, life, memory,
                   tables, accepted>>

(* The process starts again: a new instance_id, sequence numbers from one.  *)
AgentRestart ==
    /\ inst < MaxAgents
    /\ inst' = inst + 1
    /\ seq' = 1
    /\ phase' = "offline"
    /\ UNCHANGED <<faults, shots, stream, streams, network, serving, node, life, memory,
                   tables, accepted>>

-----------------------------------------------------------------------------
(* The control plane: one coroutine per stream, ingest runs to its end.     *)

Frame(s) == Head(up[s])

Take(s, kind) ==
    /\ s \in serving
    /\ up[s] # <<>>
    /\ Frame(s).kind = kind
    /\ up' = [up EXCEPT ![s] = Tail(@)]

(* connect: the node is saved, or the save fails and ends the handler       *)
Greet(s, saved) ==
    /\ Take(s, "hello")
    /\ \/ /\ saved
          /\ node' = [node EXCEPT ![s] = Frame(s).inst]
          /\ heartbeat' = Frame(s).inst
          /\ UNCHANGED <<faults, serving>>
       \/ /\ ~saved /\ faults < MaxFaults
          /\ faults' = faults + 1
          /\ serving' = serving \ {s}
          /\ UNCHANGED <<node, heartbeat>>
    /\ UNCHANGED <<agent, down, life, memory, assets, topology, accepted>>

Acknowledge(s, n) == down' = [down EXCEPT ![s] = Append(@, n)]

(* Mutant: equal sequence numbers count as new.                             *)
KnownStrictly(i, n) == n < sequences[i]

Known(i, n) == n <= sequences[i]

(* Mutant: a batch whose number is known is dropped in silence.             *)
DropRepeat(s) ==
    /\ Take(s, "telemetry")
    /\ Known(node[s], Frame(s).seq)
    /\ UNCHANGED <<faults, agent, down, serving, node, life, memory, tables, accepted>>

(* Mutant: the metrics are written before the sequence number is looked at. *)
RepeatWrites(s) ==
    /\ Take(s, "telemetry")
    /\ Known(node[s], Frame(s).seq)
    /\ Acknowledge(s, Frame(s).seq)
    /\ metrics' = [inst |-> node[s], shot |-> Frame(s).shot]
    /\ UNCHANGED <<faults, agent, serving, node, life, sequences, tables, accepted>>

(* A batch whose number is known is acknowledged and dropped.               *)
Repeat(s) ==
    /\ Take(s, "telemetry")
    /\ Known(node[s], Frame(s).seq)
    /\ Acknowledge(s, Frame(s).seq)
    /\ UNCHANGED <<faults, agent, serving, node, life, memory, tables, accepted>>

(* accept_batch                                                             *)
AcceptBatch(s) ==
    /\ Take(s, "telemetry")
    /\ ~Known(node[s], Frame(s).seq)
    /\ sequences' = [sequences EXCEPT ![node[s]] = Frame(s).seq]
    /\ metrics' = [inst |-> node[s], shot |-> Frame(s).shot]
    /\ accepted' = accepted \cup
         {[life |-> life, inst |-> node[s], seq |-> Frame(s).seq, shot |-> Frame(s).shot]}

(* The saves that follow: the node, the assets, the topology, in this       *)
(* order.  The first that fails ends the handler without acknowledgement.   *)
Ingest(s, saves) ==
    /\ AcceptBatch(s)
    /\ heartbeat' = IF saves >= 1 THEN node[s] ELSE heartbeat
    /\ assets' = IF saves >= 2 THEN Frame(s).shot ELSE assets
    /\ topology' = IF saves >= 3 THEN Frame(s).shot ELSE topology
    /\ \/ /\ saves = 3
          /\ Acknowledge(s, Frame(s).seq)
          /\ UNCHANGED <<faults, serving>>
       \/ /\ saves < 3 /\ faults < MaxFaults
          /\ faults' = faults + 1
          /\ serving' = serving \ {s}
          /\ UNCHANGED down
    /\ UNCHANGED <<agent, node, life>>

(* The handler of a stream the agent has given up is cancelled.             *)
Cancel(s) ==
    /\ s \in serving
    /\ s # stream \/ phase = "offline"
    /\ serving' = serving \ {s}
    /\ UNCHANGED <<faults, agent, network, node, life, memory, tables, accepted>>

ServerRestart ==
    /\ life < MaxServers
    /\ life' = life + 1
    /\ sequences' = [i \in Instances |-> 0]
    /\ metrics' = [inst |-> 0, shot |-> 0]
    /\ serving' = {}
    /\ UNCHANGED <<faults, agent, network, node, tables, accepted>>

Handle(s) ==
    \/ \E saved \in BOOLEAN : Greet(s, saved)
    \/ Repeat(s)
    \/ \E saves \in 0..3 : Ingest(s, saves)

Next ==
    \/ Connect \/ Send \/ ReceiveAck \/ Notice \/ Break \/ AgentRestart
    \/ ServerRestart
    \/ \E s \in Streams : Handle(s) \/ Cancel(s)

Spec == Init /\ [][Next]_vars

(* The agent reconnects, sends, reads and notices; a handler that has a     *)
(* frame handles it.  Faults and restarts are nobody's duty, and a handler  *)
(* of an abandoned stream may linger.                                       *)
FairSpec ==
    /\ Spec
    /\ WF_vars(Connect) /\ WF_vars(Send) /\ WF_vars(ReceiveAck) /\ WF_vars(Notice)
    /\ \A s \in Streams : WF_vars(Handle(s))

-----------------------------------------------------------------------------
(* Types. *)
TypeOK ==
    /\ faults \in 0..MaxFaults
    /\ shots \in 0..MaxShots
    /\ inst \in Instances
    /\ seq \in 1..(MaxShots + 1)
    /\ phase \in {"offline", "ready", "waiting"}
    /\ stream \in 0..MaxStreams
    /\ streams \in 0..MaxStreams
    /\ up \in [Streams -> Seq(Hello \cup Batch)]
    /\ down \in [Streams -> Seq(Shots)]
    /\ serving \subseteq Streams
    /\ node \in [Streams -> 0..MaxAgents]
    /\ life \in Lives
    /\ sequences \in [Instances -> 0..MaxShots]
    /\ metrics \in [inst: 0..MaxAgents, shot: 0..MaxShots]
    /\ heartbeat \in 0..MaxAgents
    /\ assets \in 0..MaxShots
    /\ topology \in 0..MaxShots
    /\ accepted \subseteq [life: Lives, inst: Instances, seq: Shots, shot: Shots]

(* No batch of one agent instance is evaluated twice by one life of the       *)
(* control plane, and what is accepted later was collected later: resending   *)
(* neither repeats a sequence number nor lets an old snapshot replace a newer *)
(* one (agent_metric_store.py:4).                                             *)
AcceptedInOrder ==
    \A a, b \in accepted :
        a.life = b.life /\ a.inst = b.inst =>
            /\ a.seq = b.seq => a = b
            /\ a.seq < b.seq => a.shot < b.shot

(* The agent moves past a sequence number only after the control plane has    *)
(* accepted a batch of this instance under it, in whatever life and over      *)
(* whatever stream ("the agent advances only when it sees the                 *)
(* acknowledgement", docs/stages/06-real-monitoring/README.md:281).           *)
AdvanceIsEarned ==
    \A n \in 1..(seq - 1) : \E a \in accepted : a.inst = inst /\ a.seq = n

(* The metrics of one instance never go back to an earlier snapshot while the *)
(* control plane lives, whatever late frames of abandoned streams arrive.     *)
MetricsMoveForward ==
    [][life' = life /\ metrics'.inst = metrics.inst => metrics'.shot >= metrics.shot]_vars

(* A batch that was sent is acknowledged and the agent moves on, or the agent  *)
(* learns that its stream is gone: it neither waits for ever nor goes round    *)
(* with the same sequence number on a stream that works.                       *)
SentIsSettled ==
    \A n \in Shots : phase = "waiting" /\ seq = n ~> seq > n \/ phase = "offline"

(* An acknowledgement proves that the application has persisted the batch     *)
(* (docs/stages/06-real-monitoring/README.md:280): when the agent moves past  *)
(* a sequence number, its assets and topology are in the database.            *)
AckMeansPersisted ==
    [][seq' > seq =>
        \E a \in accepted : /\ a.inst = inst /\ a.seq = seq
                            /\ a.shot <= assets /\ a.shot <= topology]_vars
=============================================================================
