----------------------------- MODULE Collectors ------------------------------
(***************************************************************************)
(* What the agent measures: the host's CPU from /proc/stat                 *)
(* (procfs/collector.go), the containers from the Docker API               *)
(* (docker/collector.go), and TelemetryService, which makes one batch of   *)
(* both.  The telemetry stream and every GET /metrics collect at the same  *)
(* time and share the CPU baseline: each reads the counters first and      *)
(* exchanges the baseline, under the lock, later.                          *)
(***************************************************************************)
EXTENDS Integers, FiniteSets

CONSTANTS
    Hosts,         \* hosts to look at: the goroutines that collect on one, its
                   \* containers, and a bound on the ticks of its counters
    Stream,        \* the goroutine that collects containers as well
    Monitored,     \* containers of the project whose service is monitored
    Width,         \* unsigned counters are taken modulo this
    MaxUsage,      \* bound on a container's usage
    MaxRestarts    \* bound on the restarts of a container

(* Counters are uint64: none of them, nor their sum, comes round.          *)
ASSUME CollectorsAssumption ==
    /\ Width \in Nat
    /\ \A h \in Hosts : h.ticks \in Nat \ {0} /\ 2 * h.ticks < Width
    /\ MaxUsage \in Nat \ {0} /\ MaxUsage < Width
    /\ MaxRestarts \in Nat

VARIABLES
    on,            \* the host
    cpu,           \* the kernel's counters
    fell,          \* whether iowait, and with it idle, ever decreased
    previous,      \* Collector.previousCPU
    reading,       \* reading[c]: the counters a caller has read
    host,          \* the percentage last returned
    box,           \* box[s]: a container, as the daemon has it
    pass,          \* the stream's pass over the containers
    batch          \* the batch delivered last, until the next is begun

hostVars == <<cpu, fell, previous, reading, host>>
boxVars == <<on, box, pass, batch>>
collectors == <<hostVars, boxVars>>

Minus(a, b) == (a - b) % Width
Total(k) == k.busy + k.idle
NoReading == [busy |-> 0, idle |-> 0, read |-> FALSE]

Zero == [busy |-> 0, idle |-> 0]

CollectorsInit ==
    /\ on \in Hosts
    /\ cpu = [busy |-> 1, idle |-> 1]
    /\ fell = FALSE
    /\ previous = Zero
    /\ reading = [c \in on.callers |-> NoReading]
    /\ host = [num |-> 0, den |-> 1, spent |-> 0]
    /\ box = [s \in on.containers |-> [state |-> "running", usage |-> 1, restarts |-> 0]]
    /\ pass = [at |-> "host"]
    /\ batch = {}

------------------------------------------------------------------------------
(* The host                                                                *)

(* Time passes, busy or idle; the kernel may also take iowait back.        *)
Tick == /\ \/ /\ cpu.busy < on.ticks
              /\ cpu' = [cpu EXCEPT !.busy = @ + 1]
              /\ UNCHANGED fell
           \/ /\ cpu.idle < on.ticks
              /\ cpu' = [cpu EXCEPT !.idle = @ + 1]
              /\ UNCHANGED fell
           \/ /\ cpu.idle > 1
              /\ cpu' = [cpu EXCEPT !.idle = @ - 1]
              /\ fell' = TRUE
        /\ UNCHANGED <<previous, reading, host, boxVars>>

(* readCPUPercent up to the lock.  The stream begins a pass with it.       *)
ReadStat(c) ==
    /\ ~reading[c].read
    /\ c = Stream => pass.at = "host"
    /\ reading' = [reading EXCEPT ![c] = [busy |-> cpu.busy, idle |-> cpu.idle, read |-> TRUE]]
    /\ batch' = IF c = Stream THEN {} ELSE batch
    /\ UNCHANGED <<on, cpu, fell, previous, host, box, pass>>

(* The formula, as a fraction, with the busy time it should be a share of: *)
(* no baseline, or one that is not older, counts as 0.                     *)
UsableAnyOrder(from, to) == Total(from) # 0  \* mutant: the order is not looked at
Usable(from, to) == Total(from) # 0 /\ Total(to) > Total(from)
CpuPercent(from, to) ==
    LET total == Minus(Total(to), Total(from))
        idle == Minus(to.idle, from.idle)
    IN  IF Usable(from, to)
        THEN [num |-> Minus(total, idle), den |-> total, spent |-> to.busy - from.busy]
        ELSE [num |-> 0, den |-> 1, spent |-> 0]

(* The rest of readCPUPercent: the baseline is exchanged under the lock.   *)
(* The disk may fail to be read after that; then the caller gets nothing.  *)
Exchange(c, diskRead) ==
    LET to == [busy |-> reading[c].busy, idle |-> reading[c].idle]
    IN  /\ reading[c].read
        /\ previous' = to
        /\ reading' = [reading EXCEPT ![c] = NoReading]
        /\ host' = IF diskRead THEN CpuPercent(previous, to) ELSE host
        /\ pass' = IF c = Stream /\ diskRead THEN [at |-> "list"] ELSE pass
        /\ UNCHANGED <<on, cpu, fell, box, batch>>

------------------------------------------------------------------------------
(* The containers                                                          *)

(* What happens to a container: it works, stops, starts again with its     *)
(* usage counted from zero, or is removed.                                 *)
Life(s) ==
    LET b == box[s]
    IN  /\ \/ /\ b.state = "running" /\ b.usage < MaxUsage
              /\ box' = [box EXCEPT ![s].usage = @ + 1]
           \/ /\ b.state = "running"
              /\ box' = [box EXCEPT ![s].state = "exited"]
           \/ /\ b.state \in {"running", "exited"} /\ b.restarts < MaxRestarts
              /\ box' = [box EXCEPT ![s] = [state |-> "running", usage |-> 0,
                                            restarts |-> b.restarts + 1]]
           \/ /\ b.state = "exited"
              /\ box' = [box EXCEPT ![s].state = "gone"]
        /\ UNCHANGED <<on, hostVars, pass, batch>>

(* Any failure ends the pass: there is no batch of what was read so far.   *)
Fail == pass' = [at |-> "host"] /\ UNCHANGED batch

(* list: the containers and their states; those of another project and     *)
(* those not monitored are left out.                                       *)
List ==
    /\ pass.at = "list"
    /\ \/ LET listed == {s \in on.containers \cap Monitored : box[s].state # "gone"}
          IN  /\ pass' = [at |-> "stats", states |-> [s \in listed |-> box[s].state],
                          first |-> {}, entries |-> {}]
              /\ UNCHANGED batch
       \/ Fail
    /\ UNCHANGED <<on, hostVars, box>>

(* The daemon answers stats with two samples taken a second apart, in      *)
(* which the container may stop or start again; this is the first.         *)
Usage(s) == IF box[s].state = "running" THEN box[s].usage ELSE 0
Sample(s) ==
    /\ pass.at = "stats" /\ pass.first = {}
    /\ s \in DOMAIN pass.states \ {e.box : e \in pass.entries}
    /\ pass' = [pass EXCEPT !.first = {[box |-> s, usage |-> Usage(s), seen |-> box[s]]}]
    /\ UNCHANGED <<on, hostVars, box, batch>>

(* The second sample, and snapshot: an error counts when the container was *)
(* listed as running and is zeros otherwise; the restart count is 0 when   *)
(* its own request fails.  "whole" is kept for the property: the container *)
(* ran through both samples.                                               *)
Entry(f, read, restarts) ==
    [box |-> f.box, up |-> pass.states[f.box] = "running", read |-> read,
     cpu |-> IF read THEN Minus(Usage(f.box), f.usage) ELSE 0,
     spent |-> Usage(f.box) - f.usage,
     whole |-> /\ f.seen.state = "running" /\ box[f.box].state = "running"
               /\ f.seen.restarts = box[f.box].restarts,
     restarts |-> restarts]
RefusedNever(f, read) == FALSE  \* mutant: an error of stats is left out
Refused(f, read) == ~read /\ pass.states[f.box] = "running"
Snapshot(f, read, restarts) ==
    /\ read => box[f.box].state # "gone"
    /\ IF Refused(f, read) THEN Fail
       ELSE /\ pass' = [pass EXCEPT !.first = {},
                                    !.entries = @ \cup {Entry(f, read, restarts)}]
            /\ UNCHANGED batch
    /\ UNCHANGED <<on, hostVars, box>>
Measure ==
    /\ pass.at = "stats"
    /\ \E f \in pass.first, read \in BOOLEAN :
         \E restarts \in {0, box[f.box].restarts} : Snapshot(f, read, restarts)

(* TelemetryService.Collect returns host and containers as one batch.      *)
Deliver ==
    /\ pass.at = "stats"
    /\ DOMAIN pass.states = {e.box : e \in pass.entries}
    /\ batch' = pass.entries
    /\ pass' = [at |-> "host"]
    /\ UNCHANGED <<on, hostVars, box>>

CollectorsNext ==
    \/ Tick
    \/ \E c \in on.callers : ReadStat(c) \/ \E diskRead \in BOOLEAN : Exchange(c, diskRead)
    \/ \E s \in on.containers : Life(s) \/ Sample(s)
    \/ List \/ Measure \/ Deliver

CollectorsSpec == CollectorsInit /\ [][CollectorsNext]_collectors
------------------------------------------------------------------------------
(* A host percentage is the busy share of the time between two readings,   *)
(* whatever order the callers read and exchange in: the unsigned           *)
(* differences never wrap, and it is at most 100.  An older reading that   *)
(* is exchanged late counts as 0 (readCPUPercent).  The kernel taking      *)
(* iowait back is left out: then it may exceed 100, and wrap.              *)
PercentIsTrue ==
    ~fell => host.num = host.spent /\ host.num <= host.den

(* A batch is all measured: a container it reports as up had its stats     *)
(* read, and the CPU time of one that ran through both samples is the time *)
(* it spent (Collect, snapshot, cpuPercent).                               *)
BatchIsMeasured ==
    \A e \in batch : /\ e.up => e.read
                     /\ e.whole /\ e.read => e.cpu = e.spent
==============================================================================
