------------------------------ MODULE FaultLab ------------------------------
(***************************************************************************)
(* The fault laboratory: a visitor's request injects a fault through the   *)
(* agent or the laboratory API (routers/lab.py, HttpLabFaultInjector) and  *)
(* registers a task that resets it in two minutes; approved plans restart  *)
(* containers meanwhile, calls are lost, the control plane restarts.       *)
(***************************************************************************)
EXTENDS FaultState, FiniteSets

CONSTANTS
    Reqs,        \* injection requests
    MaxPlans,    \* bound of approved plans
    MaxLost,     \* bound of calls that fail or whose answer is lost
    MaxCrashes   \* bound of restarts of the control plane

ASSUME FaultLabAssumption ==
    /\ Scenarios \subseteq {"container_cpu_spike", "request_latency", "http_5xx"}
    /\ {MaxPlans, MaxLost, MaxCrashes} \subseteq Nat

Containers == {"lab-redis", "lab-api"}
ContainerFault ==
    [s \in {"dependency_unavailable", "api_container_exit"} |->
        IF s = "dependency_unavailable" THEN "lab-redis" ELSE "lab-api"]
Faults == DOMAIN ContainerFault \cup Scenarios

(* Half-minute ticks: CPU faults take 30 seconds, others and the reset 120.  *)
Duration(s) == IF s = Cpu THEN 1 ELSE MaxTicks
ResetDelay == MaxTicks

(* A request's fault is reset by its task, or at once by the request itself  *)
(* when the probe does not see the fault.                                    *)
Resets == Reqs \X {"task", "probe"}

VARIABLES
    up,       \* the containers that run
    pc,       \* where each request stands
    fault,    \* the scenario of each request
    timer,    \* ticks until the task of each request wakes up
    stage,    \* where each reset stands
    plans, lost, crashes  \* counters of the bounds

bounds == <<plans, lost, crashes>>
requests == <<pc, fault, timer, stage>>
vars == <<state, up, requests, bounds>>

Init ==
    /\ Clean
    /\ up = Containers
    /\ pc = [r \in Reqs |-> "idle"]
    /\ fault \in [Reqs -> Faults]
    /\ timer = [r \in Reqs |-> 0]
    /\ stage = [x \in Resets |-> "none"]
    /\ plans = 0 /\ lost = 0 /\ crashes = 0

OnContainer(r) == fault[r] \in DOMAIN ContainerFault
Target(r) == ContainerFault[fault[r]]

Goto(r, where) == pc' = [pc EXCEPT ![r] = where]

-----------------------------------------------------------------------------
(* inject: the agent stops the container, under a key of its own, or the     *)
(* laboratory API activates the fault, if it runs.  Docker does not stop a   *)
(* stopped container again: the agent reports a failure, the request ends.   *)
Send(r) ==
    /\ pc[r] = "idle"
    /\ Goto(r, "injecting")
    /\ UNCHANGED <<state, up, fault, timer, stage, bounds>>

StopContainer(r) ==
    /\ pc[r] = "injecting"
    /\ OnContainer(r)
    /\ Goto(r, IF Target(r) \in up THEN "injected" ELSE "done")
    /\ up' = up \ {Target(r)}
    /\ IF Target(r) = "lab-api" THEN Reset ELSE UNCHANGED state
    /\ UNCHANGED <<fault, timer, stage, bounds>>

SetApplicationFault(r) ==
    /\ pc[r] = "injecting"
    /\ ~OnContainer(r)
    /\ IF "lab-api" \in up
       THEN Activate(fault[r], Duration(fault[r])) /\ Goto(r, "injected")
       ELSE Goto(r, "done") /\ UNCHANGED state
    /\ UNCHANGED <<up, fault, timer, stage, bounds>>

(* The call fails or times out, before or after it had its effect: the       *)
(* request ends with an error.                                               *)
LoseInjection(r) ==
    /\ pc[r] \in {"injecting", "injected"}
    /\ lost < MaxLost
    /\ lost' = lost + 1
    /\ Goto(r, "done")
    /\ UNCHANGED <<state, up, fault, timer, stage, plans, crashes>>

(* Mutant: resets are scheduled for application faults only.                 *)
ScheduleApplications(r) ==
    /\ pc[r] = "injected"
    /\ timer' = [timer EXCEPT ![r] = ResetDelay]
    /\ IF OnContainer(r) THEN UNCHANGED stage
       ELSE stage' = [stage EXCEPT ![<<r, "task">>] = "asleep"]
    /\ Goto(r, IF fault[r] = "dependency_unavailable" THEN "observing" ELSE "done")
    /\ UNCHANGED <<state, up, fault, bounds>>

ScheduleReset(r) ==
    /\ pc[r] = "injected"
    /\ timer' = [timer EXCEPT ![r] = ResetDelay]
    /\ stage' = [stage EXCEPT ![<<r, "task">>] = "asleep"]
    /\ Goto(r, IF fault[r] = "dependency_unavailable" THEN "observing" ELSE "done")
    /\ UNCHANGED <<state, up, fault, bounds>>

(* healthz of the laboratory API, as the probe sees it                       *)
Healthy == up = Containers /\ \A s \in Scenarios \ {Cpu} : left[s] = 0

Observe(r) ==
    /\ pc[r] = "observing"
    /\ IF Healthy THEN stage' = [stage EXCEPT ![<<r, "probe">>] = "check"]
       ELSE UNCHANGED stage
    /\ Goto(r, "done")
    /\ UNCHANGED <<state, up, fault, timer, bounds>>

-----------------------------------------------------------------------------
(* reset, by a task or by a request                                          *)
Move(x, where) == stage' = [stage EXCEPT ![x] = where]

Wake(r) ==
    /\ stage[<<r, "task">>] = "asleep"
    /\ timer[r] = 0
    /\ Move(<<r, "task">>, "check")
    /\ UNCHANGED <<state, up, pc, fault, timer, bounds>>

ClearFault(x) ==
    LET r == x[1] IN
    /\ stage[x] = "check"
    /\ ~OnContainer(r)
    /\ IF "lab-api" \in up THEN Clear(fault[r]) ELSE UNCHANGED state
    /\ Move(x, "done")
    /\ UNCHANGED <<up, pc, fault, timer, bounds>>

(* Mutant: the answer of the health check is read the wrong way round.       *)
CheckInverted(x) ==
    /\ stage[x] = "check"
    /\ OnContainer(x[1])
    /\ Move(x, IF Target(x[1]) \in up THEN "restart" ELSE "done")
    /\ UNCHANGED <<state, up, pc, fault, timer, bounds>>

CheckHealth(x) ==
    /\ stage[x] = "check"
    /\ OnContainer(x[1])
    /\ Move(x, IF Target(x[1]) \in up THEN "done" ELSE "restart")
    /\ UNCHANGED <<state, up, pc, fault, timer, bounds>>

Restart(c) ==
    /\ up' = up \cup {c}
    /\ IF c = "lab-api" THEN Reset ELSE UNCHANGED state

RestartContainer(x) ==
    /\ stage[x] = "restart"
    /\ Restart(Target(x[1]))
    /\ Move(x, "done")
    /\ UNCHANGED <<pc, fault, timer, bounds>>

(* A failed call of a reset is logged, or its answer ignored; nobody tries   *)
(* again.                                                                    *)
LoseReset(x) ==
    /\ stage[x] \in {"check", "restart"}
    /\ lost < MaxLost
    /\ lost' = lost + 1
    /\ Move(x, "done")
    /\ UNCHANGED <<state, up, pc, fault, timer, plans, crashes>>

-----------------------------------------------------------------------------
(* An approved plan restarts a container, whether it runs or not.            *)
Remediate(c) ==
    /\ plans < MaxPlans
    /\ plans' = plans + 1
    /\ Restart(c)
    /\ UNCHANGED <<requests, lost, crashes>>

(* The control plane ends, and with it its requests and tasks.               *)
Crash ==
    /\ crashes < MaxCrashes
    /\ crashes' = crashes + 1
    /\ pc' = [r \in Reqs |-> IF pc[r] = "idle" THEN "idle" ELSE "done"]
    /\ stage' = [x \in Resets |-> IF stage[x] = "none" THEN "none" ELSE "done"]
    /\ UNCHANGED <<state, up, fault, timer, plans, lost>>

(* Half a minute passes.  Requests and resets take less (their calls have     *)
(* timeouts of 10 s and the probe gives up after 10 attempts).                *)
Tick ==
    /\ \A r \in Reqs : pc[r] \in {"idle", "done"}
    /\ \A r \in Reqs : stage[<<r, "task">>] = "asleep" => timer[r] > 0
    /\ \A x \in Resets : stage[x] \notin {"check", "restart"}
    /\ timer' = [r \in Reqs |-> IF timer[r] > 0 THEN timer[r] - 1 ELSE 0]
    /\ Elapse
    /\ UNCHANGED <<up, pc, fault, stage, bounds>>

LabThread == Worker /\ UNCHANGED <<up, requests, bounds>>

Inject(r) ==
    StopContainer(r) \/ SetApplicationFault(r) \/ ScheduleReset(r) \/ Observe(r)

ResetStep(x) == ClearFault(x) \/ CheckHealth(x) \/ RestartContainer(x)

Next ==
    \/ Tick \/ Crash \/ LabThread
    \/ \E r \in Reqs : Send(r) \/ Inject(r) \/ LoseInjection(r) \/ Wake(r)
    \/ \E x \in Resets : ResetStep(x) \/ LoseReset(x)
    \/ \E c \in Containers : Remediate(c)

Spec == Init /\ [][Next]_vars

(* Time passes and whatever is under way goes on; nobody has to inject,       *)
(* approve, fail or crash.                                                    *)
Fairness ==
    /\ WF_vars(Tick) /\ WF_vars(LabThread)
    /\ \A r \in Reqs : WF_vars(Inject(r)) /\ WF_vars(Wake(r))
    /\ \A x \in Resets : WF_vars(ResetStep(x))

FairSpec == Spec /\ Fairness

-----------------------------------------------------------------------------
(* Types. *)
TypeOK ==
    /\ left \in [Scenarios -> 0..MaxTicks]
    /\ flag \in BOOLEAN
    /\ starting \in Nat /\ looping \in Nat /\ leaving \in Nat
    /\ up \subseteq Containers
    /\ pc \in [Reqs -> {"idle", "injecting", "injected", "observing", "done"}]
    /\ fault \in [Reqs -> Faults]
    /\ timer \in [Reqs -> 0..ResetDelay]
    /\ stage \in [Resets -> {"none", "asleep", "check", "restart", "done"}]
    /\ plans \in 0..MaxPlans /\ lost \in 0..MaxLost /\ crashes \in 0..MaxCrashes

(* The laboratory's faults end without any help (fault_state.py:19): with     *)
(* resets lost and the control plane down, every application fault expires,   *)
(* the load stops and the thread leaves nothing behind.                       *)
FaultsExpire == <>[]AtRest

(* As long as no call is lost and the control plane stays, every container    *)
(* that was stopped runs again in the end (docs/stages/04-public-demo).       *)
ContainersRecover ==
    [](lost = 0 /\ crashes = 0) => <>[](up = Containers)

(* A stopped container has a reset that will look at it, or a request about   *)
(* to register one: "every real fault creates a reset task"                *)
(* (docs/stages/04-public-demo/README.md:53).                                 *)
FaultHasReset ==
    \A c \in Containers \ up : \E r \in Reqs :
        /\ OnContainer(r) /\ Target(r) = c
        /\ \/ pc[r] = "injected"
           \/ \E by \in {"task", "probe"} : stage[<<r, by>>] \in {"asleep", "check", "restart"}

(* As long as no call is lost and the control plane stays, a stopped          *)
(* container always has such a reset, whatever other visitors' resets and     *)
(* approved plans do to it.                                                   *)
ResetPending == lost = 0 /\ crashes = 0 => FaultHasReset
=============================================================================
