----------------------------- MODULE FaultState -----------------------------
(***************************************************************************)
(* The laboratory API's own fault state: deadlines of application faults   *)
(* and the thread that loads the CPU while the CPU fault is active.  Every *)
(* method is one block under the lock; the thread is started after it and  *)
(* looks at the deadline between two bursts.                               *)
(***************************************************************************)
EXTENDS Naturals

CONSTANTS
    Scenarios,  \* SUPPORTED_APPLICATION_FAULTS
    Cpu,        \* "container_cpu_spike"
    MaxTicks    \* duration_seconds is at most 120: so many ticks

ASSUME FaultStateAssumption ==
    /\ Cpu \in Scenarios
    /\ MaxTicks \in Nat \ {0}

VARIABLES
    left,      \* ticks to the deadline of each scenario, 0 when none or past
    flag,      \* _cpu_worker_running
    starting,  \* threads about to be started
    looping,   \* threads in the loop
    leaving    \* threads that saw the fault inactive and not yet cleared flag

state == <<left, flag, starting, looping, leaving>>

Clean ==
    /\ left = [s \in Scenarios |-> 0]
    /\ flag = FALSE
    /\ starting = 0 /\ looping = 0 /\ leaving = 0

-----------------------------------------------------------------------------
(* Mutant: every activation starts a thread.                                 *)
ActivateAnew(s, d) ==
    /\ left' = [left EXCEPT ![s] = d]
    /\ flag' = (flag \/ s = Cpu)
    /\ starting' = IF s = Cpu THEN starting + 1 ELSE starting
    /\ UNCHANGED <<looping, leaving>>

Activate(s, d) ==
    /\ left' = [left EXCEPT ![s] = d]
    /\ flag' = (flag \/ s = Cpu)
    /\ starting' = IF s = Cpu /\ ~flag THEN starting + 1 ELSE starting
    /\ UNCHANGED <<looping, leaving>>

(* A record that is past its deadline is as good as none: active() removes it.*)
Clear(s) ==
    /\ left' = [left EXCEPT ![s] = 0]
    /\ UNCHANGED <<flag, starting, looping, leaving>>

Start ==
    /\ starting > 0
    /\ starting' = starting - 1
    /\ looping' = looping + 1
    /\ UNCHANGED <<left, flag, leaving>>

SeeInactive ==
    /\ looping > 0
    /\ left[Cpu] = 0
    /\ looping' = looping - 1
    /\ leaving' = leaving + 1
    /\ UNCHANGED <<left, flag, starting>>

(* Mutant: the thread ends without a word.                                   *)
LeaveSilently ==
    /\ leaving > 0
    /\ leaving' = leaving - 1
    /\ UNCHANGED <<left, flag, starting, looping>>

Leave ==
    /\ leaving > 0
    /\ leaving' = leaving - 1
    /\ flag' = FALSE
    /\ UNCHANGED <<left, starting, looping>>

Worker == Start \/ SeeInactive \/ Leave

(* A tick is longer than a burst: the threads have nothing left to do.       *)
Elapse ==
    /\ starting = 0 /\ leaving = 0 /\ (looping > 0 => left[Cpu] > 0)
    /\ left' = [s \in Scenarios |-> IF left[s] > 0 THEN left[s] - 1 ELSE 0]
    /\ UNCHANGED <<flag, starting, looping, leaving>>

(* The process ends, with its threads and its memory.                        *)
Reset ==
    /\ left' = [s \in Scenarios |-> 0]
    /\ flag' = FALSE
    /\ starting' = 0 /\ looping' = 0 /\ leaving' = 0

-----------------------------------------------------------------------------
(* There is never a second thread that loads the CPU (fault_state.py:7), not  *)
(* even if the fault is activated while the last one is on its way out.       *)
OneWorker == starting + looping + leaving <= 1

(* No fault and no load, and a new activation would start a thread.           *)
AtRest == Clean

=============================================================================
