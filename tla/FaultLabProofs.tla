--------------------------- MODULE FaultLabProofs ---------------------------
(***************************************************************************)
(* Proofs about the fault laboratory, for every set of requests and        *)
(* scenarios and every bound of time, plans, losses and restarts.          *)
(***************************************************************************)
EXTENDS FaultLab, TLAPS

(* The flag stands for exactly one thread, wherever that thread is.         *)
WorkerInv ==
    \/ flag = TRUE /\ starting + looping + leaving = 1
    \/ flag = FALSE /\ starting = 0 /\ looping = 0 /\ leaving = 0

(* Only resets of containers get as far as a restart.                       *)
RestartInv == \A x \in Resets : stage[x] = "restart" => OnContainer(x[1])

IInv == TypeOK /\ WorkerInv /\ RestartInv /\ ResetPending

-----------------------------------------------------------------------------
(* What a request targets is a container of the laboratory or a scenario of  *)
(* its API.                                                                  *)
LEMMA Targets ==
    ASSUME TypeOK, NEW r \in Reqs
    PROVE  /\ OnContainer(r) => Target(r) \in Containers
           /\ ~OnContainer(r) => fault[r] \in Scenarios /\ Duration(fault[r]) \in 0..MaxTicks
<1>1. fault[r] \in DOMAIN ContainerFault \cup Scenarios
  BY DEF TypeOK, Faults
<1>2. ASSUME OnContainer(r) PROVE Target(r) \in Containers
  BY <1>2 DEF OnContainer, Target, ContainerFault, Containers
<1>3. ASSUME ~OnContainer(r)
      PROVE  fault[r] \in Scenarios /\ Duration(fault[r]) \in 0..MaxTicks
  BY <1>1, <1>3, FaultStateAssumption DEF OnContainer, Duration
<1> QED BY <1>2, <1>3

LEMMA InitIInv == Init => IInv
<1> SUFFICES ASSUME Init PROVE IInv
  OBVIOUS
<1>z. 0 \in 0..MaxTicks /\ 0 \in 0..MaxPlans /\ 0 \in 0..MaxLost /\ 0 \in 0..MaxCrashes
  BY FaultStateAssumption, FaultLabAssumption
<1>a. left \in [Scenarios -> 0..MaxTicks] /\ timer \in [Reqs -> 0..ResetDelay]
  BY <1>z DEF Init, Clean, ResetDelay
<1>b. stage \in [Resets -> {"none", "asleep", "check", "restart", "done"}]
  BY DEF Init
<1>c. pc \in [Reqs -> {"idle", "injecting", "injected", "observing", "done"}]
  BY DEF Init
<1>d. flag \in BOOLEAN /\ starting \in Nat /\ looping \in Nat /\ leaving \in Nat /\ up \subseteq Containers
  BY DEF Init, Clean
<1>e. fault \in [Reqs -> Faults]
  BY DEF Init
<1>f. plans \in 0..MaxPlans /\ lost \in 0..MaxLost /\ crashes \in 0..MaxCrashes
  BY <1>z DEF Init
<1>1. TypeOK
  BY <1>a, <1>b, <1>c, <1>d, <1>e, <1>f DEF TypeOK
<1>2. WorkerInv
  BY DEF Init, Clean, WorkerInv
<1>3. ResetPending
  BY DEF Init, ResetPending, FaultHasReset
<1>4. RestartInv
  BY DEF Init, RestartInv
<1> QED BY <1>1, <1>2, <1>3, <1>4 DEF IInv

-----------------------------------------------------------------------------
(* The variables of the laboratory API under its own steps.                  *)
StateOK ==
    /\ left \in [Scenarios -> 0..MaxTicks]
    /\ flag \in BOOLEAN
    /\ starting \in Nat /\ looping \in Nat /\ leaving \in Nat
    /\ WorkerInv

LEMMA ActivateKeeps ==
    ASSUME StateOK, NEW s \in Scenarios, NEW d \in 0..MaxTicks, Activate(s, d)
    PROVE  StateOK'
<1>1. left' \in [Scenarios -> 0..MaxTicks]
  BY DEF StateOK, Activate
<1>2. CASE flag = TRUE
  <2>1. flag' = TRUE /\ UNCHANGED <<starting, looping, leaving>>
    BY ONLY <1>2, Activate(s, d), Zenon DEF Activate
  <2> QED BY <1>1, <1>2, <2>1 DEF StateOK, WorkerInv
<1>3. CASE flag = FALSE /\ s # Cpu
  <2>1. flag' = FALSE /\ UNCHANGED <<starting, looping, leaving>>
    BY ONLY <1>3, Activate(s, d), Zenon DEF Activate
  <2> QED BY <1>1, <1>3, <2>1 DEF StateOK, WorkerInv
<1>4. CASE flag = FALSE /\ s = Cpu
  <2>1. flag' = TRUE /\ starting' = starting + 1 /\ UNCHANGED <<looping, leaving>>
    BY ONLY <1>4, Activate(s, d), Zenon DEF Activate
  <2> QED BY <1>1, <1>4, <2>1 DEF StateOK, WorkerInv
<1> QED BY <1>2, <1>3, <1>4 DEF StateOK

LEMMA ClearKeeps ==
    ASSUME StateOK, NEW s \in Scenarios, Clear(s)
    PROVE  StateOK'
<1>1. 0 \in 0..MaxTicks
  BY FaultStateAssumption
<1> QED BY <1>1 DEF StateOK, WorkerInv, Clear

LEMMA ResetKeeps ==
    ASSUME StateOK, Reset
    PROVE  StateOK'
<1>1. 0 \in 0..MaxTicks
  BY FaultStateAssumption
<1> QED BY <1>1 DEF StateOK, WorkerInv, Reset

LEMMA WorkerKeeps ==
    ASSUME StateOK, Worker
    PROVE  StateOK'
<1>1. CASE Start
  BY <1>1 DEF StateOK, WorkerInv, Start
<1>2. CASE SeeInactive
  BY <1>2 DEF StateOK, WorkerInv, SeeInactive
<1>3. CASE Leave
  <2>1. starting = 0 /\ looping = 0 /\ leaving = 1
    BY <1>3 DEF StateOK, WorkerInv, Leave
  <2>2. flag' = FALSE /\ starting' = 0 /\ looping' = 0 /\ leaving' = 0
    BY <1>3, <2>1 DEF Leave
  <2>3. left' \in [Scenarios -> 0..MaxTicks]
    BY <1>3 DEF StateOK, Leave
  <2> QED BY <2>2, <2>3 DEF StateOK, WorkerInv
<1> QED BY <1>1, <1>2, <1>3 DEF Worker

LEMMA ElapseKeeps ==
    ASSUME StateOK, Elapse
    PROVE  StateOK'
<1>1. \A n \in 0..MaxTicks : (IF n > 0 THEN n - 1 ELSE 0) \in 0..MaxTicks
  BY FaultStateAssumption
<1>2. left' \in [Scenarios -> 0..MaxTicks]
  BY <1>1 DEF StateOK, Elapse
<1> QED BY <1>2 DEF StateOK, WorkerInv, Elapse

LEMMA StateUnchanged ==
    ASSUME StateOK, UNCHANGED state
    PROVE  StateOK'
BY DEF StateOK, WorkerInv, state

(* Types of the laboratory's surroundings, and where resets may be.          *)
LabOK ==
    /\ up \subseteq Containers
    /\ pc \in [Reqs -> {"idle", "injecting", "injected", "observing", "done"}]
    /\ fault \in [Reqs -> Faults]
    /\ timer \in [Reqs -> 0..ResetDelay]
    /\ stage \in [Resets -> {"none", "asleep", "check", "restart", "done"}]
    /\ plans \in 0..MaxPlans /\ lost \in 0..MaxLost /\ crashes \in 0..MaxCrashes
    /\ RestartInv

LEMMA Parts == (StateOK /\ LabOK) <=> (TypeOK /\ WorkerInv /\ RestartInv)
BY DEF StateOK, LabOK, TypeOK

-----------------------------------------------------------------------------
(* Which reset will look at container c, on behalf of request r.             *)
CaresFor(r, c) ==
    /\ OnContainer(r) /\ Target(r) = c
    /\ \/ pc[r] = "injected"
       \/ \E by \in {"task", "probe"} : stage[<<r, by>>] \in {"asleep", "check", "restart"}

(* A step that loses nothing keeps ResetPending if every stopped container   *)
(* that was cared for is still cared for, and every new one is.              *)
LEMMA PendingKept ==
    ASSUME ResetPending, lost' = lost, crashes' = crashes,
           NEW c \in Containers, c \notin up, lost = 0, crashes = 0
    PROVE  \E r \in Reqs : CaresFor(r, c)
BY DEF ResetPending, FaultHasReset, CaresFor

LEMMA PendingShown ==
    ASSUME lost' = 0 /\ crashes' = 0 =>
              \A c \in Containers \ up' : \E r \in Reqs : CaresFor(r, c)'
    PROVE  ResetPending'
BY DEF ResetPending, FaultHasReset, CaresFor

-----------------------------------------------------------------------------
(* Resets and requests by name.                                              *)
LEMMA ResetOf ==
    ASSUME NEW x \in Resets
    PROVE  x[1] \in Reqs /\ x[2] \in {"task", "probe"} /\ x = <<x[1], x[2]>>
BY DEF Resets

(* A step that only moves reset x and starts container b, if x was the last  *)
(* to care for one.                                                          *)
LEMMA MoveKeeps ==
    ASSUME TypeOK, ResetPending, NEW x \in Resets, NEW where,
           stage' = [stage EXCEPT ![x] = where],
           UNCHANGED <<pc, fault, lost, crashes>>,
           up \subseteq up',
           \/ where \in {"check", "restart"}
           \/ ~OnContainer(x[1])
           \/ Target(x[1]) \in up'
    PROVE  ResetPending'
<1> SUFFICES ASSUME lost' = 0, crashes' = 0, NEW c \in Containers \ up'
             PROVE  \E r \in Reqs : CaresFor(r, c)'
  BY PendingShown
<1>1. PICK r \in Reqs : CaresFor(r, c)
  BY PendingKept
<1>2. OnContainer(r)' = OnContainer(r) /\ Target(r)' = Target(r)
  BY DEF OnContainer, Target
<1>3. CASE pc[r] = "injected"
  BY <1>1, <1>2, <1>3 DEF CaresFor
<1>4. ASSUME NEW by \in {"task", "probe"}, stage[<<r, by>>] \in {"asleep", "check", "restart"}
      PROVE  CaresFor(r, c)'
  <2>1. <<r, by>> \in Resets /\ stage \in [Resets -> {"none", "asleep", "check", "restart", "done"}]
    BY DEF Resets, TypeOK
  <2>2. CASE <<r, by>> = x
    <3>1. x[1] = r
      BY <2>2
    <3>2. where \in {"check", "restart"}
      BY <1>1, <3>1 DEF CaresFor
    <3> QED BY <1>1, <1>2, <2>1, <2>2, <3>2 DEF CaresFor
  <2>3. CASE <<r, by>> # x
    <3>1. stage'[<<r, by>>] = stage[<<r, by>>]
      BY <2>1, <2>3
    <3> QED BY <1>1, <1>2, <1>4, <3>1 DEF CaresFor
  <2> QED BY <2>2, <2>3
<1> QED BY <1>1, <1>3, <1>4 DEF CaresFor

(* A step of a request that is not about to register its reset leaves the    *)
(* care for a container to whoever had it.                                   *)
LEMMA GotoKeeps ==
    ASSUME TypeOK, NEW q \in Reqs, NEW where, Goto(q, where), pc[q] # "injected",
           UNCHANGED <<stage, fault>>,
           NEW r \in Reqs, NEW c, CaresFor(r, c)
    PROVE  CaresFor(r, c)'
<1>1. OnContainer(r)' = OnContainer(r) /\ Target(r)' = Target(r)
  BY DEF OnContainer, Target
<1>2. pc[r] = "injected" => pc'[r] = "injected"
  BY DEF Goto, TypeOK
<1> QED BY <1>1, <1>2 DEF CaresFor

(* The same of a step that leaves requests and resets alone.                 *)
LEMMA FrameKeeps ==
    ASSUME ResetPending, UNCHANGED <<pc, stage, fault, lost, crashes>>, up \subseteq up'
    PROVE  ResetPending'
<1> SUFFICES ASSUME lost' = 0, crashes' = 0, NEW c \in Containers \ up'
             PROVE  \E r \in Reqs : CaresFor(r, c)'
  BY PendingShown
<1>1. PICK r \in Reqs : CaresFor(r, c)
  BY PendingKept
<1> QED BY <1>1 DEF CaresFor, OnContainer, Target

-----------------------------------------------------------------------------
(* Injection                                                                 *)
LEMMA SendStep ==
    ASSUME IInv, NEW r \in Reqs, Send(r)
    PROVE  IInv'
<1>1. StateOK /\ LabOK
  BY Parts DEF IInv
<1>2. StateOK'
  BY <1>1, StateUnchanged DEF Send
<1>3. LabOK'
  BY <1>1 DEF Send, Goto, LabOK, bounds, RestartInv, OnContainer
<1>4. ResetPending'
  <2> SUFFICES ASSUME lost' = 0, crashes' = 0, NEW c \in Containers \ up'
               PROVE  \E q \in Reqs : CaresFor(q, c)'
    BY PendingShown
  <2>1. PICK q \in Reqs : CaresFor(q, c)
    BY PendingKept DEF IInv, Send, bounds
  <2> QED BY <2>1, GotoKeeps DEF IInv, Send
<1> QED BY <1>2, <1>3, <1>4, Parts DEF IInv, StateOK, LabOK, TypeOK

LEMMA StopContainerStep ==
    ASSUME IInv, NEW r \in Reqs, StopContainer(r)
    PROVE  IInv'
<1>1. StateOK /\ LabOK
  BY Parts DEF IInv
<1>2. StateOK'
  BY <1>1, StateUnchanged, ResetKeeps DEF StopContainer
<1>3. LabOK'
  BY <1>1 DEF StopContainer, Goto, LabOK, bounds, RestartInv, OnContainer
<1>4. ResetPending'
  <2> SUFFICES ASSUME lost' = 0, crashes' = 0, NEW c \in Containers \ up'
               PROVE  \E q \in Reqs : CaresFor(q, c)'
    BY PendingShown
  <2>1. CASE c \in up
    <3>1. c = Target(r) /\ pc'[r] = "injected"
      BY <2>1, <1>1 DEF StopContainer, Goto, LabOK
    <3>2. OnContainer(r)' /\ Target(r)' = c
      BY <3>1 DEF StopContainer, OnContainer, Target
    <3> QED BY <3>1, <3>2 DEF CaresFor
  <2>2. CASE c \notin up
    <3>1. PICK q \in Reqs : CaresFor(q, c)
      BY <2>2, PendingKept DEF IInv, StopContainer, bounds
    <3>2. PICK where : Goto(r, where)
      BY DEF StopContainer
    <3> QED BY <3>1, <3>2, GotoKeeps DEF IInv, StopContainer
  <2> QED BY <2>1, <2>2
<1> QED BY <1>2, <1>3, <1>4, Parts DEF IInv, StateOK, LabOK, TypeOK

LEMMA SetApplicationFaultStep ==
    ASSUME IInv, NEW r \in Reqs, SetApplicationFault(r)
    PROVE  IInv'
<1>1. StateOK /\ LabOK
  BY Parts DEF IInv
<1>2. fault[r] \in Scenarios /\ Duration(fault[r]) \in 0..MaxTicks
  BY Targets DEF IInv, SetApplicationFault
<1>3. StateOK'
  BY <1>1, <1>2, StateUnchanged, ActivateKeeps DEF SetApplicationFault
<1>4. PICK where \in {"injected", "done"} : Goto(r, where)
  BY DEF SetApplicationFault
<1>5. LabOK'
  BY <1>1, <1>4 DEF SetApplicationFault, Goto, LabOK, bounds, RestartInv, OnContainer
<1>6. ResetPending'
  <2> SUFFICES ASSUME lost' = 0, crashes' = 0, NEW c \in Containers \ up'
               PROVE  \E q \in Reqs : CaresFor(q, c)'
    BY PendingShown
  <2>1. PICK q \in Reqs : CaresFor(q, c)
    BY PendingKept DEF IInv, SetApplicationFault, bounds
  <2> QED BY <2>1, <1>4, GotoKeeps DEF IInv, SetApplicationFault
<1> QED BY <1>3, <1>5, <1>6, Parts DEF IInv, StateOK, LabOK, TypeOK

(* A lost call ends the premise of ResetPending.                             *)
LEMMA LossEnds ==
    ASSUME TypeOK, lost' = lost + 1 \/ crashes' = crashes + 1,
           lost' \in 0..MaxLost, crashes' \in 0..MaxCrashes
    PROVE  ResetPending'
<1>1. ~(lost' = 0 /\ crashes' = 0)
  BY DEF TypeOK
<1> QED BY <1>1 DEF ResetPending

LEMMA LoseInjectionStep ==
    ASSUME IInv, NEW r \in Reqs, LoseInjection(r)
    PROVE  IInv'
<1>1. StateOK /\ LabOK
  BY Parts DEF IInv
<1>2. StateOK'
  BY <1>1, StateUnchanged DEF LoseInjection
<1>3. LabOK'
  BY <1>1, FaultLabAssumption DEF LoseInjection, Goto, LabOK, RestartInv, OnContainer
<1>4. ResetPending'
  BY <1>3, LossEnds DEF IInv, LoseInjection, LabOK
<1> QED BY <1>2, <1>3, <1>4, Parts DEF IInv, StateOK, LabOK, TypeOK

LEMMA ScheduleResetStep ==
    ASSUME IInv, NEW r \in Reqs, ScheduleReset(r)
    PROVE  IInv'
<1>1. StateOK /\ LabOK
  BY Parts DEF IInv
<1>2. StateOK'
  BY <1>1, StateUnchanged DEF ScheduleReset
<1>3. ResetDelay \in 0..ResetDelay /\ <<r, "task">> \in Resets
  BY FaultStateAssumption DEF ResetDelay, Resets
<1>4. LabOK'
  BY <1>1, <1>3 DEF ScheduleReset, Goto, LabOK, bounds, RestartInv, OnContainer
<1>5. ResetPending'
  <2> SUFFICES ASSUME lost' = 0, crashes' = 0, NEW c \in Containers \ up'
               PROVE  \E q \in Reqs : CaresFor(q, c)'
    BY PendingShown
  <2>1. PICK q \in Reqs : CaresFor(q, c)
    BY PendingKept DEF IInv, ScheduleReset, bounds
  <2>2. OnContainer(q)' /\ Target(q)' = c
    BY <2>1 DEF CaresFor, OnContainer, Target, ScheduleReset
  <2>3. CASE q = r
    <3>1. stage'[<<r, "task">>] = "asleep"
      BY <1>1, <1>3 DEF ScheduleReset, LabOK
    <3> QED BY <2>2, <2>3, <3>1 DEF CaresFor
  <2>4. CASE q # r
    <3>1. pc'[q] = pc[q]
      BY <1>1, <2>4 DEF ScheduleReset, Goto, LabOK
    <3>2. \A by \in {"task", "probe"} : stage'[<<q, by>>] = stage[<<q, by>>]
      BY <1>1, <2>4 DEF ScheduleReset, LabOK, Resets
    <3> QED BY <2>1, <2>2, <3>1, <3>2 DEF CaresFor
  <2> QED BY <2>3, <2>4
<1> QED BY <1>2, <1>4, <1>5, Parts DEF IInv, StateOK, LabOK, TypeOK

LEMMA ObserveStep ==
    ASSUME IInv, NEW r \in Reqs, Observe(r)
    PROVE  IInv'
<1>1. StateOK /\ LabOK
  BY Parts DEF IInv
<1>2. StateOK'
  BY <1>1, StateUnchanged DEF Observe
<1>3. <<r, "probe">> \in Resets
  BY DEF Resets
<1>4. LabOK'
  BY <1>1, <1>3 DEF Observe, Goto, LabOK, bounds, RestartInv, OnContainer
<1>5. ResetPending'
  <2> SUFFICES ASSUME lost' = 0, crashes' = 0, NEW c \in Containers \ up'
               PROVE  \E q \in Reqs : CaresFor(q, c)'
    BY PendingShown
  <2>1. PICK q \in Reqs : CaresFor(q, c)
    BY PendingKept DEF IInv, Observe, bounds
  <2>2. OnContainer(q)' /\ Target(q)' = c
    BY <2>1 DEF CaresFor, OnContainer, Target, Observe
  <2>3. pc[q] = "injected" => pc'[q] = "injected"
    BY <1>1 DEF Observe, Goto, LabOK
  <2>4. ASSUME NEW x \in Resets, stage[x] \in {"asleep", "check", "restart"}
        PROVE  stage'[x] \in {"asleep", "check", "restart"}
    BY <1>1, <2>4 DEF Observe, LabOK
  <2>5. \A by \in {"task", "probe"} : <<q, by>> \in Resets
    BY DEF Resets
  <2> QED BY <2>1, <2>2, <2>3, <2>4, <2>5 DEF CaresFor
<1> QED BY <1>2, <1>4, <1>5, Parts DEF IInv, StateOK, LabOK, TypeOK

-----------------------------------------------------------------------------
(* Resets                                                                    *)
LEMMA WakeStep ==
    ASSUME IInv, NEW r \in Reqs, Wake(r)
    PROVE  IInv'
<1>1. StateOK /\ LabOK
  BY Parts DEF IInv
<1>2. StateOK'
  BY <1>1, StateUnchanged DEF Wake
<1>3. <<r, "task">> \in Resets
  BY DEF Resets
<1>4. LabOK'
  BY <1>1, <1>3 DEF Wake, Move, LabOK, bounds, RestartInv, OnContainer
<1>5. ResetPending'
  BY <1>3, MoveKeeps DEF IInv, Wake, Move, bounds
<1> QED BY <1>2, <1>4, <1>5, Parts DEF IInv, StateOK, LabOK, TypeOK

LEMMA ClearFaultStep ==
    ASSUME IInv, NEW x \in Resets, ClearFault(x)
    PROVE  IInv'
<1>1. StateOK /\ LabOK
  BY Parts DEF IInv
<1>2. fault[x[1]] \in Scenarios
  BY Targets, ResetOf DEF IInv, ClearFault
<1>3. StateOK'
  BY <1>1, <1>2, StateUnchanged, ClearKeeps DEF ClearFault
<1>4. LabOK'
  BY <1>1 DEF ClearFault, Move, LabOK, bounds, RestartInv, OnContainer
<1>5. ResetPending'
  BY MoveKeeps DEF IInv, ClearFault, Move, bounds
<1> QED BY <1>3, <1>4, <1>5, Parts DEF IInv, StateOK, LabOK, TypeOK

LEMMA CheckHealthStep ==
    ASSUME IInv, NEW x \in Resets, CheckHealth(x)
    PROVE  IInv'
<1>1. StateOK /\ LabOK
  BY Parts DEF IInv
<1>2. StateOK'
  BY <1>1, StateUnchanged DEF CheckHealth
<1>3. LabOK'
  BY <1>1 DEF CheckHealth, Move, LabOK, bounds, RestartInv, OnContainer
<1>4. ResetPending'
  <2>1. CASE Target(x[1]) \in up
    BY <2>1, MoveKeeps DEF IInv, CheckHealth, Move, bounds
  <2>2. CASE Target(x[1]) \notin up
    BY <2>2, MoveKeeps DEF IInv, CheckHealth, Move, bounds
  <2> QED BY <2>1, <2>2
<1> QED BY <1>2, <1>3, <1>4, Parts DEF IInv, StateOK, LabOK, TypeOK

LEMMA RestartKeeps ==
    ASSUME StateOK, up \subseteq Containers, NEW c \in Containers, Restart(c)
    PROVE  StateOK' /\ up' \subseteq Containers /\ up \subseteq up' /\ c \in up'
<1>1. StateOK'
  BY StateUnchanged, ResetKeeps DEF Restart
<1> QED BY <1>1 DEF Restart

LEMMA RestartContainerStep ==
    ASSUME IInv, NEW x \in Resets, RestartContainer(x)
    PROVE  IInv'
<1>1. StateOK /\ LabOK
  BY Parts DEF IInv
<1>2. Target(x[1]) \in Containers
  BY Targets, ResetOf DEF IInv, RestartInv, RestartContainer
<1>3. StateOK' /\ up' \subseteq Containers /\ up \subseteq up' /\ Target(x[1]) \in up'
  BY <1>1, <1>2, RestartKeeps DEF RestartContainer, LabOK
<1>4. LabOK'
  BY <1>1, <1>3 DEF RestartContainer, Move, LabOK, bounds, RestartInv, OnContainer
<1>5. ResetPending'
  BY <1>3, MoveKeeps DEF IInv, RestartContainer, Move, bounds
<1> QED BY <1>3, <1>4, <1>5, Parts DEF IInv, StateOK, LabOK, TypeOK

LEMMA LoseResetStep ==
    ASSUME IInv, NEW x \in Resets, LoseReset(x)
    PROVE  IInv'
<1>1. StateOK /\ LabOK
  BY Parts DEF IInv
<1>2. StateOK'
  BY <1>1, StateUnchanged DEF LoseReset
<1>3. LabOK'
  BY <1>1, FaultLabAssumption DEF LoseReset, Move, LabOK, RestartInv, OnContainer
<1>4. ResetPending'
  BY <1>3, LossEnds DEF IInv, LoseReset, LabOK
<1> QED BY <1>2, <1>3, <1>4, Parts DEF IInv, StateOK, LabOK, TypeOK

-----------------------------------------------------------------------------
(* Approved plans, restarts of the control plane, time and the laboratory's   *)
(* own thread                                                                *)
LEMMA RemediateStep ==
    ASSUME IInv, NEW c \in Containers, Remediate(c)
    PROVE  IInv'
<1>1. StateOK /\ LabOK
  BY Parts DEF IInv
<1>2. StateOK' /\ up' \subseteq Containers /\ up \subseteq up'
  BY <1>1, RestartKeeps DEF Remediate, LabOK
<1>3. LabOK'
  BY <1>1, <1>2, FaultLabAssumption DEF Remediate, LabOK, requests, RestartInv, OnContainer
<1>4. ResetPending'
  BY <1>2, FrameKeeps DEF IInv, Remediate, requests
<1> QED BY <1>2, <1>3, <1>4, Parts DEF IInv, StateOK, LabOK, TypeOK

LEMMA CrashStep ==
    ASSUME IInv, Crash
    PROVE  IInv'
<1>1. StateOK /\ LabOK
  BY Parts DEF IInv
<1>2. StateOK'
  BY <1>1, StateUnchanged DEF Crash
<1>3. LabOK'
  BY <1>1, FaultLabAssumption DEF Crash, LabOK, RestartInv, OnContainer
<1>4. ResetPending'
  BY <1>3, LossEnds DEF IInv, Crash, LabOK
<1> QED BY <1>2, <1>3, <1>4, Parts DEF IInv, StateOK, LabOK, TypeOK

LEMMA TickStep ==
    ASSUME IInv, Tick
    PROVE  IInv'
<1>1. StateOK /\ LabOK
  BY Parts DEF IInv
<1>2. StateOK'
  BY <1>1, ElapseKeeps DEF Tick
<1>3. timer' \in [Reqs -> 0..ResetDelay]
  <2>1. \A n \in 0..ResetDelay : (IF n > 0 THEN n - 1 ELSE 0) \in 0..ResetDelay
    BY FaultStateAssumption DEF ResetDelay
  <2> QED BY <1>1, <2>1 DEF Tick, LabOK
<1>4. LabOK'
  BY <1>1, <1>3 DEF Tick, LabOK, bounds, RestartInv, OnContainer
<1>5. ResetPending'
  BY FrameKeeps DEF IInv, Tick, bounds
<1> QED BY <1>2, <1>4, <1>5, Parts DEF IInv, StateOK, LabOK, TypeOK

LEMMA LabThreadStep ==
    ASSUME IInv, LabThread
    PROVE  IInv'
<1>1. StateOK /\ LabOK
  BY Parts DEF IInv
<1>2. StateOK'
  BY <1>1, WorkerKeeps DEF LabThread
<1>3. LabOK'
  BY <1>1 DEF LabThread, LabOK, requests, bounds, RestartInv, OnContainer
<1>4. ResetPending'
  BY FrameKeeps DEF IInv, LabThread, requests, bounds
<1> QED BY <1>2, <1>3, <1>4, Parts DEF IInv, StateOK, LabOK, TypeOK

LEMMA Stutter ==
    ASSUME IInv, UNCHANGED vars
    PROVE  IInv'
<1>1. StateOK /\ LabOK
  BY Parts DEF IInv
<1>2. StateOK'
  BY <1>1, StateUnchanged DEF vars
<1>3. LabOK'
  BY <1>1 DEF vars, LabOK, requests, bounds, RestartInv, OnContainer
<1>4. ResetPending'
  BY FrameKeeps DEF IInv, vars, requests, bounds
<1> QED BY <1>2, <1>3, <1>4, Parts DEF IInv, StateOK, LabOK, TypeOK

LEMMA NextIInv == IInv /\ [Next]_vars => IInv'
<1> SUFFICES ASSUME IInv, [Next]_vars PROVE IInv'
  OBVIOUS
<1>1. CASE Tick \/ Crash \/ LabThread
  BY <1>1, TickStep, CrashStep, LabThreadStep
<1>2. ASSUME NEW r \in Reqs, Send(r) \/ Inject(r) \/ LoseInjection(r) \/ Wake(r)
      PROVE  IInv'
  BY <1>2, SendStep, StopContainerStep, SetApplicationFaultStep, ScheduleResetStep,
     ObserveStep, LoseInjectionStep, WakeStep DEF Inject
<1>3. ASSUME NEW x \in Resets, ResetStep(x) \/ LoseReset(x)
      PROVE  IInv'
  BY <1>3, ClearFaultStep, CheckHealthStep, RestartContainerStep, LoseResetStep DEF ResetStep
<1>4. ASSUME NEW c \in Containers, Remediate(c)
      PROVE  IInv'
  BY <1>4, RemediateStep
<1>5. CASE UNCHANGED vars
  BY <1>5, Stutter
<1> QED BY <1>1, <1>2, <1>3, <1>4, <1>5 DEF Next

LEMMA Invariance == Spec => []IInv
BY InitIInv, NextIInv, PTL DEF Spec

(* The types of the laboratory's state, of its requests and of their resets.  *)
THEOREM LabTypeCorrect == Spec => []TypeOK
<1>1. IInv => TypeOK
  BY DEF IInv
<1> QED BY <1>1, Invariance, PTL

(* Whenever the CPU fault is activated, cleared or expires, there is no second *)
(* thread that loads the CPU (fault_state.py:36-45 and 66-78).                *)
THEOREM OneCpuWorker == Spec => []OneWorker
<1>1. IInv => OneWorker
  BY DEF IInv, TypeOK, WorkerInv, OneWorker
<1> QED BY <1>1, Invariance, PTL

(* However many visitors stop containers, and whatever resets and approved    *)
(* plans start them in between, a stopped container has a reset that will     *)
(* look at it, as long as no call is lost and the control plane stays         *)
(* (lab.py:59-61, http_lab_fault_injector.py:59-77).                          *)
THEOREM StoppedIsCaredFor == Spec => []ResetPending
<1>1. IInv => ResetPending
  BY DEF IInv
<1> QED BY <1>1, Invariance, PTL
=============================================================================
